-------------------------- MODULE ReactorSlotsProofs ------------------------
(***************************************************************************)
(* For any number of Sessions, handoffs and waits that time out: the slot  *)
(* table of the reactor is exact, and the timer's jobs, which go by slot,  *)
(* are those of the Session they were meant for.                           *)
(***************************************************************************)
EXTENDS ReactorSlots, SequenceTheorems, TLAPS

Places == {"new", "asked", "refused", "hosted", "closing", "retiring", "exited", "moved"}

\* Every number that is kept names a slot.
Cells ==
    /\ st \in [Sessions -> Places] /\ slotOf \in [Sessions -> Nat]
    /\ slots \in Seq(Sessions \cup {None}) /\ free \in Seq(Nat)
    /\ \A k \in 1 .. Len(free) : free[k] \in 1 .. Len(slots)
    /\ \A s \in Sessions : st[s] = "hosted" => slotOf[s] \in 1 .. Len(slots)

\* A Session is registered at most once.
Asked ==
    /\ control \in Seq(Controls)
    /\ \A k \in 1 .. Len(control) : control[k].k = "register" => st[control[k].s] = "asked"
    /\ \A k, l \in 1 .. Len(control) :
          control[k].k = "register" /\ control[l].k = "register" /\ control[k].s = control[l].s
          => k = l

\* What a handoff works on stays in its slots until the handoff is over.
Held ==
    /\ hand \in [pc : {"idle", "flush", "retire", "export", "abandon"}, todo : SUBSET Nat,
                 paused : Seq(Nat), ack : BOOLEAN]
    /\ hand.pc = "idle" => hand.todo = {} /\ hand.paused = <<>>
    /\ \A i \in hand.todo : Occupied(i)
    /\ \A k \in 1 .. Len(hand.paused) : Occupied(hand.paused[k]) /\ hand.paused[k] \notin hand.todo
    /\ \A k, l \in 1 .. Len(hand.paused) : hand.paused[k] = hand.paused[l] => k = l

IInv == Cells /\ Asked /\ Held /\ SlotsExact

-----------------------------------------------------------------------------
\* The control channel.

LEMMA TakenKeeps ==
    ASSUME Asked, control # <<>>, Taken,
           \A k \in 2 .. Len(control) :
              control[k].k = "register" => st'[control[k].s] = "asked"
    PROVE  Asked'
<1>1. /\ control' \in Seq(Controls) /\ Len(control') = Len(control) - 1
      /\ \A k \in 1 .. Len(control') : control'[k] = control[k + 1]
  BY DEF Asked, Taken
<1>2. \A k \in 1 .. Len(control') : k + 1 \in 2 .. Len(control)
  BY <1>1 DEF Asked
<1>3. \A k, l \in 1 .. Len(control') :
         control'[k].k = "register" /\ control'[l].k = "register" /\ control'[k].s = control'[l].s
         => k = l
  <2> TAKE k, l \in 1 .. Len(control')
  <2> HAVE control'[k].k = "register" /\ control'[l].k = "register" /\ control'[k].s = control'[l].s
  <2>1. k + 1 = l + 1
    BY <1>1, <1>2 DEF Asked
  <2> QED
    BY <2>1, <1>1
<1> QED
  BY <1>1, <1>2, <1>3 DEF Asked

\* A message that registers nobody.
LEMMA SentKeeps ==
    ASSUME Asked, NEW m \in Controls, m.k # "register", control' = Append(control, m),
           UNCHANGED st
    PROVE  Asked'
<1>1. /\ control' \in Seq(Controls) /\ Len(control') = Len(control) + 1
      /\ \A k \in 1 .. Len(control) : control'[k] = control[k]
      /\ control'[Len(control) + 1] = m
  BY DEF Asked
<1> QED
  BY <1>1 DEF Asked

LEMMA LaunchKeeps ==
    ASSUME Cells, Asked, NEW s \in Sessions, Launch(s)
    PROVE  Asked'
<1>1. Register(s) \in Controls
  BY Zenon DEF Register, Controls
<1>2. /\ control' \in Seq(Controls) /\ Len(control') = Len(control) + 1
      /\ \A k \in 1 .. Len(control) : control'[k] = control[k]
      /\ control'[Len(control) + 1] = Register(s)
  BY <1>1 DEF Asked, Launch
<1>3. st[s] = "new" /\ st'[s] = "asked" /\ \A t \in Sessions : t # s => st'[t] = st[t]
  BY Zenon DEF Cells, Launch
<1>4. \A k \in 1 .. Len(control) :
         control[k].k = "register" => control[k].s \in Sessions /\ control[k].s # s
  BY <1>3 DEF Asked, Controls
<1> QED
  BY <1>2, <1>3, <1>4 DEF Asked, Register

-----------------------------------------------------------------------------
\* The end of a Session.

LEMMA EndKeeps ==
    ASSUME Cells, SlotsExact, Held, Free, UNCHANGED <<slotOf, hand>>,
           NEW i, NEW r, EndSession(i, r)
    PROVE  /\ Cells' /\ SlotsExact' /\ Held'
           /\ \A s \in Sessions : st[s] = "asked" => st'[s] = "asked"
<1>1. CASE ~Occupied(i)
  <2>1. UNCHANGED <<st, slots, free>>
    BY Zenon, <1>1 DEF EndSession
  <2>2. Cells'
    BY Zenon, <2>1 DEF Cells
  <2>3. SlotsExact'
    BY Zenon, <2>1 DEF SlotsExact
  <2>4. \A j : Occupied(j)' = Occupied(j)
    BY Zenon, <2>1 DEF Occupied
  <2>5. Held'
    BY Zenon, <2>4 DEF Held
  <2> QED
    BY Zenon, <2>1, <2>2, <2>3, <2>5
<1>2. CASE Occupied(i)
  <2> DEFINE s == slots[i]
  <2>1. i \in 1 .. Len(slots) /\ s \in Sessions /\ st[s] = "hosted" /\ slotOf[s] = i
    BY <1>2 DEF Occupied, Cells, SlotsExact
  <2>2. /\ slots' \in Seq(Sessions \cup {None}) /\ Len(slots') = Len(slots)
        /\ slots'[i] = None
        /\ \A j \in 1 .. Len(slots) : j # i => slots'[j] = slots[j]
    <3>1. slots' = [slots EXCEPT ![i] = None]
      BY Zenon, <1>2 DEF EndSession
    <3>2. slots \in Seq(Sessions \cup {None}) /\ None \in Sessions \cup {None}
      BY Zenon DEF Cells
    <3> QED
      BY <2>1, <3>1, <3>2, ExceptSeq
  <2>3. /\ st' \in [Sessions -> Places] /\ st'[s] = "closing"
        /\ \A t \in Sessions : t # s => st'[t] = st[t]
    BY <1>2, <2>1, Zenon DEF EndSession, Cells, Places
  <2>4. /\ free' \in Seq(Nat) /\ Len(free') = Len(free) + 1 /\ free'[Len(free) + 1] = i
        /\ \A k \in 1 .. Len(free) : free'[k] = free[k]
    <3>1. free' = Append(free, i) /\ i \in Nat /\ free \in Seq(Nat)
      BY <1>2, <2>1 DEF EndSession, Cells
    <3> QED
      BY <3>1, AppendProperties
  <2>0. /\ \A k \in 1 .. Len(free') : k \in 1 .. Len(free) \/ k = Len(free) + 1
        /\ \A k \in 1 .. Len(free) : k \in 1 .. Len(free')
        /\ Len(free) + 1 \in 1 .. Len(free')
    BY <2>4 DEF Cells
  <2>5. \A k \in 1 .. Len(free) : free[k] # i
    BY Zenon, <1>2, <2>1 DEF SlotsExact, Occupied
  <2>6. Cells'
    <3>1. \A k \in 1 .. Len(free') : free'[k] \in 1 .. Len(slots')
      BY <2>0, <2>1, <2>2, <2>4, Zenon DEF Cells
    <3>2. \A t \in Sessions : st'[t] = "hosted" => slotOf'[t] \in 1 .. Len(slots')
      BY Zenon, <2>2, <2>3 DEF Cells
    <3> QED
      BY Zenon, <2>2, <2>3, <2>4, <3>1, <3>2 DEF Cells
  <2>7. \A t \in Sessions : st'[t] = "hosted" => slots'[slotOf'[t]] = t
    BY <2>1, <2>2, <2>3 DEF SlotsExact, Cells
  <2>8. \A j \in 1 .. Len(slots') : slots'[j] # None
                                  => st'[slots'[j]] = "hosted" /\ slotOf'[slots'[j]] = j
    BY <2>1, <2>2, <2>3 DEF SlotsExact, Cells
  <2>9. \A j \in 1 .. Len(slots') : slots'[j] = None <=> \E k \in 1 .. Len(free') : free'[k] = j
    <3> TAKE j \in 1 .. Len(slots')
    <3>1. CASE j = i
      BY Zenon, <2>0, <2>2, <2>4, <3>1
    <3>2. CASE j # i
      <4>1. slots[j] = None <=> \E k \in 1 .. Len(free) : free[k] = j
        BY Zenon, <2>2 DEF SlotsExact
      <4>2. (\E k \in 1 .. Len(free) : free[k] = j) <=> \E k \in 1 .. Len(free') : free'[k] = j
        BY Zenon, <2>0, <2>4, <3>2
      <4> QED
        BY Zenon, <2>2, <3>2, <4>1, <4>2
    <3> QED
      BY Zenon, <3>1, <3>2
  <2>10. \A k, l \in 1 .. Len(free') : free'[k] = free'[l] => k = l
    BY <2>0, <2>4, <2>5 DEF SlotsExact
  <2>11. Held'
    BY DEF Held, Free
  <2> QED
    BY Zenon, <2>1, <2>3, <2>6, <2>7, <2>8, <2>9, <2>10, <2>11 DEF SlotsExact
<1> QED
  BY Zenon, <1>1, <1>2

-----------------------------------------------------------------------------
\* Registration.

LEMMA RegisterKeeps ==
    ASSUME IInv, DoRegister
    PROVE  IInv'
<1> DEFINE s == Head(control).s
           i == IF free # <<>> THEN free[Len(free)] ELSE Len(slots) + 1
           wide == IF free # <<>> THEN slots ELSE Append(slots, None)
<1>1. control # <<>> /\ Len(control) > 0 /\ 1 \in 1 .. Len(control)
      /\ Head(control) = control[1] /\ Head(control).k = "register"
  BY DEF DoRegister, Next1, IInv, Asked
<1>2. s \in Sessions /\ st[s] = "asked"
  BY <1>1 DEF IInv, Asked, Controls
<1>3. \A k \in 2 .. Len(control) :
         control[k].k = "register" => control[k].s # s /\ control[k].s \in Sessions
  BY <1>1 DEF IInv, Asked, Controls
<1>4. /\ i \in 1 .. Len(wide) /\ wide \in Seq(Sessions \cup {None}) /\ wide[i] = None
      /\ Len(wide) >= Len(slots) /\ \A j \in 1 .. Len(slots) : wide[j] = slots[j]
      /\ \A j \in 1 .. Len(wide) : j # i => j \in 1 .. Len(slots)
  BY DEF IInv, Cells, SlotsExact
<1>5. /\ \A t \in Sessions : st[t] = "hosted" => slotOf[t] \in 1 .. Len(slots) /\ slotOf[t] # i
      /\ \A j \in 1 .. Len(wide) : wide[j] # None => wide[j] # s
  BY <1>2, <1>4, SlotConstants DEF IInv, Cells, SlotsExact
<1>6. /\ slotOf' \in [Sessions -> Nat] /\ slotOf'[s] = i
      /\ \A t \in Sessions : t # s => slotOf'[t] = slotOf[t]
  BY <1>2, <1>4 DEF DoRegister, IInv, Cells
<1>7. CASE /\ st' = [st EXCEPT ![s] = "hosted"]
           /\ slots' = [wide EXCEPT ![i] = s]
           /\ free' = IF free # <<>> THEN SubSeq(free, 1, Len(free) - 1) ELSE free
  <2>1. /\ slots' \in Seq(Sessions \cup {None}) /\ Len(slots') = Len(wide)
        /\ slots'[i] = s /\ \A j \in 1 .. Len(wide) : j # i => slots'[j] = wide[j]
    <3> HIDE DEF s, i, wide
    <3>1. s \in Sessions \cup {None} /\ slots' = [wide EXCEPT ![i] = s]
      BY Zenon, <1>2, <1>7
    <3> QED
      BY <1>4, <3>1, ExceptSeq
  <2>2. /\ st' \in [Sessions -> Places] /\ st'[s] = "hosted"
        /\ \A t \in Sessions : t # s => st'[t] = st[t]
    BY Zenon, <1>2, <1>7 DEF IInv, Cells, Places
  <2>3. /\ free' \in Seq(Nat) /\ Len(free') <= Len(free)
        /\ \A k \in 1 .. Len(free') : free'[k] = free[k] /\ free[k] # i
        /\ \A k \in 1 .. Len(free) : free[k] # i => k \in 1 .. Len(free')
    <3>1. free \in Seq(Nat) /\ \A k \in 1 .. Len(free) : free[k] \in 1 .. Len(slots)
      BY Zenon DEF IInv, Cells
    <3>2. CASE free = <<>>
      BY <1>7, <3>1, <3>2
    <3>3. CASE free # <<>>
      <4>1. i = free[Len(free)] /\ Len(free) \in 1 .. Len(free)
        BY <3>1, <3>3
      <4>2. /\ free' \in Seq(Nat) /\ Len(free') = Len(free) - 1
            /\ \A k \in 1 .. Len(free') : free'[k] = free[k]
        <5>1. free' = SubSeq(free, 1, Len(free) - 1)
          BY Zenon, <1>7, <3>3
        <5> DEFINE n == Len(free) - 1
        <5>2. n \in Nat /\ \A k \in 1 .. n : free[k] \in Nat
          BY <3>1, <3>3
        <5> HIDE DEF n
        <5>3. 1 \in Int /\ n \in Int
          BY <5>2
        <5>4. /\ SubSeq(free, 1, n) \in Seq(Nat)
              /\ Len(SubSeq(free, 1, n)) = IF 1 <= n THEN n - 1 + 1 ELSE 0
              /\ \A k \in 1 .. n - 1 + 1 : SubSeq(free, 1, n)[k] = free[1 + k - 1]
          BY <5>2, <5>3, SubSeqProperties
        <5>5. /\ Len(SubSeq(free, 1, n)) = n
              /\ \A k \in 1 .. n : k \in 1 .. n - 1 + 1 /\ 1 + k - 1 = k
          BY <5>2, <5>4
        <5> QED
          BY Zenon, <5>1, <5>4, <5>5 DEF n
      <4>3. \A k \in 1 .. Len(free) : free[k] = i => k = Len(free)
        BY <4>1 DEF IInv, SlotsExact
      <4>4. \A k \in 1 .. Len(free') : k \in 1 .. Len(free) /\ k # Len(free)
        BY <3>1, <4>2
      <4>5. \A k \in 1 .. Len(free) : k # Len(free) => k \in 1 .. Len(free')
        BY <3>1, <4>2
      <4>6. Len(free') <= Len(free)
        BY <3>1, <4>2
      <4> HIDE DEF i
      <4> QED
        BY Zenon, <4>1, <4>2, <4>3, <4>4, <4>5, <4>6
    <3> QED
      BY Zenon, <3>2, <3>3
  <2> HIDE DEF s, i, wide
  <2>k. \A k \in 1 .. Len(free') : k \in 1 .. Len(free)
    BY <2>3 DEF IInv, Cells
  <2>j. \A j \in 1 .. Len(slots) : j \in 1 .. Len(slots')
    BY <1>4, <2>1 DEF IInv, Cells
  <2>4. Cells'
    <3>1. \A k \in 1 .. Len(free') : free'[k] \in 1 .. Len(slots')
      BY <2>3, <2>k, <2>j, SMTT(30) DEF IInv, Cells
    <3>2. \A t \in Sessions : st'[t] = "hosted" => slotOf'[t] \in 1 .. Len(slots')
      BY <1>4, <1>6, <2>1, <2>2, <2>j, Zenon DEF IInv, Cells
    <3> QED
      BY Zenon, <1>6, <2>1, <2>2, <2>3, <3>1, <3>2 DEF Cells
  <2>5. \A t \in Sessions : st'[t] = "hosted" => slots'[slotOf'[t]] = t
    <3> TAKE t \in Sessions
    <3> HAVE st'[t] = "hosted"
    <3>1. CASE t = s
      BY Zenon, <1>6, <2>1, <3>1
    <3>2. CASE t # s
      <4>1. st[t] = "hosted" /\ slotOf'[t] = slotOf[t]
        BY Zenon, <1>6, <2>2, <3>2
      <4>2. slotOf[t] \in 1 .. Len(slots) /\ slotOf[t] # i /\ slots[slotOf[t]] = t
        BY Zenon, <1>5, <4>1 DEF IInv, SlotsExact
      <4>3. slots'[slotOf[t]] = slots[slotOf[t]]
        BY Zenon, <1>4, <2>1, <2>j, <4>2
      <4> QED
        BY Zenon, <4>1, <4>2, <4>3
    <3> QED
      BY Zenon, <3>1, <3>2
  <2>6. \A j \in 1 .. Len(slots') : slots'[j] # None
                                  => st'[slots'[j]] = "hosted" /\ slotOf'[slots'[j]] = j
    <3> TAKE j \in 1 .. Len(slots')
    <3> HAVE slots'[j] # None
    <3>1. CASE j = i
      BY Zenon, <1>6, <2>1, <2>2, <3>1
    <3>2. CASE j # i
      <4>1. /\ j \in 1 .. Len(slots) /\ slots'[j] = slots[j]
            /\ j \in 1 .. Len(wide) /\ wide[j] = slots[j]
        BY Zenon, <1>4, <2>1, <3>2
      <4>2. slots[j] \in Sessions /\ st[slots[j]] = "hosted" /\ slotOf[slots[j]] = j
        BY <4>1 DEF IInv, SlotsExact, Cells
      <4>3. slots[j] # s
        BY Zenon, <1>5, <4>1
      <4> QED
        BY Zenon, <1>6, <2>2, <4>1, <4>2, <4>3
    <3> QED
      BY Zenon, <3>1, <3>2
  <2>7. \A j \in 1 .. Len(slots') : slots'[j] = None <=> \E k \in 1 .. Len(free') : free'[k] = j
    <3> TAKE j \in 1 .. Len(slots')
    <3>1. CASE j = i
      <4>1. \A k \in 1 .. Len(free') : free'[k] # i
        BY <2>3, Zenon
      <4>2. slots'[j] = s /\ s # None
        BY Zenon, <1>2, <2>1, <3>1, SlotConstants
      <4> QED
        BY Zenon, <3>1, <4>1, <4>2
    <3>2. CASE j # i
      <4>1. j \in 1 .. Len(slots) /\ slots'[j] = slots[j]
        BY Zenon, <1>4, <2>1, <3>2
      <4>2. slots[j] = None <=> \E k \in 1 .. Len(free) : free[k] = j
        BY Zenon, <4>1 DEF IInv, SlotsExact
      <4>3. (\E k \in 1 .. Len(free) : free[k] = j) <=> \E k \in 1 .. Len(free') : free'[k] = j
        BY Zenon, <2>3, <2>k, <3>2
      <4> QED
        BY Zenon, <4>1, <4>2, <4>3
    <3> QED
      BY Zenon, <3>1, <3>2
  <2>8. \A k, l \in 1 .. Len(free') : free'[k] = free'[l] => k = l
    BY <2>3, <2>k DEF IInv, SlotsExact
  <2>9. Asked'
    BY <1>1, <1>3, <2>2, TakenKeeps DEF IInv, Asked, DoRegister
  <2>10. Held'
    BY DEF DoRegister, Next1, Free, IInv, Held
  <2> QED
    BY Zenon, <2>4, <2>5, <2>6, <2>7, <2>8, <2>9, <2>10 DEF IInv, SlotsExact
<1>8. CASE /\ st' = [st EXCEPT ![s] = "refused"] /\ slots' = wide
           /\ free' = IF free # <<>> THEN free ELSE <<i>>
  <2>1. /\ st' \in [Sessions -> Places] /\ st'[s] = "refused"
        /\ \A t \in Sessions : t # s => st'[t] = st[t]
    BY Zenon, <1>2, <1>8 DEF IInv, Cells, Places
  <2>2. /\ free' \in Seq(Nat)
        /\ \A k \in 1 .. Len(free') : free'[k] \in 1 .. Len(wide)
        /\ \A k, l \in 1 .. Len(free') : free'[k] = free'[l] => k = l
    BY <1>4, <1>8 DEF IInv, Cells, SlotsExact
  <2>3. Cells'
    BY <1>2, <1>4, <1>6, <1>8, <2>1, <2>2 DEF IInv, Cells
  <2>4. \A t \in Sessions : st'[t] = "hosted" => slots'[slotOf'[t]] = t
    BY <1>4, <1>5, <1>6, <1>8, <2>1 DEF IInv, SlotsExact
  <2>5. \A j \in 1 .. Len(slots') : slots'[j] # None
                                  => st'[slots'[j]] = "hosted" /\ slotOf'[slots'[j]] = j
    BY <1>4, <1>5, <1>6, <1>8, <2>1 DEF IInv, SlotsExact, Cells
  <2>6. \A j \in 1 .. Len(slots') : slots'[j] = None <=> \E k \in 1 .. Len(free') : free'[k] = j
    BY <1>4, <1>8, SlotConstants DEF IInv, SlotsExact, Cells
  <2>7. Asked'
    BY <1>1, <1>3, <2>1, TakenKeeps DEF IInv, Asked, DoRegister
  <2>8. Held'
    BY DEF DoRegister, Next1, Free, IInv, Held
  <2> QED
    BY Zenon, <2>2, <2>3, <2>4, <2>5, <2>6, <2>7, <2>8 DEF IInv, SlotsExact
<1> QED
  BY Zenon, <1>7, <1>8 DEF DoRegister

-----------------------------------------------------------------------------
\* The handoff.

LEMMA RetiredKeeps ==
    ASSUME Held, HandoffRetired
    PROVE  Held'
<1>1. CASE hand' = [hand EXCEPT !.pc = "abandon"] /\ UNCHANGED slots
  BY <1>1 DEF Held, Occupied, HandoffRetired
<1>2. CASE UNCHANGED slots /\ \E i \in hand.todo :
              hand' = [pc |-> "flush", todo |-> hand.todo \ {i}, ack |-> FALSE,
                       paused |-> Append(hand.paused, i)]
  <2>1. PICK i \in hand.todo :
           hand' = [pc |-> "flush", todo |-> hand.todo \ {i}, ack |-> FALSE,
                    paused |-> Append(hand.paused, i)]
    BY <1>2, Zenon
  <2> DEFINE p == hand.paused
             q == hand'.paused
  <2>2. p \in Seq(Nat) /\ i \in Nat /\ q = Append(p, i) /\ hand'.todo = hand.todo \ {i}
    BY Zenon, <2>1 DEF Held
  <2> HIDE DEF p, q
  <2>3. /\ q \in Seq(Nat) /\ Len(q) = Len(p) + 1 /\ q[Len(p) + 1] = i
        /\ \A k \in 1 .. Len(p) : q[k] = p[k]
    BY <2>2, AppendProperties
  <2>4. \A k \in 1 .. Len(q) : k \in 1 .. Len(p) \/ k = Len(p) + 1
    BY <2>2, <2>3
  <2>5. \A k \in 1 .. Len(p) : Occupied(p[k]) /\ p[k] \notin hand.todo
    BY Zenon DEF Held, p
  <2>6. \A k, l \in 1 .. Len(p) : p[k] = p[l] => k = l
    BY Zenon DEF Held, p
  <2>7. \A j \in hand.todo : Occupied(j)
    BY Zenon DEF Held
  <2>8. \A k \in 1 .. Len(q) : Occupied(q[k]) /\ q[k] \notin hand'.todo
    BY Zenon, <2>1, <2>2, <2>3, <2>4, <2>5, <2>7
  <2>9. \A k, l \in 1 .. Len(q) : q[k] = q[l] => k = l
    BY Zenon, <2>3, <2>4, <2>5, <2>6
  <2>10. hand' \in [pc : {"idle", "flush", "retire", "export", "abandon"}, todo : SUBSET Nat,
                    paused : Seq(Nat), ack : BOOLEAN] /\ hand'.pc = "flush"
    BY Zenon, <2>1, <2>3 DEF Held, q
  <2> QED
    BY <1>2, <2>2, <2>7, <2>8, <2>9, <2>10, SMTT(30) DEF Held, Occupied, q
<1> QED
  BY Zenon, <1>1, <1>2 DEF HandoffRetired

LEMMA CommitKeeps ==
    ASSUME IInv, HandoffCommits
    PROVE  IInv'
<1> DEFINE p == hand.paused
<1>1. /\ p \in Seq(Nat)
      /\ \A k \in 1 .. Len(p) : p[k] \in 1 .. Len(slots) /\ slots[p[k]] # None
      /\ \A k, l \in 1 .. Len(p) : p[k] = p[l] => k = l
  BY Zenon DEF IInv, Held, Occupied
<1>2. /\ free' = free \o p
      /\ slots' = [i \in 1 .. Len(slots) |->
                      IF i \in {p[k] : k \in 1 .. Len(p)} THEN None ELSE slots[i]]
      /\ st' = [s \in Sessions |-> IF s \in {slots[p[k]] : k \in 1 .. Len(p)}
                                   THEN "moved" ELSE st[s]]
      /\ hand' = NoHandoff /\ UNCHANGED <<slotOf, control>>
  BY Zenon DEF HandoffCommits
<1> HIDE DEF p
<1>3. /\ slots \in Seq(Sessions \cup {None}) /\ free \in Seq(Nat) /\ Len(slots) \in Nat
      /\ Len(free) \in Nat /\ Len(p) \in Nat
  BY <1>1 DEF IInv, Cells
<1>4. /\ slots' \in Seq(Sessions \cup {None}) /\ Len(slots') = Len(slots)
      /\ \A i \in 1 .. Len(slots) :
            slots'[i] = IF \E k \in 1 .. Len(p) : p[k] = i THEN None ELSE slots[i]
  BY <1>2, <1>3
<1>5. /\ free' \in Seq(Nat) /\ Len(free') = Len(free) + Len(p)
      /\ \A k \in 1 .. Len(free) + Len(p) :
            free'[k] = IF k <= Len(free) THEN free[k] ELSE p[k - Len(free)]
  BY <1>1, <1>2, <1>3, ConcatProperties
<1>6. /\ \A k \in 1 .. Len(free) : k \in 1 .. Len(free') /\ free'[k] = free[k]
      /\ \A k \in 1 .. Len(p) : Len(free) + k \in 1 .. Len(free') /\ free'[Len(free) + k] = p[k]
      /\ \A k \in 1 .. Len(free') : \/ k \in 1 .. Len(free)
                                    \/ k - Len(free) \in 1 .. Len(p) /\ free'[k] = p[k - Len(free)]
  <2>1. \A k \in 1 .. Len(free) : k \in 1 .. Len(free') /\ free'[k] = free[k]
    BY <1>3, <1>5
  <2>2. \A k \in 1 .. Len(p) : Len(free) + k \in 1 .. Len(free') /\ free'[Len(free) + k] = p[k]
    <3> TAKE k \in 1 .. Len(p)
    <3>1. /\ Len(free) + k \in 1 .. Len(free) + Len(p) /\ ~(Len(free) + k <= Len(free))
          /\ (Len(free) + k) - Len(free) = k
      BY <1>3
    <3> QED
      BY Zenon, <1>5, <3>1
  <2>3. \A k \in 1 .. Len(free') : \/ k \in 1 .. Len(free)
                                   \/ k - Len(free) \in 1 .. Len(p) /\ free'[k] = p[k - Len(free)]
    <3> TAKE k \in 1 .. Len(free')
    <3>1. CASE k <= Len(free)
      BY <1>3, <1>5, <3>1
    <3>2. CASE ~(k <= Len(free))
      <4>1. k \in 1 .. Len(free) + Len(p) /\ k - Len(free) \in 1 .. Len(p)
        BY <1>3, <1>5, <3>2
      <4> QED
        BY Zenon, <1>5, <3>2, <4>1
    <3> QED
      BY Zenon, <3>1, <3>2
  <2> QED
    BY Zenon, <2>1, <2>2, <2>3
<1>7. /\ st' \in [Sessions -> Places]
      /\ \A s \in Sessions : st'[s] = IF \E k \in 1 .. Len(p) : slots[p[k]] = s
                                        THEN "moved" ELSE st[s]
  BY Zenon, <1>2 DEF IInv, Cells, Places
<1>8. \A k \in 1 .. Len(p) : /\ slots[p[k]] \in Sessions /\ st[slots[p[k]]] = "hosted"
                             /\ slotOf[slots[p[k]]] = p[k]
                             /\ \A l \in 1 .. Len(free) : free[l] # p[k]
  BY <1>1, <1>3 DEF IInv, SlotsExact
<1>9. Cells'
  <2>1. \A k \in 1 .. Len(free') : free'[k] \in 1 .. Len(slots')
    BY <1>1, <1>4, <1>6, Zenon DEF IInv, Cells
  <2>2. \A s \in Sessions : st'[s] = "hosted" => slotOf'[s] \in 1 .. Len(slots')
    BY Zenon, <1>2, <1>4, <1>7 DEF IInv, Cells
  <2> QED
    BY Zenon, <1>2, <1>4, <1>5, <1>7, <2>1, <2>2 DEF IInv, Cells
<1>10. Asked'
  <2>1. \A s \in Sessions : st[s] = "asked" => st'[s] = "asked"
    BY Zenon, <1>7, <1>8
  <2>2. \A k \in 1 .. Len(control) : control[k].k = "register" => control[k].s \in Sessions
    BY DEF IInv, Asked, Controls
  <2> QED
    BY Zenon, <1>2, <2>1, <2>2 DEF IInv, Asked
<1>11. Held'
  BY <1>2 DEF NoHandoff, Held
<1>12. \A s \in Sessions : st'[s] = "hosted" => slots'[slotOf'[s]] = s
  <2> TAKE s \in Sessions
  <2> HAVE st'[s] = "hosted"
  <2>1. st[s] = "hosted" /\ ~\E k \in 1 .. Len(p) : slots[p[k]] = s
    BY Zenon, <1>7
  <2>2. slotOf[s] \in 1 .. Len(slots) /\ slots[slotOf[s]] = s
    BY Zenon, <2>1 DEF IInv, Cells, SlotsExact
  <2> QED
    BY <1>2, <1>4, <2>1, <2>2
<1>13. \A i \in 1 .. Len(slots') : slots'[i] # None
                                => st'[slots'[i]] = "hosted" /\ slotOf'[slots'[i]] = i
  <2> TAKE i \in 1 .. Len(slots')
  <2> HAVE slots'[i] # None
  <2>1. slots'[i] = slots[i] /\ ~\E k \in 1 .. Len(p) : p[k] = i
    BY Zenon, <1>4
  <2>2. slots[i] \in Sessions /\ st[slots[i]] = "hosted" /\ slotOf[slots[i]] = i
    BY <1>3, <1>4, <2>1 DEF IInv, SlotsExact
  <2>3. ~\E k \in 1 .. Len(p) : slots[p[k]] = slots[i]
    BY <1>8, <2>1, <2>2
  <2>4. st'[slots[i]] = st[slots[i]]
    BY Zenon, <1>7, <2>2, <2>3
  <2> QED
    BY <1>2, <2>1, <2>2, <2>4, Zenon
<1>14. \A i \in 1 .. Len(slots') : slots'[i] = None <=> \E k \in 1 .. Len(free') : free'[k] = i
  <2> TAKE i \in 1 .. Len(slots')
  <2>1. slots[i] = None <=> \E k \in 1 .. Len(free) : free[k] = i
    BY Zenon, <1>4 DEF IInv, SlotsExact
  <2>2. slots'[i] = None <=> slots[i] = None \/ \E k \in 1 .. Len(p) : p[k] = i
    BY Zenon, <1>4
  <2>3. (\E k \in 1 .. Len(free') : free'[k] = i)
        <=> (\E k \in 1 .. Len(free) : free[k] = i) \/ \E k \in 1 .. Len(p) : p[k] = i
    BY <1>6, Zenon
  <2> QED
    BY Zenon, <2>1, <2>2, <2>3
<1>15. \A k, l \in 1 .. Len(free') : free'[k] = free'[l] => k = l
  <2> TAKE k, l \in 1 .. Len(free')
  <2> HAVE free'[k] = free'[l]
  <2>1. CASE k \in 1 .. Len(free) /\ l \in 1 .. Len(free)
    BY <1>6, <2>1 DEF IInv, SlotsExact
  <2>2. CASE k \notin 1 .. Len(free) /\ l \notin 1 .. Len(free)
    <3>1. /\ k - Len(free) \in 1 .. Len(p) /\ free'[k] = p[k - Len(free)]
          /\ l - Len(free) \in 1 .. Len(p) /\ free'[l] = p[l - Len(free)]
      BY Zenon, <1>6, <2>2
    <3>2. k - Len(free) = l - Len(free)
      BY <1>1, <3>1, Zenon
    <3>3. k \in Int /\ l \in Int
      OBVIOUS
    <3> QED
      BY <1>3, <3>2, <3>3
  <2>3. CASE k \in 1 .. Len(free) /\ l \notin 1 .. Len(free)
    <3>1. /\ free'[k] = free[k] /\ l - Len(free) \in 1 .. Len(p)
          /\ free'[l] = p[l - Len(free)]
      BY Zenon, <1>6, <2>3
    <3> QED
      BY <1>8, <2>3, <3>1, ZenonT(60)
  <2>4. CASE k \notin 1 .. Len(free) /\ l \in 1 .. Len(free)
    <3>1. /\ free'[l] = free[l] /\ k - Len(free) \in 1 .. Len(p)
          /\ free'[k] = p[k - Len(free)]
      BY Zenon, <1>6, <2>4
    <3> QED
      BY <1>8, <2>4, <3>1
  <2> QED
    BY Zenon, <2>1, <2>2, <2>3, <2>4
<1> QED
  BY Zenon, <1>9, <1>10, <1>11, <1>12, <1>13, <1>14, <1>15 DEF IInv, SlotsExact

-----------------------------------------------------------------------------
\* The slots in use stay, or nobody is held.
LEMMA StillHeld ==
    ASSUME Held, UNCHANGED <<slots, hand>>
    PROVE  Held'
  BY Zenon DEF Held, Occupied

LEMMA TableKept ==
    ASSUME Cells, SlotsExact, UNCHANGED <<slotOf, slots, free>>,
           st' \in [Sessions -> Places],
           \A s \in Sessions : st'[s] = "hosted" <=> st[s] = "hosted"
    PROVE  Cells' /\ SlotsExact'
<1>1. Cells'
  BY Zenon DEF Cells
<1>2. \A i \in 1 .. Len(slots) : slots[i] # None => slots[i] \in Sessions
  BY DEF Cells
<1> QED
  BY <1>1, <1>2 DEF SlotsExact

LEMMA EndsKeep ==
    ASSUME IInv, Free, UNCHANGED <<slotOf, hand>>, NEW i, NEW r, EndSession(i, r),
           UNCHANGED control \/ (control # <<>> /\ Taken)
    PROVE  IInv'
<1>1. /\ Cells' /\ SlotsExact' /\ Held'
      /\ \A s \in Sessions : st[s] = "asked" => st'[s] = "asked"
  BY Zenon, EndKeeps DEF IInv
<1>2. \A k \in 1 .. Len(control) :
         control[k].k = "register" => st'[control[k].s] = "asked"
  BY <1>1 DEF IInv, Asked, Controls
<1>3. CASE UNCHANGED control
  BY Zenon, <1>1, <1>2, <1>3 DEF IInv, Asked
<1>4. CASE control # <<>> /\ Taken
  <2>1. \A k \in 2 .. Len(control) : k \in 1 .. Len(control)
    BY DEF IInv, Asked
  <2>2. Asked'
    BY Zenon, <1>2, <1>4, <2>1, TakenKeeps DEF IInv
  <2> QED
    BY Zenon, <1>1, <2>2 DEF IInv
<1> QED
  BY Zenon, <1>3, <1>4

THEOREM Inductive == IInv /\ [Next]_vars => IInv'
<1> SUFFICES ASSUME IInv, [Next]_vars PROVE IInv'
  BY Zenon
<1> USE DEF IInv
<1>1. CASE UNCHANGED <<st, slotOf, slots, free, control, hand>>
  BY Zenon, <1>1, StillHeld, TableKept DEF Asked, Cells
<1>2. CASE DoRegister
  BY Zenon, <1>2, RegisterKeeps
<1>3. CASE DoWake
  <2>1. CASE UNCHANGED <<st, slots, free>>
    <3>1. Asked'
      <4>1. \A k \in 2 .. Len(control) : k \in 1 .. Len(control)
        BY DEF Asked
      <4> QED
        BY Zenon, <1>3, <2>1, <4>1, TakenKeeps DEF DoWake, Next1, Asked
    <3> QED
      BY Zenon, <1>3, <2>1, <3>1, StillHeld, TableKept DEF DoWake, Cells
  <2>2. CASE EndSession(Head(control).slot, "ok")
    BY Zenon, <1>3, <2>2, EndsKeep DEF DoWake, Next1
  <2> QED
    BY Zenon, <1>3, <2>1, <2>2 DEF DoWake
<1>4. CASE DoFailed
  BY Zenon, <1>4, EndsKeep DEF DoFailed, Next1
<1>5. CASE DoHandoff
  <2>1. Held'
    BY <1>5 DEF DoHandoff, Held, Occupied, Cells
  <2> QED
    BY Zenon, <1>5, <2>1, TableKept DEF DoHandoff, Asked, Cells, sessionVars
<1>6. CASE HandoffFlush
  <2>1. Held'
    BY <1>6, Zenon DEF HandoffFlush, Held, Occupied
  <2> QED
    BY Zenon, <1>6, <2>1, TableKept DEF HandoffFlush, Asked, Cells
<1>7. CASE HandoffRetired
  BY Zenon, <1>7, RetiredKeeps, TableKept DEF HandoffRetired, Asked, Cells, sessionVars
<1>8. CASE HandoffExport
  <2>1. Held'
    BY <1>8 DEF HandoffExport, Held, Occupied
  <2> QED
    BY Zenon, <1>8, <2>1, TableKept DEF HandoffExport, Asked, Cells, sessionVars
<1>9. CASE HandoffCommits
  BY Zenon, <1>9, CommitKeeps
<1>10. CASE HandoffAbandons
  <2>1. Held'
    BY <1>10 DEF HandoffAbandons, Held, NoHandoff
  <2> QED
    BY Zenon, <1>10, <2>1, TableKept DEF HandoffAbandons, Asked, Cells, sessionVars
<1>11. CASE TimerAdd
  BY Zenon, <1>1, <1>11 DEF TimerAdd, sessionVars
<1>12. CASE TimerRemove
  <2>1. Held'
    BY <1>12, Zenon DEF TimerRemove, Held, Occupied
  <2> QED
    BY Zenon, <1>12, <2>1, TableKept DEF TimerRemove, Asked, Cells, sessionVars
<1>13. ASSUME NEW s \in Sessions, Launch(s) PROVE IInv'
  <2>1. Cells' /\ SlotsExact'
    BY Zenon, <1>13, TableKept DEF Launch, Cells, Places
  <2> QED
    BY <1>13, <2>1, LaunchKeeps, StillHeld, Zenon DEF Launch
<1>14. ASSUME NEW s \in Sessions, PtyEnds(s) \/ Panics(s) \/ IdleTick(s) PROVE IInv'
  BY Zenon, <1>14, EndsKeep DEF PtyEnds, Panics, IdleTick
<1>15. ASSUME NEW s \in Sessions, KillFlag(s) PROVE IInv'
  BY Zenon, <1>1, <1>15 DEF KillFlag
<1>16. ASSUME NEW s \in Sessions, KillWake(s) \/ WriterFails(s) PROVE IInv'
  <2>1. /\ Wake(slotOf[s]) \in Controls /\ Wake(slotOf[s]).k # "register"
        /\ Failed(slotOf[s], s) \in Controls /\ Failed(slotOf[s], s).k # "register"
    BY Zenon DEF Cells, Wake, Failed, Controls
  <2>2. Asked'
    BY Zenon, <1>16, <2>1, SentKeeps DEF KillWake, WriterFails
  <2> QED
    BY Zenon, <1>16, <2>2, StillHeld, TableKept DEF KillWake, WriterFails, Cells
<1>17. ASSUME NEW s \in Sessions, Teardown(s) PROVE IInv'
  <2>1. /\ UNCHANGED <<slotOf, slots, free, control, hand>>
        /\ st[s] \in {"closing", "retiring"} /\ \E x \in {"retiring", "exited"} :
                                                   st' = [st EXCEPT ![s] = x]
    BY Zenon, <1>17 DEF Teardown, TeardownClose, TeardownExit
  <2>2. Cells' /\ SlotsExact'
    BY Zenon, <2>1, TableKept DEF Cells, Places
  <2>3. Asked'
    <3>1. \A k \in 1 .. Len(control) : control[k].k = "register" => control[k].s \in Sessions
      BY DEF Asked, Controls
    <3> QED
      BY <2>1, <3>1, Zenon DEF Asked, Cells
  <2> QED
    BY Zenon, <2>1, <2>2, <2>3, StillHeld
<1> QED
  BY Zenon, <1>1, <1>2, <1>3, <1>4, <1>5, <1>6, <1>7, <1>8, <1>9, <1>10, <1>11, <1>12, <1>13,
     <1>14, <1>15, <1>16, <1>17 DEF Next, Reactor, Timer, vars, sessionVars

\* However registrations, ends, late messages for a slot and handoffs follow each
\* other, the reactor's table is exact: Reactor::register never gives out a
\* slot that a Session is in, and end_session frees each one once.
THEOREM TableIsExact == Spec => []SlotsExact
<1>1. Init => IInv
  BY DEF Init, IInv, Cells, Asked, Held, SlotsExact, NoHandoff, Places, Occupied
<1>2. IInv => SlotsExact
  BY Zenon DEF IInv
<1> QED
  BY <1>1, <1>2, Inductive, PTL DEF Spec
-----------------------------------------------------------------------------
\* Timer jobs.

\* Where the jobs of a Session are, or are on their way to.
IsAdd(k) == timerq[k].k = "add"
InJobs(s) == \E i \in 1 .. Len(jobs) : \E k \in 1 .. Len(jobs[i]) : jobs[i][k] = s
InQueue(s) == \E k \in 1 .. Len(timerq) : IsAdd(k) /\ timerq[k].s = s
Clear(s) == ~InJobs(s) /\ ~InQueue(s)

\* The jobs of a Session are in its slot, or sent there.
Homes ==
    /\ timerq \in Seq(TimerMsgs) /\ jobs \in Seq(Seq(Sessions)) /\ Len(jobs) = Len(slots)
    /\ \A k \in 1 .. Len(timerq) : IsAdd(k) =>
          timerq[k].slot = slotOf[timerq[k].s] /\ timerq[k].slot \in 1 .. Len(jobs)
    /\ \A i \in 1 .. Len(jobs) : \A k \in 1 .. Len(jobs[i]) : slotOf[jobs[i][k]] = i

\* A Session has no jobs before it is hosted, nor after its teardown was told
\* that they are gone.
Early(x) == x \in {"new", "asked", "refused"}
Late(x) == x \in {"retiring", "exited"}

Gone ==
    /\ \A s \in Sessions : Early(st[s]) => Clear(s)
    /\ \A s \in Sessions : s \in retired => Late(st[s]) /\ Clear(s)
    /\ \A s \in Sessions : st[s] = "exited" /\ s \notin gaveUp => Clear(s)

\* The teardown's request is behind everything that was sent for its Session.
Order ==
    \A p \in 1 .. Len(timerq) : timerq[p].k = "remove" /\ timerq[p].s # None =>
       /\ Late(st[timerq[p].s]) /\ timerq[p].slot = slotOf[timerq[p].s] /\ timerq[p].try = 0
       /\ \A q \in 1 .. Len(timerq) : p < q /\ IsAdd(q) => timerq[q].s # timerq[p].s

Once ==
    /\ \A k, l \in 1 .. Len(timerq) : IsAdd(k) /\ IsAdd(l) /\ timerq[k].s = timerq[l].s => k = l
    /\ \A s \in Sessions : ~(InJobs(s) /\ InQueue(s))
    /\ JobsOnce

\* The request of the handoff that is under way is the only one with its
\* number, and is behind every job that was sent.
IsMine(p) == timerq[p].k = "remove" /\ timerq[p].try = handoffs

Numbered ==
    /\ handoffs \in Nat /\ (hand.pc # "idle" => handoffs > 0)
    /\ \A p \in 1 .. Len(timerq) : timerq[p].k = "remove" => timerq[p].try <= handoffs

Waits ==
    /\ hand.pc \in {"flush", "export"} \/ (hand.pc = "retire" /\ hand.ack) =>
          \A p \in 1 .. Len(timerq) : ~IsMine(p)
    /\ hand.pc = "retire" => \A p \in 1 .. Len(timerq) : IsMine(p) =>
          /\ timerq[p].slot \in hand.todo /\ IsNext(timerq[p].slot)
          /\ \A q \in 1 .. Len(timerq) : (p < q => ~IsAdd(q)) /\ (IsMine(q) => p = q)

\* What a handoff has paused has no jobs.
Paused ==
    /\ hand.pc = "retire" /\ hand.ack => \A i \in hand.todo : IsNext(i) => Clear(slots[i])
    /\ \A k \in 1 .. Len(hand.paused) : Clear(slots[hand.paused[k]])

JInv == Homes /\ Gone /\ Order /\ Once /\ Numbered /\ Waits /\ Paused
-----------------------------------------------------------------------------
\* While the queue and the jobs stay, Sessions may move on in their lives, and
\* exit when they are clear.
LEMMA LivesKeep ==
    ASSUME JInv, UNCHANGED <<timerq, jobs, slotOf>>, Len(slots') = Len(slots),
           retired' \subseteq retired,
           \A s \in Sessions : /\ Early(st'[s]) => Early(st[s])
                               /\ Late(st[s]) => Late(st'[s])
                               /\ st'[s] = "exited" /\ s \notin gaveUp' => Clear(s)
    PROVE  Homes' /\ Gone' /\ Order' /\ Once'
<1>1. \A s \in Sessions : Clear(s)' = Clear(s)
  BY Zenon DEF Clear, InJobs, InQueue, IsAdd
<1>2. Homes'
  BY Zenon DEF JInv, Homes, IsAdd
<1>3. Gone'
  BY Zenon, <1>1 DEF JInv, Gone
<1>4. \A p \in 1 .. Len(timerq) : timerq[p].k = "remove" /\ timerq[p].s # None => timerq[p].s \in Sessions
  BY DEF JInv, Homes, TimerMsgs
<1>5. Order'
  BY <1>4 DEF JInv, Order, IsAdd
<1>6. Once'
  BY DEF JInv, Once, IsAdd, InJobs, InQueue, JobsOnce
<1> QED
  BY Zenon, <1>2, <1>3, <1>5, <1>6

\* Outside a handoff only the numbers matter.
LEMMA IdleKeeps ==
    ASSUME JInv, Held, Free, UNCHANGED <<hand, timerq, handoffs>>
    PROVE  Numbered' /\ Waits' /\ Paused'
<1>1. hand'.pc = "idle" /\ hand'.paused = <<>>
  BY Zenon DEF Held, Free
<1> QED
  BY <1>1 DEF JInv, Numbered, Waits, Paused

LEMMA ThreadsKeep ==
    ASSUME JInv, UNCHANGED <<hand, timerq, handoffs, jobs, slots>>
    PROVE  Numbered' /\ Waits' /\ Paused'
<1>1. \A x : Clear(x)' = Clear(x)
  BY Zenon DEF Clear, InJobs, InQueue, IsAdd
<1>2. Numbered' /\ Waits'
  BY DEF JInv, Numbered, Waits, IsMine, IsAdd, IsNext
<1>3. Paused'
  BY Zenon, <1>1 DEF JInv, Paused, IsNext
<1> QED
  BY Zenon, <1>2, <1>3

LEMMA EndJobs ==
    ASSUME IInv, JInv, Free, NEW i, NEW r, EndSession(i, r),
           UNCHANGED <<slotOf, timerq, jobs, retired, gaveUp, hand, handoffs>>
    PROVE  JInv'
<1>1. /\ Len(slots') = Len(slots)
      /\ \A s \in Sessions : st'[s] = st[s] \/ (st[s] = "hosted" /\ st'[s] = "closing")
  BY DEF EndSession, Occupied, IInv, Cells, SlotsExact
<1>2. Homes' /\ Gone' /\ Order' /\ Once'
  <2>1. \A s \in Sessions : /\ Early(st'[s]) => Early(st[s])
                            /\ Late(st[s]) => Late(st'[s])
                            /\ st'[s] = "exited" /\ s \notin gaveUp' => Clear(s)
    BY Zenon, <1>1 DEF Early, Late, JInv, Gone
  <2> QED
    BY Zenon, <1>1, <2>1, LivesKeep
<1>3. Numbered' /\ Waits' /\ Paused'
  BY Zenon, IdleKeeps DEF IInv
<1> QED
  BY Zenon, <1>2, <1>3 DEF JInv

LEMMA LaunchJobs == ASSUME IInv, JInv, NEW s \in Sessions, Launch(s) PROVE JInv'
<1>1. /\ UNCHANGED <<timerq, jobs, slotOf, slots, retired, gaveUp, hand, handoffs>>
      /\ \A t \in Sessions : st'[t] = st[t] \/ (st[t] = "new" /\ st'[t] = "asked")
  BY Zenon DEF Launch, boundVars, IInv, Cells
<1>2. \A t \in Sessions : /\ Early(st'[t]) => Early(st[t])
                          /\ Late(st[t]) => Late(st'[t])
                          /\ st'[t] = "exited" /\ t \notin gaveUp' => Clear(t)
  BY Zenon, <1>1 DEF Early, Late, JInv, Gone
<1> QED
  BY Zenon, <1>1, <1>2, LivesKeep, ThreadsKeep DEF JInv

\* The exit is published with the timer's ack, or without waiting for it.
LEMMA ExitJobs == ASSUME IInv, JInv, NEW s \in Sessions, TeardownExit(s) PROVE JInv'
<1>1. /\ UNCHANGED <<timerq, jobs, slotOf, slots, hand, handoffs>> /\ retired' \subseteq retired
      /\ st[s] = "retiring" /\ st'[s] = "exited" /\ \A t \in Sessions : t # s => st'[t] = st[t]
      /\ gaveUp \subseteq gaveUp' /\ (s \in retired \/ s \in gaveUp')
  BY Zenon DEF TeardownExit, IInv, Cells
<1>2. \A t \in Sessions : /\ Early(st'[t]) => Early(st[t])
                          /\ Late(st[t]) => Late(st'[t])
                          /\ st'[t] = "exited" /\ t \notin gaveUp' => Clear(t)
  BY Zenon, <1>1 DEF Early, Late, JInv, Gone
<1> QED
  BY Zenon, <1>1, <1>2, LivesKeep, ThreadsKeep DEF JInv

\* A handoff begins with a number that no request carries.
LEMMA HandoffJobs == ASSUME IInv, JInv, DoHandoff PROVE JInv'
<1>1. /\ UNCHANGED <<timerq, jobs, slotOf, slots, st, retired, gaveUp>> /\ handoffs' = handoffs + 1
      /\ hand'.pc = "flush" /\ hand'.paused = <<>>
  BY Zenon DEF DoHandoff, sessionVars
<1>2. Homes' /\ Gone' /\ Order' /\ Once'
  BY Zenon, <1>1, LivesKeep DEF JInv, Gone
<1>3. \A p \in 1 .. Len(timerq) : timerq[p].k = "remove" => timerq[p].try <= handoffs /\ timerq[p].try \in Nat
  BY DEF JInv, Numbered, Homes, TimerMsgs
<1>4. Numbered' /\ Waits' /\ Paused'
  BY <1>1, <1>3 DEF JInv, Numbered, Waits, Paused, IsMine
<1> QED
  BY Zenon, <1>2, <1>4 DEF JInv

LEMMA RetiredJobs == ASSUME IInv, JInv, HandoffRetired PROVE JInv'
<1>1. /\ UNCHANGED <<timerq, jobs, slotOf, slots, st, retired, gaveUp, handoffs>> /\ hand.pc = "retire"
  BY Zenon DEF HandoffRetired, sessionVars
<1>2. Homes' /\ Gone' /\ Order' /\ Once'
  BY Zenon, <1>1, LivesKeep DEF JInv, Gone
<1>3. \A x : Clear(x)' = Clear(x)
  BY Zenon, <1>1 DEF Clear, InJobs, InQueue, IsAdd
<1>4. CASE hand' = [hand EXCEPT !.pc = "abandon"]
  <2>1. hand'.pc = "abandon" /\ hand'.paused = hand.paused
    BY Zenon, <1>4 DEF IInv, Held
  <2>2. Numbered' /\ Waits' /\ Paused'
    BY Zenon, <1>1, <1>3, <2>1 DEF JInv, Numbered, Waits, Paused
  <2> QED
    BY Zenon, <1>2, <2>2 DEF JInv
<1>5. CASE \E i \in hand.todo : /\ hand.ack /\ IsNext(i)
                                /\ hand' = [pc |-> "flush", todo |-> hand.todo \ {i}, ack |-> FALSE,
                                            paused |-> Append(hand.paused, i)]
  <2>1. PICK i \in hand.todo : /\ hand.ack /\ IsNext(i)
                               /\ hand' = [pc |-> "flush", todo |-> hand.todo \ {i}, ack |-> FALSE,
                                           paused |-> Append(hand.paused, i)]
    BY <1>5, Zenon
  <2>2. Clear(slots[i])
    BY Zenon, <1>1, <2>1 DEF JInv, Paused
  <2>3. hand.paused \in Seq(Nat) /\ i \in Nat
    BY Zenon DEF IInv, Held
  <2>4. hand'.pc = "flush" /\ hand'.paused = Append(hand.paused, i)
    BY Zenon, <2>1
  <2>5. /\ Len(hand'.paused) = Len(hand.paused) + 1 /\ hand'.paused[Len(hand.paused) + 1] = i
        /\ \A k \in 1 .. Len(hand.paused) : hand'.paused[k] = hand.paused[k]
        /\ Len(hand.paused) \in Nat
    BY <2>3, <2>4, AppendProperties
  <2>6. \A k \in 1 .. Len(hand'.paused) : k \in 1 .. Len(hand.paused) \/ k = Len(hand.paused) + 1
    BY <2>5
  <2>7. Paused'
    BY Zenon, <1>1, <1>3, <2>2, <2>4, <2>5, <2>6 DEF JInv, Paused
  <2>8. Numbered' /\ Waits'
    BY Zenon, <1>1, <2>1, <2>4 DEF JInv, Numbered, Waits, IsMine
  <2> QED
    BY Zenon, <1>2, <2>7, <2>8 DEF JInv
<1> QED
  BY Zenon, <1>4, <1>5 DEF HandoffRetired

LEMMA ExportJobs == ASSUME IInv, JInv, HandoffExport PROVE JInv'
<1>1. /\ UNCHANGED <<timerq, jobs, slotOf, slots, st, retired, gaveUp, handoffs>> /\ hand.pc = "flush"
      /\ hand'.pc \in {"export", "abandon"} /\ hand'.paused = hand.paused
  BY Zenon DEF HandoffExport, sessionVars, boundVars, IInv, Held
<1>2. Homes' /\ Gone' /\ Order' /\ Once'
  BY Zenon, <1>1, LivesKeep DEF JInv, Gone
<1>3. \A x : Clear(x)' = Clear(x)
  BY Zenon, <1>1 DEF Clear, InJobs, InQueue, IsAdd
<1>4. Numbered' /\ Waits' /\ Paused'
  BY Zenon, <1>1, <1>3 DEF JInv, Numbered, Waits, Paused, IsMine
<1> QED
  BY Zenon, <1>2, <1>4 DEF JInv

LEMMA CommitJobs == ASSUME IInv, JInv, HandoffCommits PROVE JInv'
<1>1. /\ UNCHANGED <<timerq, jobs, slotOf, retired, gaveUp, handoffs>> /\ hand'.pc = "idle"
      /\ hand'.paused = <<>> /\ Len(slots') = Len(slots)
  BY DEF HandoffCommits, NoHandoff, boundVars, IInv, Cells
<1>2. \A s \in Sessions : st'[s] = st[s] \/ (st[s] = "hosted" /\ st'[s] = "moved")
  <2>1. \A k \in 1 .. Len(hand.paused) : st[slots[hand.paused[k]]] = "hosted"
    BY Zenon DEF IInv, Held, Occupied, SlotsExact
  <2> QED
    BY <2>1, Zenon DEF HandoffCommits, IInv, Cells
<1>3. \A t \in Sessions : /\ Early(st'[t]) => Early(st[t])
                          /\ Late(st[t]) => Late(st'[t])
                          /\ st'[t] = "exited" /\ t \notin gaveUp' => Clear(t)
  BY Zenon, <1>1, <1>2 DEF Early, Late, JInv, Gone
<1>4. Homes' /\ Gone' /\ Order' /\ Once'
  BY Zenon, <1>1, <1>3, LivesKeep
<1>5. Numbered' /\ Waits' /\ Paused'
  BY <1>1 DEF JInv, Numbered, Waits, Paused
<1> QED
  BY Zenon, <1>4, <1>5 DEF JInv
-----------------------------------------------------------------------------
\* The timer channel.

LEMMA Sent ==
    ASSUME timerq \in Seq(TimerMsgs), NEW m \in TimerMsgs, timerq' = Append(timerq, m)
    PROVE  /\ timerq' \in Seq(TimerMsgs) /\ Len(timerq) \in Nat /\ Len(timerq') = Len(timerq) + 1
           /\ timerq'[Len(timerq) + 1] = m
           /\ \A k \in 1 .. Len(timerq) : k \in 1 .. Len(timerq') /\ timerq'[k] = timerq[k]
           /\ \A k \in 1 .. Len(timerq') : k \in 1 .. Len(timerq) \/ k = Len(timerq) + 1
           /\ Len(timerq) + 1 \in 1 .. Len(timerq')
<1>1. /\ timerq' \in Seq(TimerMsgs) /\ Len(timerq) \in Nat /\ Len(timerq') = Len(timerq) + 1
      /\ timerq'[Len(timerq) + 1] = m
      /\ \A k \in 1 .. Len(timerq) : timerq'[k] = timerq[k]
  BY AppendProperties
<1> QED
  BY <1>1

\* A request to remove jobs makes nobody busy.
LEMMA RemoveSent ==
    ASSUME JInv, NEW m \in TimerMsgs, m.k = "remove", timerq' = Append(timerq, m),
           UNCHANGED <<jobs, slotOf, slots>>
    PROVE  /\ Homes' /\ Once'
           /\ \A x : Clear(x)' = Clear(x)
<1>1. timerq \in Seq(TimerMsgs)
  BY Zenon DEF JInv, Homes
<1>2. \A x : InQueue(x)' = InQueue(x) /\ InJobs(x)' = InJobs(x)
  BY <1>1, Sent DEF InQueue, InJobs, IsAdd
<1>3. Homes'
  BY <1>1, Sent DEF JInv, Homes, IsAdd
<1>4. Once'
  BY <1>1, <1>2, Sent DEF JInv, Once, IsAdd, JobsOnce
<1> QED
  BY Zenon, <1>2, <1>3, <1>4 DEF Clear

\* The teardown asks for its Session's jobs to go.
LEMMA CloseJobs == ASSUME IInv, JInv, NEW s \in Sessions, TeardownClose(s) PROVE JInv'
<1> DEFINE m == Retire(slotOf[s], s)
<1>1. /\ timerq' = Append(timerq, m) /\ m \in TimerMsgs /\ m.k = "remove" /\ m.s = s
      /\ m.slot = slotOf[s] /\ m.try = 0 /\ timerq \in Seq(TimerMsgs)
      /\ UNCHANGED <<jobs, slotOf, slots, retired, gaveUp, hand, handoffs>>
  BY Zenon DEF TeardownClose, Retire, TimerMsgs, boundVars, IInv, Cells, JInv, Homes
<1>2. /\ st[s] = "closing" /\ st'[s] = "retiring" /\ \A t \in Sessions : t # s => st'[t] = st[t]
  BY Zenon DEF TeardownClose, IInv, Cells
<1> HIDE DEF m
<1>3. Homes' /\ Once' /\ \A x : Clear(x)' = Clear(x)
  BY Zenon, <1>1, RemoveSent
<1>4. Gone'
  BY Zenon, <1>1, <1>2, <1>3 DEF JInv, Gone, Early, Late
<1>5. \A p \in 1 .. Len(timerq) : timerq[p].k = "remove" /\ timerq[p].s # None => timerq[p].s \in Sessions
  BY DEF JInv, Homes, TimerMsgs
<1>6. Order'
  <2>1. \A p \in 1 .. Len(timerq) : timerq[p].k = "remove" /\ timerq[p].s # None =>
           Late(st'[timerq[p].s])
    BY Zenon, <1>2, <1>5 DEF JInv, Order, Late
  <2> QED
    BY <1>1, <1>2, <2>1, Sent DEF JInv, Order, IsAdd, Late
<1>7. hand.pc # "idle" => handoffs # 0
  BY DEF JInv, Numbered
<1>8. Numbered' /\ Waits'
  <2>1. Numbered'
    BY <1>1, Sent DEF JInv, Numbered
  <2>2. Waits'
    BY <1>1, <1>7, Sent DEF JInv, Waits, IsMine, IsAdd, IsNext
  <2> QED
    BY Zenon, <2>1, <2>2
<1>9. Paused'
  BY Zenon, <1>1, <1>3 DEF JInv, Paused, IsNext
<1> QED
  BY Zenon, <1>3, <1>4, <1>6, <1>8, <1>9 DEF JInv

\* A handoff asks for the jobs of the next Session to go.
LEMMA FlushJobs == ASSUME IInv, JInv, HandoffFlush PROVE JInv'
<1>1. /\ UNCHANGED <<st, jobs, slotOf, slots, retired, gaveUp, handoffs>> /\ hand.pc = "flush"
  BY Zenon DEF HandoffFlush, boundVars
<1>2. CASE timerq' = timerq /\ hand' = [hand EXCEPT !.pc = "abandon"]
  <2>1. Homes' /\ Gone' /\ Order' /\ Once'
    BY Zenon, <1>1, <1>2, LivesKeep DEF JInv, Gone
  <2>2. \A x : Clear(x)' = Clear(x)
    BY Zenon, <1>1, <1>2 DEF Clear, InJobs, InQueue, IsAdd
  <2>3. hand'.pc = "abandon" /\ hand'.paused = hand.paused
    BY Zenon, <1>2 DEF IInv, Held
  <2>4. Numbered' /\ Waits' /\ Paused'
    BY Zenon, <1>1, <1>2, <2>2, <2>3 DEF JInv, Numbered, Waits, Paused
  <2> QED
    BY Zenon, <2>1, <2>4 DEF JInv
<1>3. ASSUME NEW i \in hand.todo, IsNext(i), timerq' = Append(timerq, Quiesce(i, handoffs)),
             hand' = [hand EXCEPT !.pc = "retire", !.ack = FALSE]
      PROVE  JInv'
  <2> DEFINE m == Quiesce(i, handoffs)
  <2>1. /\ m \in TimerMsgs /\ m.k = "remove" /\ m.s = None /\ m.slot = i /\ m.try = handoffs
        /\ timerq \in Seq(TimerMsgs)
    BY Zenon DEF Quiesce, TimerMsgs, IInv, Held, JInv, Homes, Numbered
  <2>2. /\ hand'.pc = "retire" /\ ~hand'.ack /\ hand'.todo = hand.todo /\ hand'.paused = hand.paused
    BY Zenon, <1>3 DEF IInv, Held
  <2> HIDE DEF m
  <2>3. timerq' = Append(timerq, m)
    BY Zenon, <1>3 DEF m
  <2>4. Homes' /\ Once' /\ \A x : Clear(x)' = Clear(x)
    BY Zenon, <1>1, <2>1, <2>3, RemoveSent
  <2>5. Gone'
    BY Zenon, <1>1, <2>4 DEF JInv, Gone
  <2>6. Order'
    BY <1>1, <2>1, <2>3, Sent DEF JInv, Order, IsAdd
  <2>7. Numbered'
    BY <1>1, <2>1, <2>2, <2>3, Sent DEF JInv, Numbered
  <2>8. \A p \in 1 .. Len(timerq) : ~IsMine(p)
    BY Zenon, <1>1 DEF JInv, Waits
  <2>9. \A p \in 1 .. Len(timerq') : IsMine(p)' => p = Len(timerq) + 1
    BY <1>1, <2>1, <2>3, <2>8, Sent DEF IsMine
  <2>10. Waits'
    <3>1. ~(Len(timerq) + 1 < Len(timerq) + 1) /\ timerq'[Len(timerq) + 1] = m
      BY <2>1, <2>3, Sent
    <3>2. \A q \in 1 .. Len(timerq') : ~(Len(timerq) + 1 < q)
      BY <2>1, <2>3, Sent
    <3> QED
      BY Zenon, <1>3, <2>1, <2>2, <2>9, <3>1, <3>2 DEF Waits, IsNext
  <2>11. Paused'
    BY Zenon, <1>1, <2>2, <2>4 DEF JInv, Paused
  <2> QED
    BY Zenon, <2>4, <2>5, <2>6, <2>7, <2>10, <2>11 DEF JInv
<1> QED
  BY Zenon, <1>2, <1>3 DEF HandoffFlush

\* A Session that is registered gets its jobs, in its own slot.
LEMMA RegisterJobs == ASSUME IInv, JInv, DoRegister PROVE JInv'
<1> DEFINE who == Head(control).s
           at == IF free # <<>> THEN free[Len(free)] ELSE Len(slots) + 1
<1>2. /\ timerq \in Seq(TimerMsgs) /\ jobs \in Seq(Seq(Sessions)) /\ Len(jobs) = Len(slots)
      /\ Len(slots) \in Nat /\ slots \in Seq(Sessions \cup {None})
  BY DEF JInv, Homes, IInv, Cells
<1>3. PICK s \in Sessions, i \in Nat :
      /\ st[s] = "asked"
      /\ free = <<>> => i = Len(slots) + 1
      /\ free # <<>> => i \in 1 .. Len(slots)
      /\ slotOf' = [slotOf EXCEPT ![s] = i] /\ slotOf \in [Sessions -> Nat]
      /\ jobs' = IF free # <<>> THEN jobs ELSE Append(jobs, <<>>)
      /\ free # <<>> => slots' = slots \/ slots' = [slots EXCEPT ![i] = s]
      /\ free = <<>> => slots' = Append(slots, None) \/ slots' = [Append(slots, None) EXCEPT ![i] = s]
      /\ UNCHANGED <<retired, gaveUp, hand, handoffs>> /\ Free
      /\ \/ st' = [st EXCEPT ![s] = "hosted"] /\ timerq' = Append(timerq, AddJobs(i, s))
         \/ st' = [st EXCEPT ![s] = "refused"] /\ timerq' = timerq
  <2>1. who \in Sessions /\ st[who] = "asked"
    <3>1. 1 \in 1 .. Len(control) /\ Head(control) = control[1] /\ control[1].k = "register"
      BY DEF DoRegister, Next1, IInv, Asked
    <3> QED
      BY <3>1 DEF IInv, Asked, Controls
  <2>2. /\ at \in Nat
        /\ free = <<>> => at = Len(slots) + 1
        /\ free # <<>> => at \in 1 .. Len(slots)
    BY <1>2 DEF IInv, Cells
  <2>3. /\ slotOf' = [slotOf EXCEPT ![who] = at] /\ slotOf \in [Sessions -> Nat]
        /\ jobs' = IF free # <<>> THEN jobs ELSE Append(jobs, <<>>)
        /\ free # <<>> => slots' = slots \/ slots' = [slots EXCEPT ![at] = who]
        /\ free = <<>> => slots' = Append(slots, None) \/ slots' = [Append(slots, None) EXCEPT ![at] = who]
        /\ UNCHANGED <<retired, gaveUp, hand, handoffs>> /\ Free
        /\ \/ st' = [st EXCEPT ![who] = "hosted"] /\ timerq' = Append(timerq, AddJobs(at, who))
           \/ st' = [st EXCEPT ![who] = "refused"] /\ timerq' = timerq
    BY Zenon DEF DoRegister, Next1, boundVars, IInv, Cells
  <2> HIDE DEF who, at
  <2> QED
    BY <2>1, <2>2, <2>3, Zenon
<1>1. s \in Sessions /\ st[s] = "asked"
  BY Zenon, <1>3
<1>4. i \in Nat /\ slotOf'[s] = i /\ \A t \in Sessions : t # s => slotOf'[t] = slotOf[t]
  BY Zenon, <1>1, <1>2, <1>3
<1>5. /\ jobs' \in Seq(Seq(Sessions)) /\ i \in 1 .. Len(jobs') /\ Len(jobs') = Len(slots')
      /\ \A j \in 1 .. Len(jobs) : j \in 1 .. Len(jobs') /\ jobs'[j] = jobs[j]
      /\ \A j \in 1 .. Len(jobs') : j \in 1 .. Len(jobs) \/ jobs'[j] = <<>>
  <2>1. CASE free # <<>>
    <3>1. jobs' = jobs /\ (slots' = slots \/ slots' = [slots EXCEPT ![i] = s])
      BY Zenon, <1>3, <2>1
    <3>2. Len(slots') = Len(slots)
      BY <1>1, <1>2, <1>3, <2>1, <3>1
    <3> QED
      BY Zenon, <1>2, <1>3, <2>1, <3>1, <3>2
  <2>2. CASE free = <<>>
    <3>1. jobs' = Append(jobs, <<>>) /\ <<>> \in Seq(Sessions)
      BY <1>3, <2>2
    <3>2. /\ jobs' \in Seq(Seq(Sessions)) /\ Len(jobs') = Len(jobs) + 1
          /\ jobs'[Len(jobs) + 1] = <<>> /\ \A j \in 1 .. Len(jobs) : jobs'[j] = jobs[j]
      BY <1>2, <3>1, AppendProperties
    <3> DEFINE w == Append(slots, None)
    <3>3. Len(w) = Len(slots) + 1 /\ w \in Seq(Sessions \cup {None})
      BY <1>2
    <3>4. slots' = w \/ slots' = [w EXCEPT ![i] = s]
      BY Zenon, <1>3, <2>2
    <3> HIDE DEF w
    <3>5. Len(slots') = Len(w)
      BY <3>3, <3>4
    <3>6. \A j \in 1 .. Len(jobs') : j \in 1 .. Len(jobs) \/ j = Len(jobs) + 1
      BY <1>2, <3>2
    <3> QED
      BY <1>2, <1>3, <2>2, <3>2, <3>3, <3>5, <3>6
  <2> QED
    BY Zenon, <2>1, <2>2
<1>6. \A j \in 1 .. Len(jobs') : \A k \in 1 .. Len(jobs'[j]) : j \in 1 .. Len(jobs) /\ jobs'[j] = jobs[j]
  BY <1>5
<1>7. \A t \in Sessions : t # s => st'[t] = st[t]
  BY Zenon, <1>3 DEF IInv, Cells
<1>8. \A t \in Sessions : InJobs(t)' = InJobs(t)
  BY <1>5, <1>6, Zenon DEF InJobs
<1>9. Clear(s)
  BY Zenon, <1>1 DEF JInv, Gone, Early
<1>10. \A j \in 1 .. Len(jobs') : \A k \in 1 .. Len(jobs'[j]) :
          j \in 1 .. Len(jobs) /\ k \in 1 .. Len(jobs[j]) /\ jobs'[j][k] = jobs[j][k]
          /\ jobs[j][k] \in Sessions /\ jobs[j][k] # s
  <2> TAKE j \in 1 .. Len(jobs')
  <2> TAKE k \in 1 .. Len(jobs'[j])
  <2>1. j \in 1 .. Len(jobs) /\ jobs'[j] = jobs[j]
    BY Zenon, <1>6
  <2>2. jobs[j][k] \in Sessions
    BY <1>2, <2>1
  <2> QED
    BY Zenon, <1>9, <2>1, <2>2 DEF Clear, InJobs
<1>11. \A k \in 1 .. Len(timerq) : IsAdd(k) => timerq[k].s # s /\ timerq[k].s \in Sessions
  BY <1>2, <1>9 DEF Clear, InQueue, IsAdd, TimerMsgs
<1>12. \A k \in 1 .. Len(timerq) : timerq[k].k = "remove" /\ timerq[k].s # None =>
          timerq[k].s # s /\ timerq[k].s \in Sessions
  <2>1. \A k \in 1 .. Len(timerq) : timerq[k].k = "remove" /\ timerq[k].s # None => timerq[k].s \in Sessions
    BY <1>2 DEF TimerMsgs
  <2>2. \A k \in 1 .. Len(timerq) : timerq[k].k = "remove" /\ timerq[k].s # None => Late(st[timerq[k].s])
    BY Zenon DEF JInv, Order
  <2>3. ~Late(st[s])
    BY Zenon, <1>1 DEF Late
  <2> QED
    BY Zenon, <2>1, <2>2, <2>3
<1>13. JobsOnce'
  <2> SUFFICES ASSUME NEW j \in 1 .. Len(jobs'), NEW l \in 1 .. Len(jobs'),
                      NEW k \in 1 .. Len(jobs'[j]), NEW n \in 1 .. Len(jobs'[l]),
                      NEW t \in Sessions, jobs'[j][k] = t, jobs'[l][n] = t
               PROVE  j = l /\ k = n
    BY DEF JobsOnce
  <2>1. j \in 1 .. Len(jobs) /\ k \in 1 .. Len(jobs[j]) /\ jobs[j][k] = t
    BY Zenon, <1>10
  <2>2. l \in 1 .. Len(jobs) /\ n \in 1 .. Len(jobs[l]) /\ jobs[l][n] = t
    BY Zenon, <1>10
  <2> QED
    BY <2>1, <2>2 DEF JInv, Once, JobsOnce
<1>16. \A j \in 1 .. Len(jobs') : \A k \in 1 .. Len(jobs'[j]) : slotOf'[jobs'[j][k]] = j
  <2> TAKE j \in 1 .. Len(jobs')
  <2> TAKE k \in 1 .. Len(jobs'[j])
  <2>1. /\ j \in 1 .. Len(jobs) /\ k \in 1 .. Len(jobs[j]) /\ jobs'[j][k] = jobs[j][k]
        /\ jobs[j][k] \in Sessions /\ jobs[j][k] # s
    BY Zenon, <1>10
  <2>2. slotOf[jobs[j][k]] = j
    BY Zenon, <2>1 DEF JInv, Homes
  <2> QED
    BY Zenon, <1>4, <2>1, <2>2
<1>14. CASE st' = [st EXCEPT ![s] = "refused"] /\ timerq' = timerq
  <2>1. st'[s] = "refused"
    BY Zenon, <1>1, <1>14 DEF IInv, Cells
  <2>2. \A t \in Sessions : InQueue(t)' = InQueue(t)
    BY Zenon, <1>14 DEF InQueue, IsAdd
  <2>3. Homes'
    <3>1. \A k \in 1 .. Len(timerq') : IsAdd(k)' =>
             timerq'[k].slot = slotOf'[timerq'[k].s] /\ timerq'[k].slot \in 1 .. Len(jobs')
      BY <1>4, <1>5, <1>11, <1>14, Zenon DEF JInv, Homes, IsAdd
    <3> QED
      BY Zenon, <1>2, <1>5, <1>14, <1>16, <3>1 DEF Homes
  <2>4. Gone'
    BY <1>1, <1>3, <1>7, <1>8, <1>9, <2>1, <2>2, Zenon DEF JInv, Gone, Clear, Early, Late
  <2>5. Order'
    BY <1>4, <1>7, <1>12, <1>14 DEF JInv, Order, IsAdd
  <2>6. Once'
    BY Zenon, <1>8, <1>13, <1>14, <2>2 DEF JInv, Once, IsAdd
  <2>7. Numbered' /\ Waits' /\ Paused'
    BY Zenon, <1>3, <1>14, IdleKeeps DEF IInv
  <2> QED
    BY Zenon, <2>3, <2>4, <2>5, <2>6, <2>7 DEF JInv
<1>15. CASE st' = [st EXCEPT ![s] = "hosted"] /\ timerq' = Append(timerq, AddJobs(i, s))
  <2>1. st'[s] = "hosted"
    BY Zenon, <1>1, <1>15 DEF IInv, Cells
  <2> DEFINE m == AddJobs(i, s)
  <2>2. m \in TimerMsgs /\ m.k = "add" /\ m.s = s /\ m.slot = i
    BY Zenon, <1>1, <1>4 DEF AddJobs, TimerMsgs
  <2>3. timerq' = Append(timerq, m)
    BY Zenon, <1>15
  <2> HIDE DEF m
  <2>4. \A t \in Sessions : t # s => (InQueue(t)' = InQueue(t))
    BY <1>2, <2>2, <2>3, Sent DEF InQueue, IsAdd
  <2>5. ~InJobs(s)'
    BY Zenon, <1>1, <1>8, <1>9 DEF Clear
  <2>6. Homes'
    <3>1. \A k \in 1 .. Len(timerq') : IsAdd(k)' =>
             timerq'[k].slot = slotOf'[timerq'[k].s] /\ timerq'[k].slot \in 1 .. Len(jobs')
      <4> TAKE k \in 1 .. Len(timerq')
      <4>1. CASE k \in 1 .. Len(timerq)
        <5>1. timerq'[k] = timerq[k]
          BY Zenon, <1>2, <2>2, <2>3, <4>1, Sent
        <5>2. IsAdd(k)' => IsAdd(k)
          BY Zenon, <5>1 DEF IsAdd
        <5>3. IsAdd(k) => timerq[k].slot = slotOf[timerq[k].s] /\ timerq[k].slot \in 1 .. Len(jobs)
          BY Zenon, <4>1 DEF JInv, Homes
        <5> QED
          BY Zenon, <1>4, <1>5, <1>11, <4>1, <5>1, <5>2, <5>3
      <4>2. CASE k = Len(timerq) + 1
        <5>1. timerq'[k] = m
          BY Zenon, <1>2, <2>2, <2>3, <4>2, Sent
        <5> QED
          BY Zenon, <1>4, <1>5, <2>2, <5>1
      <4> QED
        BY Zenon, <1>2, <2>2, <2>3, <4>1, <4>2, Sent
    <3>3. timerq' \in Seq(TimerMsgs)
      BY Zenon, <1>2, <2>2, <2>3, Sent
    <3> QED
      BY Zenon, <1>5, <1>16, <3>1, <3>3 DEF Homes
  <2>7. Gone'
    <3>1. \A t \in Sessions : t # s => Clear(t)' = Clear(t)
      BY Zenon, <1>8, <2>4 DEF Clear
    <3> QED
      BY <1>1, <1>3, <1>7, <2>1, <3>1, Zenon DEF JInv, Gone, Early, Late
  <2>8. Order'
    <3> SUFFICES ASSUME NEW p \in 1 .. Len(timerq'), timerq'[p].k = "remove", timerq'[p].s # None
                 PROVE  /\ Late(st'[timerq'[p].s]) /\ timerq'[p].slot = slotOf'[timerq'[p].s]
                        /\ timerq'[p].try = 0
                        /\ \A q \in 1 .. Len(timerq') : p < q /\ IsAdd(q)' => timerq'[q].s # timerq'[p].s
      BY Zenon DEF Order
    <3>1. p \in 1 .. Len(timerq) /\ timerq'[p] = timerq[p]
      BY Zenon, <1>2, <2>2, <2>3, Sent
    <3>2. timerq[p].s \in Sessions /\ timerq[p].s # s
      BY Zenon, <1>12, <3>1
    <3>3. /\ Late(st[timerq[p].s]) /\ timerq[p].slot = slotOf[timerq[p].s] /\ timerq[p].try = 0
          /\ \A q \in 1 .. Len(timerq) : p < q /\ IsAdd(q) => timerq[q].s # timerq[p].s
      BY Zenon, <3>1 DEF JInv, Order
    <3>4. \A q \in 1 .. Len(timerq') : p < q /\ IsAdd(q)' => timerq'[q].s # timerq[p].s
      BY <1>2, <2>2, <2>3, <3>2, <3>3, Sent DEF IsAdd
    <3> QED
      BY <1>4, <1>7, <3>1, <3>2, <3>3, <3>4
  <2>9. Once'
    <3>1. \A k, l \in 1 .. Len(timerq') :
             IsAdd(k)' /\ IsAdd(l)' /\ timerq'[k].s = timerq'[l].s => k = l
      BY <1>2, <1>11, <2>2, <2>3, Sent DEF JInv, Once, IsAdd
    <3> QED
      BY Zenon, <1>8, <1>13, <2>4, <2>5, <3>1 DEF JInv, Once
  <2>10. hand'.pc = "idle" /\ hand'.paused = <<>>
    BY Zenon, <1>3 DEF IInv, Held, Free
  <2>11. Numbered' /\ Waits' /\ Paused'
    BY <1>2, <1>3, <2>2, <2>3, <2>10, Sent DEF JInv, Numbered, Waits, Paused
  <2> QED
    BY Zenon, <2>6, <2>7, <2>8, <2>9, <2>11 DEF JInv
<1> QED
  BY Zenon, <1>3, <1>14, <1>15
-----------------------------------------------------------------------------
\* run_timer.

LEMMA Received ==
    ASSUME timerq \in Seq(TimerMsgs), timerq # <<>>, timerq' = Tail(timerq)
    PROVE  /\ timerq' \in Seq(TimerMsgs) /\ Len(timerq) \in Nat /\ Len(timerq') = Len(timerq) - 1
           /\ \A k \in 1 .. Len(timerq') : k \in Nat /\ k + 1 \in 1 .. Len(timerq) /\ 1 < k + 1
           /\ \A k \in 1 .. Len(timerq') : timerq'[k] = timerq[k + 1]
           /\ \A k \in 1 .. Len(timerq) : k = 1 \/ (k - 1 \in 1 .. Len(timerq') /\ timerq'[k - 1] = timerq[k])
           /\ 1 \in 1 .. Len(timerq) /\ Head(timerq) = timerq[1] /\ timerq[1] \in TimerMsgs
<1>1. /\ timerq' \in Seq(TimerMsgs) /\ Len(timerq) \in Nat /\ Len(timerq') = Len(timerq) - 1
      /\ \A k \in 1 .. Len(timerq') : timerq'[k] = timerq[k + 1]
      /\ Len(timerq) > 0 /\ Head(timerq) = timerq[1]
  OBVIOUS
<1>2. \A k \in 1 .. Len(timerq) : k = 1 \/ (k - 1 \in 1 .. Len(timerq') /\ (k - 1) + 1 = k)
  BY <1>1
<1>3. \A k \in 1 .. Len(timerq) : k = 1 \/ (k - 1 \in 1 .. Len(timerq') /\ timerq'[k - 1] = timerq[k])
  BY Zenon, <1>1, <1>2
<1> QED
  BY <1>1, <1>3

\* The rest of the queue is as it was.
LEMMA ReceivedKeeps ==
    ASSUME JInv, timerq # <<>>, timerq' = Tail(timerq), UNCHANGED <<slotOf, st>>,
           Len(jobs') = Len(jobs)
    PROVE  /\ \A k \in 1 .. Len(timerq') : IsAdd(k)' =>
                 timerq'[k].slot = slotOf'[timerq'[k].s] /\ timerq'[k].slot \in 1 .. Len(jobs')
           /\ Order'
           /\ \A k, l \in 1 .. Len(timerq') : (IsAdd(k) /\ IsAdd(l) /\ timerq[k].s = timerq[l].s)' => k = l
           /\ \A x : InQueue(x)' => InQueue(x)
           /\ \A x : InQueue(x) => InQueue(x)' \/ (IsAdd(1) /\ timerq[1].s = x)
<1>1. timerq \in Seq(TimerMsgs)
  BY Zenon DEF JInv, Homes
<1>2. \A k \in 1 .. Len(timerq') : k \in Nat /\ k + 1 \in 1 .. Len(timerq) /\ timerq'[k] = timerq[k + 1]
  BY Zenon, <1>1, Received
<1>3. \A k \in 1 .. Len(timerq') : IsAdd(k)' = IsAdd(k + 1)
  BY Zenon, <1>2 DEF IsAdd
<1>4. \A k \in 1 .. Len(timerq') : IsAdd(k)' =>
         timerq'[k].slot = slotOf'[timerq'[k].s] /\ timerq'[k].slot \in 1 .. Len(jobs')
  BY <1>2, <1>3 DEF JInv, Homes
<1>5. Order'
  <2> SUFFICES ASSUME NEW p \in 1 .. Len(timerq'), timerq'[p].k = "remove", timerq'[p].s # None
               PROVE  /\ Late(st'[timerq'[p].s]) /\ timerq'[p].slot = slotOf'[timerq'[p].s]
                      /\ timerq'[p].try = 0
                      /\ \A q \in 1 .. Len(timerq') : p < q /\ IsAdd(q)' => timerq'[q].s # timerq'[p].s
    BY DEF Order
  <2>1. /\ Late(st[timerq[p + 1].s]) /\ timerq[p + 1].slot = slotOf[timerq[p + 1].s]
        /\ timerq[p + 1].try = 0
        /\ \A q \in 1 .. Len(timerq) : p + 1 < q /\ IsAdd(q) => timerq[q].s # timerq[p + 1].s
    BY Zenon, <1>2 DEF JInv, Order
  <2>2. \A q \in 1 .. Len(timerq') : p < q => p + 1 < q + 1
    BY <1>2
  <2> QED
    BY <1>2, <1>3, <2>1, <2>2
<1>6. \A k, l \in 1 .. Len(timerq') : (IsAdd(k) /\ IsAdd(l) /\ timerq[k].s = timerq[l].s)' => k = l
  <2> TAKE k, l \in 1 .. Len(timerq')
  <2>1. (IsAdd(k) /\ IsAdd(l) /\ timerq[k].s = timerq[l].s)' => k + 1 = l + 1
    BY <1>2, <1>3 DEF JInv, Once
  <2> QED
    BY <1>2, <2>1
<1>7. \A x : InQueue(x)' => InQueue(x)
  BY Zenon, <1>2, <1>3 DEF InQueue
<1>8. \A x : InQueue(x) => InQueue(x)' \/ (IsAdd(1) /\ timerq[1].s = x)
  <2>1. \A k \in 1 .. Len(timerq) :
           k = 1 \/ (k - 1 \in 1 .. Len(timerq') /\ timerq'[k - 1] = timerq[k])
    BY <1>1, Received
  <2> QED
    BY Zenon, <2>1 DEF InQueue, IsAdd
<1> QED
  BY Zenon, <1>4, <1>5, <1>6, <1>7, <1>8

\* A handoff still waits for its own request, or has none in the queue.
LEMMA ReceivedWaits ==
    ASSUME JInv, timerq # <<>>, timerq' = Tail(timerq), UNCHANGED handoffs,
           hand'.pc = hand.pc, hand'.todo = hand.todo,
           hand'.pc = "retire" => (hand'.ack <=> hand.ack)
    PROVE  Numbered' /\ Waits'
<1>1. \A k \in 1 .. Len(timerq') : k \in Nat /\ k + 1 \in 1 .. Len(timerq) /\ timerq'[k] = timerq[k + 1]
  BY Zenon, Received DEF JInv, Homes
<1>2. \A k \in 1 .. Len(timerq') : (IsMine(k)' <=> IsMine(k + 1)) /\ (IsAdd(k)' <=> IsAdd(k + 1))
  BY Zenon, <1>1 DEF IsMine, IsAdd
<1>3. Numbered'
  BY <1>1 DEF JInv, Numbered
<1>4. ASSUME hand'.pc \in {"flush", "export"} \/ (hand'.pc = "retire" /\ hand'.ack),
             NEW p \in 1 .. Len(timerq')
      PROVE  ~IsMine(p)'
  BY Zenon, <1>1, <1>2, <1>4 DEF JInv, Waits
<1>5. ASSUME hand'.pc = "retire", NEW p \in 1 .. Len(timerq'), IsMine(p)'
      PROVE  /\ timerq'[p].slot \in hand'.todo /\ IsNext(timerq[p + 1].slot)
             /\ \A q \in 1 .. Len(timerq') : (p < q => ~IsAdd(q)') /\ (IsMine(q)' => p = q)
  <2>1. /\ timerq[p + 1].slot \in hand.todo /\ IsNext(timerq[p + 1].slot)
        /\ \A q \in 1 .. Len(timerq) : (p + 1 < q => ~IsAdd(q)) /\ (IsMine(q) => p + 1 = q)
    BY Zenon, <1>1, <1>2, <1>5 DEF JInv, Waits
  <2>2. \A q \in 1 .. Len(timerq') : (p < q => p + 1 < q + 1) /\ (p + 1 = q + 1 => p = q)
    BY <1>1
  <2> QED
    BY Zenon, <1>1, <1>2, <2>1, <2>2
<1>6. \A p \in 1 .. Len(timerq') : IsNext(timerq[p + 1].slot) => IsNext(timerq[p].slot)'
  BY Zenon, <1>1 DEF IsNext
<1> QED
  BY Zenon, <1>3, <1>4, <1>5, <1>6 DEF Waits

LEMMA NoTwice ==
    ASSUME \A j, l \in 1 .. Len(jobs') : \A k \in 1 .. Len(jobs'[j]), n \in 1 .. Len(jobs'[l]) :
              jobs'[j][k] = jobs'[l][n] => j = l /\ k = n
    PROVE  JobsOnce'
BY DEF JobsOnce

LEMMA TimerAddJobs == ASSUME IInv, JInv, TimerAdd PROVE JInv'
<1>1. /\ timerq # <<>> /\ timerq' = Tail(timerq) /\ timerq \in Seq(TimerMsgs) /\ IsAdd(1)
      /\ UNCHANGED <<st, slotOf, slots, retired, gaveUp, hand, handoffs>>
      /\ jobs' = [jobs EXCEPT ![timerq[1].slot] = Append(@, timerq[1].s)]
      /\ jobs \in Seq(Seq(Sessions))
  <2>1. timerq # <<>> /\ timerq' = Tail(timerq) /\ timerq \in Seq(TimerMsgs) /\ jobs \in Seq(Seq(Sessions))
    BY Zenon DEF TimerAdd, JInv, Homes
  <2>2. Head(timerq) = timerq[1]
    BY Zenon, <2>1, Received
  <2> QED
    BY <2>1, <2>2, Zenon DEF TimerAdd, IsAdd, sessionVars, boundVars
<1>2. PICK s \in Sessions, i \in 1 .. Len(jobs) : timerq[1].s = s /\ timerq[1].slot = i /\ slotOf[s] = i
  BY <1>1, Received, Zenon DEF JInv, Homes, TimerMsgs, IsAdd
<1>3. InQueue(s) /\ ~InJobs(s)
  BY Zenon, <1>1, <1>2, Received DEF InQueue, JInv, Once
<1>4. /\ jobs' \in Seq(Seq(Sessions)) /\ Len(jobs') = Len(jobs) /\ jobs'[i] = Append(jobs[i], s)
      /\ \A j \in 1 .. Len(jobs) : j # i => jobs'[j] = jobs[j]
      /\ jobs[i] \in Seq(Sessions) /\ Len(jobs[i]) \in Nat
  BY <1>1, <1>2, ExceptSeq
<1>5. /\ Len(jobs'[i]) = Len(jobs[i]) + 1 /\ jobs'[i][Len(jobs[i]) + 1] = s
      /\ \A k \in 1 .. Len(jobs[i]) : k \in 1 .. Len(jobs'[i]) /\ jobs'[i][k] = jobs[i][k]
      /\ \A k \in 1 .. Len(jobs'[i]) : k \in 1 .. Len(jobs[i]) \/ k = Len(jobs[i]) + 1
      /\ Len(jobs[i]) + 1 \in 1 .. Len(jobs'[i])
  BY <1>4, AppendProperties
<1>6. \A j \in 1 .. Len(jobs') : \A k \in 1 .. Len(jobs'[j]) :
         \/ j \in 1 .. Len(jobs) /\ k \in 1 .. Len(jobs[j]) /\ jobs'[j][k] = jobs[j][k] /\ jobs[j][k] # s
         \/ j = i /\ k = Len(jobs[i]) + 1 /\ jobs'[j][k] = s
  <2> TAKE j \in 1 .. Len(jobs')
  <2> TAKE k \in 1 .. Len(jobs'[j])
  <2>1. j \in 1 .. Len(jobs)
    BY Zenon, <1>4
  <2>2. k \in 1 .. Len(jobs[j]) => jobs[j][k] # s
    BY Zenon, <1>3, <2>1 DEF InJobs
  <2>3. CASE j = i
    BY <1>5, <2>1, <2>2, <2>3
  <2>4. CASE j # i
    BY <1>4, <2>1, <2>2, <2>4
  <2> QED
    BY Zenon, <2>3, <2>4
<1>7. \A x : x # s => (InJobs(x)' => InJobs(x))
  BY Zenon, <1>6 DEF InJobs
<1>8. \A x : InJobs(x) => InJobs(x)'
  BY <1>4, <1>5, Zenon DEF InJobs
<1>9. InJobs(s)'
  BY Zenon, <1>4, <1>5 DEF InJobs
<1>10. ~InQueue(s)'
  <2>1. \A k \in 1 .. Len(timerq') : ~(IsAdd(k)' /\ timerq'[k].s = s)
    <3> TAKE k \in 1 .. Len(timerq')
    <3>1. k + 1 \in 1 .. Len(timerq) /\ timerq'[k] = timerq[k + 1] /\ k + 1 # 1 /\ 1 \in 1 .. Len(timerq)
      BY <1>1, Received
    <3> QED
      BY Zenon, <1>1, <1>2, <3>1 DEF JInv, Once, IsAdd
  <2> QED
    BY Zenon, <2>1 DEF InQueue
<1>11. \A x : Clear(x)' = Clear(x)
  BY <1>1, <1>2, <1>3, <1>4, <1>7, <1>8, <1>9, ReceivedKeeps DEF Clear
<1>12. Homes'
  <2>1. \A j \in 1 .. Len(jobs') : \A k \in 1 .. Len(jobs'[j]) : slotOf'[jobs'[j][k]] = j
    BY <1>1, <1>2, <1>6 DEF JInv, Homes
  <2>2. \A k \in 1 .. Len(timerq') : IsAdd(k)' =>
           timerq'[k].slot = slotOf'[timerq'[k].s] /\ timerq'[k].slot \in 1 .. Len(jobs')
    BY Zenon, <1>1, <1>4, ReceivedKeeps
  <2>3. timerq' \in Seq(TimerMsgs) /\ Len(jobs') = Len(slots')
    BY <1>1, <1>4, Received DEF JInv, Homes
  <2> QED
    BY <1>4, <2>1, <2>2, <2>3, Zenon DEF Homes
<1>13. Gone'
  BY Zenon, <1>1, <1>11 DEF JInv, Gone
<1>14. Order'
  BY Zenon, <1>1, <1>4, ReceivedKeeps
<1>a. JobsOnce /\ \A x : InQueue(x)' => InQueue(x)
  BY Zenon, <1>1, <1>4, ReceivedKeeps DEF JInv, Once
<1>15. JobsOnce'
  <2> SUFFICES \A j, l \in 1 .. Len(jobs') : \A k \in 1 .. Len(jobs'[j]), n \in 1 .. Len(jobs'[l]) :
                  jobs'[j][k] = jobs'[l][n] => j = l /\ k = n
    BY Zenon, NoTwice
  <2> TAKE j, l \in 1 .. Len(jobs')
  <2> TAKE k \in 1 .. Len(jobs'[j]), n \in 1 .. Len(jobs'[l])
  <2> HAVE jobs'[j][k] = jobs'[l][n]
  <2> DEFINE t == jobs'[j][k]
  <2>3. t \in Sessions
    BY <1>4
  <2>1. CASE t = s
    <3>1. j = i /\ k = Len(jobs[i]) + 1
      BY <1>6, <2>1, Zenon
    <3>2. l = i /\ n = Len(jobs[i]) + 1
      BY <1>6, <2>1, Zenon
    <3> QED
      BY Zenon, <3>1, <3>2
  <2>2. CASE t # s
    <3>1. j \in 1 .. Len(jobs) /\ k \in 1 .. Len(jobs[j]) /\ jobs[j][k] = t
      BY Zenon, <1>6, <2>2
    <3>2. l \in 1 .. Len(jobs) /\ n \in 1 .. Len(jobs[l]) /\ jobs[l][n] = t
      BY Zenon, <1>6, <2>2
    <3> QED
      BY Zenon, <1>a, <2>3, <3>1, <3>2 DEF JobsOnce
  <2> QED
    BY Zenon, <2>1, <2>2
<1>16. Once'
  <2>1. \A x \in Sessions : ~(InJobs(x)' /\ InQueue(x)')
    BY Zenon, <1>a, <1>7, <1>10 DEF JInv, Once
  <2>2. \A k, l \in 1 .. Len(timerq') : (IsAdd(k) /\ IsAdd(l) /\ timerq[k].s = timerq[l].s)' => k = l
    BY Zenon, <1>1, <1>4, ReceivedKeeps
  <2> QED
    BY Zenon, <1>15, <2>1, <2>2 DEF Once
<1>17. Numbered' /\ Waits'
  BY Zenon, <1>1, ReceivedWaits
<1>18. Paused'
  BY Zenon, <1>1, <1>11 DEF JInv, Paused, IsNext
<1> QED
  BY Zenon, <1>12, <1>13, <1>14, <1>16, <1>17, <1>18 DEF JInv

\* The jobs of a slot go: with the teardown's request those of its Session,
\* with a handoff's those of the Session it is at.
LEMMA TimerRemoveJobs == ASSUME IInv, JInv, TimerRemove PROVE JInv'
<1>1. /\ timerq # <<>> /\ timerq' = Tail(timerq) /\ timerq \in Seq(TimerMsgs)
      /\ jobs \in Seq(Seq(Sessions))
  BY Zenon DEF TimerRemove, JInv, Homes
<1>2. PICK m \in TimerMsgs :
         m = timerq[1] /\ m.k = "remove" /\ Head(timerq) = m /\ 1 \in 1 .. Len(timerq)
  BY Zenon, <1>1, Received DEF TimerRemove
<1>3. /\ UNCHANGED <<st, slotOf, slots, gaveUp, handoffs>>
      /\ jobs' = [jobs EXCEPT ![m.slot] = <<>>]
      /\ retired' = IF m.s = None THEN retired ELSE retired \cup {m.s}
      /\ hand' = [hand EXCEPT !.ack = @ \/ (hand.pc = "retire" /\ m.try = handoffs)]
  BY <1>2, Zenon DEF TimerRemove, sessionVars, boundVars
<1>4. /\ hand'.pc = hand.pc /\ hand'.todo = hand.todo /\ hand'.paused = hand.paused
      /\ hand'.ack <=> hand.ack \/ (hand.pc = "retire" /\ m.try = handoffs)
  BY <1>3, Zenon DEF IInv, Held
<1>5. /\ jobs' \in Seq(Seq(Sessions)) /\ Len(jobs') = Len(jobs)
      /\ \A j \in 1 .. Len(jobs) : jobs'[j] = jobs[j] \/ jobs'[j] = <<>>
      /\ \A j \in 1 .. Len(jobs) : j = m.slot => jobs'[j] = <<>>
  <2>1. <<>> \in Seq(Sessions)
    OBVIOUS
  <2>2. CASE m.slot \in 1 .. Len(jobs)
    BY <1>1, <1>3, <2>1, <2>2, ExceptSeq
  <2>3. CASE m.slot \notin 1 .. Len(jobs)
    <3>1. jobs' = jobs
      BY <1>1, <1>3, <2>3
    <3> QED
      BY Zenon, <1>1, <2>3, <3>1
  <2> QED
    BY Zenon, <2>2, <2>3
<1>6. \A j \in 1 .. Len(jobs') : \A k \in 1 .. Len(jobs'[j]) :
         j \in 1 .. Len(jobs) /\ k \in 1 .. Len(jobs[j]) /\ jobs'[j][k] = jobs[j][k] /\ j # m.slot
  BY <1>5
<1>7. \A x : InJobs(x)' => InJobs(x) /\ slotOf[x] # m.slot
  <2> TAKE x
  <2> HAVE InJobs(x)'
  <2>1. PICK j \in 1 .. Len(jobs') : \E k \in 1 .. Len(jobs'[j]) : jobs'[j][k] = x
    BY Zenon DEF InJobs
  <2>2. PICK k \in 1 .. Len(jobs'[j]) : jobs'[j][k] = x
    BY Zenon, <2>1
  <2>3. j \in 1 .. Len(jobs) /\ k \in 1 .. Len(jobs[j]) /\ jobs[j][k] = x /\ j # m.slot
    BY Zenon, <1>6, <2>2
  <2> QED
    BY <2>3, Zenon DEF InJobs, JInv, Homes
<1>8. \A x : InQueue(x)' => InQueue(x)
  BY Zenon, <1>1, <1>3, <1>5, ReceivedKeeps
<1>9. \A x : Clear(x) => Clear(x)'
  BY Zenon, <1>7, <1>8 DEF Clear
<1>10. \A k \in 1 .. Len(timerq') : k \in Nat /\ k + 1 \in 1 .. Len(timerq) /\ timerq'[k] = timerq[k + 1] /\ 1 < k + 1
  BY Zenon, <1>1, Received
<1>11. \A k \in 1 .. Len(timerq') : (IsMine(k)' <=> IsMine(k + 1)) /\ (IsAdd(k)' <=> IsAdd(k + 1))
  BY Zenon, <1>3, <1>10 DEF IsMine, IsAdd
<1>12. Homes'
  <2>1. \A j \in 1 .. Len(jobs') : \A k \in 1 .. Len(jobs'[j]) : slotOf'[jobs'[j][k]] = j
    BY <1>3, <1>6 DEF JInv, Homes
  <2>2. \A k \in 1 .. Len(timerq') : IsAdd(k)' =>
           timerq'[k].slot = slotOf'[timerq'[k].s] /\ timerq'[k].slot \in 1 .. Len(jobs')
    BY Zenon, <1>1, <1>3, <1>5, ReceivedKeeps
  <2>3. timerq' \in Seq(TimerMsgs) /\ Len(jobs') = Len(slots')
    BY Zenon, <1>1, <1>3, <1>5, Received DEF JInv, Homes
  <2> QED
    BY Zenon, <1>5, <2>1, <2>2, <2>3 DEF Homes
<1>13. m.s # None => m.s \in Sessions /\ Late(st[m.s]) /\ Clear(m.s)'
  <2> HAVE m.s # None
  <2>1. /\ Late(st[m.s]) /\ m.slot = slotOf[m.s]
        /\ \A q \in 1 .. Len(timerq) : 1 < q /\ IsAdd(q) => timerq[q].s # m.s
    BY <1>2 DEF JInv, Order
  <2>2. m.s \in Sessions
    BY Zenon, <1>2 DEF TimerMsgs
  <2>3. ~InJobs(m.s)'
    BY Zenon, <1>7, <2>1
  <2>4. ~InQueue(m.s)'
    BY Zenon, <1>10, <1>11, <2>1 DEF InQueue
  <2> QED
    BY Zenon, <2>1, <2>2, <2>3, <2>4 DEF Clear
<1>14. Gone'
  BY Zenon, <1>3, <1>9, <1>13 DEF JInv, Gone
<1>15. Order'
  BY Zenon, <1>1, <1>3, <1>5, ReceivedKeeps
<1>16. Once'
  <2>1. JobsOnce'
    <3> SUFFICES ASSUME NEW j \in 1 .. Len(jobs'), NEW l \in 1 .. Len(jobs'),
                        NEW k \in 1 .. Len(jobs'[j]), NEW n \in 1 .. Len(jobs'[l]),
                        NEW t \in Sessions, jobs'[j][k] = t, jobs'[l][n] = t
                 PROVE  j = l /\ k = n
      BY DEF JobsOnce
    <3>1. j \in 1 .. Len(jobs) /\ k \in 1 .. Len(jobs[j]) /\ jobs[j][k] = t
      BY Zenon, <1>6
    <3>2. l \in 1 .. Len(jobs) /\ n \in 1 .. Len(jobs[l]) /\ jobs[l][n] = t
      BY Zenon, <1>6
    <3> QED
      BY <3>1, <3>2 DEF JInv, Once, JobsOnce
  <2>2. \A k, l \in 1 .. Len(timerq') : (IsAdd(k) /\ IsAdd(l) /\ timerq[k].s = timerq[l].s)' => k = l
    BY Zenon, <1>1, <1>3, <1>5, ReceivedKeeps
  <2> QED
    BY <1>7, <1>8, <2>1, <2>2 DEF JInv, Once
<1>17. CASE hand.pc = "retire" /\ ~hand.ack /\ m.try = handoffs
  <2>1. /\ IsMine(1) /\ m.slot \in hand.todo /\ IsNext(m.slot)
        /\ \A q \in 1 .. Len(timerq) : (1 < q => ~IsAdd(q)) /\ (IsMine(q) => 1 = q)
    BY Zenon, <1>2, <1>17 DEF JInv, Waits, IsMine
  <2>2. \A k \in 1 .. Len(timerq') : ~IsMine(k)' /\ ~IsAdd(k)'
    BY <1>10, <1>11, <2>1
  <2>3. \A x : ~InQueue(x)'
    BY Zenon, <2>2 DEF InQueue
  <2>4. \A i \in hand.todo : IsNext(i) => i = m.slot
    BY <2>1 DEF IsNext, IInv, Held
  <2>5. slotOf[slots[m.slot]] = m.slot
    BY <2>1 DEF IInv, Held, Occupied, SlotsExact
  <2>6. Clear(slots[m.slot])'
    BY <1>3, <1>7, <2>3, <2>5 DEF Clear
  <2>7. Paused'
    BY <1>3, <1>4, <1>9, <2>4, <2>6 DEF JInv, Paused, IsNext
  <2>8. Waits'
    BY Zenon, <1>4, <1>17, <2>2 DEF Waits
  <2>9. Numbered'
    BY Zenon, <1>3, <1>4, <1>10 DEF JInv, Numbered
  <2> QED
    BY <1>12, <1>14, <1>15, <1>16, <2>7, <2>8, <2>9 DEF JInv
<1>18. CASE ~(hand.pc = "retire" /\ ~hand.ack /\ m.try = handoffs)
  <2>1. hand'.pc = "retire" => (hand'.ack <=> hand.ack)
    BY Zenon, <1>4, <1>18
  <2>2. Numbered' /\ Waits'
    BY Zenon, <1>1, <1>3, <1>4, <2>1, ReceivedWaits
  <2>4. Paused'
    BY Zenon, <1>3, <1>4, <1>9, <2>1 DEF JInv, Paused, IsNext
  <2> QED
    BY Zenon, <1>12, <1>14, <1>15, <1>16, <2>2, <2>4 DEF JInv
<1> QED
  BY Zenon, <1>17, <1>18

\* The Sessions a handoff paused get their jobs again.
LEMMA AbandonJobs == ASSUME IInv, JInv, HandoffAbandons PROVE JInv'
<1> DEFINE old == Len(timerq)
           n == Len(hand.paused)
           adds == [k \in 1 .. n |-> AddJobs(hand.paused[k], slots[hand.paused[k]])]
<1>1. /\ timerq \in Seq(TimerMsgs) /\ hand.paused \in Seq(Nat) /\ old \in Nat /\ n \in Nat
      /\ UNCHANGED <<st, slotOf, slots, jobs, retired, gaveUp, handoffs>>
      /\ hand'.pc = "idle" /\ hand'.paused = <<>> /\ timerq' = timerq \o adds
  BY DEF HandoffAbandons, NoHandoff, JInv, Homes, IInv, Held, sessionVars, boundVars
<1>2. \A k \in 1 .. n : LET i == hand.paused[k] IN
         /\ i \in Nat /\ i \in 1 .. Len(slots) /\ slots[i] \in Sessions /\ st[slots[i]] = "hosted"
         /\ slotOf[slots[i]] = i /\ Clear(slots[i])
  BY <1>1 DEF IInv, Cells, Held, Occupied, SlotsExact, JInv, Paused
<1>3. \A k \in 1 .. n :
         /\ adds[k] \in TimerMsgs /\ adds[k].k = "add" /\ adds[k].slot = hand.paused[k]
         /\ adds[k].s = slots[hand.paused[k]]
  BY Zenon, <1>2 DEF AddJobs, TimerMsgs
<1>a. \A k, l \in 1 .. n : hand.paused[k] = hand.paused[l] => k = l
  BY Zenon DEF IInv, Held
<1>4. adds \in Seq(TimerMsgs) /\ Len(adds) = n
  <2>1. adds \in [1 .. n -> TimerMsgs] /\ n \in Nat
    BY <1>1, <1>3, Zenon
  <2> HIDE DEF adds, n
  <2> QED
    BY <2>1
<1> HIDE DEF adds, n, old
<1>5. \A k, l \in 1 .. n : adds[k].s = adds[l].s => k = l
  <2> TAKE k, l \in 1 .. n
  <2> HAVE adds[k].s = adds[l].s
  <2>1. slots[hand.paused[k]] = slots[hand.paused[l]]
    BY Zenon, <1>3
  <2>2. hand.paused[k] = hand.paused[l]
    BY Zenon, <1>2, <2>1
  <2> QED
    BY <1>a, <2>2, Zenon
<1>6. \A k \in 1 .. n : /\ adds[k] \in TimerMsgs /\ adds[k].k = "add" /\ adds[k].s \in Sessions
                        /\ st[adds[k].s] = "hosted" /\ adds[k].slot = slotOf[adds[k].s]
                        /\ adds[k].slot \in 1 .. Len(slots) /\ Clear(adds[k].s)
  BY <1>2, <1>3
<1>7. /\ timerq' \in Seq(TimerMsgs) /\ Len(timerq') = old + n
      /\ \A k \in 1 .. old : timerq'[k] = timerq[k]
      /\ \A k \in old + 1 .. old + n : timerq'[k] = adds[k - old]
  BY <1>1, <1>4, ConcatProperties DEF old
<1>8. /\ \A k \in 1 .. Len(timerq') :
            \/ k \in 1 .. old /\ timerq'[k] = timerq[k]
            \/ k \in old + 1 .. old + n /\ k - old \in 1 .. n /\ timerq'[k] = adds[k - old]
      /\ \A k \in 1 .. old : k \in 1 .. Len(timerq')
  <2>1. /\ \A k \in 1 .. old + n : k \in 1 .. old \/ (k \in old + 1 .. old + n /\ k - old \in 1 .. n)
        /\ \A k \in 1 .. old : k \in 1 .. old + n
    BY <1>1
  <2> QED
    BY Zenon, <1>7, <2>1
<1>9. \A x : InJobs(x)' <=> InJobs(x)
  BY Zenon, <1>1 DEF InJobs
<1>10. \A x : InQueue(x) => InQueue(x)'
  BY Zenon, <1>7, <1>8 DEF InQueue, IsAdd, old
<1>11. \A x : InQueue(x)' => InQueue(x) \/ \E k \in 1 .. n : adds[k].s = x
  BY Zenon, <1>8 DEF InQueue, IsAdd, old
<1>12. \A x : st[x] # "hosted" => (Clear(x)' <=> Clear(x))
  BY <1>6, <1>9, <1>10, <1>11 DEF Clear
<1>13. \A k \in 1 .. Len(timerq) : timerq[k].k = "remove" => timerq'[k] = timerq[k]
  BY Zenon, <1>7 DEF old
<1>14. Homes'
  <2>1. \A k \in 1 .. Len(timerq') : IsAdd(k)' =>
           timerq'[k].slot = slotOf'[timerq'[k].s] /\ timerq'[k].slot \in 1 .. Len(jobs')
    BY <1>1, <1>6, <1>8 DEF JInv, Homes, IsAdd, old
  <2> QED
    BY <1>1, <1>7, <2>1 DEF JInv, Homes
<1>15. Gone'
  BY <1>1, <1>12 DEF JInv, Gone, Early, Late
<1>16. Order'
  <2> SUFFICES ASSUME NEW p \in 1 .. Len(timerq'), timerq'[p].k = "remove", timerq'[p].s # None
               PROVE  /\ Late(st'[timerq'[p].s]) /\ timerq'[p].slot = slotOf'[timerq'[p].s]
                      /\ timerq'[p].try = 0
                      /\ \A q \in 1 .. Len(timerq') : p < q /\ IsAdd(q)' => timerq'[q].s # timerq'[p].s
    BY Zenon DEF Order
  <2>1. p \in 1 .. Len(timerq) /\ timerq'[p] = timerq[p]
    BY Zenon, <1>6, <1>8 DEF old
  <2>2. /\ Late(st[timerq[p].s]) /\ timerq[p].slot = slotOf[timerq[p].s] /\ timerq[p].try = 0
        /\ \A q \in 1 .. Len(timerq) : p < q /\ IsAdd(q) => timerq[q].s # timerq[p].s
    BY Zenon, <2>1 DEF JInv, Order
  <2>3. \A k \in 1 .. n : adds[k].s # timerq[p].s
    BY Zenon, <1>6, <2>2 DEF Late
  <2>4. \A q \in 1 .. Len(timerq') : p < q /\ IsAdd(q)' => timerq'[q].s # timerq[p].s
    BY <1>8, <2>2, <2>3 DEF IsAdd, old
  <2> QED
    BY Zenon, <1>1, <2>1, <2>2, <2>4
<1>17. Once'
  <2>1. JobsOnce'
    BY <1>1 DEF JInv, Once, JobsOnce
  <2>2. \A x \in Sessions : ~(InJobs(x)' /\ InQueue(x)')
    BY <1>6, <1>9, <1>11 DEF JInv, Once, Clear
  <2>3. \A k, l \in 1 .. Len(timerq') : (IsAdd(k) /\ IsAdd(l) /\ timerq[k].s = timerq[l].s)' => k = l
    <3> TAKE k, l \in 1 .. Len(timerq')
    <3> HAVE (IsAdd(k) /\ IsAdd(l) /\ timerq[k].s = timerq[l].s)'
    <3>1. CASE k \in 1 .. Len(timerq) /\ l \in 1 .. Len(timerq)
      BY <1>7, <3>1 DEF JInv, Once, IsAdd, old
    <3>2. \A a, b \in 1 .. Len(timerq') : a \in 1 .. Len(timerq) /\ b \notin 1 .. Len(timerq) /\ IsAdd(a)'
                                          => timerq'[a].s # timerq'[b].s
      <4> TAKE a, b \in 1 .. Len(timerq')
      <4> HAVE a \in 1 .. Len(timerq) /\ b \notin 1 .. Len(timerq) /\ IsAdd(a)'
      <4>1. InQueue(timerq'[a].s)
        BY Zenon, <1>7 DEF InQueue, IsAdd, old
      <4>2. ~InQueue(timerq'[b].s)
        BY <1>6, <1>8 DEF Clear, old
      <4> QED
        BY Zenon, <4>1, <4>2
    <3>3. CASE k \notin 1 .. Len(timerq) /\ l \notin 1 .. Len(timerq)
      <4>1. k - old = l - old
        BY <1>5, <1>8, <3>3 DEF old
      <4> QED
        BY <1>1, <1>8, <4>1
    <3> QED
      BY Zenon, <3>1, <3>2, <3>3
  <2> QED
    BY Zenon, <2>1, <2>2, <2>3 DEF Once
<1>18. Numbered' /\ Waits' /\ Paused'
  <2>1. Numbered'
    BY <1>1, <1>6, <1>8, Zenon DEF JInv, Numbered, old
  <2> QED
    BY <1>1, <2>1 DEF Waits, Paused
<1> QED
  BY Zenon, <1>14, <1>15, <1>16, <1>17, <1>18 DEF JInv
-----------------------------------------------------------------------------
LEMMA JobsInit == ASSUME Init PROVE JInv
<1>1. /\ timerq = <<>> /\ jobs = <<>> /\ slots = <<>> /\ retired = {} /\ hand = NoHandoff
      /\ handoffs = 0 /\ \A s \in Sessions : st[s] = "new"
  BY Zenon DEF Init
<1>2. hand.pc = "idle" /\ hand.paused = <<>>
  BY Zenon, <1>1 DEF NoHandoff
<1>3. Len(timerq) = 0 /\ Len(jobs) = 0 /\ Len(slots) = 0 /\ Len(hand.paused) = 0
  BY Zenon, <1>1, <1>2
<1>4. \A x : Clear(x)
  BY <1>3 DEF Clear, InJobs, InQueue
<1>5. Homes
  BY <1>1, <1>3 DEF Homes
<1>6. Gone
  BY Zenon, <1>1, <1>4 DEF Gone
<1>7. Order /\ Once
  BY <1>3, <1>4 DEF Order, Once, JobsOnce, Clear
<1>8. Numbered /\ Waits /\ Paused
  BY <1>1, <1>2, <1>3 DEF Numbered, Waits, Paused
<1> QED
  BY Zenon, <1>5, <1>6, <1>7, <1>8 DEF JInv

\* A step of a thread that touches no slot and no job.
LEMMA ThreadJobs ==
    ASSUME JInv,
           UNCHANGED <<st, slotOf, slots, timerq, jobs, retired, gaveUp, hand, handoffs>>
    PROVE  JInv'
<1>1. Homes' /\ Gone' /\ Order' /\ Once'
  BY Zenon, LivesKeep DEF JInv, Gone
<1> QED
  BY Zenon, <1>1, ThreadsKeep DEF JInv

LEMMA JobsStep == ASSUME IInv, JInv, [Next]_vars PROVE JInv'
<1>1. CASE UNCHANGED vars
  BY Zenon, <1>1, ThreadJobs DEF vars, sessionVars, boundVars
<1>2. ASSUME NEW s \in Sessions, Launch(s) PROVE JInv'
  BY Zenon, <1>2, LaunchJobs
<1>3. ASSUME NEW s \in Sessions, PtyEnds(s) \/ Panics(s) \/ IdleTick(s) PROVE JInv'
  <2>1. /\ Free /\ UNCHANGED <<slotOf, timerq, jobs, retired, gaveUp, hand, handoffs>>
        /\ EndSession(slotOf[s], "ok") \/ EndSession(slotOf[s], "own")
    BY Zenon, <1>3 DEF PtyEnds, Panics, IdleTick, boundVars
  <2> QED
    BY Zenon, <2>1, EndJobs
<1>4. ASSUME NEW s \in Sessions, KillFlag(s) \/ KillWake(s) \/ WriterFails(s) PROVE JInv'
  BY Zenon, <1>4, ThreadJobs DEF KillFlag, KillWake, WriterFails, boundVars
<1>5. ASSUME NEW s \in Sessions, TeardownClose(s) PROVE JInv'
  BY Zenon, <1>5, CloseJobs
<1>6. ASSUME NEW s \in Sessions, TeardownExit(s) PROVE JInv'
  BY Zenon, <1>6, ExitJobs
<1>7. CASE DoWake
  <2>1. /\ Free /\ UNCHANGED <<slotOf, timerq, jobs, retired, gaveUp, hand, handoffs>>
        /\ EndSession(Head(control).slot, "ok") \/ UNCHANGED <<st, outcome, slots, free>>
    BY Zenon, <1>7 DEF DoWake, Next1, boundVars
  <2> QED
    BY Zenon, <2>1, EndJobs, ThreadJobs
<1>8. CASE DoFailed
  <2>1. /\ Free /\ UNCHANGED <<slotOf, timerq, jobs, retired, gaveUp, hand, handoffs>>
        /\ \E r : EndSession(Head(control).slot, r)
    BY Zenon, <1>8 DEF DoFailed, Next1, boundVars
  <2> QED
    BY Zenon, <2>1, EndJobs
<1> QED
  BY Zenon, <1>1, <1>2, <1>3, <1>4, <1>5, <1>6, <1>7, <1>8, RegisterJobs, HandoffJobs, FlushJobs,
     RetiredJobs, ExportJobs, CommitJobs, AbandonJobs, TimerAddJobs, TimerRemoveJobs
     DEF Next, Reactor, Timer, Teardown

\* SessionTeardown::run publishes an exit "Timer jobs retired BEFORE": when it
\* got the timer's ack, no job of the Session is left or on its way, although
\* its slot was given out again long before and a handoff removes and adds jobs
\* by the same numbers.
THEOREM RetiredBeforeExit == Spec => []RetiredFirst
<1>1. Init => IInv
  BY DEF Init, IInv, Cells, Asked, Held, SlotsExact, NoHandoff, Places, Occupied
<1>2. IInv /\ JInv /\ [Next]_vars => JInv'
  BY Zenon, JobsStep
<1>3. JInv => RetiredFirst
  BY Zenon DEF JInv, Gone, Clear, InJobs, InQueue, IsAdd, RetiredFirst
<1> QED
  BY <1>1, <1>2, <1>3, JobsInit, Inductive, PTL DEF Spec

\* A Session whose handoff is abandoned gets its timer jobs again only after
\* run_timer dropped the ones it had, however many handoffs are tried and
\* however late the acks of earlier ones come.
THEOREM JobsAreOnce == Spec => []JobsOnce
<1>1. Init => IInv
  BY DEF Init, IInv, Cells, Asked, Held, SlotsExact, NoHandoff, Places, Occupied
<1>2. IInv /\ JInv /\ [Next]_vars => JInv'
  BY Zenon, JobsStep
<1>3. JInv => JobsOnce
  BY Zenon DEF JInv, Once
<1> QED
  BY <1>1, <1>2, <1>3, JobsInit, Inductive, PTL DEF Spec
=============================================================================
