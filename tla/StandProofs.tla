---------------------------- MODULE StandProofs ----------------------------
(***************************************************************************)
(* Theorems about StandHistory: its properties hold whatever the scan      *)
(* periods, speeds, card periods, latency and dead time are.               *)
(***************************************************************************)
EXTENDS StandHistory, TLAPS

Clocks   == [base : Nat, scans : Nat, dt : Nat \ {0}]
Pacers   == [realtime : BOOLEAN, speed : Nat, credit : Nat, anchor : Int, dropped : Nat]
Channels == [last : Int, value : Int]
Relays   == [bit : {0, 1}, pending : {Nothing} \cup [due : Int, bit : {0, 1}]]
Fields   == [t : Nat, physical : [Signals -> Int], chan : [Signals -> Channels],
             out : [Coils -> Relays]]
Valves   == [Coils -> BOOLEAN]
Plants   == [t : Nat, cmd : Valves, seen : Valves, pending : [Coils -> Nat], target : Valves]
Histories == [held : [Signals -> Nat], asked : Valves, stood : [Coils -> Nat], followed : Valves,
              air : BOOLEAN, debt : Int, excuses : Nat]

TypeOK ==
  /\ plan \in Plans /\ now \in Nat /\ due \in Int /\ paused \in BOOLEAN
  /\ clock \in Clocks /\ clock.dt \in plan.dts
  /\ pacer \in Pacers /\ pacer.anchor \in {Unset, now} /\ hw \in Fields /\ plant \in Plants /\ seen \in Histories

-----------------------------------------------------------------------------
(* Whole division, as the pacer and the cards use it. *)
LEMMA DivBounds ==
  ASSUME NEW a \in Int, NEW b \in Nat \ {0}
  PROVE  a \div b \in Int /\ b * (a \div b) <= a /\ a < b * (a \div b) + b
BY SMT

LEMMA Rounding ==
  ASSUME NEW x \in Int
  PROVE  /\ Converted(x) \in Int
         /\ 2 * (Converted(x) - Clamped(x)) <= Quantum
         /\ -2 * (Converted(x) - Clamped(x)) <= Quantum
<1> DEFINE c == Clamped(x)
           k == (2 * c + Quantum) \div (2 * Quantum)
<1>1. c \in Int /\ Quantum \in Nat \ {0}
  BY HwIoAssumption DEF Clamped
<1> HIDE DEF c
<1>2. 2 * Quantum \in Nat \ {0} /\ 2 * c + Quantum \in Int
  BY <1>1
<1>3. /\ k \in Int
      /\ (2 * Quantum) * k <= 2 * c + Quantum
      /\ 2 * c + Quantum < (2 * Quantum) * k + 2 * Quantum
  BY <1>2, DivBounds
<1> HIDE DEF k
<1>4. (2 * Quantum) * k = 2 * (k * Quantum) /\ k * Quantum \in Int
  BY <1>1, <1>3
<1>5. Converted(x) = k * Quantum
  BY DEF Converted, k, c
<1> QED
  BY <1>1, <1>3, <1>4, <1>5 DEF c

(* The cards: what a step of them gives. *)
LEMMA FieldStep ==
  ASSUME NEW h \in Fields, NEW dt \in Nat
  PROVE  LET g == HwStep(h, dt)
         IN  /\ g \in Fields
             /\ g.t = h.t + dt /\ g.physical = h.physical
             /\ \A s \in Signals : g.chan[s] = Refreshed(h.chan[s], h.physical[s], h.t + dt, Period[s])
             /\ \A c \in Coils : g.out[c] = Switched(h.out[c], h.t + dt)
<1>1. \A s \in Signals : Refreshed(h.chan[s], h.physical[s], h.t + dt, Period[s]) \in Channels
  BY Rounding DEF Refreshed, Fields, Channels
<1>2. \A c \in Coils : Switched(h.out[c], h.t + dt) \in Relays
  <2> TAKE c \in Coils
  <2>1. h.out[c] \in Relays  BY DEF Fields
  <2>2. CASE h.out[c].pending = Nothing \/ h.t + dt < h.out[c].pending.due
    BY <2>1, <2>2 DEF Switched
  <2>3. CASE h.out[c].pending # Nothing /\ ~(h.t + dt < h.out[c].pending.due)
    BY <2>1, <2>3 DEF Switched, Relays, Nothing
  <2> QED  BY <2>2, <2>3
<1>3. h.t + dt \in Nat /\ h.physical \in [Signals -> Int]
  BY DEF Fields
<1> QED
  BY <1>1, <1>2, <1>3 DEF HwStep, Fields

(* A coil written in a scan has switched at its end: the PLC's image arrives. *)
LEMMA Delivered ==
  ASSUME NEW h \in Fields, NEW dt \in Nat, Latency <= dt, NEW image \in Valves
  PROVE  LET g == HwStep(WriteOutputs(h, image), dt)
         IN  /\ g \in Fields
             /\ g.t = h.t + dt /\ g.physical = h.physical
             /\ \A s \in Signals : g.chan[s] = Refreshed(h.chan[s], h.physical[s], h.t + dt, Period[s])
             /\ ValveStates(g) = image
<1> DEFINE w == WriteOutputs(h, image)
           g == HwStep(w, dt)
<1> DEFINE out == [c \in Coils |-> [bit     |-> h.out[c].bit,
                                     pending |-> [due |-> h.t + Latency, bit |-> PolarityBit(c, image[c])]]]
<1>0. /\ w.out = out /\ w.t = h.t /\ w.physical = h.physical /\ w.chan = h.chan
      /\ out \in [Coils -> Relays] => w \in Fields
  BY DEF WriteOutputs, Fields
<1>1. w \in Fields /\ w.t = h.t /\ w.physical = h.physical /\ w.chan = h.chan
  <2>1. \A c \in Coils : h.out[c].bit \in {0, 1} /\ PolarityBit(c, image[c]) \in {0, 1}
    BY DEF Fields, Relays, PolarityBit
  <2>2. h.t + Latency \in Int
    BY HwIoAssumption DEF Fields
  <2>3. out \in [Coils -> Relays]
    BY <2>1, <2>2 DEF Relays
  <2> QED  BY <1>0, <2>3
<1>2. \A c \in Coils : /\ w.out[c].pending.due = h.t + Latency
                         /\ w.out[c].pending.bit = PolarityBit(c, image[c])
  BY <1>0
<1> HIDE DEF w, out
<1>3. \A c \in Coils : g.out[c].bit = PolarityBit(c, image[c])
  <2> TAKE c \in Coils
  <2>1. w.out[c].pending # Nothing
    <3>1. w.out[c].pending.bit # 2  BY <1>2 DEF PolarityBit
    <3> QED  BY <3>1 DEF Nothing
  <2>2. ~(h.t + dt < w.out[c].pending.due)
    <3>1. h.t \in Int /\ Latency \in Int  BY HwIoAssumption DEF Fields
    <3> QED  BY <1>2, <3>1
  <2>3. g.out[c] = Switched(w.out[c], h.t + dt)
    BY <1>1, FieldStep
  <2>4. Switched(w.out[c], h.t + dt) = [bit |-> w.out[c].pending.bit, pending |-> Nothing]
    BY <2>1, <2>2 DEF Switched
  <2> QED  BY <1>2, <2>3, <2>4
<1>4. ValveStates(g) = image
  <2>1. \A c \in Coils : BitToOpen(c, g.out[c].bit) = image[c]
    BY <1>3 DEF BitToOpen, PolarityBit, Valves
  <2> QED  BY <2>1 DEF ValveStates, Valves
<1>5. /\ g \in Fields
      /\ g.t = h.t + dt /\ g.physical = h.physical
      /\ \A s \in Signals : g.chan[s] = Refreshed(h.chan[s], h.physical[s], h.t + dt, Period[s])
  BY <1>1, FieldStep
<1> QED
  BY <1>4, <1>5 DEF w

-----------------------------------------------------------------------------
(* The cards after a cold start have sampled what they were given. *)
LEMMA ColdField ==
  ASSUME NEW sensors \in [Signals -> Int]
  PROVE  /\ Primed(sensors) \in Fields
         /\ Primed(sensors).t = 0 /\ Primed(sensors).physical = sensors
         /\ \A s \in Signals : Primed(sensors).chan[s] = [last |-> 0, value |-> Converted(sensors[s])]
<1> DEFINE h == SetPhysical(NewHwIo, sensors)
<1>1. /\ h \in Fields /\ h.t = 0 /\ h.physical = sensors
      /\ \A s \in Signals : h.chan[s] = [last |-> Never, value |-> 0]
  BY DEF SetPhysical, NewHwIo, Fields, Channels, Relays, Never
<1> HIDE DEF h
<1>2. \A s \in Signals : Refreshed(h.chan[s], h.physical[s], h.t + 0, Period[s])
                            = [last |-> 0, value |-> Converted(sensors[s])]
  BY <1>1 DEF Refreshed
<1> QED
  BY <1>1, <1>2, FieldStep DEF Primed, h

LEMMA ColdPlant == NewPlant \in Plants /\ SafeOutputs \in Valves
BY DEF NewPlant, Plants, Valves, SafeOutputs

LEMMA PlantMoves ==
  ASSUME NEW p \in Plants, NEW dt \in Nat, NEW valves \in Valves, NEW air \in BOOLEAN
  PROVE  LET q == PlantStep(p, dt, valves, air)
         IN  /\ q \in Plants /\ q.t = p.t + dt
             /\ \A c \in Coils :
                  /\ q.seen[c] = Seen(p, c, valves[c], dt).seen
                  /\ q.pending[c] = Seen(p, c, valves[c], dt).pending
                  /\ q.target[c] = Heads(c, valves[c], q.seen[c], air)
<1>1. \A c \in Coils : Seen(p, c, valves[c], dt).seen \in BOOLEAN /\ Seen(p, c, valves[c], dt).pending \in Nat
  BY DEF Seen, Plants, Valves
<1>2. p.t + dt \in Nat
  BY DEF Plants
<1> DEFINE q == PlantStep(p, dt, valves, air)
<1>3. \A c \in Coils : /\ q.seen[c] = Seen(p, c, valves[c], dt).seen
                         /\ q.pending[c] = Seen(p, c, valves[c], dt).pending
                         /\ q.target[c] = Heads(c, valves[c], q.seen[c], air)
  BY DEF PlantStep
<1>4. q.seen \in Valves /\ q.pending \in [Coils -> Nat]
  BY <1>1 DEF PlantStep, Valves
<1>5. q.target = [c \in Coils |-> Heads(c, valves[c], q.seen[c], air)]
  BY DEF PlantStep
<1>6. \A c \in Coils : Heads(c, valves[c], q.seen[c], air) \in BOOLEAN
  <2> HIDE DEF q
  <2> TAKE c \in Coils
  <2>1. valves[c] \in BOOLEAN /\ q.seen[c] \in BOOLEAN /\ (c \in PlantOpen) \in BOOLEAN
    BY <1>4 DEF Valves
  <2> QED  BY <2>1, Zenon DEF Heads
<1>7. q = [t |-> p.t + dt, cmd |-> valves, seen |-> q.seen, pending |-> q.pending, target |-> q.target]
  BY DEF PlantStep
<1> HIDE DEF q
<1>8. q.target \in Valves
  BY <1>5, <1>6, Zenon DEF Valves
<1>9. q \in Plants /\ q.t = p.t + dt
  BY <1>2, <1>4, <1>7, <1>8 DEF Plants
<1> QED
  BY <1>3, <1>9 DEF q

(* What the pacer hands out, against the time it is owed. *)
Dropped(p, q) == q.dropped - p.dropped
Owed(p, n, q, t, dt) == (p.credit + (t - p.anchor) * p.speed) - (n + Dropped(p, q)) * dt

Accounts(p, halt, t, dt, n, q) ==
  /\ n \in Int /\ q \in Pacers /\ q.anchor = t
  /\ Dropped(p, q) >= 0
  /\ halt => q.credit = 0 /\ Dropped(p, q) = 0
  /\ ~halt /\ (~p.realtime \/ p.anchor = Unset) => q.credit = p.credit /\ Dropped(p, q) = 0
  /\ ~halt /\ p.realtime /\ p.anchor # Unset =>
       /\ Dropped(p, q) = 0 => q.credit = Owed(p, n, q, t, dt)
       /\ Dropped(p, q) > 0 => q.credit = 0 /\ Owed(p, n, q, t, dt) >= 0 /\ Owed(p, n, q, t, dt) < dt
       /\ q.credit < dt \/ q.credit = p.credit

LEMMA PacerKeepsAccount ==
  ASSUME NEW p \in Pacers, NEW halt \in BOOLEAN, NEW t \in Nat, p.anchor <= t, NEW dt \in Nat \ {0}
  PROVE  LET d == DueScans(p, halt, t, dt)
         IN  Accounts(p, halt, t, dt, d.n, d.pacer)
<1>0. PICK d : d = DueScans(p, halt, t, dt)
  OBVIOUS
<1>1. t \in Int /\ 0 \in Nat /\ p.dropped \in Nat /\ p.credit \in Nat /\ MaxBatch \in Nat /\ Batch \in Int
  BY PacerAssumption DEF Pacers
<1>2. ASSUME halt PROVE Accounts(p, halt, t, dt, d.n, d.pacer)
  <2>1. d = [n |-> 0, pacer |-> [p EXCEPT !.anchor = t, !.credit = 0]]
    BY <1>0, <1>2 DEF DueScans
  <2>2. d.n = 0 /\ d.pacer \in Pacers /\ d.pacer.anchor = t /\ d.pacer.credit = 0 /\ d.pacer.dropped = p.dropped
    BY <1>1, <2>1 DEF Pacers
  <2>3. Dropped(p, d.pacer) = 0 /\ Dropped(p, d.pacer) >= 0 /\ d.n \in Int
    BY <1>1, <2>2 DEF Dropped
  <2> QED  BY <1>2, <2>2, <2>3, Zenon DEF Accounts
<1>3. ASSUME ~halt /\ (~p.realtime \/ p.anchor = Unset) PROVE Accounts(p, halt, t, dt, d.n, d.pacer)
  <2>1. \E n \in {0, Batch} : d = [n |-> n, pacer |-> [p EXCEPT !.anchor = t]]
    BY <1>0, <1>3 DEF DueScans, Pacers
  <2>2. /\ d.n \in Int /\ d.pacer \in Pacers /\ d.pacer.anchor = t /\ d.pacer.credit = p.credit
        /\ d.pacer.dropped = p.dropped
    BY <1>1, <2>1 DEF Pacers
  <2>3. Dropped(p, d.pacer) = 0
    BY <1>1, <2>2 DEF Dropped
  <2> QED  BY <1>1, <1>3, <2>2, <2>3 DEF Accounts
<1>4. ASSUME ~halt /\ p.realtime /\ p.anchor # Unset PROVE Accounts(p, halt, t, dt, d.n, d.pacer)
  <2> DEFINE e == t - p.anchor
             credit == p.credit + e * p.speed
             n == credit \div dt
             drop == Dropped(p, d.pacer)
  <2>1. d = PacedScans(p, t, dt)
    BY <1>0, <1>4 DEF DueScans
  <2>2. e \in Nat /\ e * p.speed \in Nat /\ credit \in Nat
    BY DEF Pacers
  <2>3. n \in Int /\ dt * n <= credit /\ credit < dt * n + dt /\ dt * n = n * dt /\ n * dt \in Int
    BY <2>2, DivBounds
  <2>4. /\ e = 0 => d = [n |-> 0, pacer |-> [p EXCEPT !.anchor = t]]
        /\ e > 0 /\ n > MaxBatch =>
             d = [n |-> MaxBatch,
                  pacer |-> [p EXCEPT !.anchor = t, !.credit = 0, !.dropped = @ + n - MaxBatch]]
        /\ e > 0 /\ ~(n > MaxBatch) =>
             d = [n |-> n, pacer |-> [p EXCEPT !.anchor = t, !.credit = credit - n * dt]]
    BY <2>1, <2>2 DEF PacedScans, Pacers
  <2>5. e = 0 => credit = p.credit
    BY DEF Pacers
  <2> HIDE DEF n, credit, e
  <2>6. CASE e = 0
    <3>1. /\ d.n = 0 /\ d.pacer.credit = p.credit /\ d.pacer.anchor = t
          /\ d.pacer.dropped = p.dropped /\ d.pacer \in Pacers
      BY <1>1, <2>4, <2>6 DEF Pacers
    <3>2. drop = 0 /\ (d.n + drop) * dt = 0
      BY <1>1, <3>1 DEF Dropped
    <3>3. d.pacer.credit = credit - (d.n + drop) * dt
      BY <1>1, <2>5, <2>6, <3>1, <3>2
    <3>4. Owed(p, d.n, d.pacer, t, dt) = credit - (d.n + drop) * dt
      BY Zenon DEF Owed, credit, e, drop
    <3> HIDE DEF drop
    <3> QED  BY <1>1, <1>4, <3>1, <3>2, <3>3, <3>4 DEF Accounts, drop
  <2>7. CASE e > 0 /\ n > MaxBatch
    <3>1. d = [n |-> MaxBatch,
               pacer |-> [p EXCEPT !.anchor = t, !.credit = 0, !.dropped = @ + n - MaxBatch]]
      BY <2>4, <2>7
    <3>2. /\ d.n = MaxBatch /\ d.pacer.credit = 0 /\ d.pacer.anchor = t
          /\ d.pacer.dropped = p.dropped + n - MaxBatch
          /\ d.pacer \in Pacers
      <4>1. PICK m \in Nat : m = p.dropped + n - MaxBatch  BY <1>1, <2>3, <2>7
      <4>2. d = [n |-> MaxBatch, pacer |-> [p EXCEPT !.anchor = t, !.credit = 0, !.dropped = m]]
        BY <3>1, <4>1
      <4> QED  BY <1>1, <4>1, <4>2 DEF Pacers
    <3>4. drop = n - MaxBatch /\ drop > 0 /\ d.n + drop = n
      BY <1>1, <3>2, <2>3, <2>7 DEF Dropped
    <3>5. (d.n + drop) * dt = n * dt
      BY <3>4
    <3>7. Owed(p, d.n, d.pacer, t, dt) = credit - (d.n + drop) * dt
      BY Zenon DEF Owed, credit, e, drop
    <3> HIDE DEF drop
    <3>6. credit - (d.n + drop) * dt >= 0 /\ credit - (d.n + drop) * dt < dt
      BY <3>5, <2>2, <2>3
    <3>8. /\ d.n \in Int /\ Dropped(p, d.pacer) >= 0 /\ ~(Dropped(p, d.pacer) = 0)
          /\ d.pacer.credit < dt /\ Dropped(p, d.pacer) > 0
      BY <1>1, <2>3, <3>2, <3>4 DEF drop
    <3>9. Owed(p, d.n, d.pacer, t, dt) >= 0 /\ Owed(p, d.n, d.pacer, t, dt) < dt
      BY <3>6, <3>7
    <3> QED  BY <1>4, <3>2, <3>8, <3>9, Zenon DEF Accounts
  <2>8. CASE e > 0 /\ ~(n > MaxBatch)
    <3>1. d = [n |-> n, pacer |-> [p EXCEPT !.anchor = t, !.credit = credit - n * dt]]
      BY <2>4, <2>8
    <3>2. /\ d.n = n /\ d.pacer.credit = credit - n * dt /\ d.pacer.anchor = t
          /\ d.pacer.dropped = p.dropped /\ d.pacer \in Pacers /\ credit - n * dt < dt
      <4>1. PICK k \in Nat : k = credit - n * dt /\ k < dt  BY <2>2, <2>3
      <4>2. d = [n |-> n, pacer |-> [p EXCEPT !.anchor = t, !.credit = k]]
        BY <3>1, <4>1
      <4> QED  BY <1>1, <4>1, <4>2 DEF Pacers
    <3>5. drop = 0 /\ d.n + drop = n
      BY <1>1, <2>3, <3>2 DEF Dropped
    <3>6. (d.n + drop) * dt = n * dt
      BY <3>5
    <3>8. Owed(p, d.n, d.pacer, t, dt) = credit - (d.n + drop) * dt
      BY Zenon DEF Owed, credit, e, drop
    <3> HIDE DEF drop
    <3>7. d.pacer.credit = credit - (d.n + drop) * dt
      BY <3>2, <3>6
    <3> QED  BY <1>1, <1>4, <2>3, <3>2, <3>5, <3>7, <3>8 DEF Accounts, drop
  <2> QED  BY <2>2, <2>6, <2>7, <2>8
<1> QED
  BY <1>0, <1>2, <1>3, <1>4, Zenon

-----------------------------------------------------------------------------
(* A round of the server, in the terms of its time account. *)
LEMMA Ticked ==
  ASSUME TypeOK, HTick
  PROVE  /\ now' \in Nat /\ now <= now'
         /\ Accounts(pacer, paused, now', clock.dt, due', pacer')
<1>1. PICK later \in plan.elapses :
        LET d == DueScans(pacer, paused, now + later, clock.dt)
        IN  now' = now + later /\ due' = d.n /\ pacer' = d.pacer
  BY DEF HTick, Tick
<1>2. later \in Nat /\ now \in Nat
  BY StandAssumption DEF TypeOK
<1>3. now' \in Nat /\ now <= now'
  BY <1>1, <1>2
<1>4. pacer \in Pacers /\ paused \in BOOLEAN /\ clock.dt \in Nat \ {0} /\ pacer.anchor <= now'
  BY <1>2, <1>3 DEF TypeOK, Clocks, Pacers, Unset
<1> DEFINE d == DueScans(pacer, paused, now', clock.dt)
<1>5. Accounts(pacer, paused, now', clock.dt, d.n, d.pacer)
  BY <1>3, <1>4, PacerKeepsAccount
<1>6. due' = d.n /\ pacer' = d.pacer
  BY <1>1
<1> QED
  BY <1>3, <1>5, <1>6

LEMMA TypeInit == HInit => TypeOK
<1> SUFFICES ASSUME HInit PROVE TypeOK
  OBVIOUS
<1>1. plan \in Plans /\ now \in Nat /\ due \in Int /\ paused \in BOOLEAN
  <2>1. plan \in Plans /\ now = 0 /\ due = 0 /\ paused \in BOOLEAN
    BY Zenon DEF HInit, Init
  <2> QED  BY <2>1
<1>2. clock \in Clocks /\ clock.dt \in plan.dts
  BY <1>1, StandAssumption DEF HInit, Init, Clocks
<1>3. pacer \in Pacers /\ pacer.anchor \in {Unset, now}
  BY <1>1, StandAssumption DEF HInit, Init, Pacers, NewPacer, Unset
<1>4. hw \in Fields
  BY <1>1, StandAssumption, ColdField DEF HInit, Init
<1>5. plant \in Plants
  BY ColdPlant DEF HInit, Init
<1>6. seen \in Histories
  BY HistoryAssumption, ColdPlant DEF HInit, AtRest, Histories
<1> QED
  BY <1>1, <1>2, <1>3, <1>4, <1>5, <1>6 DEF TypeOK

(* What a scan does to the readings and the valves. *)
Stood(image) == [c \in Coils |-> clock.dt + (IF image[c] = seen.asked[c] THEN seen.stood[c] ELSE 0)]

LEMMA Scanned ==
  ASSUME TypeOK, NEW image \in plan.images, NEW air \in plan.airs, NEW sensors \in plan.sensors,
         HStep(image, air, sensors)
  PROVE  /\ image \in Valves /\ air \in BOOLEAN /\ sensors \in [Signals -> Int]
         /\ hw' \in Fields /\ hw'.t = hw.t + clock.dt /\ hw'.physical = sensors
         /\ \A s \in Signals :
              hw'.chan[s] = Refreshed(hw.chan[s], hw.physical[s], hw.t + clock.dt, Period[s])
         /\ plant' = PlantStep(plant, clock.dt, image, air)
         /\ plant' \in Plants /\ plant'.t = plant.t + clock.dt
         /\ \A c \in Coils : /\ plant'.seen[c] = Seen(plant, c, image[c], clock.dt).seen
                              /\ plant'.pending[c] = Seen(plant, c, image[c], clock.dt).pending
                              /\ plant'.target[c] = Heads(c, image[c], plant'.seen[c], air)
<1>1. image \in Valves /\ air \in BOOLEAN /\ sensors \in [Signals -> Int]
  BY StandAssumption DEF TypeOK, Valves
<1>2. clock.dt \in Nat /\ Latency <= clock.dt /\ hw \in Fields /\ plant \in Plants
  BY OutputAssumption DEF TypeOK, Clocks
<1> DEFINE field == HwStep(WriteOutputs(hw, image), clock.dt)
<1>3. hw' = SetPhysical(field, sensors) /\ plant' = PlantStep(plant, clock.dt, ValveStates(field), air)
  BY DEF HStep, Step
<1>4. /\ field \in Fields /\ field.t = hw.t + clock.dt
      /\ \A s \in Signals :
           field.chan[s] = Refreshed(hw.chan[s], hw.physical[s], hw.t + clock.dt, Period[s])
      /\ ValveStates(field) = image
  BY <1>1, <1>2, Delivered
<1> HIDE DEF field
<1>5. /\ hw' \in Fields /\ hw'.t = field.t /\ hw'.physical = sensors /\ hw'.chan = field.chan
  BY <1>1, <1>3, <1>4 DEF SetPhysical, Fields
<1>6. plant' = PlantStep(plant, clock.dt, image, air)
  BY <1>3, <1>4
<1>7. /\ plant' \in Plants /\ plant'.t = plant.t + clock.dt
      /\ \A c \in Coils : /\ plant'.seen[c] = Seen(plant, c, image[c], clock.dt).seen
                           /\ plant'.pending[c] = Seen(plant, c, image[c], clock.dt).pending
                           /\ plant'.target[c] = Heads(c, image[c], plant'.seen[c], air)
  BY <1>1, <1>2, <1>6, PlantMoves
<1> QED
  BY <1>1, <1>4, <1>5, <1>6, <1>7

LEMMA ScannedHistory ==
  ASSUME TypeOK, NEW image \in plan.images, NEW air \in plan.airs, NEW sensors \in plan.sensors,
         HStep(image, air, sensors)
  PROVE  /\ seen' \in Histories
         /\ seen'.asked = image /\ seen'.air = air
         /\ seen'.debt = seen.debt /\ seen'.excuses = seen.excuses
         /\ \A s \in Signals :
              seen'.held[s] = IF sensors[s] = hw.physical[s] THEN Capped(seen.held[s] + clock.dt) ELSE 0
         /\ Stood(image) \in [Coils -> Nat]
         /\ \A c \in Coils :
              /\ seen'.stood[c] = Capped(Stood(image)[c])
              /\ seen'.followed[c] = IF Stood(image)[c] >= DeadTime THEN image[c] ELSE seen.followed[c]
<1>1. image \in Valves /\ air \in BOOLEAN /\ clock.dt \in Nat /\ seen \in Histories
  BY Scanned DEF TypeOK, Clocks
<1> DEFINE held == [s \in Signals |-> IF sensors[s] = hw.physical[s] THEN Capped(seen.held[s] + clock.dt) ELSE 0]
           stood == [c \in Coils |-> Capped(Stood(image)[c])]
           followed == [c \in Coils |-> IF Stood(image)[c] >= DeadTime THEN image[c] ELSE seen.followed[c]]
<1>2. seen' = [held |-> held, asked |-> image, stood |-> stood, followed |-> followed, air |-> air,
               debt |-> seen.debt, excuses |-> seen.excuses]
  BY <1>1 DEF HStep, Stood, Histories
<1>3. Stood(image) \in [Coils -> Nat]
  BY <1>1 DEF Stood, Histories
<1>4. held \in [Signals -> Nat]
  BY <1>1, HistoryAssumption DEF Capped, Histories
<1>5. stood \in [Coils -> Nat]
  BY <1>3, HistoryAssumption DEF Capped
<1>6. followed \in Valves
  BY <1>1 DEF Valves, Histories
<1>7. seen.debt \in Int /\ seen.excuses \in Nat
  BY <1>1 DEF Histories
<1>8. seen' \in Histories
  <2> HIDE DEF held, stood, followed
  <2> QED  BY <1>1, <1>2, <1>4, <1>5, <1>6, <1>7 DEF Histories
<1> QED
  BY <1>2, <1>3, <1>8

(* What a request may change: the pacer and the division of the clock's time. *)
LEMMA Requested ==
  ASSUME TypeOK, HRequest
  PROVE  /\ plan' = plan /\ now' = now /\ due' = due /\ hw' = hw /\ plant' = plant
         /\ paused' \in BOOLEAN
         /\ clock' \in Clocks /\ clock'.dt \in plan.dts /\ SimTime' = SimTime
         /\ pacer' \in Pacers /\ pacer'.anchor \in {Unset, now}
         /\ pacer'.credit = pacer.credit \/ (pacer'.credit = 0 /\ pacer'.anchor = Unset)
<1>1. /\ pacer \in Pacers /\ now \in Nat /\ pacer.anchor \in {Unset, now} /\ clock \in Clocks
      /\ clock.dt \in plan.dts /\ paused \in BOOLEAN /\ plan.dts \subseteq Nat \ {0} /\ plan.speeds \subseteq Nat
  BY StandAssumption DEF TypeOK
<1>2. SimTime \in Nat
  <2>1. clock.base \in Nat /\ clock.scans \in Nat /\ clock.dt \in Nat
    BY <1>1 DEF Clocks
  <2>2. clock.scans * clock.dt \in Nat
    BY <2>1
  <2> QED  BY <2>1, <2>2 DEF SimTime
<1>3. ASSUME NEW on \in BOOLEAN, Pause(on)
      PROVE  /\ UNCHANGED <<plan, now, due, hw, plant, clock, pacer>> /\ paused' \in BOOLEAN
  BY <1>3 DEF Pause
<1>4. ASSUME NEW on \in BOOLEAN, SetRealtime(on)
      PROVE  /\ UNCHANGED <<plan, now, due, hw, plant, clock, paused>>
             /\ pacer' \in Pacers /\ pacer'.anchor = Unset /\ pacer'.credit = 0
  <2>1. pacer' = [[pacer EXCEPT !.realtime = on] EXCEPT !.anchor = Unset, !.credit = 0]
    BY <1>4 DEF SetRealtime, Restarted
  <2>2. pacer' = [realtime |-> on, speed |-> pacer.speed, credit |-> 0, anchor |-> Unset,
                  dropped |-> pacer.dropped]
    BY <1>1, <2>1 DEF Pacers
  <2>3. pacer' \in Pacers /\ pacer'.anchor = Unset /\ pacer'.credit = 0
    BY <1>1, <2>2 DEF Pacers, Unset
  <2> QED  BY <1>4, <2>3 DEF SetRealtime
<1>5. ASSUME NEW x \in plan.speeds, SetSpeed(x)
      PROVE  /\ UNCHANGED <<plan, now, due, hw, plant, clock, paused>>
             /\ pacer' \in Pacers /\ pacer'.anchor = pacer.anchor /\ pacer'.credit = pacer.credit
  BY <1>1, <1>5 DEF SetSpeed, Pacers
<1>6. ASSUME NEW dt \in plan.dts, SetScanHz(dt)
      PROVE  /\ UNCHANGED <<plan, now, due, hw, plant, pacer, paused>>
             /\ clock' \in Clocks /\ clock'.dt \in plan.dts /\ SimTime' = SimTime
  <2>1. clock' = [base |-> SimTime, scans |-> 0, dt |-> dt] /\ dt \in Nat \ {0}
    BY <1>1, <1>6 DEF SetScanHz
  <2>2. 0 * dt = 0
    BY <2>1
  <2>3. SimTime' = clock'.base + clock'.scans * clock'.dt
    BY DEF SimTime
  <2>4. SimTime' = SimTime
    BY <1>2, <2>1, <2>2, <2>3
  <2>5. clock' \in Clocks /\ clock'.dt \in plan.dts
    BY <1>2, <2>1 DEF Clocks
  <2> QED  BY <1>6, <2>4, <2>5 DEF SetScanHz
<1>7. Unset \in {Unset, now}
  OBVIOUS
<1>8. clock' = clock => SimTime' = SimTime
  BY DEF SimTime
<1>9. CASE \E on \in BOOLEAN : Pause(on)
  <2>1. PICK on \in BOOLEAN : Pause(on)  BY <1>9
  <2> QED  BY <1>1, <1>3, <1>8, <2>1
<1>10. CASE \E on \in BOOLEAN : SetRealtime(on)
  <2>1. PICK on \in BOOLEAN : SetRealtime(on)  BY <1>10
  <2> QED  BY <1>1, <1>4, <1>7, <1>8, <2>1
<1>11. CASE \E x \in plan.speeds : SetSpeed(x)
  <2>1. PICK x \in plan.speeds : SetSpeed(x)  BY <1>11
  <2> QED  BY <1>1, <1>5, <1>8, <2>1
<1>12. CASE \E dt \in plan.dts : SetScanHz(dt)
  <2>1. PICK dt \in plan.dts : SetScanHz(dt)  BY <1>12
  <2> QED  BY <1>1, <1>6, <2>1
<1> QED
  BY <1>9, <1>10, <1>11, <1>12 DEF HRequest, Request

LEMMA TypeNext == TypeOK /\ [HNext]_<<vars, seen>> => TypeOK'
<1> SUFFICES ASSUME TypeOK, [HNext]_<<vars, seen>> PROVE TypeOK'
  OBVIOUS
<1>0. /\ plan \in Plans /\ now \in Nat /\ due \in Int /\ paused \in BOOLEAN
      /\ clock \in Clocks /\ clock.dt \in plan.dts
      /\ pacer \in Pacers /\ pacer.anchor \in {Unset, now} /\ hw \in Fields /\ plant \in Plants /\ seen \in Histories
  BY DEF TypeOK
<1>1. CASE HTick
  <2>1. /\ now' \in Nat /\ now <= now' /\ due' \in Int /\ pacer' \in Pacers /\ pacer'.anchor = now'
        /\ Dropped(pacer, pacer') \in Nat
    <3>1. now' \in Nat /\ now <= now' /\ Accounts(pacer, paused, now', clock.dt, due', pacer')
      BY <1>1, Ticked
    <3>2. due' \in Int /\ pacer' \in Pacers /\ pacer'.anchor = now' /\ Dropped(pacer, pacer') >= 0
      BY <3>1, Zenon DEF Accounts
    <3>3. Dropped(pacer, pacer') \in Int
      BY <1>0, <3>2 DEF Dropped, Pacers
    <3> QED  BY <3>1, <3>2, <3>3
  <2>2. UNCHANGED <<plan, paused, clock, hw, plant>>
    BY <1>1 DEF HTick, Tick
  <2>3. (now' - now) * pacer.speed - (due' + Dropped(pacer, pacer')) * clock.dt \in Int
    <3>1. /\ now' - now \in Int /\ pacer.speed \in Int /\ due' + Dropped(pacer, pacer') \in Int /\ clock.dt \in Int
      BY <1>0, <2>1 DEF Pacers, Clocks
    <3> QED  BY <3>1
  <2>4. \E x \in Int, y \in Nat : seen' = [seen EXCEPT !.debt = x, !.excuses = y]
    <3>1. PICK x : x = IF pacer.realtime /\ ~paused /\ pacer.anchor # Unset
                       THEN seen.debt + (now' - now) * pacer.speed - (due' + Dropped(pacer, pacer')) * clock.dt
                       ELSE seen.debt
      OBVIOUS
    <3>2. PICK y : y = IF Dropped(pacer, pacer') > 0 \/ (paused /\ pacer.credit > 0)
                       THEN seen.excuses + 1 ELSE seen.excuses
      OBVIOUS
    <3>3. x \in Int /\ y \in Nat
      BY <1>0, <2>3, <3>1, <3>2 DEF Histories
    <3>4. seen' = [seen EXCEPT !.debt = x, !.excuses = y]
      BY <1>0, <1>1, <3>1, <3>2 DEF HTick, Dropped, Histories
    <3> QED  BY <3>3, <3>4
  <2>5. seen' \in Histories
    BY <1>0, <2>4 DEF Histories
  <2> QED  BY <1>0, <2>1, <2>2, <2>5 DEF TypeOK
<1>2. CASE \E image \in plan.images, air \in plan.airs, sensors \in plan.sensors : HStep(image, air, sensors)
  <2>1. PICK image \in plan.images, air \in plan.airs, sensors \in plan.sensors : HStep(image, air, sensors)
    BY <1>2
  <2>2. hw' \in Fields /\ plant' \in Plants /\ seen' \in Histories
    BY <2>1, Scanned, ScannedHistory
  <2>3. /\ plan' = plan /\ now' = now /\ pacer' = pacer /\ paused' = paused
        /\ due' = due - 1 /\ clock' = [clock EXCEPT !.scans = @ + 1]
    BY <2>1 DEF HStep, Step
  <2>4. due' \in Int /\ clock' \in Clocks /\ clock'.dt = clock.dt
    BY <1>0, <2>3 DEF Clocks
  <2> QED  BY <1>0, <2>2, <2>3, <2>4 DEF TypeOK
<1>3. CASE HRequest
  <2>1. \E y \in Nat : seen' = [seen EXCEPT !.excuses = y]
    <3>1. PICK y : y = IF pacer.credit > 0 /\ pacer'.anchor = Unset THEN seen.excuses + 1 ELSE seen.excuses
      OBVIOUS
    <3>2. y \in Nat
      BY <1>0, <3>1 DEF Histories
    <3>3. seen' = [seen EXCEPT !.excuses = y]
      BY <1>0, <1>3, <3>1 DEF HRequest, Histories
    <3> QED  BY <3>2, <3>3
  <2>2. seen' \in Histories
    BY <1>0, <2>1 DEF Histories
  <2> QED  BY <1>0, <1>3, <2>2, Requested DEF TypeOK
<1>4. CASE \E sensors \in plan.sensors : HReset(sensors)
  <2>1. PICK sensors \in plan.sensors : HReset(sensors)
    BY <1>4
  <2>2. /\ plan' = plan /\ now' = now /\ pacer' = pacer /\ paused' = paused /\ due' = due
        /\ clock' = [clock EXCEPT !.base = 0, !.scans = 0]
        /\ plant' = NewPlant /\ hw' = Primed(sensors) /\ seen' = AtRest(seen.debt, seen.excuses)
    BY <2>1 DEF HReset, ResetPlant
  <2>3. clock' \in Clocks /\ clock'.dt = clock.dt
    BY <1>0, <2>2 DEF Clocks
  <2>4. sensors \in [Signals -> Int]
    BY <1>0, StandAssumption
  <2>5. hw' \in Fields /\ plant' \in Plants
    BY <2>2, <2>4, ColdField, ColdPlant
  <2>6. seen' \in Histories
    BY <1>0, <2>2, HistoryAssumption, ColdPlant DEF AtRest, Histories
  <2> QED  BY <1>0, <2>2, <2>3, <2>5, <2>6 DEF TypeOK
<1>5. CASE UNCHANGED <<vars, seen>>
  BY <1>5 DEF TypeOK, vars
<1> QED
  BY <1>1, <1>2, <1>3, <1>4, <1>5 DEF HNext

(* Every variable keeps its type, and a pacer with an anchor has seen the
   present (Pacer, HwIo and Simulator attributes). *)
THEOREM TypeCorrect == HSpec => []TypeOK
BY TypeInit, TypeNext, PTL DEF HSpec

-----------------------------------------------------------------------------
(* The Simulator, its cards and the plant agree on the time after every scan,
   through changes of the scan rate and resets (t, set_scan_hz, reset_plant). *)
THEOREM ClocksAlwaysAgree == HSpec => []ClocksAgree
<1>1. HInit => ClocksAgree
  <2> SUFFICES ASSUME HInit PROVE ClocksAgree
    OBVIOUS
  <2>1. clock.base = 0 /\ clock.scans = 0 /\ clock.dt \in Nat
    BY StandAssumption DEF HInit, Init
  <2>2. SimTime = 0
    BY <2>1 DEF SimTime
  <2>3. hw.t = 0
    BY StandAssumption, ColdField DEF HInit, Init
  <2>4. plant.t = 0
    BY DEF HInit, Init, NewPlant
  <2> QED  BY <2>2, <2>3, <2>4 DEF ClocksAgree
<1>2. TypeOK /\ ClocksAgree /\ [HNext]_<<vars, seen>> => ClocksAgree'
  <2> SUFFICES ASSUME TypeOK, ClocksAgree, [HNext]_<<vars, seen>> PROVE ClocksAgree'
    OBVIOUS
  <2>0. clock.base \in Nat /\ clock.scans \in Nat /\ clock.dt \in Nat /\ clock \in Clocks
    BY DEF TypeOK, Clocks
  <2>1. CASE HTick
    BY <2>1 DEF HTick, Tick, ClocksAgree, SimTime
  <2>2. CASE \E image \in plan.images, air \in plan.airs, sensors \in plan.sensors : HStep(image, air, sensors)
    <3>1. PICK image \in plan.images, air \in plan.airs, sensors \in plan.sensors : HStep(image, air, sensors)
      BY <2>2
    <3>2. hw'.t = hw.t + clock.dt /\ plant'.t = plant.t + clock.dt
      BY <3>1, Scanned
    <3>3. clock'.base = clock.base /\ clock'.scans = clock.scans + 1 /\ clock'.dt = clock.dt
      BY <2>0, <3>1 DEF HStep, Step, Clocks
    <3>4. (clock.scans + 1) * clock.dt = clock.scans * clock.dt + clock.dt /\ clock.scans * clock.dt \in Int
      BY <2>0
    <3>5. SimTime' = SimTime + clock.dt
      BY <2>0, <3>3, <3>4 DEF SimTime
    <3> QED  BY <3>2, <3>5 DEF ClocksAgree
  <2>3. CASE HRequest
    <3>1. SimTime' = SimTime /\ hw' = hw /\ plant' = plant
      BY <2>3, Requested
    <3> QED  BY <3>1 DEF ClocksAgree
  <2>4. CASE \E sensors \in plan.sensors : HReset(sensors)
    <3>1. PICK sensors \in plan.sensors : HReset(sensors)
      BY <2>4
    <3>2. clock'.base = 0 /\ clock'.scans = 0 /\ clock'.dt = clock.dt /\ plant'.t = 0
      BY <2>0, <3>1 DEF HReset, ResetPlant, NewPlant, Clocks
    <3>3. hw'.t = 0
      BY <3>1, StandAssumption, ColdField DEF HReset, ResetPlant, TypeOK
    <3>4. SimTime' = 0
      BY <2>0, <3>2 DEF SimTime
    <3> QED  BY <3>2, <3>3, <3>4 DEF ClocksAgree
  <2>5. CASE UNCHANGED <<vars, seen>>
    BY <2>5 DEF vars, ClocksAgree, SimTime
  <2> QED  BY <2>1, <2>2, <2>3, <2>4, <2>5 DEF HNext
<1> QED
  BY <1>1, <1>2, TypeCorrect, PTL DEF HSpec

-----------------------------------------------------------------------------
(* The credit is the part of the debt that will still be run, and what goes
   beyond it was given up, less than one scan at a time. *)
PaceInv ==
  /\ pacer.credit < MaxDt
  /\ pacer.credit <= seen.debt
  /\ seen.debt - pacer.credit <= seen.excuses * MaxDt

LEMMA PaceNext == TypeOK /\ PaceInv /\ [HNext]_<<vars, seen>> => PaceInv'
<1> SUFFICES ASSUME TypeOK, PaceInv, [HNext]_<<vars, seen>> PROVE PaceInv'
  OBVIOUS
<1>0. /\ pacer.credit \in Nat /\ seen.debt \in Int /\ seen.excuses \in Nat /\ MaxDt \in Nat
      /\ clock.dt \in Nat \ {0} /\ clock.dt <= MaxDt /\ seen \in Histories
      /\ seen.excuses * MaxDt \in Int
      /\ (seen.excuses + 1) * MaxDt = seen.excuses * MaxDt + MaxDt
  BY HistoryAssumption DEF TypeOK, Pacers, Histories, Clocks
<1>a. /\ pacer.credit < MaxDt /\ pacer.credit <= seen.debt
      /\ seen.debt - pacer.credit <= seen.excuses * MaxDt
  BY DEF PaceInv
<1>1. CASE HTick
  <2> DEFINE drop == Dropped(pacer, pacer')
             more == (now' - now) * pacer.speed - (due' + drop) * clock.dt
             owed == Owed(pacer, due', pacer', now', clock.dt)
             paced == pacer.realtime /\ ~paused /\ pacer.anchor # Unset
  <2>1. now' \in Nat /\ now <= now' /\ Accounts(pacer, paused, now', clock.dt, due', pacer')
    BY <1>1, Ticked
  <2>2. /\ due' \in Int /\ pacer' \in Pacers /\ drop >= 0
        /\ paused => pacer'.credit = 0 /\ drop = 0
        /\ ~paused /\ ~paced => pacer'.credit = pacer.credit /\ drop = 0
        /\ paced => /\ drop = 0 => pacer'.credit = owed
                    /\ drop > 0 => pacer'.credit = 0 /\ owed >= 0 /\ owed < clock.dt
                    /\ pacer'.credit < clock.dt \/ pacer'.credit = pacer.credit
    BY <2>1, Zenon DEF Accounts
  <2>3. /\ seen'.debt = IF paced THEN seen.debt + more ELSE seen.debt
        /\ seen'.excuses = IF drop > 0 \/ (paused /\ pacer.credit > 0) THEN seen.excuses + 1 ELSE seen.excuses
    BY <1>0, <1>1 DEF HTick, Dropped, Histories
  <2>4. clock.dt \in Int /\ clock.dt > 0 /\ drop \in Int /\ pacer'.credit \in Nat
    BY <1>0, <2>2 DEF Dropped, Pacers, TypeOK
  <2>5. CASE paused
    BY <1>0, <1>a, <2>2, <2>3, <2>4, <2>5 DEF PaceInv
  <2>6. CASE ~paused /\ ~paced
    BY <1>0, <1>a, <2>2, <2>3, <2>6 DEF PaceInv
  <2>7. CASE paced
    <3>1. pacer.anchor = now
      BY <2>7 DEF TypeOK
    <3>2. more \in Int /\ owed = pacer.credit + more
      <4>1. /\ now' - now \in Int /\ pacer.speed \in Int /\ due' + drop \in Int
        BY <2>1, <2>2, <2>4 DEF TypeOK, Pacers
      <4>2. (now' - now) * pacer.speed \in Int /\ (due' + drop) * clock.dt \in Int
        BY <2>4, <4>1
      <4>3. owed = (pacer.credit + (now' - now) * pacer.speed) - (due' + drop) * clock.dt
        BY <3>1 DEF Owed
      <4> HIDE DEF owed, drop
      <4> QED  BY <1>0, <4>2, <4>3
    <3>3. seen'.debt = seen.debt + more /\ seen'.excuses = IF drop > 0 THEN seen.excuses + 1 ELSE seen.excuses
      BY <2>3, <2>7
    <3>4. /\ drop = 0 => pacer'.credit = owed
          /\ drop > 0 => pacer'.credit = 0 /\ owed >= 0 /\ owed < clock.dt
          /\ pacer'.credit < clock.dt \/ pacer'.credit = pacer.credit
      BY <2>2, <2>7
    <3> HIDE DEF drop, more, owed
    <3>5. CASE drop = 0
      BY <1>0, <1>a, <2>4, <3>2, <3>3, <3>4, <3>5 DEF PaceInv
    <3>6. CASE drop > 0
      BY <1>0, <1>a, <2>4, <3>2, <3>3, <3>4, <3>6 DEF PaceInv
    <3> QED  BY <2>2, <2>4, <3>5, <3>6
  <2> QED  BY <2>5, <2>6, <2>7
<1>2. CASE \E image \in plan.images, air \in plan.airs, sensors \in plan.sensors : HStep(image, air, sensors)
  <2>1. PICK image \in plan.images, air \in plan.airs, sensors \in plan.sensors : HStep(image, air, sensors)
    BY <1>2
  <2>2. pacer' = pacer /\ seen'.debt = seen.debt /\ seen'.excuses = seen.excuses
    BY <2>1, ScannedHistory DEF HStep, Step
  <2> QED  BY <2>2 DEF PaceInv
<1>3. CASE HRequest
  <2>1. pacer'.credit = pacer.credit \/ (pacer'.credit = 0 /\ pacer'.anchor = Unset)
    BY <1>3, Requested
  <2>2. /\ seen'.debt = seen.debt
        /\ seen'.excuses = IF pacer.credit > 0 /\ pacer'.anchor = Unset THEN seen.excuses + 1 ELSE seen.excuses
    BY <1>0, <1>3 DEF HRequest, Histories
  <2> QED  BY <1>0, <1>a, <2>1, <2>2 DEF PaceInv
<1>4. CASE \E sensors \in plan.sensors : HReset(sensors)
  BY <1>4 DEF HReset, ResetPlant, AtRest, PaceInv
<1>5. CASE UNCHANGED <<vars, seen>>
  BY <1>5 DEF vars, PaceInv
<1> QED
  BY <1>1, <1>2, <1>3, <1>4, <1>5 DEF HNext

(* The stand never runs ahead of the clock times the speed, and what it falls
   behind beyond one scan is in dropped_scans or was given up as credit
   (Pacer.due_scans, _sim_rate). *)
THEOREM SimulatedTimeIsAlwaysPaced == HSpec => []SimulatedTimeIsPaced
<1>1. HInit => PaceInv
  <2> SUFFICES ASSUME HInit PROVE PaceInv
    OBVIOUS
  <2>1. PICK d \in plan.dts : d \in Nat \ {0} /\ d <= MaxDt
    BY StandAssumption, HistoryAssumption DEF HInit, Init
  <2>2. pacer.credit = 0 /\ seen.debt = 0 /\ seen.excuses = 0
    BY DEF HInit, Init, NewPacer, AtRest
  <2> QED  BY <2>1, <2>2, HistoryAssumption DEF PaceInv
<1>2. TypeOK /\ PaceInv => SimulatedTimeIsPaced
  <2> SUFFICES ASSUME TypeOK, PaceInv PROVE SimulatedTimeIsPaced
    OBVIOUS
  <2>1. pacer.credit \in Nat /\ seen.debt \in Int /\ seen.excuses \in Nat /\ MaxDt \in Nat
    BY HistoryAssumption DEF TypeOK, Pacers, Histories
  <2>2. (seen.excuses + 1) * MaxDt = seen.excuses * MaxDt + MaxDt /\ seen.excuses * MaxDt \in Int
    BY <2>1
  <2> QED  BY <2>1, <2>2 DEF PaceInv, SimulatedTimeIsPaced
<1> QED
  BY <1>1, <1>2, PaceNext, TypeCorrect, PTL DEF HSpec

-----------------------------------------------------------------------------
(* A card's sample is younger than its period, and a value held since before
   the sample is the value sampled. *)
RecentInv ==
  \A s \in Signals :
    LET ch == hw.chan[s]
    IN  /\ ch.last \in Nat /\ ch.last <= hw.t
        /\ hw.t = ch.last \/ hw.t - ch.last < Period[s]
        /\ seen.held[s] > hw.t - ch.last => ch.value = Converted(hw.physical[s])

LEMMA RecentNext == TypeOK /\ RecentInv /\ [HNext]_<<vars, seen>> => RecentInv'
<1> SUFFICES ASSUME TypeOK, RecentInv, [HNext]_<<vars, seen>>, NEW s \in Signals
             PROVE  LET ch == hw'.chan[s]
                    IN  /\ ch.last \in Nat /\ ch.last <= hw'.t
                        /\ hw'.t = ch.last \/ hw'.t - ch.last < Period[s]
                        /\ seen'.held[s] > hw'.t - ch.last => ch.value = Converted(hw'.physical[s])
  BY DEF RecentInv
<1> DEFINE ch == hw.chan[s]
<1>0. /\ ch.last \in Nat /\ ch.last <= hw.t
      /\ hw.t = ch.last \/ hw.t - ch.last < Period[s]
      /\ seen.held[s] > hw.t - ch.last => ch.value = Converted(hw.physical[s])
  BY DEF RecentInv
<1>1. CASE HTick \/ HRequest \/ UNCHANGED <<vars, seen>>
  <2>1. hw' = hw
    BY <1>1, Requested DEF HTick, Tick, vars
  <2>2. seen'.held = seen.held
    BY <1>1 DEF HTick, HRequest, TypeOK, Histories
  <2> QED  BY <1>0, <2>1, <2>2
<1>2. CASE \E image \in plan.images, air \in plan.airs, sensors \in plan.sensors : HStep(image, air, sensors)
  <2>1. PICK image \in plan.images, air \in plan.airs, sensors \in plan.sensors : HStep(image, air, sensors)
    BY <1>2
  <2> DEFINE dt == clock.dt
             ch2 == hw'.chan[s]
             same == sensors[s] = hw.physical[s]
             old == seen.held[s]
             new == seen'.held[s]
  <2>2. /\ hw'.t = hw.t + dt /\ hw'.physical[s] = sensors[s]
        /\ ch2 = Refreshed(ch, hw.physical[s], hw.t + dt, Period[s])
    BY <2>1, Scanned
  <2>3. new = IF same THEN Capped(old + dt) ELSE 0
    BY <2>1, ScannedHistory
  <2>4. hw.t \in Nat /\ dt \in Nat \ {0} /\ old \in Nat /\ Period[s] \in Nat /\ Period[s] <= Long /\ Long \in Nat
    BY HwIoAssumption, HistoryAssumption DEF TypeOK, Fields, Clocks, Histories
  <2>5. same => Converted(hw'.physical[s]) = Converted(hw.physical[s])
    BY <2>2
  <2> HIDE DEF ch, ch2, same, old, new, dt
  <2>6. CASE hw.t + dt - ch.last < Period[s]
    <3>1. ch2 = ch
      BY <1>0, <2>2, <2>4, <2>6 DEF Refreshed, Never
    <3>2. same /\ new > hw.t + dt - ch.last => old > hw.t - ch.last
      BY <1>0, <2>3, <2>4, <2>6 DEF Capped
    <3>3. new > hw.t + dt - ch.last => same
      BY <1>0, <2>3, <2>4
    <3> QED  BY <1>0, <2>2, <2>4, <2>5, <2>6, <3>1, <3>2, <3>3 DEF ch, ch2, old, new
  <2>7. CASE ~(hw.t + dt - ch.last < Period[s])
    <3>1. ch2 = [last |-> hw.t + dt, value |-> Converted(hw.physical[s])]
      BY <1>0, <2>2, <2>4, <2>7 DEF Refreshed, Never
    <3>2. new > 0 => same
      BY <2>3
    <3>3. ch2.last = hw'.t /\ hw'.t \in Nat /\ ch2.value = Converted(hw.physical[s])
      BY <2>2, <2>4, <3>1
    <3> QED  BY <2>5, <3>2, <3>3 DEF ch2, new
  <2> QED  BY <2>6, <2>7
<1>3. CASE \E sensors \in plan.sensors : HReset(sensors)
  <2>1. PICK sensors \in plan.sensors : HReset(sensors)
    BY <1>3
  <2>2. sensors \in [Signals -> Int] /\ hw' = Primed(sensors)
    BY <2>1, StandAssumption DEF TypeOK, HReset, ResetPlant
  <2>3. hw'.t = 0 /\ hw'.physical = sensors /\ hw'.chan[s] = [last |-> 0, value |-> Converted(sensors[s])]
    BY <2>2, ColdField
  <2> QED  BY <2>3
<1> QED
  BY <1>1, <1>2, <1>3 DEF HNext

(* Once the plant has had a value for a card's period, at least a scan, the PLC
   reads it to half a quantum, whatever the scan rate was and when in the
   period the value changed (HwIo.step, reset_plant). *)
THEOREM ReadingsAreAlwaysRecent == HSpec => []ReadingsAreRecent
<1>1. HInit => RecentInv
  <2> SUFFICES ASSUME HInit, NEW s \in Signals
               PROVE  LET ch == hw.chan[s]
                      IN  /\ ch.last \in Nat /\ ch.last <= hw.t
                          /\ hw.t = ch.last \/ hw.t - ch.last < Period[s]
                          /\ seen.held[s] > hw.t - ch.last => ch.value = Converted(hw.physical[s])
    BY DEF RecentInv
  <2>1. PICK sensors \in [Signals -> Int] : hw = Primed(sensors)
    BY StandAssumption DEF HInit, Init
  <2>2. hw.t = 0 /\ hw.physical = sensors /\ hw.chan[s] = [last |-> 0, value |-> Converted(sensors[s])]
    BY <2>1, ColdField
  <2> QED  BY <2>2
<1>2. TypeOK /\ RecentInv => ReadingsAreRecent
  <2> SUFFICES ASSUME TypeOK, RecentInv, NEW s \in Signals, seen.held[s] > 0, seen.held[s] >= Period[s]
               PROVE  LET error == ReadInputs(hw)[s] - Clamped(hw.physical[s])
                      IN  2 * error <= Quantum /\ -2 * error <= Quantum
    BY DEF ReadingsAreRecent
  <2>1. /\ hw.chan[s].last \in Nat /\ hw.t \in Nat /\ seen.held[s] \in Nat /\ Period[s] \in Nat
        /\ hw.physical[s] \in Int
    BY HwIoAssumption DEF RecentInv, TypeOK, Fields, Histories
  <2>2. seen.held[s] > hw.t - hw.chan[s].last
    BY <2>1 DEF RecentInv
  <2>3. ReadInputs(hw)[s] = Converted(hw.physical[s])
    BY <2>2 DEF RecentInv, ReadInputs
  <2> QED  BY <2>1, <2>3, Rounding
<1> QED
  BY <1>1, <1>2, RecentNext, TypeCorrect, PTL DEF HSpec

-----------------------------------------------------------------------------
(* An actuator has seen the last position that stood for the dead time, and
   counts how long a different one has stood. *)
FollowInv ==
  \A c \in Coils :
    /\ seen.followed[c] = plant.seen[c]
    /\ plant.seen[c] = seen.asked[c] => plant.pending[c] = 0
    /\ plant.seen[c] # seen.asked[c] => plant.pending[c] = seen.stood[c] /\ seen.stood[c] < DeadTime
    /\ plant.target[c] = Heads(c, seen.asked[c], plant.seen[c], seen.air)

LEMMA FollowCold ==
  ASSUME NEW d, NEW e, NEW c \in Coils
  PROVE  LET rest == AtRest(d, e)
         IN  /\ rest.followed[c] = NewPlant.seen[c] /\ rest.asked[c] = NewPlant.seen[c]
             /\ NewPlant.pending[c] = 0
             /\ NewPlant.target[c] = Heads(c, rest.asked[c], NewPlant.seen[c], rest.air)
<1>1. NewPlant.seen[c] = SafeOutputs[c] /\ NewPlant.target[c] = SafeOutputs[c] /\ NewPlant.pending[c] = 0
  BY OutputAssumption DEF NewPlant, SafeOutputs
<1>2. AtRest(d, e).followed = SafeOutputs /\ AtRest(d, e).asked = SafeOutputs /\ AtRest(d, e).air = TRUE
  BY DEF AtRest
<1>3. Heads(c, SafeOutputs[c], SafeOutputs[c], TRUE) = SafeOutputs[c]
  BY DEF Heads
<1> QED
  BY <1>1, <1>2, <1>3

LEMMA FollowNext == TypeOK /\ FollowInv /\ [HNext]_<<vars, seen>> => FollowInv'
<1> SUFFICES ASSUME TypeOK, FollowInv, [HNext]_<<vars, seen>> PROVE FollowInv'
  OBVIOUS
<1>1. CASE HTick \/ HRequest \/ UNCHANGED <<vars, seen>>
  <2>1. plant' = plant
    BY <1>1, Requested DEF HTick, Tick, vars
  <2>2. seen'.followed = seen.followed /\ seen'.asked = seen.asked /\ seen'.stood = seen.stood /\ seen'.air = seen.air
    BY <1>1 DEF HTick, HRequest, TypeOK, Histories
  <2> QED  BY <2>1, <2>2 DEF FollowInv
<1>2. CASE \E image \in plan.images, air \in plan.airs, sensors \in plan.sensors : HStep(image, air, sensors)
  <2>1. PICK image \in plan.images, air \in plan.airs, sensors \in plan.sensors : HStep(image, air, sensors)
    BY <1>2
  <2> SUFFICES ASSUME NEW c \in Coils
               PROVE  /\ seen'.followed[c] = plant'.seen[c]
                      /\ plant'.seen[c] = seen'.asked[c] => plant'.pending[c] = 0
                      /\ plant'.seen[c] # seen'.asked[c] =>
                           plant'.pending[c] = seen'.stood[c] /\ seen'.stood[c] < DeadTime
                      /\ plant'.target[c] = Heads(c, seen'.asked[c], plant'.seen[c], seen'.air)
    BY DEF FollowInv
  <2> DEFINE dt == clock.dt
             cmd == image[c]
             stood == Stood(image)[c]
             was == plant.seen[c]
             pend == plant.pending[c]
  <2>2. /\ plant'.seen[c] = Seen(plant, c, cmd, dt).seen
        /\ plant'.pending[c] = Seen(plant, c, cmd, dt).pending
        /\ plant'.target[c] = Heads(c, cmd, plant'.seen[c], air)
    BY <2>1, Scanned
  <2>3. /\ seen'.asked[c] = cmd /\ seen'.air = air
        /\ seen'.stood[c] = Capped(stood)
        /\ seen'.followed[c] = IF stood >= DeadTime THEN cmd ELSE seen.followed[c]
        /\ stood \in Nat
    BY <2>1, ScannedHistory
  <2>4. /\ cmd \in BOOLEAN /\ was \in BOOLEAN /\ seen.asked[c] \in BOOLEAN
        /\ dt \in Nat /\ pend \in Nat /\ seen.stood[c] \in Nat /\ DeadTime \in Nat /\ Long \in Nat /\ DeadTime <= Long
    BY <2>1, Scanned, StandAssumption, HistoryAssumption DEF TypeOK, Clocks, Plants, Histories, Valves
  <2>5. /\ seen.followed[c] = was
        /\ was = seen.asked[c] => pend = 0
        /\ was # seen.asked[c] => pend = seen.stood[c]
    BY DEF FollowInv
  <2>6. stood = dt + (IF cmd = seen.asked[c] THEN seen.stood[c] ELSE 0)
    BY DEF Stood
  <2>7. cmd # was => stood = pend + dt
    BY <2>4, <2>5, <2>6
  <2>8. CASE cmd = was
    BY <2>2, <2>3, <2>5, <2>8 DEF Seen
  <2>9. CASE cmd # was /\ stood >= DeadTime
    BY <2>2, <2>3, <2>4, <2>7, <2>9 DEF Seen
  <2>10. CASE cmd # was /\ ~(stood >= DeadTime)
    BY <2>2, <2>3, <2>4, <2>5, <2>7, <2>10 DEF Seen, Capped
  <2> QED  BY <2>8, <2>9, <2>10
<1>3. CASE \E sensors \in plan.sensors : HReset(sensors)
  <2>1. plant' = NewPlant /\ seen' = AtRest(seen.debt, seen.excuses)
    BY <1>3 DEF HReset, ResetPlant
  <2> QED  BY <2>1, FollowCold DEF FollowInv
<1> QED
  BY <1>1, <1>2, <1>3 DEF HNext

(* Polarity, latency and dead time between the PLC's image and the stroke lose
   no command that stood and pass none that did not, and a valve asked for its
   fail-safe position gets there with or without muscle air (write_outputs,
   HwIo.step, Plant._substep). *)
THEOREM ValvesAlwaysFollow == HSpec => []ValvesFollow
<1>1. HInit => FollowInv
  BY FollowCold DEF HInit, Init, FollowInv
<1>2. TypeOK /\ FollowInv => ValvesFollow
  <2> SUFFICES ASSUME TypeOK, FollowInv, NEW c \in Coils
               PROVE  /\ c \notin Pneumatic => plant.target[c] = seen.asked[c]
                      /\ c \in Pneumatic /\ seen.air => plant.target[c] = seen.followed[c]
                      /\ c \in Pneumatic /\ ~seen.air => (plant.target[c] <=> c \in NormallyOpen)
                      /\ seen.stood[c] >= DeadTime /\ seen.asked[c] = SafeOutputs[c] =>
                           plant.target[c] = SafeOutputs[c]
    BY DEF ValvesFollow
  <2> QED  BY StandAssumption, OutputAssumption DEF FollowInv, Heads, SafeOutputs, TypeOK, Histories, Plants, Valves
<1> QED
  BY <1>1, <1>2, FollowNext, TypeCorrect, PTL DEF HSpec
=============================================================================
