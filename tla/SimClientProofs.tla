--------------------------- MODULE SimClientProofs ---------------------------
(***************************************************************************)
(* Theorems about SimClient, for every number of sockets, mocks and        *)
(* requests: in a dev build there is one reconnect chain, the status is    *)
(* true of the transport, and no request waits on a replaced one.          *)
(***************************************************************************)
EXTENDS SimClient, FiniteSetTheorems, TLAPS

TypeOK ==
  /\ devMode \in BOOLEAN /\ usingMock \in BOOLEAN /\ firstAttemptDone \in BOOLEAN
  /\ ready \in [Sockets -> {"idle", "connecting", "open", "closing"}]
  /\ settled \subseteq Sockets /\ timer \subseteq Sockets
  /\ transport \in Transports /\ opening \subseteq Mocks
  /\ retries \in Nat
  /\ request \in [Requests -> {"unsent", "thrown", "pending", "lost", "answered", "timeout"}]
  /\ sentOn \in [Requests -> Transports \cup {Nobody}]

LEMMA Kinds ==
  /\ 1 \in Sockets /\ MaxSockets + 1 \in Mocks /\ Nobody \notin Transports
  /\ \A n \in Sockets : n \notin Mocks /\ n \in Transports
  /\ \A m \in Mocks : m \notin Sockets /\ m \in Transports
BY BoundAssumption DEF Sockets, Mocks, Transports, Nobody

(* What a new socket changes.                                              *)
LEMMA Connects ==
  ASSUME TypeOK, NEW first \in BOOLEAN, ConnectReal(first)
  PROVE  \E n \in Sockets :
           /\ ready[n] = "idle" /\ n \notin timer
           /\ ready' = [ready EXCEPT ![n] = "connecting"]
           /\ ready' \in [Sockets -> {"idle", "connecting", "open", "closing"}]
           /\ \A k \in Sockets : ready'[k] = IF k = n THEN "connecting" ELSE ready[k]
           /\ settled' = settled \ {n} /\ timer' \subseteq timer \cup {n} /\ transport' = n
BY DEF ConnectReal, TypeOK

LEMMA TypeInit == Init => TypeOK
<1> SUFFICES ASSUME Init PROVE TypeOK
  OBVIOUS
<1>1. devMode \in BOOLEAN /\ firstAttemptDone \in BOOLEAN /\ usingMock \in BOOLEAN
  BY BoundAssumption DEF Init
<1>2. ready \in [Sockets -> {"idle", "connecting", "open", "closing"}]
  BY DEF Init
<1>3. timer \subseteq Sockets /\ transport \in Transports /\ opening \subseteq Mocks
  BY Kinds DEF Init
<1>4. settled \subseteq Sockets /\ retries \in Nat
  BY DEF Init
<1>5. /\ request \in [Requests -> {"unsent", "thrown", "pending", "lost", "answered", "timeout"}]
      /\ sentOn \in [Requests -> Transports \cup {Nobody}]
  BY DEF Init
<1> QED
  BY <1>1, <1>2, <1>3, <1>4, <1>5 DEF TypeOK

-----------------------------------------------------------------------------
(* The steps that leave the sockets, the transport and the modes alone.    *)
Aside ==
  \/ \E t \in Transports : StateArrives(t)
  \/ ProbeStarts
  \/ \E reachable \in BOOLEAN : ProbeEnds(reachable)
  \/ UNCHANGED vars

LEMMA AsideKeeps ==
  ASSUME Aside
  PROVE  UNCHANGED <<devMode, ready, settled, timer, transport, opening, usingMock, firstAttemptDone,
                     status, retries, request, sentOn>>
BY DEF Aside, StateArrives, ProbeStarts, ProbeEnds, vars, socketVars, mockVars, modeVars,
   storeVars, probeVars, requestVars

LEMMA Asked ==
  ASSUME NEW i \in Requests, Ask(i) \/ Answer(i) \/ TimeOut(i)
  PROVE  UNCHANGED <<devMode, ready, settled, timer, transport, opening, usingMock, firstAttemptDone,
                     status, retries>>
BY DEF Ask, Answer, TimeOut, socketVars, mockVars, modeVars, storeVars

LEMMA TypeNext == TypeOK /\ [Next]_vars => TypeOK'
<1> SUFFICES ASSUME TypeOK, [Next]_vars PROVE TypeOK'
  OBVIOUS
<1>0. /\ devMode \in BOOLEAN /\ usingMock \in BOOLEAN /\ firstAttemptDone \in BOOLEAN
      /\ ready \in [Sockets -> {"idle", "connecting", "open", "closing"}]
      /\ settled \subseteq Sockets /\ timer \subseteq Sockets
      /\ transport \in Transports /\ opening \subseteq Mocks
      /\ retries \in Nat
      /\ request \in [Requests -> {"unsent", "thrown", "pending", "lost", "answered", "timeout"}]
      /\ sentOn \in [Requests -> Transports \cup {Nobody}]
  BY DEF TypeOK
<1>r. RejectAllPending =>
        request' \in [Requests -> {"unsent", "thrown", "pending", "lost", "answered", "timeout"}]
  BY <1>0 DEF RejectAllPending
<1>1. ASSUME NEW n \in Sockets, FirstTimeout(n) PROVE TypeOK'
  <2>1. CASE n \in settled
    BY <1>0, <1>1, <2>1 DEF FirstTimeout, TypeOK, mockVars, modeVars
  <2>2. CASE n \notin settled
    <3>1. /\ devMode' = devMode /\ sentOn' = sentOn /\ firstAttemptDone' = TRUE
          /\ timer' = timer \ {n} /\ settled' = settled \cup {n}
          /\ ready' = [ready EXCEPT ![n] = IF @ = "connecting" THEN "closing" ELSE @]
      BY <1>1, <2>2 DEF FirstTimeout
    <3>2. ready' \in [Sockets -> {"idle", "connecting", "open", "closing"}]
      BY <1>0, <3>1
    <3>3. CASE FallBack /\ UNCHANGED <<pushing, status, shown, retries, request>>
      BY <1>0, <3>1, <3>2, <3>3, Kinds DEF FallBack, TypeOK
    <3>4. CASE ScheduleReconnect /\ UNCHANGED <<transport, mockVars, usingMock, mockReason,
                                                banner, shown, probeVars>>
      BY <1>0, <1>r, <3>1, <3>2, <3>4 DEF ScheduleReconnect, TypeOK, mockVars
    <3> QED  BY <1>1, <2>2, <3>3, <3>4 DEF FirstTimeout
  <2> QED  BY <2>1, <2>2
<1>2. ASSUME NEW n \in Sockets, SocketOpens(n) PROVE TypeOK'
  BY <1>0, <1>2 DEF SocketOpens, TypeOK, requestVars
<1>3. ASSUME NEW n \in Sockets, SocketCloses(n) PROVE TypeOK'
  <2>1. UNCHANGED request \/ RejectAllPending
    BY <1>3 DEF SocketCloses, ScheduleReconnect
  <2>2. retries' \in Nat
    BY <1>0, <1>3 DEF SocketCloses, ScheduleReconnect
  <2> QED  BY <1>0, <1>r, <1>3, <2>1, <2>2 DEF SocketCloses, TypeOK, modeVars
<1>4. CASE Retry
  <2>1. retries' \in Nat
    BY <1>0, <1>4 DEF Retry
  <2>2. CASE usingMock
    BY <1>0, <1>4, <2>1, <2>2 DEF Retry, TypeOK, socketVars, mockVars, modeVars, requestVars
  <2>3. CASE ~usingMock
    BY <1>0, <1>4, <2>1, <2>3, Connects, Kinds DEF Retry, TypeOK, mockVars, modeVars, requestVars
  <2> QED  BY <2>2, <2>3
<1>5. ASSUME NEW m \in Mocks, MockOpens(m) PROVE TypeOK'
  BY <1>0, <1>5 DEF MockOpens, TypeOK, socketVars, modeVars, requestVars
<1>6. CASE Aside
  BY <1>0, <1>6, AsideKeeps DEF TypeOK
<1>7. CASE Switch
  <2>1. /\ ConnectReal(TRUE) /\ RejectAllPending /\ usingMock' = FALSE /\ firstAttemptDone' = FALSE
        /\ UNCHANGED <<devMode, mockVars, retries, sentOn>>
    BY <1>7 DEF Switch
  <2> QED  BY <1>0, <1>r, <2>1, Connects, Kinds DEF TypeOK, mockVars
<1>8. ASSUME NEW i \in Requests, Ask(i) \/ Answer(i) \/ TimeOut(i) PROVE TypeOK'
  <2>1. /\ request' \in [Requests -> {"unsent", "thrown", "pending", "lost", "answered", "timeout"}]
        /\ sentOn' \in [Requests -> Transports \cup {Nobody}]
    BY <1>0, <1>8 DEF Ask, Answer, TimeOut
  <2> QED  BY <1>0, <1>8, <2>1, Asked DEF TypeOK
<1> QED
  BY <1>1, <1>2, <1>3, <1>4, <1>5, <1>6, <1>7, <1>8 DEF Next, Aside

LEMMA TypeCorrect == Spec => []TypeOK
BY TypeInit, TypeNext, PTL DEF Spec

-----------------------------------------------------------------------------
(* What a dev build keeps true.  Chain: either the mock is in use and no   *)
(* real connection is under way, or there is at most one, on the transport *)
(* or announced by one retry timer.                                        *)
ModeOK ==
  /\ usingMock <=> transport \in Mocks
  /\ opening # {} => usingMock
  /\ usingMock => retries = 0
  /\ ~usingMock => \A n \in Sockets : ready[n] # "closing"

SocketsOK ==
  \A n \in Sockets :
    /\ ready[n] \in {"connecting", "open"} => ~usingMock /\ transport = n /\ retries = 0
    /\ ready[n] = "open" => n \in settled
    /\ n \in timer \ settled => ~usingMock /\ transport = n /\ retries = 0

ChainInv == devMode => ModeOK /\ SocketsOK /\ retries \in {0, 1}

RequestInv ==
  devMode => \A i \in Requests :
    request[i] = "pending" /\ sentOn[i] # Nobody =>
      /\ sentOn[i] = transport
      /\ sentOn[i] \in Sockets => ready[sentOn[i]] = "open"

ClientInv == TypeOK /\ ChainInv /\ StatusIsHonest /\ RequestInv

(* The effect of each event in a dev build.                                *)
LEMMA GivenUp ==
  ASSUME TypeOK, ChainInv, devMode, NEW n \in Sockets, FirstTimeout(n), n \notin settled
  PROVE  /\ ~usingMock /\ transport = n /\ retries = 0 /\ ready[n] # "open"
         /\ \A k \in Sockets \ {n} : ready[k] = "idle"
         /\ FallBack /\ UNCHANGED <<devMode, pushing, status, shown, retries, request, sentOn>>
         /\ timer' = timer \ {n} /\ settled' = settled \cup {n}
         /\ \A k \in Sockets : ready'[k] \in {"idle", "closing"}
<1>1. /\ FallBack /\ UNCHANGED <<devMode, pushing, status, shown, retries, request, sentOn>>
      /\ n \in timer /\ timer' = timer \ {n} /\ settled' = settled \cup {n}
      /\ ready' = [ready EXCEPT ![n] = IF @ = "connecting" THEN "closing" ELSE @]
  BY DEF FirstTimeout
<1>2. ~usingMock /\ transport = n /\ retries = 0 /\ ready[n] # "open"
  BY <1>1 DEF ChainInv, SocketsOK
<1>3. \A k \in Sockets : ready[k] \in {"idle", "connecting", "open", "closing"} /\ ready[k] # "closing"
  BY <1>2 DEF ChainInv, ModeOK, TypeOK
<1>4. \A k \in Sockets \ {n} : ready[k] = "idle"
  BY <1>2, <1>3 DEF ChainInv, SocketsOK
<1>5. \A k \in Sockets : ready'[k] \in {"idle", "closing"}
  BY <1>1, <1>2, <1>3, <1>4 DEF TypeOK
<1> QED  BY <1>1, <1>2, <1>4, <1>5

LEMMA Opened ==
  ASSUME TypeOK, ChainInv, devMode, NEW n \in Sockets, SocketOpens(n)
  PROVE  /\ ~usingMock /\ transport = n /\ retries = 0 /\ ready[n] = "connecting"
         /\ opening = {} /\ \A k \in Sockets : ready'[k] = IF k = n THEN "open" ELSE ready[k]
         /\ settled' = settled \cup {n} /\ usingMock' = FALSE /\ status' = "connected"
         /\ UNCHANGED <<devMode, timer, transport, opening, retries, request, sentOn>>
<1>1. /\ ready[n] = "connecting" /\ ready' = [ready EXCEPT ![n] = "open"]
      /\ settled' = settled \cup {n} /\ usingMock' = FALSE /\ status' = "connected"
      /\ UNCHANGED <<devMode, timer, transport, opening, retries, request, sentOn>>
  BY DEF SocketOpens, requestVars
<1>2. ~usingMock /\ transport = n /\ retries = 0
  BY <1>1 DEF ChainInv, SocketsOK
<1>3. opening = {}
  BY <1>2 DEF ChainInv, ModeOK
<1> QED  BY <1>1, <1>2, <1>3 DEF TypeOK

(* A close event: of the attempt the mock replaced, of an attempt that is  *)
(* not settled, or of the connection, which starts the chain.              *)
LEMMA Closed ==
  ASSUME TypeOK, ChainInv, devMode, NEW n \in Sockets, SocketCloses(n)
  PROVE  /\ ready[n] # "idle"
         /\ \A k \in Sockets : ready'[k] = IF k = n THEN "idle" ELSE ready[k]
         /\ UNCHANGED <<devMode, settled, timer, transport, opening, usingMock, sentOn>>
         /\ \/ /\ usingMock /\ ready[n] = "closing" /\ UNCHANGED <<retries, status, request>>
            \/ /\ ~usingMock /\ transport = n /\ retries = 0 /\ n \notin settled
               /\ UNCHANGED <<retries, status, request>>
            \/ /\ ~usingMock /\ transport = n /\ retries = 0 /\ n \in settled
               /\ retries' = 1 /\ status' = "reconnecting" /\ RejectAllPending
<1>1. /\ ready[n] # "idle" /\ ready' = [ready EXCEPT ![n] = "idle"]
      /\ UNCHANGED <<devMode, settled, timer, transport, opening, usingMock, sentOn>>
  BY DEF SocketCloses, modeVars
<1>2. ready[n] \in {"connecting", "open", "closing"}
  BY <1>1 DEF TypeOK
<1>3. CASE usingMock
  <2>1. ready[n] = "closing"
    BY <1>2, <1>3 DEF ChainInv, SocketsOK
  <2> QED  BY <1>1, <1>3, <2>1 DEF SocketCloses, TypeOK
<1>4. CASE ~usingMock
  <2>1. transport = n /\ retries = 0
    BY <1>2, <1>4 DEF ChainInv, SocketsOK, ModeOK
  <2>2. CASE n \notin settled
    BY <1>1, <1>4, <2>1, <2>2 DEF SocketCloses, TypeOK
  <2>3. CASE n \in settled
    <3>1. ScheduleReconnect
      BY <1>4, <2>3 DEF SocketCloses
    <3> QED  BY <1>1, <1>4, <2>1, <2>3, <3>1 DEF ScheduleReconnect, TypeOK
  <2> QED  BY <2>2, <2>3
<1> QED  BY <1>3, <1>4

LEMMA Retried ==
  ASSUME TypeOK, ChainInv, devMode, Retry
  PROVE  /\ ~usingMock /\ retries = 1 /\ retries' = 0 /\ transport \in Sockets
         /\ \A k \in Sockets : ready[k] = "idle" /\ k \notin timer \ settled
         /\ \E n \in Sockets :
              /\ \A k \in Sockets : ready'[k] = IF k = n THEN "connecting" ELSE "idle"
              /\ settled' = settled \ {n} /\ timer' \subseteq timer \cup {n} /\ transport' = n
         /\ UNCHANGED <<devMode, opening, usingMock, status, request, sentOn>>
<1>1. /\ ~usingMock /\ retries = 1 /\ retries' = 0
      /\ UNCHANGED <<devMode, opening, usingMock, status, request, sentOn>>
  BY DEF Retry, ChainInv, ModeOK, mockVars, modeVars, storeVars, requestVars
<1>2. transport \in Sockets
  BY <1>1 DEF ChainInv, ModeOK, TypeOK, Transports
<1>3. \A k \in Sockets : ready[k] = "idle" /\ k \notin timer \ settled
  BY <1>1 DEF ChainInv, ModeOK, SocketsOK, TypeOK
<1>4. ConnectReal(~firstAttemptDone) /\ (~firstAttemptDone) \in BOOLEAN
  BY <1>1 DEF Retry
<1>5. PICK n \in Sockets :
           /\ \A k \in Sockets : ready'[k] = IF k = n THEN "connecting" ELSE ready[k]
           /\ settled' = settled \ {n} /\ timer' \subseteq timer \cup {n} /\ transport' = n
  BY <1>4, Connects
<1> QED  BY <1>1, <1>2, <1>3, <1>5

LEMMA Switched ==
  ASSUME TypeOK, ChainInv, devMode, Switch
  PROVE  /\ usingMock /\ usingMock' = FALSE /\ retries = 0 /\ retries' = 0
         /\ opening = {} /\ opening' = {} /\ status' = "connecting" /\ RejectAllPending
         /\ timer \ settled = {}
         /\ \E n \in Sockets :
              /\ \A k \in Sockets : ready'[k] = IF k = n THEN "connecting" ELSE "idle"
              /\ settled' = settled \ {n} /\ timer' \subseteq timer \cup {n} /\ transport' = n
         /\ UNCHANGED <<devMode, sentOn>>
<1>1. /\ usingMock /\ usingMock' = FALSE /\ retries' = retries
      /\ opening = {} /\ opening' = {} /\ status' = "connecting" /\ RejectAllPending
      /\ ConnectReal(TRUE) /\ UNCHANGED <<devMode, sentOn>>
      /\ \A k \in Sockets : ready[k] # "closing"
  BY DEF Switch, CanSwitch, mockVars
<1>2. retries = 0
  BY <1>1 DEF ChainInv, ModeOK
<1>3. timer \ settled = {} /\ \A k \in Sockets : ready[k] = "idle"
  BY <1>1 DEF ChainInv, SocketsOK, TypeOK
<1>4. PICK n \in Sockets :
           /\ \A k \in Sockets : ready'[k] = IF k = n THEN "connecting" ELSE ready[k]
           /\ settled' = settled \ {n} /\ timer' \subseteq timer \cup {n} /\ transport' = n
  BY <1>1, Connects
<1> QED  BY <1>1, <1>2, <1>3, <1>4

LEMMA MockOpened ==
  ASSUME TypeOK, ChainInv, devMode, NEW m \in Mocks, MockOpens(m)
  PROVE  /\ usingMock /\ opening' \subseteq opening /\ status' = "mock"
         /\ UNCHANGED <<devMode, ready, settled, timer, transport, usingMock, retries, request, sentOn>>
<1>1. /\ m \in opening /\ opening' = opening \ {m}
      /\ status' = IF usingMock THEN "mock" ELSE "connected"
      /\ UNCHANGED <<devMode, ready, settled, timer, transport, usingMock, retries, request, sentOn>>
  BY DEF MockOpens, socketVars, modeVars, requestVars
<1> QED  BY <1>1 DEF ChainInv, ModeOK

-----------------------------------------------------------------------------
LEMMA InvInit == Init => ClientInv
<1> SUFFICES ASSUME Init PROVE ClientInv
  OBVIOUS
<1>1. TypeOK
  BY TypeInit
<1>2. PICK forced \in ForcedMocks :
       /\ ready = [n \in Sockets |-> IF n = 1 /\ ~forced THEN "connecting" ELSE "idle"]
       /\ timer = IF forced THEN {} ELSE {1}
       /\ transport = IF forced THEN MaxSockets + 1 ELSE 1
       /\ opening = IF forced THEN {MaxSockets + 1} ELSE {}
       /\ usingMock = forced
  BY DEF Init
<1>3. /\ retries = 0 /\ settled = {} /\ status = "connecting"
      /\ \A i \in Requests : request[i] = "unsent"
  BY DEF Init
<1>4. CASE forced
  BY <1>1, <1>2, <1>3, <1>4, Kinds DEF ClientInv, ChainInv, ModeOK, SocketsOK, StatusIsHonest,
     RequestInv
<1>5. CASE ~forced
  <2>1. /\ timer = {1} /\ transport = 1 /\ opening = {} /\ ~usingMock /\ 1 \notin Mocks
        /\ \A n \in Sockets : ready[n] = IF n = 1 THEN "connecting" ELSE "idle"
    BY <1>1, <1>2, <1>5, Kinds DEF TypeOK
  <2> QED  BY <1>1, <1>3, <2>1 DEF ClientInv, ChainInv, ModeOK, SocketsOK, StatusIsHonest,
         RequestInv
<1> QED  BY <1>4, <1>5

LEMMA InvNext == ClientInv /\ [Next]_vars => ClientInv'
<1> SUFFICES ASSUME ClientInv, [Next]_vars, TypeOK' PROVE ClientInv'
  BY TypeNext DEF ClientInv
<1>0. TypeOK /\ ChainInv /\ StatusIsHonest /\ RequestInv
  BY DEF ClientInv
<1>d. UNCHANGED devMode
  BY DEF Next, FirstTimeout, SocketOpens, SocketCloses, Retry, MockOpens, StateArrives, ProbeStarts,
     ProbeEnds, Switch, Ask, Answer, TimeOut, vars
<1>e. CASE ~devMode
  BY <1>d, <1>e DEF ClientInv, ChainInv, StatusIsHonest, RequestInv
<1> SUFFICES ASSUME devMode PROVE ClientInv'
  BY <1>e
<1>c. ModeOK /\ SocketsOK /\ retries \in {0, 1} /\ devMode'
  BY <1>0, <1>d DEF ChainInv
<1>s. /\ status = "connected" => transport \in Sockets /\ ready[transport] = "open"
      /\ status = "mock" => usingMock /\ transport \in Mocks
      /\ usingMock /\ opening = {} => status = "mock"
      /\ (\E n \in Sockets : ready[n] = "open") => status = "connected"
  BY <1>0 DEF StatusIsHonest
<1>q. \A i \in Requests : request[i] = "pending" /\ sentOn[i] # Nobody =>
      /\ sentOn[i] = transport
      /\ sentOn[i] \in Sockets => ready[sentOn[i]] = "open"
  BY <1>0 DEF RequestInv
<1>r. RejectAllPending => \A i \in Requests : request'[i] # "pending"
  BY DEF RejectAllPending
<1>1. ASSUME NEW n \in Sockets, FirstTimeout(n) PROVE ClientInv'
  <2>1. CASE n \in settled
    <3>1. /\ timer' \subseteq timer
          /\ UNCHANGED <<ready, settled, transport, opening, usingMock, status, retries, request, sentOn>>
      BY <1>1, <2>1 DEF FirstTimeout, mockVars, modeVars, storeVars
    <3> QED  BY <1>0, <1>c, <1>s, <1>q, <3>1 DEF ClientInv, ChainInv, ModeOK, SocketsOK,
           StatusIsHonest, RequestInv
  <2>2. CASE n \notin settled
    <3>1. /\ ~usingMock /\ transport = n /\ retries = 0 /\ ready[n] # "open"
          /\ \A k \in Sockets \ {n} : ready[k] = "idle"
          /\ FallBack /\ UNCHANGED <<devMode, pushing, status, shown, retries, request, sentOn>>
          /\ timer' = timer \ {n} /\ settled' = settled \cup {n}
          /\ \A k \in Sockets : ready'[k] \in {"idle", "closing"}
      BY <1>0, <1>1, <2>2, GivenUp
    <3>2. PICK m \in Mocks : transport' = m /\ m \in opening' /\ usingMock' = TRUE
      BY <3>1 DEF FallBack
    <3>4. ChainInv'
      BY <3>1, <3>2, <1>c DEF ChainInv, ModeOK, SocketsOK
    <3>5. StatusIsHonest'
      BY <1>s, <1>c, <3>1, <3>2 DEF StatusIsHonest
    <3>6. RequestInv'
      BY <1>q, <3>1 DEF RequestInv
    <3> QED  BY <3>4, <3>5, <3>6 DEF ClientInv
  <2> QED  BY <2>1, <2>2
<1>2. ASSUME NEW n \in Sockets, SocketOpens(n) PROVE ClientInv'
  <2>1. /\ ~usingMock /\ transport = n /\ retries = 0 /\ ready[n] = "connecting"
        /\ opening = {} /\ \A k \in Sockets : ready'[k] = IF k = n THEN "open" ELSE ready[k]
        /\ settled' = settled \cup {n} /\ usingMock' = FALSE /\ status' = "connected"
        /\ UNCHANGED <<devMode, timer, transport, opening, retries, request, sentOn>>
    BY <1>0, <1>2, Opened
  <2>2. ChainInv'
    BY <1>c, <2>1 DEF ChainInv, ModeOK, SocketsOK
  <2>3. StatusIsHonest'
    BY <2>1 DEF StatusIsHonest
  <2>4. RequestInv'
    BY <1>q, <2>1 DEF RequestInv
  <2> QED  BY <2>2, <2>3, <2>4 DEF ClientInv
<1>3. ASSUME NEW n \in Sockets, SocketCloses(n) PROVE ClientInv'
  <2>1. /\ ready[n] # "idle"
        /\ \A k \in Sockets : ready'[k] = IF k = n THEN "idle" ELSE ready[k]
        /\ UNCHANGED <<devMode, settled, timer, transport, opening, usingMock, sentOn>>
    BY <1>0, <1>3, Closed
  <2>2. CASE usingMock /\ ready[n] = "closing" /\ UNCHANGED <<retries, status, request>>
    <3>1. transport \in Mocks /\ transport \notin Sockets
      BY <1>c, <2>2, Kinds DEF ModeOK
    <3> QED  BY <1>0, <1>c, <1>s, <1>q, <2>1, <2>2, <3>1 DEF ClientInv, ChainInv, ModeOK,
           SocketsOK, StatusIsHonest, RequestInv
  <2>3. CASE /\ ~usingMock /\ transport = n /\ retries = 0 /\ n \notin settled
             /\ UNCHANGED <<retries, status, request>>
    <3>1. ready[n] # "open"
      BY <1>c, <2>3 DEF SocketsOK
    <3>2. ChainInv'
      BY <1>c, <2>1, <2>3 DEF ChainInv, ModeOK, SocketsOK
    <3>3. StatusIsHonest'
      BY <1>s, <2>1, <2>3, <3>1 DEF StatusIsHonest
    <3>4. RequestInv'
      BY <1>q, <2>1, <2>3, <3>1 DEF RequestInv
    <3> QED  BY <3>2, <3>3, <3>4 DEF ClientInv
  <2>4. CASE /\ ~usingMock /\ transport = n /\ retries = 0 /\ n \in settled
             /\ retries' = 1 /\ status' = "reconnecting" /\ RejectAllPending
    <3>1. \A k \in Sockets : ready'[k] = "idle" /\ k \notin timer \ settled
      BY <1>0, <1>c, <2>1, <2>4 DEF ModeOK, SocketsOK, TypeOK
    <3>2. ChainInv'
      BY <1>c, <2>1, <2>4, <3>1 DEF ChainInv, ModeOK, SocketsOK
    <3>3. StatusIsHonest'
      BY <2>1, <2>4, <3>1 DEF StatusIsHonest
    <3>4. RequestInv'
      BY <1>r, <2>4 DEF RequestInv
    <3> QED  BY <3>2, <3>3, <3>4 DEF ClientInv
  <2> QED  BY <1>0, <1>3, <2>2, <2>3, <2>4, Closed
<1>4. CASE Retry
  <2>1. /\ ~usingMock /\ retries = 1 /\ retries' = 0 /\ transport \in Sockets
        /\ \A k \in Sockets : ready[k] = "idle" /\ k \notin timer \ settled
        /\ UNCHANGED <<devMode, opening, usingMock, status, request, sentOn>>
    BY <1>0, <1>4, Retried
  <2>2. PICK n \in Sockets :
          /\ \A k \in Sockets : ready'[k] = IF k = n THEN "connecting" ELSE "idle"
          /\ settled' = settled \ {n} /\ timer' \subseteq timer \cup {n} /\ transport' = n
    BY <1>0, <1>4, Retried
  <2>3. ChainInv'
    BY <1>c, <2>1, <2>2, Kinds DEF ChainInv, ModeOK, SocketsOK
  <2>4. StatusIsHonest'
    BY <1>s, <2>1, <2>2 DEF StatusIsHonest
  <2>5. RequestInv'
    BY <1>q, <2>1 DEF RequestInv
  <2> QED  BY <2>3, <2>4, <2>5 DEF ClientInv
<1>5. ASSUME NEW m \in Mocks, MockOpens(m) PROVE ClientInv'
  <2>1. /\ usingMock /\ opening' \subseteq opening /\ status' = "mock"
        /\ UNCHANGED <<devMode, ready, settled, timer, transport, usingMock, retries, request, sentOn>>
    BY <1>0, <1>5, MockOpened
  <2> QED  BY <1>0, <1>c, <1>q, <2>1 DEF ClientInv, ChainInv, ModeOK, SocketsOK,
         StatusIsHonest, RequestInv
<1>6. CASE Aside
  BY <1>0, <1>6, AsideKeeps DEF ClientInv, ChainInv, ModeOK, SocketsOK, StatusIsHonest, RequestInv
<1>7. CASE Switch
  <2>1. /\ usingMock /\ usingMock' = FALSE /\ retries = 0 /\ retries' = 0
        /\ opening = {} /\ opening' = {} /\ status' = "connecting" /\ RejectAllPending
        /\ timer \ settled = {}
    BY <1>0, <1>7, Switched
  <2>2. PICK n \in Sockets :
          /\ \A k \in Sockets : ready'[k] = IF k = n THEN "connecting" ELSE "idle"
          /\ settled' = settled \ {n} /\ timer' \subseteq timer \cup {n} /\ transport' = n
    BY <1>0, <1>7, Switched
  <2>3. ChainInv'
    BY <1>c, <2>1, <2>2, Kinds DEF ChainInv, ModeOK, SocketsOK
  <2>4. StatusIsHonest'
    BY <2>1, <2>2 DEF StatusIsHonest
  <2>5. RequestInv'
    BY <1>r, <2>1 DEF RequestInv
  <2> QED  BY <2>3, <2>4, <2>5 DEF ClientInv
<1>8. ASSUME NEW i \in Requests, Ask(i) \/ Answer(i) \/ TimeOut(i) PROVE ClientInv'
  <2>1. UNCHANGED <<devMode, ready, settled, timer, transport, opening, usingMock, status, retries>>
    BY <1>8, Asked
  <2>2. \A j \in Requests \ {i} : request'[j] = request[j] /\ sentOn'[j] = sentOn[j]
    BY <1>0, <1>8 DEF Ask, Answer, TimeOut, TypeOK
  <2>3. request'[i] = "pending" /\ sentOn'[i] # Nobody =>
          sentOn'[i] = transport /\ (sentOn'[i] \in Sockets => ready[sentOn'[i]] = "open")
    BY <1>0, <1>8 DEF Ask, Answer, TimeOut, TypeOK
  <2>4. RequestInv'
    BY <1>q, <2>1, <2>2, <2>3 DEF RequestInv
  <2>5. ChainInv' /\ StatusIsHonest'
    BY <1>0, <2>1 DEF ChainInv, ModeOK, SocketsOK, StatusIsHonest
  <2> QED  BY <2>4, <2>5 DEF ClientInv
<1> QED
  BY <1>1, <1>2, <1>3, <1>4, <1>5, <1>6, <1>7, <1>8 DEF Next, Aside

LEMMA Invariant == Spec => []ClientInv
BY InvInit, InvNext, PTL DEF Spec

-----------------------------------------------------------------------------
LEMMA ChainMeansOne == ClientInv => OneChain
<1> SUFFICES ASSUME ClientInv, devMode PROVE retries + Cardinality(Live) <= 1
  BY DEF OneChain
<1>1. SocketsOK /\ retries \in {0, 1}
  BY DEF ClientInv, ChainInv
<1>2. CASE Live = {}
  BY <1>1, <1>2, FS_EmptySet
<1>3. CASE Live # {}
  <2>1. retries = 0 /\ Live = {transport}
    BY <1>1, <1>3 DEF SocketsOK, Live
  <2> QED  BY <2>1, FS_Singleton
<1> QED  BY <1>2, <1>3

(* In a dev build the client never has two reconnect chains, for every     *)
(* number of sockets and mocks: closing, retrying, falling back to the     *)
(* mock and switching away keep one attempt or one timer, and none beside  *)
(* the mock.                                                               *)
THEOREM OneChainAlways == Spec => []OneChain
BY Invariant, ChainMeansOne, PTL

(* In a dev build the status shown is always true of the transport in use, *)
(* whatever the order of socket events, timers and switches.               *)
THEOREM StatusAlwaysHonest == Spec => []StatusIsHonest
<1>1. ClientInv => StatusIsHonest
  BY DEF ClientInv
<1> QED  BY <1>1, Invariant, PTL

(* In a dev build no request is left waiting on a replaced transport:      *)
(* every step that replaces it rejects what waits, or nothing does.        *)
THEOREM NoRequestIsOrphaned == Spec => []NoOrphanRequest
<1>1. ClientInv => NoOrphanRequest
  BY DEF ClientInv, RequestInv, NoOrphanRequest
<1> QED  BY <1>1, Invariant, PTL
=============================================================================
