------------------------------ MODULE SimClient -----------------------------
(***************************************************************************)
(* The browser's protocol client (frontend/src/protocol/client.ts): which  *)
(* transport it uses (a real WebSocket or the in-process mock of mock.ts), *)
(* its reconnects, the first-attempt timeout, the probes of the backend    *)
(* behind the fallback mock, and the requests that wait for a reply.       *)
(*                                                                         *)
(* JavaScript runs one event at a time: a timer, a socket event or a call  *)
(* of the application is one action.  Delays are left out: a timer that is *)
(* set may fire at any later time, so the backoff is not modelled.         *)
(***************************************************************************)
EXTENDS Naturals, FiniteSets

CONSTANTS
  DevModes,      \* values of import.meta.env.DEV to consider
  ForcedMocks,   \* values of VITE_SIM_MOCK = "1" to consider
  MaxSockets,    \* bound: WebSockets that exist at one time
  MaxMocks,      \* bound: mocks a behaviour creates
  MaxRequests    \* bound: requests a behaviour makes

ASSUME BoundAssumption ==
  /\ DevModes \subseteq BOOLEAN /\ ForcedMocks \subseteq BOOLEAN
  /\ MaxSockets \in Nat \ {0} /\ MaxMocks \in Nat \ {0} /\ MaxRequests \in Nat

Sockets == 1 .. MaxSockets
Mocks == MaxSockets + 1 .. MaxSockets + MaxMocks
Transports == Sockets \cup Mocks
Nobody == 0
Requests == 1 .. MaxRequests

VARIABLES
  devMode,           \* devMode
  ready,             \* of each WebSocket: "idle" before it is made and after its close
                     \* event, "connecting", "open", "closing" after our close()
  settled,           \* the attempts whose local `settled` is true
  timer,             \* the attempts whose first-attempt timeout is pending
  transport,         \* socket
  opening,           \* mocks whose delayed onopen is pending
  pushing,           \* transports that push states: they got a subscribe
  usingMock, mockReason, firstAttemptDone,
  status,            \* store.status
  banner,            \* store.mockFallback: "none", "unreachable" or "reachable"
  shown,             \* where store.state came from
  retries,           \* pending timeouts of scheduleReconnect
  probeTimer,        \* probeTimer is set
  probe,             \* probeSocket is connecting
  request,           \* what became of each request
  sentOn             \* the transport each request was sent on, Nobody if it was dropped

socketVars == <<ready, settled, timer>>
mockVars == <<opening, pushing>>
modeVars == <<usingMock, mockReason, firstAttemptDone>>
storeVars == <<status, banner, shown>>
probeVars == <<probeTimer, probe>>
requestVars == <<request, sentOn>>
vars == <<devMode, socketVars, transport, mockVars, modeVars, storeVars, retries,
          probeVars, requestVars>>

(* The constructor: connectMock('forced') or connectReal.                  *)
Init ==
  /\ devMode \in DevModes
  /\ \E forced \in ForcedMocks :
       /\ ready = [n \in Sockets |-> IF n = 1 /\ ~forced THEN "connecting" ELSE "idle"]
       /\ timer = IF forced THEN {} ELSE {1}
       /\ transport = IF forced THEN MaxSockets + 1 ELSE 1
       /\ opening = IF forced THEN {MaxSockets + 1} ELSE {}
       /\ usingMock = forced /\ firstAttemptDone = forced
       /\ mockReason = IF forced THEN "forced" ELSE "none"
  /\ settled = {} /\ pushing = {}
  /\ status = "connecting" /\ banner = "none" /\ shown = Nobody
  /\ retries = 0 /\ probeTimer = FALSE /\ probe = FALSE
  /\ request = [i \in Requests |-> "unsent"]
  /\ sentOn = [i \in Requests |-> Nobody]
-----------------------------------------------------------------------------
(* connectReal: a new WebSocket becomes the transport; only a first        *)
(* attempt gets the timeout.                                               *)
ConnectReal(first) ==
  \E n \in Sockets \ ({transport} \cup timer) :
    /\ ready[n] = "idle"
    /\ ready' = [ready EXCEPT ![n] = "connecting"]
    /\ settled' = settled \ {n}
    /\ timer' = IF first THEN timer \cup {n} ELSE timer
    /\ transport' = n

RejectAllPending ==
  request' = [i \in Requests |-> IF request[i] = "pending" THEN "lost" ELSE request[i]]

ScheduleReconnect ==
  /\ retries < MaxSockets
  /\ retries' = retries + 1
  /\ status' = "reconnecting"
  /\ RejectAllPending

(* connectMock('fallback'), then startProbing.                             *)
FallBack ==
  \E m \in Mocks :
    /\ \A k \in Mocks : k < m <=> k \in opening \cup pushing
    /\ transport' = m
    /\ opening' = opening \cup {m}
    /\ usingMock' = TRUE /\ mockReason' = "fallback"
    /\ banner' = "unreachable"
    /\ probe' = TRUE /\ probeTimer' = FALSE

(* The first attempt was not settled within two seconds: it is closed and  *)
(* handleInitialFailure decides between the mock and a retry.              *)
FirstTimeout(n) ==
  /\ n \in timer
  /\ timer' = timer \ {n}
  /\ IF n \in settled
     THEN UNCHANGED <<ready, settled, transport, mockVars, modeVars, storeVars, retries,
                      probeVars, request>>
     ELSE /\ settled' = settled \cup {n}
          /\ ready' = [ready EXCEPT ![n] = IF @ = "connecting" THEN "closing" ELSE @]
          /\ firstAttemptDone' = TRUE
          /\ \/ /\ devMode
                /\ FallBack
                /\ UNCHANGED <<pushing, status, shown, retries, request>>
             \/ /\ ~devMode
                /\ ScheduleReconnect
                /\ UNCHANGED <<transport, mockVars, usingMock, mockReason, banner, shown,
                               probeVars>>
  /\ UNCHANGED <<devMode, sentOn>>

(* hello and subscribe go to the transport; a send on a socket that is     *)
(* still connecting throws.                                                *)
Subscribed ==
  IF transport \in Sockets /\ ready'[transport] # "open" THEN pushing
  ELSE pushing \cup {transport}

SocketOpens(n) ==
  /\ ready[n] = "connecting"
  /\ ready' = [ready EXCEPT ![n] = "open"]
  /\ settled' = settled \cup {n}
  /\ firstAttemptDone' = TRUE
  /\ usingMock' = FALSE /\ mockReason' = "none"
  /\ probeTimer' = FALSE /\ probe' = FALSE
  /\ status' = "connected"
  /\ pushing' = Subscribed
  /\ UNCHANGED <<devMode, timer, transport, opening, banner, shown, retries, requestVars>>

(* Mutant: the guard on an active mock is gone.                            *)
SocketClosesAlways(n) ==
  /\ ready[n] # "idle"
  /\ ready' = [ready EXCEPT ![n] = "idle"]
  /\ pushing' = pushing \ {n}
  /\ IF n \notin settled
     THEN UNCHANGED <<retries, status, request>>
     ELSE ScheduleReconnect
  /\ UNCHANGED <<devMode, settled, timer, transport, opening, modeVars, banner, shown,
                 probeVars, sentOn>>

(* The close event: a refused attempt, a drop, or the answer to close().   *)
SocketCloses(n) ==
  /\ ready[n] # "idle"
  /\ ready' = [ready EXCEPT ![n] = "idle"]
  /\ pushing' = pushing \ {n}
  /\ IF usingMock \/ n \notin settled
     THEN UNCHANGED <<retries, status, request>>
     ELSE ScheduleReconnect
  /\ UNCHANGED <<devMode, settled, timer, transport, opening, modeVars, banner, shown,
                 probeVars, sentOn>>

Retry ==
  /\ retries > 0
  /\ retries' = retries - 1
  /\ IF usingMock
     THEN UNCHANGED <<socketVars, transport>>
     ELSE ConnectReal(~firstAttemptDone)
  /\ UNCHANGED <<devMode, mockVars, modeVars, storeVars, probeVars, requestVars>>

MockOpens(m) ==
  /\ m \in opening
  /\ opening' = opening \ {m}
  /\ status' = IF usingMock THEN "mock" ELSE "connected"
  /\ pushing' = IF transport \in Sockets /\ ready[transport] # "open" THEN pushing
                ELSE pushing \cup {transport}
  /\ UNCHANGED <<devMode, socketVars, transport, modeVars, banner, shown, retries,
                 probeVars, requestVars>>

(* A state message.  Nothing checks which transport it comes from.         *)
StateArrives(t) ==
  /\ t \in pushing
  /\ shown' = t
  /\ UNCHANGED <<devMode, socketVars, transport, mockVars, modeVars, status, banner,
                 retries, probeVars, requestVars>>

ProbeStarts ==
  /\ probeTimer
  /\ probeTimer' = FALSE
  /\ probe' = (usingMock /\ mockReason = "fallback")
  /\ UNCHANGED <<devMode, socketVars, transport, mockVars, modeVars, storeVars, retries,
                 requestVars>>

(* Mutant: a backend found reachable is not checked again.                 *)
ProbeEndsOnce(reachable) ==
  /\ probe
  /\ probe' = FALSE
  /\ IF usingMock /\ mockReason = "fallback"
     THEN /\ banner' = IF reachable THEN "reachable" ELSE banner
          /\ probeTimer' = ~reachable
     ELSE UNCHANGED <<banner, probeTimer>>
  /\ UNCHANGED <<devMode, socketVars, transport, mockVars, modeVars, status, shown,
                 retries, requestVars>>

ProbeEnds(reachable) ==
  /\ probe
  /\ probe' = FALSE
  /\ IF usingMock /\ mockReason = "fallback"
     THEN /\ banner' = IF reachable THEN "reachable" ELSE banner
          /\ probeTimer' = TRUE
     ELSE UNCHANGED <<banner, probeTimer>>
  /\ UNCHANGED <<devMode, socketVars, transport, mockVars, modeVars, status, shown,
                 retries, requestVars>>

(* switchToRealBackend.  The button is there once a probe succeeded; by    *)
(* then the mock is open and the abandoned attempt's close event is in:    *)
(* both take milliseconds, a click does not.  The old mock keeps ticking.  *)
CanSwitch ==
  /\ usingMock /\ mockReason = "fallback" /\ banner = "reachable"
  /\ opening = {} /\ \A n \in Sockets : ready[n] # "closing"
  /\ pushing \cap Mocks # Mocks   \* bound: a mock is left to fall back to

(* Mutant: the first-attempt timeout is not armed again.                   *)
SwitchUnarmed ==
  /\ CanSwitch
  /\ usingMock' = FALSE /\ mockReason' = "none" /\ UNCHANGED firstAttemptDone
  /\ probeTimer' = FALSE /\ probe' = FALSE
  /\ RejectAllPending
  /\ status' = "connecting" /\ shown' = Nobody /\ banner' = "none"
  /\ ConnectReal(FALSE)
  /\ UNCHANGED <<devMode, mockVars, retries, sentOn>>

(* Mutant: the requests on the mock are left waiting.                      *)
SwitchKeepsPending ==
  /\ CanSwitch
  /\ usingMock' = FALSE /\ mockReason' = "none" /\ firstAttemptDone' = FALSE
  /\ probeTimer' = FALSE /\ probe' = FALSE
  /\ status' = "connecting" /\ shown' = Nobody /\ banner' = "none"
  /\ ConnectReal(TRUE)
  /\ UNCHANGED <<devMode, mockVars, retries, request, sentOn>>

Switch ==
  /\ CanSwitch
  /\ usingMock' = FALSE /\ mockReason' = "none" /\ firstAttemptDone' = FALSE
  /\ probeTimer' = FALSE /\ probe' = FALSE
  /\ RejectAllPending
  /\ status' = "connecting" /\ shown' = Nobody /\ banner' = "none"
  /\ ConnectReal(TRUE)
  /\ UNCHANGED <<devMode, mockVars, retries, sentOn>>

-----------------------------------------------------------------------------
(* Requests.  A send on a closed socket is dropped without an error.       *)
Ask(i) ==
  /\ request[i] = "unsent" /\ \A j \in Requests : j < i => request[j] # "unsent"
  /\ sentOn' = [sentOn EXCEPT ![i] =
                  IF transport \in Sockets /\ ready[transport] # "open" THEN Nobody ELSE transport]
  /\ request' = [request EXCEPT ![i] =
                   IF transport \in Sockets /\ ready[transport] = "connecting" THEN "thrown"
                   ELSE "pending"]
  /\ UNCHANGED <<devMode, socketVars, transport, mockVars, modeVars, storeVars, retries,
                 probeVars>>

Answer(i) ==
  /\ request[i] = "pending" /\ sentOn[i] # Nobody
  /\ sentOn[i] \in Sockets => ready[sentOn[i]] = "open"
  /\ request' = [request EXCEPT ![i] = "answered"]
  /\ UNCHANGED <<devMode, socketVars, transport, mockVars, modeVars, storeVars, retries,
                 probeVars, sentOn>>

TimeOut(i) ==
  /\ request[i] = "pending"
  /\ request' = [request EXCEPT ![i] = "timeout"]
  /\ UNCHANGED <<devMode, socketVars, transport, mockVars, modeVars, storeVars, retries,
                 probeVars, sentOn>>

Next ==
  \/ \E n \in Sockets : FirstTimeout(n) \/ SocketOpens(n) \/ SocketCloses(n)
  \/ Retry
  \/ \E m \in Mocks : MockOpens(m)
  \/ \E t \in Transports : StateArrives(t)
  \/ ProbeStarts \/ (\E reachable \in BOOLEAN : ProbeEnds(reachable)) \/ Switch
  \/ \E i \in Requests : Ask(i) \/ Answer(i) \/ TimeOut(i)

Spec == Init /\ [][Next]_vars

(* Timers fire, mocks open, and an attempt or a probe ends one way or the  *)
(* other: the browser gives up on a connection that does not answer.       *)
FairSpec ==
  /\ Spec
  /\ \A n \in Sockets : WF_vars(FirstTimeout(n))
  /\ \A n \in Sockets : WF_vars(ready[n] # "open" /\ (SocketOpens(n) \/ SocketCloses(n)))
  /\ \A m \in Mocks : WF_vars(MockOpens(m))
  /\ WF_vars(Retry) /\ WF_vars(ProbeStarts)
  /\ WF_vars(\E reachable \in BOOLEAN : ProbeEnds(reachable))
-----------------------------------------------------------------------------
(* Properties.                                                             *)

Live == {n \in Sockets : ready[n] \in {"connecting", "open"}}

(* In a dev build there is one reconnect chain: never two sockets, never a *)
(* socket next to a timer that will open another one.                      *)
OneChain == devMode => retries + Cardinality(Live) <= 1

(* What the top bar says about the connection is true of the transport,    *)
(* in a dev build.                                                         *)
StatusIsHonest ==
  devMode =>
    /\ status = "connected" => transport \in Sockets /\ ready[transport] = "open"
    /\ status = "mock" => usingMock /\ transport \in Mocks
    /\ usingMock /\ opening = {} => status = "mock"
    /\ (\E n \in Sockets : ready[n] = "open") => status = "connected"

(* In a dev build a request never waits on a transport that was replaced:  *)
(* switching away or reconnecting rejects it, so that no answer of the     *)
(* mock is taken for the real stand's.                                     *)
NoOrphanRequest ==
  devMode => \A i \in Requests :
    request[i] = "pending" /\ sentOn[i] # Nobody => sentOn[i] = transport

(* client.ts:4: the client keeps retrying the real endpoint forever.       *)
KeepsRetrying ==
  usingMock \/ retries > 0 \/ Live # {} \/ timer \ settled # {}

(* While the fallback mock is in use the backend is probed again and       *)
(* again, also after it was found reachable (client.ts:45).                *)
ProbingGoesOn == []<>(probe \/ mockReason # "fallback")

(* A first attempt or a switch ends: connected, on the mock, or retrying.  *)
ConnectingEnds == status = "connecting" ~> status # "connecting"
=============================================================================
