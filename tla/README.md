# Formal verification of the Draco stand simulator

This directory holds TLA+ modules that model the control core of the repository, the TLC
configurations that check them on small instances, and TLAPS proofs about them for every instance.
Line numbers refer to the files under `src/`; `D12`, `D14`, `D17` are the design decisions the
sources and docs cite.

Contents: 1 the system and its parts; 2 modules and how they correspond to the code; 3 runs, bounds,
fairness; 4 proofs; 5 what the code does differently from what it says; 6 what is left out;
7 the plan.

## 1. The system and its parts

The program simulates a rocket test stand and the PLC that runs it. A server process
(`src/backend/draco_sim/`) hosts one `Simulator` and one asyncio event loop; operators and engineers
connect with a browser IDE (`src/frontend/src/`) over a WebSocket.

```
 browser                                   server process (one event loop, one thread)
 +---------------------------+             +------------------------------------------------------+
 | views, editors, store     |             |  scan_loop (Pacer) --step---> Simulator               |
 |   |                       |  WebSocket  |  handle_client --dispatch--->   | scan loop, arbitration|
 | SimClient ----------------+-------------+  ClientConnection               | abort latch          |
 |   \-- mock.ts (fallback)  |             |   writer, getters, pump  <----- EventLog (callbacks)   |
 +---------------------------+             |                                 PlcRuntime -> SfcBody, |
                                           |                                   ST / LD code, fb     |
                                           |                                 hwio cards <-> Plant   |
                                           +------------------------------------------------------+
```

**Parts that are modelled**

| part | source | state it keeps | operations |
|---|---|---|---|
| scan loop | `runtime/simulator.py`, `runtime/config.py` | run mode, abort latch and pending abort, programs an abort switched off, manual commands, coils the PLC drives, output image, loop enables, abort thresholds, simulated clock | `step`, `plc_run`, `plc_stop`, `plc_reset`, `reset_plant`, `load_programs`, `plc_clear_faults`, `abort`, `abort_config`, `write`, `force`, `unforce`, `sequence_start`, `sequence_stop`, `pause`, `resume`, `set_scan_hz` |
| PLC runtime | `plc/runtime.py` | I/O image, globals, each program's locals and block instances, forces, enable and halt of each program, abort flag, faults | `scan`, `write_inputs`, `write_globals`, `force`, `unforce`, `start_sfc`, `stop_sfc`, `trigger_abort`, `clear_abort`, `clear_faults`, `set_program_enabled`, `reset` |
| SFC engine | `plc/sfc.py` | per chart: active steps, step timers, entry actions still owed, abort block | `start`, `stop`, `apply_abort`, `clear_abort`, `execute`; the compiler's abort set |
| function blocks | `plc/fb.py` | TON/TOF/TP, CTU/CTD/CTUD, R_TRIG/F_TRIG, SR/RS per instance | `execute`, `state`, `restore` |
| ladder | `plc/ladder.py`, `plc/jsondoc.py` | edge memories and block instances in the program's locals | the compilation of a document, one `run` per element |
| ST language | `plc/parser.py`, `compiler.py`, `nodes.py`, `funcs.py`, `types.py`, `program.py` | parser position and diagnostics; values of variables | `parse_program` with its recovery, the type checker, `eval` and `exec` of every node |
| pacer | `runtime/pacer.py` | anchor, credit of simulated time, dropped batches | `due_scans`, `reset` |
| hardware I/O | `hwio/core.py`, `hwio/scaling.py` | per channel: last sample, pending switch, clock | `set_physical`, `write_outputs`, `step`, `reset` |
| plant, its valves | `plant/plant.py` | clock, commands, dead time of every actuator | `step` (actuation), `reset` |
| protocol connection | `protocol/connection.py`, `protocol/server.py` | reliable queue, one-snapshot state slot, the writer and its two getters, subscription task | `send`, `enqueue_event_text`, `push_state`, `restart_subscription`, `stop_subscription`, `_writer`, `close`; `handle_client`, `broadcast_event`, `scan_loop` |
| protocol handlers | `protocol/handlers.py` | none; they act on the connection, the pacer and the Simulator | `dispatch`, `_subscribe`, `_unsubscribe`, `_pump_state`, the pace requests, one handler per message type |
| protocol client | `frontend/src/protocol/client.ts` | transport, mock or real, reconnect and probe timers, pending requests, connection status and banner | `connectReal`, `handleInitialFailure`, `scheduleReconnect`, `connectMock`, `startProbing`, `scheduleNextProbe`, `switchToRealBackend`, `rejectAllPending`, requests; open, message and close events |

**How they interact.** The server's `scan_loop` asks the pacer how many scans are due and steps the
`Simulator` that often without an await in between. A step reads the input cards, calls `PlcRuntime`
synchronously, which calls the programs (ladder, structured text, charts) in the order of the list,
arbitrates the result with the commands, writes the output cards and moves the plant. No await is
inside any of it, so the server's tasks see a request or a scan as one step. `EventLog.emit` calls
each connection's `enqueue_event_text` from inside a scan. Each connection has four tasks (handler,
pump, writer, and the two getters the writer keeps in flight) that interleave at every await. The
client's callbacks (socket events, timers, application calls) interleave at event granularity.

**What is hard, and what makes each part correct**

- *Scan loop and arbitration.* Many independent ways to command a valve (manual command, output
  force, program, sequence, bang-bang loop, abort chain, held coil, fail-safe default) meet in
  `_arbitrate`, and requests come in any order between scans. Correct means: an abort beats
  everything until every chain is over and nothing holds it; nothing an abort or a stop turned off
  comes back by itself; one owner per solenoid; the pending operator abort is neither lost nor left
  behind; the latch, which exists in three copies, never disagrees with itself; an abort ends.
- *PLC runtime, blocks and ladder.* Programs share globals, outputs and block instances, fault in the
  middle of their writes, are halted, disabled, forced and reset between scans. Correct means: a
  faulting program leaves nothing behind; a force holds whoever writes; an edge is counted once; a
  timer measures executed time and fires in the right scan; a stored value has its declared type.
- *ST language.* Correct means: the tree is the grammar's; one error costs one diagnostic and no
  healthy statement but what a missing semicolon runs into; an accepted program never fails inside the engine; integers wrap, divide and
  count loops as 32-bit integers do at the ends of their range; compilation ends.
- *SFC engine.* Several transitions may hold in one scan, steps are activated by requests and aborts
  outside scans, scans are rolled back on a fault. Correct means: one branch is selected, timed steps
  end on time, an aborting chart stays in its abort chain.
- *Clock, cards and valves.* Three clocks advance separately; pauses, rates, speeds and resets come
  between ticks. Correct means: simulated time keeps pace with the wall clock up to what is dropped
  and counted; the clocks agree; a reading is as old as its card's period at most; a command reaches
  its valve after exactly latency and dead time.
- *Connection.* Replies and events must arrive all, once and in order while snapshots are replaced;
  a slow client is disconnected; nothing of a closed connection goes on running; replies are not
  starved by snapshots.
- *Client.* A race of socket events, timers, probes and user switches. Correct means: one reconnect
  chain, an honest status, requests end, retries and probes go on.

**Not modelled**

| part | source | why not |
|---|---|---|
| lexer | `plc/lexer.py` | characters to tokens, one regular expression; a source is a sequence of tokens in the models |
| fluids | `plant/fluids.py`, most of `plant/plant.py` | a continuous model in floating point; readings, muscle air and trips are arbitrary in the models |
| transducers | `hwio/thermocouple.py`, most of `hwio/scaling.py`, `channels.py` | polynomials and linear formulas over reals; noise is off by default |
| event log | `runtime/events.py` | a bounded deque and a list of callbacks; `Connection` models one subscriber |
| demo profile | `runtime/demo.py` | builds a `Simulator` |
| calibration, replay, data | `plant/calibrate.py`, `replay.py`, `data/*.py` | offline numerical tools |
| tag database | `tags/*.py` | loaded once |
| mock simulator | `frontend/src/protocol/mock.ts` | a second, simplified stand with random readings |
| workspace, editors, views | `frontend/src/workspace`, `editors`, `gc`, `components`, `views`, `lib` | one user's documents and presentation |

The hazards that come out of this survey, each at the line where it bites and with the properties
that cover it, are listed in `PROJECT.json`.

## 2. The modules

```
 SfcChart ---------+--> Simulator --+--> SimulatorHistory ---+
 (one chart's      |                +--> SimulatorAuthority -+--> MCHistory
  operators)       |                |      (INSTANCE Authority)
                   |                +--> SimulatorLiveness -----> MCLiveness
                   |                +--> MCSimulator (catalogues of programs)
                   |                +--> SimulatorProofs (TLAPS, with SimulatorAuthority)
                   |                       +--> HistoryProofs (TLAPS, with SimulatorHistory)
                   +--> SfcEngine --+--> MCSfcEngine
                                    +--> SfcEngineProofs (TLAPS)

 PlcValues --> FunctionBlocks --> Contexts, Symbols, PlcRuntime   (values and functions; timers, counters)
 Contexts --> StNodes, LadderRun                                  (execution)
 StNodes + Symbols + StParser --> StCompiler --> StProgram --> StGrammar --> MCLanguage
 Symbols + LadderDocs --> LadderCompiler
 LadderCompiler + LadderRun --> Ladder                            (the recursion over a document)
 StCompiler + Ladder --> PlcLanguages
 PlcRuntime --> PlcHistory;  PlcHistory + PlcLanguages --> MCRuntime
 PlcHistory --> PlcRuntimeProofs (TLAPS)
 PlcRuntimeProofs + LadderCompiler + LadderRun --> LadderProofs (TLAPS)

 Pacer --+
 HwIo ---+--> Stand --> StandHistory --+--> MCStand
                                       +--> StandProofs (TLAPS)

 Connection --+--> MCConnection          SimClient --+--> MCClient
              +--> ConnectionProofs (TLAPS)                 +--> SimClientProofs (TLAPS)
```

Operators whose comment begins with *Mutant* are deliberately wrong variants of the definition that
follows them (a dropped guard, a missing reset). No specification uses them: putting one in the place
of the correct definition must make a named property fail, which is how every property is shown to
depend on the code (`PROJECT.json`, `mutants`).

### SfcChart: what a chart may do
The operators of `plc/sfc.py` without timers and order: `Start`, `Stop`, `ApplyAbort` build the
`SfcState`; `AbortSet` is the compiler's forward closure of the abort step, which follows a
transition when *one* of its from-steps is in the set, while `InAbort` (execution) needs *all* of
them; `Ready`, `Disjoint`, `After` say which sets of transitions one scan can fire and what they do;
`Acting` which steps' actions run; `Parked` and `ChainDone` when a chart no longer owns the stand and
when an abort chain is over. `ChartAssumption` is what `SfcCompiler` accepts.

### Simulator: the scan loop with its PLC
`Simulator` and `PlcRuntime` in one module, because neither is ever seen without the other: every
request of the server and every scan is one atomic action, as in the code. Variables are the
attributes of the two classes (each is named in its comment). `bbOn` and the loop's global are two
variables because the code keeps two: `hmi.bb.<loop>.enable` in `Simulator`, the program's global in
the runtime. Requests are the actions `PlcRun`, `PlcStop`, `PlcReset`, `SimReset`, `LoadPrograms`,
`ClearFaults`, `AbortRequest`, `AbortConfig`, `SequenceStart`, `SequenceStop`, `WriteManual`,
`EnableLoop`, `DisableLoop`, `WriteSetpoint`, `HandOver` (the enable and the manual command in one
write), `WriteGlobal`, `ForceOutput`, `UnforceOutput`, `ForceGlobal`, `UnforceGlobal`; their guards
are the conditions under which the code raises. `Rebuild` is `PlcRuntime.reset` and `_build`,
including the re-applied forces.

A scan is `ScanStopped`, `ScanOn` or `ScanReturn`. What the programs compute is data, chosen within
what they can do: `r` the threshold rows the sensors satisfy, `flt` the programs that fault, `F` the
ready transitions that fire, `v` the values written to outputs, `q` whether the monitor requests an
abort. `v` is bounded by `Writable`: a step's writes only if its actions run, a regulator's only when
its loop says so or is just being closed. The operators follow the order of `step`: trips are read
(`Trips`, with the request global of the *previous* scan), the latch is taken (`Latches`: programs
switched off, forces dropped, forced coils forgotten, charts sent to their abort step), programs run
in the runtime (`Executing`, `ChartOut`, `ImageOut`), arbitration picks every coil's position
(`AbortTable`, `NormalTable`), and the return is checked (`Returns`), which stops the charts, turns
the loops off and keeps the coils as they stand.

### SimulatorHistory, Authority, SimulatorAuthority, SimulatorLiveness
`SimulatorHistory` adds history variables for promises that span many steps: `holding` and `held`
(nothing was commanded since a stop or an abort's end, and the positions that must stay) and
`sequenced` (the last position a running sequence commanded). They only observe: every action of
`Simulator` occurs in exactly one of its disjuncts, unrestricted.

`Authority` is what the scan loop promises from outside: the stand is *stopped*, or with the
*operator*, a *sequence* or an *abort*, and a set of valves is under manual command. Only the operator
takes a valve, one at a time; an abort takes all, and only its end or a reset leaves it.
`SimulatorAuthority` maps `mode` and `byHand` onto `running`, `latched`, `Active` and `manual` and
states that `Simulator` implements it. This needs charts that do not start by themselves and an abort
step that is not already final.

`SimulatorLiveness` adds fairness (section 3).

### SfcEngine: one chart scan by scan
`SfcBody.execute` with what `SfcChart` leaves open: transitions tried in document order and each
from-step consumed once (`Firing`, a recursive function over the order), timers (`t`), entry actions owed to steps activated outside a scan
(`fresh`, `pending`), the scan of a latched abort (`AbortScan`), faults and their rollback (`Fault`).
Time is counted in scans up to `MaxTime`. `stay` is a history variable: the scans each active step
completed, counted independently of `t`. `ChartStep` ties the module to `Simulator`: a scan changes
the active steps only by a set of ready, disjoint transitions, which is all that `Simulator` assumes.

### PlcValues, FunctionBlocks: values, functions and blocks
A value is a record with the kind of Python object the engine holds (`bool`, `int`, `real`, `str`) and
its number; a real is a fraction, so that no rounding hides a difference. `Coerce`, `Promote`,
`Assignable`, `Wrap` are `types.py`, `Kernel` the integer and real operations of `nodes.py`, `Call` the
functions of `funcs.py`; a fault is a value too, so that it travels through an expression as the
exception does. `FunctionBlocks.Execute` is `execute` of every block: `Elapsed` (ET, reset and capped at
PT), the three timers on it, the counters with their edge memory, triggers and latches.

### StNodes, StParser, StCompiler, StProgram, StGrammar: structured text
`StParser` is the recursive descent of `parser.py` over a sequence of tokens: a parser state is the
position, the diagnostics (as positions) and the node just read; `Then` and `Expect` carry an exception
past the rest of a rule, and `Sync` is the recovery. `StCompiler` checks and types a tree and yields
nodes; `StNodes` runs them on a context of stores (locals, globals, inputs, outputs, system variables).
`StProgram` puts them together, one action per turn of the parser's loops, then `Compile` and `Scan`.
A source also says which family it belongs to, so that `StGrammar` can hold it against a reference
of its own: expressions against a grammar that splits at operators and knows nothing of descent,
bodies of healthy and broken statements against a bracket count, divisions and FOR loops against
integer arithmetic, all of them against the declared types.

### Symbols, Contexts: what both languages share
`Symbols` is the part of `compiler.py` that structured text and ladder both call: the lookup of a name,
declarations, and the typing of operators (`Fits`, `ToReal`, `BinaryNode`). `Contexts` is the part of
`nodes.py` that both run on: the stores of a context, reading a leaf, storing with a conversion.

### LadderDocs, LadderCompiler, LadderRun, Ladder: ladder programs
`LadderDocs` says what a document is made of. `LadderCompiler` compiles declarations, operands and
elements, `LadderRun` runs them: power flows through series and parallel groups, edge contacts keep
their memory in the program's locals, blocks store their outputs with a conversion. Both describe *one
step* of the recursion over the document (`NodeEl`, `RunNode`) and take the rest of it (`NetworkEl`,
`RunElement`) as a constant operator; `Ladder` is the two lines that tie the knot. The runs execute
`Ladder`; the prover, which takes no RECURSIVE operator, sees the steps.

### PlcLanguages, PlcRuntime, PlcHistory: programs on the runtime
`PlcRuntime` is the runtime with its list of programs,
and knows nothing of languages: `Compiled` and `RunBody`, what a source compiles to and what a body
leaves of a context, are constants. `PlcLanguages` gives their values, ladder and text, for the runs;
the proofs hold for every value. A body's writes reach the names its program declares and the outputs
(`Kept`). `Built` makes all stores, merging the globals that several programs declare, `Scan`
runs every program that is enabled and not halted, one after the other (`NextProgram`), with `Restore`
for one that faults, and the
remaining actions are the requests between scans. A *plan* says which programs run and which inputs,
global writes, forces and scan periods a behaviour draws from. `PlcHistory` observes it with the
clocks the timers should follow and the edges the counters should have counted.

### Pacer, HwIo, Stand, StandHistory: from the clock to the valves
`Tick` is one turn of the server's `scan_loop` (`DueScans` is `due_scans`), `Step` is `Simulator.step`
with an arbitrary image in the place of the PLC: the cards sample and switch (`HwStep`), then the plant
moves (`PlantStep`), then its sensors are handed to the cards. `Pause`, `SetScanHz`, `SetRealtime`,
`SetSpeed` and `ResetPlant` are the requests, handled between two ticks. Time is one integer unit for
wall clock, simulated clock and cards. `StandHistory` keeps what the promises are about: the time owed
and what excused it, how long the plant has shown a reading, and how long a command has stood.

### Connection: one client of the server
One action per stretch of code between two awaits, of every task that touches the connection:
`Broadcast` (an event, in any scan), `Request`, `Subscribe`, `Unsubscribe`, `RequestCrashes`,
`HandlerEnds` (the handler), `Push` (the pump), `TakeReliable`, `TakeState` (the two getters, which
take an item as tasks of their own), `Wake`, `SentReliable`, `SentState`, `SendFails` (the writer,
suspended in `asyncio.wait` or in a send), `SocketCloses` (the peer or the library). Messages are
numbered when queued, snapshots when taken; contents are left out. `wire` is what has been sent.

### SimClient: the browser's end
One action per event: `SocketOpens`, `SocketCloses`, `FirstTimeout`, `Retry`, `MockOpens`,
`StateArrives`, `ProbeStarts`, `ProbeEnds`, `Switch` and the requests `Ask`, `Answer`, `TimeOut`.
Sockets and mocks are numbered transports, so that callbacks of a replaced one stay possible, as they
do in the code. `shown` remembers where the displayed state came from.

## 3. Runs, bounds and fairness

| run | instance | shows | states |
|---|---|---|---|
| `Sequence` | a hotfire-like chart with an abort chain, alone or beside `raw`, a program that writes a valve unconditionally; a normally-open vent; manual commands on both valves, a force on one | `TypeOK`, `AbortAbsolute`, `AbortFlagsAgree`, `ChartsConfined`, `SequenceKeepsCoil`, `OnlyChainsWrite`, `ImplementsAuthority` | 79,000 |
| `LoopControl` | a bang-bang loop with the abort monitor or with `raw`; global writes and forces, a manual command and a force on the solenoid | `SwitchedOffStaysOff`, `LoopOwnsSolenoid`, `ReArmedOnlyByReset`, `AbortRequestServed`, `NothingMovesByItself` | 53,000 |
| `AbortLiveness` | the chart alone, under `FairSpec` | `AbortEnds` | 4,400 |
| `SfcEngine` | two charts: a line with a selection, a loop back, a timed step and an abort chain; a fork with a timed branch and a join | `NeverOverdue`, `LeftOnTime`, `ChartStep` | 1,100 |
| `Language` | every operator sequence of up to five tokens over three alphabets; every body of up to four chunks (openings, ends, ELSE, a CASE label, healthy and malformed statements), of five over IF, END_IF and the statements and over CASE, a label, END_CASE and the statements; every operator and function over operands of every type; all pairs of 4-bit operands; FOR loops at the ends of the range | `TreeIsTheGrammars`, `RecoveryIsLocal`, `TypesAreKept`, `DivisionIdentity`, `ForCounts` | 624,000 |
| `Runtime` | a rung with all three timers, changing PT and scan periods; a rung program with edges, counters and a division that may fail; three programs that share a global, an output and a counter and fault on their way; those under every kind of force; one document per element with every operand in every place | `TimersKeepTime`, `EdgesCountOnce`, `ForcesHold`, `ImageIsTyped`, `FaultsLeaveNoTrace` | 117,000 |
| `Stand` | two scan periods, three speeds, ticks of 0 to 8 units, pauses; a card at every scan and a slow one; two pneumatic valves (one normally open) and a solenoid, a dead time of several scans, resets | `SimulatedTimeIsPaced`, `ClocksAgree`, `ReadingsAreRecent`, `ValvesFollow` | 1,830,000 |
| `Connection` | one client, queue limit 1, 3 reliable messages, 3 snapshots, under `FairSpec` | `NothingDropped`, `LatestWins`, `GoneIsQuiet`, `RepliesArrive`, `SlowConsumerLeaves` | 199,000 |
| `Client` | dev and production builds, mock forced or not; 3 sockets, 2 mocks, 2 requests, under `FairSpec` | `OneChain`, `StatusIsHonest`, `NoOrphanRequest`, `ProbingGoesOn`, `ConnectingEnds` | 240,000 |

Three more runs each find one property violated; they are in section 5.

**Why these bounds.** In `Simulator` nothing is bounded by a counter: the state space of an instance
is finite and is explored completely, so every sequence of requests and scans of any length is
covered. What is small is the catalogue. A chart with one normal path and one chain gives every
arbitration case of a coil (written by the chain or not, by the sequence or not, by another program,
by nobody); a second chart or loop would add interleavings of independent parts. The proofs of
section 4 remove the bound for what they cover. In `SfcEngine` timers stop counting at 4 scans, above
every delay (1 and 2), so an early and a late exit are both visible. In `Connection` a queue limit of
1 with 3 messages reaches the disconnect; 3 snapshots put one on the wire, one in the getter and one
in the slot at the same time, the most the code can hold apart from what is sent. In `SimClient` three
sockets let a closing one, a connecting one and a wrongly opened third exist at once; two mocks allow
a switch to the real backend that falls back again; two requests are one on each side of a switch.

In `Language` the word size is a parameter: `IntMax = 7` makes every pair of operands and every end of
the range reachable, and nothing in the definitions depends on it but `Wrap`. Five tokens hold two
operators of different levels with a sign and a pair of parentheses, which is where an order of levels
can be wrong; four chunks hold a block
inside a block, five one with a broken statement at an edge.
`LoopLimit = 9` lies between the longest loop that fits and the shortest that does not. In `Runtime` a
plan's `scans` bounds a behaviour: five scans of one or two units pass a delay of three and a raised or
lowered PT; four scans hold a rise, a fall, a fault and the scan that catches up; what follows is the
same again, since no counter of scans is read but SYS_FIRST_SCAN. Documents run for two scans, because
a store made in the first is read in the second. In `Stand` the periods 2 and 3 against a card period of
7 and a dead time of 5 put every boundary both on and between scans; the wall clock goes to 12, past
one dropped batch with a change of speed or rate on either side of it.

**Fairness.**
- *Scan loop*: `WF(Scan)`. `scan_loop` calls `sim.step` for as long as the process runs
  (`protocol/server.py`), except while the simulation is paused, which this module leaves out. A transition in `Timed` (a condition that is TRUE or `<step>.T >= <time>`)
  fires if it stays possible: a step's timer grows in every scan its chart executes, which `SfcEngine`
  checks exactly (`NeverOverdue`). Nothing is assumed of operators, programs' requests or faults;
  `AbortEnds` names what may hold an abort as its premise.
- *Connection*: the event loop runs every ready task (`TakeReliable`, `TakeState`, `Wake`,
  `HandlerEnds`), and a send that is suspended completes or the socket closes, because the websockets
  library pings peers and drops silent ones. Neither clients nor the scan loop owe any message.
- *Client*: timers that are set fire, mocks open, and an attempt or a probe ends one way or the other.
  Nothing is assumed of the server: it may refuse every attempt or close any socket.

**Deadlock** is checked for the scan loop and the SFC engine. `Connection` and `SimClient` really
stop: a connection that is gone has no task left, and a client may be idle. A compilation ends, and the
plans of `Runtime` and `Stand` end where their bounds do.

## 4. Proofs

`SimulatorProofs` (about 1120 obligations), `HistoryProofs` (about 520), `SfcEngineProofs` (about 660),
`PlcRuntimeProofs` (about 5500), `LadderProofs` (about 2000), `StandProofs` (about 900), `ConnectionProofs`
(about 550) and `SimClientProofs` (about 500) prove for every value of the constants. The last two
assume nothing but the types of their bounds.
`SimulatorProofs` assumes `ChartAssumption` (what the SFC compiler accepts) and `StandAssumption` of
`Simulator` (program sets, write sets and tables have their types; loops have distinct solenoids).
`StandProofs` assumes the types of its constants, that a scan is never longer than `MaxDt`, that `Long`
is past every card's period and the dead time, and, for the valves, `OutputAssumption`: plant and cards
agree on the fail-safe positions, and a card switches within a scan (0.5 ms, where the server admits
scans of 10 ms and more). `SfcEngineProofs` assumes `ChartAssumption` and `OrderAssumption` of
`SfcEngine`: the order lists every transition of a chart once, and a timed transition has one
from-step. `PlcRuntimeProofs` assumes `PlansAreLists` (a plan has a finite list of programs) and that
the greatest integer is at least 1, and nothing of `Tags`, `Compiled` and `RunBody`;
`LadderProofs` assumes no more, its hypotheses on documents are in its theorems. `NoAutostart`,
`ChainsAreLong`, `LoopsUnforced`, `TimersPlanned`, `EdgesPlanned`, `TypesPlanned` and `LaddersPlanned` are hypotheses of
the theorems that need them; the runs of the same properties satisfy them.

| theorem | property | argument |
|---|---|---|
| `TypeCorrect` | `TypeOK` | one lemma for what a scan computes (`ScanType`), one per group of requests |
| `AbortIsAbsolute` | `AbortAbsolute` | inductive with `TypeOK`. `OtherStepLatched`: while latched, no request touches commands, forces or enables of what the abort switched off, except the resets, which end the latch. `ScanOnAbsolute`: a scan that latches or stays latched empties them, and `AbortTable` gives a coil outside the chains its fail-safe position |
| `FlagsAgree` | `AbortFlagsAgree` | each step changes the three copies together; `RebuildUnaborted` and `AfterAborted` for the charts |
| `AbortConfinesCharts` | `ChartsConfined` | needs `AbortFlagsAgree` (a latched chart is blocked) and `AbortSetClosed`: the set is closed under every transition leaving it by any from-step, so firing one whose from-steps *all* lie in it stays inside, whatever the chart looks like |
| `OnlyAbortChainsWrite` | `OnlyChainsWrite` | from the three invariants above: the only executing writers are charts, their acting steps lie in the abort set |
| `StoppedStandIsInert` | no run of its own | `PlcStop` is the only step that clears `running`; requests that could add a command are guarded by it |
| `SwitchedOffIsOff` | `SwitchedOffStaysOff` | the list and the enables change together; `ClearFaults` and `PlcStop` restore enables minus the list |
| `NothingReArmsItself` | `ReArmedOnlyByReset` | by `SwitchedOffStaysOff`, only a step that empties the list re-enables |
| `RequestIsServed` | `AbortRequestServed` | the request is consumed by a stop, a reset or a latching scan only; for the last by `AbortTable` |
| `LoopsOwnSolenoids` | `LoopOwnsSolenoid` | uses that solenoids are distinct: enabling a loop removes the command of its own solenoid and no other |
| `SimulatorImplementsAuthority` | `ImplementsAuthority` | one abstract step per action, from `AbortAbsolute`, `StoppedIsInert` and the fact that charts run only while the PLC does. `ChainBegins`: the abort step is fresh in the scan that latches, so an abort that ends in that scan had no chain and leaves every output safe. Needs `NoAutostart` and `ChainsAreLong` |
| `SequenceAlwaysKeepsCoil` | `SequenceKeepsCoil` | `KeepInv`: such a coil is driven, has no manual command, and image and output agree with what the sequence commanded. The history variables only watch (`HistStepIsStep`), so `TypeCorrect` carries over |
| `NothingEverMovesByItself` | `NothingMovesByItself` | `Still`: no chart runs, no loop is on, nothing is forced, no coil outside the unconditional ones is driven, and manual command or fail-safe position is what is held; `StillOn` for a scan, `Returned` and `Stopped` for how it begins. Needs `LoopsUnforced` besides: a client that forces the enable of a loop commands its valve through a stop |
| `FiringIsDocumentOrder` | (`LeftOnTime` and `ChartStep` rest on it) | a transition fires in a scan exactly if its condition holds, it is ready, and no transition before it in the document that fires takes one of its from-steps. Induction over the order: `IntervalInduction`, from the library's fact that finite sets ordered by inclusion are well founded |
| `TimersAreTrue` | `TypeOK` of `SfcEngineProofs` | with `IInv`: a timer of the code is the number of scans the step completed, and the steps flagged fresh are those whose entry actions are owed |
| `TimedStepsAreLeft` | `NeverOverdue` | inductive with the two before it: the scan in which a step reaches its delay tries the transition with the timer it has then, and document order lets nothing else take its only from-step |
| `DelaysAreKept` | `LeftOnTime` | from `IInv` and `FiringIsDocumentOrder`: what fires had a timer at its delay, and timers are true |
| `ScansAreChartSteps` | `ChartStep` | a scan of the engine is a chart scan as `Simulator` assumes it: ready transitions that share no step |
| `ForcesAreHeld` | `ForcesHold` | `ForcesInv`: the image has its names, forces are of what may be forced, and both agree. `PassKeepsShape` by induction over the program list: no body, whatever it does, changes inputs, what was told or the clock; forces are applied before and after the pass, and `StillPinned` carries them past every request |
| `FaultsVanish` | `FaultsLeaveNoTrace` | by induction over the list the scan and the scan without the programs that fail reach the same image, globals and locals after every program (`Restore` undoes all that `Leave` kept), so the programs behind it run on the same context and the same ones fail |
| `TimersKeepTimeAlways` | `TimersKeepTime` | needs `TimersPlanned`. `TimersTell` says for each timer what ET, Q and `running` are in terms of the clocks; `OnDelayTells`, `OffDelayTells` and `PulseTells` carry it over one call, for every delay and scan time; `TimersAfterScan` finds the call in the scan and the timers untouched by a rollback; no request reaches a block (`BlocksAreFree`, `StepsOnOne`) |
| `EdgesCountOnceAlways` | `EdgesCountOnce` | needs `EdgesPlanned`. `EdgesTell`: the edge memories are the input of the last completed scan, counts and counter are what was counted, none above the number of scans, so nothing wraps; `CountedOnceTells` for a completed scan, everything is put back in another |
| `BlocksKeepTypes` | no run of its own | every block, field by field: a count is increased below the greatest integer only, elapsed time is a sum of times (`SumIsReal`) or the delay as a float, whatever number the delay is, and nothing but declared fields and edge memories changes |
| `ConversionsKeepTypes` | no run of its own | a conversion to a type gives a value of that type, an integer wrapped to its width (`AcceptedGivesValue`); a block takes inputs that fit (`SetIsBlock`) and is left by `BlocksKeepTypes`, any number of times (`UsedIsBlock`) |
| `ImageIsAlwaysTyped` | `ImageIsTyped` | needs `TypesPlanned`. `TypesInv`: `ForcesInv`, and the whole memory with the inputs told, the forces and the clock has its types. Every program of the list starts from a typed context, whichever before it failed; `Restore` puts back typed values; a write or force is converted (`AcceptedGivesValue`) |
| `AcceptedLaddersKeepTypes` | no run of its own | type soundness of the ladder, for every document. `Makes`: whatever the environment, an element that compiles without a diagnostic runs from a typed context to a typed one (`BoxMakes`, one lemma for each kind of box) and the environment it leaves has the symbols it found (`Leads`). `NodesCompile` by induction over the depth of a node, `ChainExists` and `FlowExists` along the items of a group, `VarsLead` along the declarations |
| `LadderImagesAreTyped` | `ImageIsTyped` | `ImageIsAlwaysTyped` with its hypothesis about the programs proved: every one is what the compiler makes of some document (`LaddersPlanned`), so the runtime's image is typed whatever ladders it loads |
| `DivisionIsWhole` | no run of its own | what `DivisionIdentity` says of the kernels, for every width: from the bounds of division of naturals (`Divide`) by the signs of the operands; the least integer divided by -1 wraps (`WrapOfMax`) |
| `TypeCorrect` (of `Stand`) | `TypeOK` of `StandProofs` | one lemma per action saying what it does to each part (`Ticked`, `Scanned`, `ScannedHistory`, `Requested`) |
| `SimulatedTimeIsAlwaysPaced` | `SimulatedTimeIsPaced` | `PaceInv`: the credit is at most the debt, and what the debt has beyond it at most one longest scan for every time credit was given up. `PacerKeepsAccount` is the balance of one call of `due_scans`, from the bounds of whole division |
| `ClocksAlwaysAgree` | `ClocksAgree` | inductive with the types: (n + 1) dt = n dt + dt, and a change of rate moves the product into the base |
| `ReadingsAreAlwaysRecent` | `ReadingsAreRecent` | `RecentInv`: a sample is younger than the card's period or of this scan, and a value held since before the sample is the value sampled; `Rounding` bounds the error of the conversion |
| `ValvesAlwaysFollow` | `ValvesFollow` | `FollowInv`: an actuator has seen the last position that stood for the dead time and counts how long another has stood; `Delivered`: the image written at the start of a scan is on the valves at its end |
| `GoneStaysQuiet` | `GoneIsQuiet` (of `Connection`) | inductive as it stands; `EnqueueWarns` for the warning and the socket |
| `NothingIsDropped` | `NothingDropped` | inductive with the types: what waits is the tail of what was issued, in order, one more may be with a getter, and the wire holds exactly the rest |
| `LatestAlwaysWins` | `LatestWins` | `LatestInv`: what the pump has taken counts up, and everything on the wire, in the getter and in the slot is at most that, each newer than the one before it |
| `OneChainAlways` | `OneChain` | `ChainInv`: with the mock in use there is no attempt and no retry timer; otherwise every socket that connects or is open, and every unsettled first attempt with a timeout, is the transport, and none exists beside a retry timer. `GivenUp`, `Opened`, `Closed`, `Retried`, `Switched` and `MockOpened` say what each event does in a dev build |
| `StatusAlwaysHonest` | `StatusIsHonest` | inductive with `ChainInv`: an event of a socket is an event of the transport |
| `NoRequestIsOrphaned` | `NoOrphanRequest` | `RequestInv`: a request waits on the transport, and on a socket only while it is open; so nothing waits when an attempt is given up or a retry connects, and a drop or a switch rejects what does |

**The hypotheses on programs.** `TimersPlanned` and `EdgesPlanned` speak of plans about `timers`
and `edges` only. Such a plan has one program, `ladder`, and whatever context it is entered in, a pass
it completes has called the blocks of those names once: the three timers with the input `start` and
the global `delay`; a rise and a fall contact on `start` behind `enable`, each adding one, and a CTU
reset by `clear`. Delays and scan times are whole numbers (any integer, and any natural one), the
counts are not forced, and the plan has no more scans than the greatest integer, so that no count
wraps. What else the program does, where and how it faults, and every request of the plan are free.
So the theorems are about the blocks, the pass and the requests, for every delay, scan time and number
of scans; that these documents call their elements (`RunContact`, `RunTimer`, `RunCounter`) once in a
pass is in the hypotheses and stays with the `Runtime` run, which
checks the same two properties on compiled documents. Those documents are such programs: evaluated in
TLC over the contexts of every reachable state of the two plans (65,000 and 8,600 states), the calls
are the ones the hypotheses name.

`TypesPlanned` asks of each program that it `KeepsTypes`: entered in a typed context, and whatever its
values, it ends without an error of the engine itself, and unless it faults it leaves typed values.
`ConversionsKeepTypes` says when the second half holds: a program that leaves in a variable what was
there or a value as a conversion to its type gives one, and that sets and calls its blocks, any number
of times, with inputs that fit. Compiled coils, boxes and assignments do so, because the kernels wrap
(`wrap32`) and an integer stored in a REAL is made a float. A delay need not be a time: a ladder hands
the timer whatever number its `pt` operand is (`ladder.py:100`), and the types of a block allow it. It
does not hold of every structured text: a mixed `MIN` or `MAX` whose result is stored as it is, a
`FOR` that runs to the greatest integer, a literal or unary minus that escapes `wrap32`, and a program
that copies PT back out of a block, since the block may have any number there.
What `ImageIsAlwaysTyped` adds is the runtime: the order of the list, shared globals, rollback,
writes, forces, resets and the blocks, for any number of programs.

For ladder documents the hypothesis is proved (`AcceptedLaddersKeepTypes`), and with it that the
internal fault is out of reach: an accepted ladder goes on or divides by zero. What is asked of a
document (`IsDocument`) is that nodes are of finite depth, which a parsed JSON text has; that an element
inside an element is what one step of the compiler and of `run` makes of it (`Unfolds`, the two lines of
`Ladder`); and that a literal is a value of its type. The last one the code does not enforce for
integers: `literal` (`jsondoc.py:111`) takes any JSON integer, and one past 32 bits stays as it is in
whatever it is moved to. Everything else, from unknown names to outputs of a block stored in a variable
of another type, is refused by the compiler as modelled, and the theorem says that this is enough.
`IsLadderOf` says what `PlcLanguages` defines `Compiled` and `RunBody` to be for a ladder program.

For structured text there is no such theorem because it would be false: the exceptions above are
accepted programs. `TypesAreKept` checks it with those exceptions, in the `Language` run.

Only model-checked:
- liveness (`AbortEnds`, `RepliesArrive`, `SlowConsumerLeaves`, `ProbingGoesOn`, `ConnectingEnds`) and
  anything under fairness, which is out of the prover's reach;
- the properties of `Language` (`TreeIsTheGrammars`, `RecoveryIsLocal`, `TypesAreKept`,
  `DivisionIdentity`, `ForCounts`): their modules describe recursive data (token sequences, trees) with
  RECURSIVE operators, which the prover does not take. The arithmetic of `DivisionIdentity` is proved,
  for every width, as `DivisionIsWhole`;
- that compiled documents are programs as `TimersPlanned` and `EdgesPlanned` want them: those speak of
  particular documents, and the `Runtime` run checks their properties on them.

## 5. Where the code and what it says part ways

Each of these is a run that TLC ends with a counterexample.

| run, property | what happens | what the repository says |
|---|---|---|
| `VarBlock`, `EveryTurnReads` | a VAR block that is not closed before a statement: `sync()` stops at the keyword without reading it (`parser.py:294`), and the loop over declarations never ends | `docs/plc-language.md:711`: "recovers at statement and element boundaries and keeps going" |
| `StopAutostart`, `StopStopsCharts` | `plc_stop` rebuilds the runtime (`runtime/simulator.py:340`), and `_build` starts charts with `autostart` (`plc/runtime.py:154`) | `docs/runtime.md:81`: plc.stop "stops every chart" |
| `ClientRetry`, `KeepsRetrying` | a production attempt after the first that closes before opening is retried by nobody (`client.ts:152`) | `client.ts:4`: "it keeps retrying the real endpoint forever" |

Met on the way, without a run of their own.

*Scan loop.*
- `simulator.py:330`: `plc_stop` removes forces on outputs only; a forced enable global opens the
  loop's solenoid after `plc_run`. `docs/runtime.md:87`: "every valve stays in its default state until
  the operator commands one". (Add the loop's enable to `GlobalForces` of the `LoopControl` run:
  `NothingMovesByItself` fails.)
- `simulator.py:757`: a removed output force stays in the image and in `_plc_driven`, so a
  normally-open vent is held closed after the latch until its chain writes it. `simulator.py:495`: "a
  forced value left in the image does not count as the PLC having driven that coil".
- `simulator.py:932`: a write of several entries is validated as a whole and applied one by one, so a
  value that fails only when applied leaves the earlier entries in place; `docs/protocol.md:40` says
  "atomic: all or none". `load_programs` (`simulator.py:235`) and `sim.rate` (`handlers.py:244`, which
  sets the scan rate before it rejects a bad speed) fail half way in the same manner.
- `pacer.py:38`: a pause and a resume between two ticks count the pause as running time.

*PLC runtime and languages.*
- `runtime.py:106`: the same VAR_GLOBAL written with different letter case in two programs is not
  merged; the second program then faults with `internal` in every scan.
- Integers are not kept within 32 bits everywhere: literals, the unary minus of the least integer, the
  control variable of a FOR loop and JSON literals escape `wrap32`. `ForCounts` and `TypesAreKept` say
  where.
- MIN, MAX, LIMIT, SEL and MUX of mixed operands are typed REAL and hand over the integer as it is.
  EXP and `**` fault on overflow where the docs say infinity.
- `jsondoc.py:81` lets a variable be named like a system variable, a compile error according to
  `docs/plc-language.md:62`; a ladder timer's PT accepts any number, and `in` and `reset` operands are
  not checked to be BOOL.
- `parser.py:244`: a statement without its semicolon before a CASE label loses the label too, for
  `sync` does not stop there: the statements of that branch are read into the one before it (and its
  first simple statement is skipped). `docs/plc-language.md:711` has recovery at statement boundaries.
  Such a program is never run, and the one diagnostic is right. `RecoveryIsLocal` counts the label
  among what is lost.
- A FOR loop over an output tag is not recorded in the program's output writes (`compiler.py:88`).
- `fb.py:64`: an on-delay whose PT is raised after it elapsed continues from the old PT: late by what
  it was over, never early. `TimersKeepTime` excepts that case.

*Protocol.*
- `handlers.py:51`: the reply is sent outside the `try` of `dispatch`; one that cannot be encoded ends
  the connection. `docs/protocol.md:253`: "the connection is left open".
- `connection.py:102`: an unsubscribe leaves up to two states to be sent after its reply;
  `docs/protocol.md:243` promises none.
- `client.ts:270`: `close()` of the mock does nothing; it goes on pushing states into the store of the
  real connection, where `client.ts:260` says the switch tears it down.
- `client.ts:129-153`: in a production build the first-attempt timeout and the close event can both
  reconnect, which leaves two WebSockets. `OneChain`, `StatusIsHonest` and `NoOrphanRequest` are
  therefore stated for dev builds.

## 6. Abstractions and what is left out

*Scan loop* (`Simulator`). A write request carries one entry (but for `HandOver`). Input forces, reads
and snapshots, and the clock of a sequence are left out: they command no valve. The request global
starts FALSE. Programs do not write the loops' enable globals. The order of the program list is fixed
by `LoadRank`. Values of variables, sensors and expressions are data, so a scan can do more in the
model than one program's code can; a violation found this way would have to be read against the
programs. Event callbacks are assumed not to raise.

*SFC engine.* Stored actions (S/R/P qualifiers) and the compilation of documents are left out; timers
are integers counting scans, where the code adds a floating-point `dt`.

*Languages.* A real is an exact fraction, so rounding, infinities and NaN are left out, and the
tolerance of the timers with them; the transcendental functions return a constant, since nothing but
their domain is checked. Lines and columns are token positions, a diagnostic has no wording. Names are
taken as equal when they are the same string: the case folding of the compiler is left out. Strings
have one value.

*Runtime.* Charts are in `Simulator` and `SfcEngine`; a plan's programs are ladder and text. `SetAbort`
sets and clears the flag the programs read. The views (`variables`, `sfc_state`) are left out.

*Stand.* What the PLC decides is an arbitrary image, what the fluids do an arbitrary set of readings and
of losses of air; `Simulator` and `Stand` share the scan but no state, so what a trip does to a valve
within its dead time is left out. All cards have the same span and quantum. The continuous stroke of a
valve is its target. The recovery of `Plant.step` from a non-finite state is left out. Requests come
between ticks, which is when the event loop can run them.

*Connection.* Snapshots and dumps do not raise, except in `RequestCrashes`. A send that was under way
may still succeed after `close()`. Subscription rates and groups, HTTP and message validation are left
out.

*Client.* Delays are left out: a timer that is set may fire at any later time. Retries are bounded by
the sockets that exist at once. A switch happens after the mock has opened, the probe has found the
backend and an abandoned attempt has closed. The `WebSocket` constructor does not throw.

## 7. Plan

Order of work, the most important first.

1. `WriteBatch`: a write request as a fold over its entries on top of `Simulator`'s actions; the "all
   or none" disagreement as a run.
2. `Stand` with `Simulator` in the place of the arbitrary image, for one valve and one trip: how much
   later than the reading the valve is safe.
3. `SfcCompiler`: the compilation of chart documents on top of `StCompiler`, with its static checks.
4. `MockSim`: the rules of `mock.ts` as a specification of its own, and which of `Authority`'s
   promises it keeps.

New parts join existing runs where they answer the same question, so that a run stays one question.
