# Verification of the pan-tilt positioner emulator

The program (`src/Sources`) emulates a two-axis positioner: a client connects by
TCP, sends commands of the MSO-2 protocol, and the emulator moves an azimuth and
an elevation as the device would. This directory holds TLA+ models of it, the
TLC runs that check them and proofs of their main properties.

## Parts of the system

| part | state | operations | talks to |
| --- | --- | --- | --- |
| `Engine` (engine.cpp) | two axes of six `std::atomic`s each; a stop flag; one thread | `Start`, `Stop`, `Set*Position`, `Set*Speed`, getters; the loop updates azimuth, then elevation, then sleeps one tick | read and written by the protocol without a lock; reads the limits of `CONFIG` |
| `Protocol_MSO2`, `Protocol_Base` | flags of the two synchronizations and of the two open positioning orders, statics inside the synchronization functions, `MSO_State` | `Init`, `ProtocolTick` every 10 ms: sample, one command line, synchronizations, announcements | owns `Engine` and `TCPServer`; calls both |
| `TCPServer`, `TcpSocket/` | list of clients under a mutex, two bounded queues each under a mutex, the listening socket without one; accept thread and clients thread; `Send` comes from the protocol and from the period thread | `Start`, `Stop`, `Send`, `Recv`, and the two loops | kernel and clients; the protocol |
| period thread (protocol_mso2.cpp) | two atomics (flag and interval), its counter; the vectors of inputs and outputs, without a lock | `Cmd_period`, `Cmd_i_set`, `Cmd_o_set`, `Cmd_reset`; `PeriodLoop`, `Send_period` | writes lines to `TCPServer`, reads `MSO_State` |
| `Log` (log.cpp) | queue, whose mutex protects only push; file; one thread | `Write*`, `Start`, `Stop`, flush, rotation | called by all threads |
| `ConfigFile`, `Config`, `Property` | the configured values, the lines of the file | read, merge and rewrite at start | everybody reads the values |
| main (main.cpp) | the configuration file's path, the objects above | `Start_Config`, `Start_Protocol`, `Start_Loop`, the end of the process | everything |
| units (utils.cpp) | none | `Mso_*` conversions and validators | `Engine`, `Protocol` |
| drawing, crossplatform, string helpers | the screen | text and pictures | `Protocol` |

Threads: main (`ProtocolTick`), engine, accept, clients, period, log. What is
hard: the engine and the protocol share plain atomics and every order is three
stores; the server's threads end on exceptions at many points, and `Stop` tears
the listening socket down under the accept thread; a client can stop in the
middle of a line; the synchronizations infer "at the limit" from speeds sampled
by an unsynchronized thread; `reset` clears flags but not function statics; the
period thread's flag and interval are two stores; the log's thread, its `Stop`
and whoever deletes the file meet in the middle of a rotation; the process may
die while it rewrites the file it has just read.

What makes the parts correct:
- engine: positions stay in the travel and speeds under the maximum; the short
  path; one order at a time, carried out or replaced, none left by `Stop`;
- protocol: an axis that is not synchronized is not moved; a synchronization
  visits what it must, ends at zero and is answered; so is a positioning order;
- server: lines in and out in order, losses only by a full queue and only of the
  oldest; no client skipped or forgotten; `Stop` returns and releases the socket;
- period: the rate asked for, no lines after the flag is down but the one under
  way, inputs as they were, no write outside the vectors;
- log: every message ends up somewhere, in order, and none is left by `Stop`;
- configuration: a running program has the settings of its file, and writing the
  file back changes none of them.

`PROJECT.json` lists, under "hazards", where the code is exposed, line by line.

## Modules

```
MsoUnits ── AxisMotion ─┬─ Engine ───── MCEngine        TcpServer ─── MCTcpServer
                │       └─ Protocol ─── MCProtocol      Period ────── MCPeriod
                │                                       Log ────────┬ Startup ─ MCStartup
   Engine ── INSTANCE ── Positioner                     ConfigFile ─┘

AxisProofs ─┬─ EngineProofs    (also EXTENDS Engine)    TcpServerProofs (TcpServer)
            └─ ProtocolProofs  (also EXTENDS Protocol)  PeriodProofs    (Period)
                                ConfigProofs (ConfigFile) ── StartupProofs (Startup)
```

**MsoUnits** (utils.cpp, config.cpp) has the unit conversions with C++ integer
division, the normalisation of an azimuth, the clamp of an elevation and the
clamp of a speed, whose product wraps at the width of an int. The commanded
speeds are all of `int`: `INT_MIN`, which `std::stoi` lets through
(protocol_mso2.cpp:618, 644) and whose `abs` wraps to itself, passes the clamp
uncut (`IntAbs`), and the conversion of a speed that does not fit gives `INT_MIN`
again (`CastInt`). **AxisMotion** has
the arithmetic of one engine tick: direction, unrolling across zero, step.

**Engine** has one action per access to an atomic another thread can see. `epc`
is the engine thread's place in `Loop` / `UpdateAxisMovement` / `MoveAxisBy*`,
`cpc` the controller's in `Start`, `Stop` or a setter. `goal`, `new_position`
and `bound` are the thread's locals. The second load of `target_position`
(line 123), the two loads of a limit (test, then use) and the three stores of a
setter are separate steps. Integer division by zero leads to `crashed`.
`accepted` and `limits_stable` are history variables.

**Positioner** is what the engine promises to whoever owns it, with no thread,
atomic or arithmetic in it: a machine that is off, on, running down or dead; it
stays within its travel, moves an axis only for an order given since it was
switched on, dies only after an order, and comes to a halt when switched off.
`Engine!Implements` is its specification under the mapping: `power` from the
engine thread's place and the stop flag, `order` from the last order accepted.

**Protocol** puts `ProtocolTick` over the engine. An update of an axis is two
steps, `PlanUpdate` (all loads) and `StoreUpdate` (all stores), because the
protocol's hazards lie in what the controller does between them; setters are one
step. The two mode flags become one `order`. `pc` walks through the tick:
sample, at most one command, azimuth synchronization, elevation synchronization,
"end" announcements. `previous_position`, `zero_speed_counter`, `direction` and
`return_to_zero` are the statics, which `Cmd_reset` leaves alone. `sent` is what
the tick gave to `tcp_server.Send`. The timing between the two sleeping threads
is bounded by `skew`: at most `TicksPerPass` ticks during a pass of the engine
and `PassesPerTick` passes during a tick, and an update does not span the
start of a tick. `touched`, `disturbed` and `commands` are history variables.

**TcpServer** has the accept thread (`apc`), the clients thread (`kpc`), the
controller's calls (`cpc`) and `Send` (`spc`), which two threads call, the
controller and the period thread (protocol_mso2.cpp:893): a call looks at the
list without its mutex, then adds its line or clears the queue, and the steps of
two calls interleave freely. The number of a line is given when its call begins,
and `overlap` remembers which call began within which other. With them goes the kernel's view of each connection (`peer`,
`served`, `wire`, `partial`) and of the listening socket. `TcpSocket::Close` is
three steps, each loading the descriptor again, because `Stop` and the accept
thread run it at the same time: the second of them may close descriptor 0. `zero`
is what that number names. Once it is free the next `socket` gets it
(`SocketGets`); the socket is bound and listens like any other, but the class
takes it for none (`descriptor>0`), so nobody accepts its clients (`stranded`) and
no `Close` ends it. A critical section is one action, but the passes over
the client list take one action per client. A partial line blocks `ReadLine`
with the mutex held; broken and over-long lines and writes to a reset
connection throw and end the thread. The clients' own acts are external.

**Period** has the period thread (`ppc`) beside the controller (`cpc`). The flag
and the interval of `Cmd_period` are two stores; the loops that set or reset the
inputs and the one of `Send_period` that reads them take a step per input. The
vectors have the spare bits of the words they allocate (`CELLS`): the index one
past the last, which `Cmd_i_set` lets through, is a write into one of them, and
`Written` would add a cell if any index left them. `counted`, `steady`, `late`
and `seen` are history variables.

**Log** has one action per decision of the log thread (`lpc`): test the flag,
open, look at the queue, write one message, measure, and the three parts of a
cut. Somebody may delete the file between any two; the stream then writes to a
file without a name (`unlinked`). The n-th message is the number n. **ConfigFile**
has no state: reading, conversion (`stoi` throws, any text but "false" is true),
the merge and the rewriting are operators on sequences of lines, each with the
carriage returns it has gathered (a line gains one with every start).
**Startup** composes the two under `main`: start, read, truncate, write, log,
end, and death at any point (`Die`), after which the next start finds what is on
the disk; between starts an operator edits the file.

Names of actions and variables are those of the code wherever there is one;
"map" in `PROJECT.json` gives every definition its lines. A definition marked
*Mutant* is a plausible bug that a property is known to catch; no specification
uses it.

## Runs

The motion instances use a circle of 8 positions with a travel of 2..6 around
zero elevation 4 (16 and 0..8 in `protocol_azimuth`), a maximum of 2 positions per tick, three
ticks a second and an int of 7 bits. On this circle every order crosses zero, is half a turn away, or
overshoots within a few ticks; a travel of 5 positions has both limits within
two ticks of the zero; and a small command overflows the clamp's product. The protocol runs command
the speeds -1, 2 and `INT_MIN`, here -64.

| run | question | bounds |
| --- | --- | --- |
| engine_azimuth | types, speed bound, exclusive modes, nothing kept by `Stop`, motion only on command, short path, reported direction; every order settles and `Stop` returns; the engine implements `Positioner` | orders -3, 0, 12; speeds -1, 0, 4 (cut), 30 (overflow), -64 (`INT_MIN`); any number of commands |
| engine_elevation | travel and operator limits while limits move under a move; settling | orders -9, 5; speeds -1, 0, 4, -64; limits 4, 6, and 7 (refused); any number |
| engine_lost_position | a position ordered while the previous one is ending is carried out: **violated** | as engine_azimuth |
| engine_survives | no command sequence kills the engine: **violated** | as engine_azimuth |
| tcp_clients | no client skipped, repeated or leaked, lines of calls that did not overlap in order, no circle of waiting threads | 2 clients, 2 lines from 2 threads through a queue of 1, one start |
| tcp_restart | input lines in order, loss only of the oldest, each read by a server that lives; `Stop` returns; listening socket released | 1 client, 3 lines through a queue of 2, two starts, polite clients |
| tcp_stopped | after `Stop` the server is closed and clients disconnected: **violated** | 1 client, one start |
| protocol_azimuth | an unsynchronized axis stays put, an open order owns its axis, an axis seen at its target rests there, every synchronization is answered | 4 commands on the azimuth, both synchronization modes, 2 ticks per pass, 2 passes per tick |
| protocol_elevation | types, both ends visited, at zero when synchronized, answers | 4 commands on the elevation incl. limits 3, 4, 6; one tick per pass, 2 passes per tick |
| protocol_sync | the tick after the azimuth is synchronized shows it at zero: **violated** | 1 command, slow mode |
| period | types and no write outside the vectors, rate, at most one late line, truthful inputs; lines keep coming and the destructor returns | 2 inputs in 4 bits, intervals -1, 0, 1, 3, indices 0, 1, 2 (one past) and 4 (refused); any number of commands |
| startup | types, no message lost or overtaken, settings survive rewriting, editing and death; the queue drains and `Stop` returns | 3 messages, 1 deletion of the log file, 2 starts, 3 files an operator may write and none at all |

Why the bounds suffice: in the engine runs nothing is counted, so all histories
over those values are covered. A queue of two with three entries overflows and
still keeps an order; two lines are the least whose calls overlap, and a queue of
one the least that drops one (a queue of two with three lines has been checked
too, once: 3.6 million states); two starts are the least for a socket to get the
number that the first stop has freed; two clients are the least for one to be skipped when the
other leaves; two starts restart over every way the first could have ended, and
read the configuration that the first has written or failed to write; three
messages are the least that a cut divides, with one more written after it. Four
commands give, for example, synchronize, order, reset, synchronize: an
interrupted search followed by another. After the last command the model runs
on for ever, which is what the liveness properties speak of ("silent").
Deadlock is checked in the protocol runs; a crashed or stopped thread, a
destroyed protocol and a program that is not started again do stop, hence
`CHECK_DEADLOCK FALSE` in the others.

### What the violated runs show

- **engine_lost_position**: the engine compares, the controller completes a new
  order, the engine clears `move_by_position` (engine.cpp:171).
- **engine_survives**: the target is loaded twice (119, 123); set to the present
  position in between, `direction/abs(direction)` (143) divides by zero.
- **tcp_stopped**: `accept` on the socket that `Stop` took away throws past the
  line that clears `isServerReadyToListen`; and a client accepted while the
  clients thread closes all others stays connected.
- **protocol_sync**: the slow azimuth synchronization reads position 0 while the
  axis turns at full speed and declares it synchronized; the engine's pass in
  flight carries it on. Tests expect the position to be 0 in the next tick.

Each is quoted in "findings" with the test it contradicts. Two of them matter
elsewhere: `Protocol` has no division by zero (the engine's two loads of the
target are one step there), and `SyncedAtZero` leaves the slow azimuth out.

### Facts about timing that came out of the runs

- The slow azimuth search looks for a position that drops from one tick to the
  next. It needs passes per tick times step to be well below a turn: on a circle
  of 8 with two passes per tick the drop can be missed for ever. The default
  configuration (63 of 62832 units per tick) is far from it; the run uses 16.
- The slow elevation search takes three ticks at speed zero for "at the limit".
  If the engine is delayed for more than a tick (`TicksPerPass` 2), three
  readings can fit before it has started, and an end is skipped. The elevation
  run therefore assumes a pass between any two ticks.
- A pass that meets the limit with the old order takes back the order to turn
  round. The search repeats it each tick, so it ends, but the zero speed is
  counted again and the other end may be skipped. This, and a search resumed
  with the statics of one that was reset, is what `disturbed` excepts in
  `SearchVisitsBothEnds`.
- "end" is sent when the *sampled* position equals the target *as ordered*. It is
  never sent for a target that had to be normalised or clamped (`Reachable`). The
  axis rests there (`ArrivalLasts`) unless the order came in the tick of the sample;
  this needs a whole sleep between two samples to outlast one update of the engine.

## Fairness

- *Threads run.* Weak fairness of `EngineNext`, `AcceptNext`, `ClientsNext`,
  `ProtocolNext`, `PeriodLoop`, `LogStep` and `MainStep`: each loop is a thread the
  operating system schedules, and its sleeps end. `FinishCommand` / `FinishCall`: a call of the controller that has
  begun goes on; no call is ever obliged to begin, no client to send, nothing to
  be logged, edited or deleted, no process to be started or to end.
- `SF(AddClient)`: the accept thread waits for `tcpClientsMutex`, which the
  clients thread takes again and again. Weak fairness would let it starve;
  `LoopForClients` sleeps 10 ms outside the mutex, so a waiting thread gets it.
- `PoliteSpec` (tcp_restart only) adds that a client does not leave a line half
  sent for ever: `ReadLine` would block in `recv`, and `Stop` in `join`. Under
  `Spec` alone `StopReturns` does not hold.
- `GiveUp`: `Start` waits `TIMEOUT_MS` for the socket to be open; the model
  lets the wait run out only when the accept thread has ended.

## Proofs

The `*Proofs` modules are checked by TLAPS for all values of the constants that
satisfy the named assumptions (`UnitsAssumption`, `AxisAssumption`,
`EngineAssumption`, `ProtocolAssumption`, `ServerAssumption`, `PeriodAssumption`,
`LogAssumption`, `ConfigAssumption`, `StartupAssumption`): any circle, step,
speed of an axis, limits, commands (every `int`, `INT_MIN` too), width of int, timing bound, set of clients, size of
queue, number of inputs, messages, keys, files and starts.

*Arithmetic* (`AxisProofs`): the conversions return integers, an azimuth is
normalised into one turn, a product that wraps never grows in size
(`WrapShrinks`), so the clamped speed stays within the maximum although the
product overflows (`ClampSpeedBound`), but for `INT_MIN`, which comes out as it
went in (`ClampKeepsIntMin`, `ClampSpeedInt`); when it does not overflow, the clamp cuts
to exactly the maximum in the commanded direction (`ClampIsExact`).

*Engine*: `TypeCorrect`; `PositionsStayInTravel` (the engine's `new_position`
may be outside while it clamps, so the invariant follows it: after the test of
the lower bound it is above the hard minimum, and so on); `SpeedsBounded` (an axis may be ordered
or report `INT_MIN` only if that was commanded of it);
`ModesExclude` (inductive with what the setters have done at each `cpc`);
`StopClears` (with: no order is stored while the flag is up, since the setters
are refused and `Stop` begins only between calls); `MotionNeedsCommand` (the
same, plus: a mode that is up has an accepted command); `MovesByShortPath`,
which rests on `ArcShrinks`: unroll the circle, step, roll it up again, and the
shorter arc has shrunk by the step. `MovesKeepLimits` follows `new_position`
through the two tests: while no limit has changed since the update began, the
lower bound still holds when the upper one is tested (`KeepInv`). `SpeedFollowsMotion` relates the position and the speed an update is
about to store to where it began (`TellInv`), and leaves out an axis that goes at
`INT_MIN`, many turns in a tick; it assumes that every axis can go
at one vel at least, since an axis slower than that moves and reports zero.
`SpeedIsMotion` is its converse: a reported speed means that the axis has moved
that way. It assumes that one vel is not more than one position per tick and that
a step is not a whole turn, as in the default configuration (16/1000 per vel, 63
of 62832), and an azimuth not driven at `INT_MIN`, which may come round to where
it was. `ElevationIsBroughtNearer` is the elevation's `MovesByShortPath`, with
a limit on the way as the only excuse. `StopEndsInSteps`: once the flag is up every
step of the engine's thread lowers the number of steps to its end, and nobody
raises it.

*Protocol*: `TypeCorrect`, with `SkewInv`: an engine in the middle of a pass
began it below the bound. `UnsyncedAxisStaysPut`, `OpenOrderIsTheEngines` and
`SynchronizedAtZero` share the inductive invariant `OrderInv`. It adds
`StageInv`, where the tick is (a synchronization reaches its second step only
while it is going on and its axis is not synchronized, so its orders cannot
touch an axis with an open order or one that must stay put), and `ReturnInv`
(the limits enclose the zero, so the order to return is not clamped, and from
that order to the test of the position the engine can only take it back).
`SearchReachesBothEnds` assumes `TicksPerPass = 1` and an elevation that can go at
one vel at least. `SearchInv` says what readings of zero in a row prove while
the search has not met its end: after the first the engine has the order of the
search (`HasOrder`), what it stores from then on shows the motion or meets a limit
(`StoresMotion`), and it has stored something before the third reading
(`ToldInTick`), which therefore cannot be zero. `ArrivedAxisRests` carries what is
sampled at its target to the command of the tick: the engine has taken the order
back or is about to store the same place.

*Refinement*: `EngineIsADevice` proves that every step of the engine's two
threads is a step of `Positioner` or none (`Device!Safety`); its `Halts` is
liveness and left to the run. It rests on `PositionInTravel` and on the
invariant of `MotionNeedsCommand`.

*Server*: `TypesAreKept`. `SocketIsReleased` follows both threads through
`TcpSocket::Close` (`SocketInv`): whoever is between `close` and the reset of the
socket's number has closed it, and 0 is free, or listens, only if the two were
once inside together (`closes_met`). That is the theorem's exception, stated in
`ListenerReleased`: after such a meeting a later start may leave a socket of
number 0 that listens for ever. `ListIsStable`
and `NoConnectionIsLeaked` come from `ListInv`, who is in the list, who is about
to be added and what the passes know of their position. `LinesComeInOrder` and
`OverflowCostsOldest` need that what a client still has on the wire follows what
was read of it (`SentInOrder`) and that the received lines and the queue are
pieces of `queued`, in order, the queue its end (`BufferInv`).
`RepliesComeInOrder` and `EveryClientIsReached` share `RepliesInv`: of two lines
one may precede the other if its call is the older or the two overlapped
(`MayPrecede`); the queue is in that order, everything a client has got may
precede everything queued (`Taken`), the line of a call under way may follow all
of them (`SendersInv`), and a client that the pass has not gone past has only
lines that may precede the present one.
`NobodyWaitsInACircle` writes down the guard of each thread (`AcceptReady`,
`ClientsReady`, `ControllerReady`) and shows that one holds unless half a line has
been sent; what a thread saw before it acts is still so (`GuardInv`). With the
flag up the accept thread is nine of its steps from its end (`AcceptThreadEnds`),
and each step of the clients thread lowers a rank of four parts: phase of the
loop, replies left, clients left, lines left (`ClientsThreadEnds`). Only a further
line of the client being read raises it: the one way in which a client can keep
`Stop` waiting beside half a line.

*Period*: `RateIsKept` (the counter is the passes counted unless a command
overlaps), `LinesStop`, `LinesTellTheTruth` and `TypeCorrect`, whose content is
that every index that `iset` and `o` let through lies in the words allocated.
`EveryStepBringsTheLine`: three times the passes left, and the rest of this one,
go down with each step of the thread, and only `period` and `reset` put the line
off. `DestructorWaitsForOneLine` bounds the join.

*Configuration*: `RewritingKeepsSettings` is about the operators alone: for every
file the last line of a key is still the last after the merge, a key that was
missing gets one line, and what `ToString` wrote `FromString` takes back. It
needs `NoEmptyRepeat`, see below. `RewritingIsStable` holds of every file: each
line keeps its place and text, and a second start adds none. *Startup*: `SettingsAreKept` carries it through
starts, edits and deaths (`SettingsInv`: what `main` is about to write reads back
as what it has read). `NoMessageIsLost` accounts for each message wherever the
log thread is, beside the order of the file and of what a cut has in hand, and
`TypesAreKept` rests on `CutInv`, what the stream and the file are during a cut.
`OnlyDeletionOrDeathLoses` follows the stream while nothing has been deleted
(`DeletionInv`); `LogStopIsBounded` counts the messages waiting and the steps left.

*Only model-checked*: all liveness (`Settles`, `StopReturns`, `SyncEnds`,
`EndIsSent`, `LinesAreRead`, `LinesKeepComing`, `LogDrains`, `Halts` of
`Positioner`), since fairness and `ENABLED` are beyond the prover. Every safety
property of a passing run is a theorem. What a proof of termination needs besides
fairness, a rank that every step of the thread lowers and nobody else raises, is
proved for the engine's `Stop`, for both threads of the server, for the period
thread and for the log; not for the synchronizations, whose searches depend on how
the engine's passes fall into the ticks, nor for `LinesAreRead`.

## Not modelled

- *Recognition of commands, text of answers, drawing, help, terminal*: string
  handling and layout. A line that is not understood is `NoCommand`.
- *Windows branches*: the models follow the Linux build.
- *Kernel details of the server*: another file of the program (the log, the
  configuration) that takes number 0 while it is free; Close's test of the
  descriptor and its `shutdown`, next to each other, share a load; a `send` that blocks on a full peer, the
  backlog's limit, a second write to a dead connection that raises SIGPIPE
  instead of failing, a client that sends without a pause. `MAXBUFFERSIZE` 0
  makes the code pop an empty queue, undefined, and is excluded by assumption.
- *A zero elevation outside the hard limits*: these are computed from the
  default zero before the configuration is read, so another zero can be out of
  reach; in the models the hard limits surround the zero.
- *Screen and `MSO_State`* beyond the positions, the two flags, the inputs and
  the outputs.
- *A file with "key=value" above a line "key=" that has no carriage return*: that
  line counts for nothing when it is read, gains a carriage return when it is
  written, and empties the key at the next start. `NoEmptyRepeat` keeps such
  files out of what the operator writes; the program itself writes none.
- *The log's queue*: `front` and `pop` race with `push` on a `std::queue`. The
  process may die of it (`Die`); a queue that is torn and lives on is not
  modelled, nor is the shared buffer of `asctime`.
- *A full disk*: the rewriting of the configuration writes all or nothing, and
  the log's writes succeed. A stream that cannot be opened in the middle of a
  rotation is left out as well.
- *Arguments of the program, help, string helpers.*

## Plan

The modules were built in this order, most important first.

1. `MsoUnits`, `AxisMotion`, `Engine`: the core, at the grain of atomics; then
   `TcpServer`, and `Protocol` over the engine.
2. `AxisProofs`, `EngineProofs`, `ProtocolProofs`.
3. `Period`, `Log`, `ConfigFile`, `Startup`, with their proofs.
4. `Positioner` and `Engine` as an implementation of it.
5. `TcpServerProofs`.
6. Ranks of the threads' ends, and what a reported speed and an "end" mean.

Left: ranks for the synchronizations; liveness by proof, beyond the prover; `Protocol` over `Positioner` instead of
the engine's two-step updates, to allow longer command sequences in the runs.
