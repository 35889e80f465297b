# A TLA+ verification of RIVER's simulation server

RIVER runs a Simulink model as an ordinary process, attaches eBPF uprobes to its step
function, and so traces, feeds and perturbs it without changing it. Clients reach it over TCP.
This directory holds TLA+ models of the parts of that program that are hard to get right, the
TLC runs that check them on small instances, and theorems that TLAPS checks for all instances.

    tlc -workers 2 -config ServerSafe.cfg MCServer.tla     # a run
    tlapm ServerProofs.tla                                 # a proof

Paths below are relative to `src/`.

## 1. Inventory

### Components, their state and their operations

| component | source | state | operations |
|---|---|---|---|
| probes | `simulator/probe.c` | cycle and step counters, signal traces, `state_trace`, `out_rb`, `inj_rb`, `state_rb` | `uprobe_timer`, `uprobe_write_i`, `uprobe_read_i`, `uprobe_read_o` |
| injectors | `simulator/injector.c`, `state_injector.c` | none: they fill a pinned ring | reserve and submit one record after the other, skip those there is no room for |
| services | `server/server.go`, `main.go` | `SERVER_BUSY`, a connection per handler, channels, a WaitGroup | `StartService`, four handlers, two network readers, acks |
| simulation | `simulator/simulator.go` `Start` | pins in `/sys/fs/bpf`, links, maps, the model process, `errCh`, `resCh` | load, pin, fill, link, launch, wait or monitor, harvest, deferred cleanup |
| monitor | `simulator.go` 768-861 | batch of records, number written | read the ring with a 50 ms deadline, write batches of 50 to Redis, end after `CYCLES` records |
| data conversion | `simulator.go` 53-106, 672-766 | none | configuration, trajectory and perturbation records |
| clients, dashboard | `client/`, `dashboard/` | | demo scripts; plots of what is in Redis |

### How they interact

A client connects to one of four ports. The service's accept loop calls the handler, which takes
the lock all four services share, reads the request, and starts `simulator.Start` in a goroutine.
`Start` creates and pins one map per signal under `/sys/fs/bpf/inner_values_<n>` (the same paths
in every simulation), attaches the uprobes to the executable (to every process that runs it),
and launches the model. From then on the model's own thread runs the probes: the timer counts the
cycle, the write probe drains at most one perturbation and writes the inputs, the read probes
store inputs and outputs in traces (falsification) or publish them on a ring (the other three
services). The timer sends SIGKILL after the last cycle. A falsification waits for the process
and reads the output maps back *by path*; the others read the ring until they have a record per
cycle. `wg.Done` releases the handler, which answers the client and unlocks, while the deferred
calls of `Start` still unpin, kill and detach. Perturbations come over the same connection, pass
a channel to a goroutine, a temporary file to an injector program, and through a pinned user ring
to the write probe.

### What is hard

* **Cleanup after `Done`**: one simulation is cleaned up while the next one starts, and both use
  the same paths and the same executable.
* **Partial failures**: `Start` has some thirty early returns between the steps that acquire
  pins, links and the process.
* **Two clocks**: injectors write the ring whenever they like, the probe drains one record per
  cycle, and decides by the cycle counter whether a record is late.
* **Asynchronous kill**: SIGKILL sent by a probe takes effect when the thread leaves the kernel;
  the kill of a cancelled context is delivered by another goroutine.
* **Bounded structures**: output ring, user rings, `state_trace`, eight signals per record, and
  signal maps of exactly 4096 entries.
* **An end that needs every record**: a monitor that misses one holds the lock for ever.
* **Crash of the server**: pins and the model process survive it.
* **Messages without frames**: a length, then bytes, read in chunks that may take the next
  message too; acks that clients cannot tell from one another.
* **Goroutines nobody waits for**: the reader and the injector of a session outlive its handler.
* **Numbers**: msgpack chooses the width of an integer, page sizes are rounded up in 32 bits, the
  probe adds doubles with integer instructions.

### What makes each component correct

* Probes: the cycle counter counts major steps; a process is killed only after every cycle was
  written and logged; every logged cycle is published once or counted as lost; a perturbation
  affects exactly the cycle it names, if the model's memory lets it, and is dropped exactly when it
  was too late in the queue.
* Services: one simulation works at a time; every request ends and the lock is released, unless a
  monitor misses a record.
* Simulation: what it pinned it unpins, and only that; it reads its own maps; no uprobes of two
  simulations at once; success is reported only of simulations that succeeded.
* Session: perturbations go from the client to the ring in order, once, and to the ring of their
  own simulation; the goroutines end with the connection; the server survives its clients.
* Monitor: whoever watches Redis sees the cycles in order, without gaps but for the lost, and the
  monitor ends well exactly when it has them all.
* Conversion: what a request asks for is what the maps hold; what fits is not refused; the sum in
  a cell is as near as an addition without rounding comes, and exact when there is nothing to
  round.

The hazards of the code, each at its line, are listed in `PROJECT.json` with the properties that
would catch them going wrong.

## 2. The modules

### `Probe`: one simulation, cycle by cycle

One action per uprobe, in the order the model's thread hits them (`pc` is the next probe), one
for each injected record, one for the reader of the ring. A probe runs to completion in the
trapped thread, so it is one step; the injector and the reader interleave between probes.

| model | code |
|---|---|
| `Timer`, `Major`, `Expired` | `uprobe_timer`, `probe.c` 358-376 |
| `WriteI`, `Drain`, `Written` | `uprobe_write_i` 557-611, the two drain callbacks 291-356, `write_signals` 505-555 |
| `Late`, `FateOfSignal`, `FateOfState` | `probe.c` 304-309, 255-289, 333-355 |
| `ReadI`, `ReadO`, `Record` | `read_signals` 396-474 and its two probes |
| `Inject`, `RingHasRoom` | `injector.c` 50-90 |
| `Consume` | the reader in `monitorSimulation` |
| `AfterTimer`, `AfterWrite`, `AfterReadI` | which uprobes `Start` attaches, 342-415 |

Abstractions. A value is the set of the perturbations summed into it: the floating point sum
itself (`probe.c` 123-252) is in `Ieee754`. The write-input signals of a cycle are treated alike by
the code one after the other, whatever becomes of those before, and are one cell. Any access to
the process's memory may fail when `MemoryFaults` says so: a read of the read probes, which then
log nothing (`ReadCounts`), and the read or the write of the write probe (`WriteRecord`), which then
leaves the cycle as the model has it and does not come back to it.
`sent`, `applied`, `consumed` and `lost` are history variables that no guard reads, except that
`Inject` numbers records by the length of `sent`. `WriteAtEntry` stands for configurations whose
write probe has the timer's own address: SIGKILL is then still pending when the probe runs, and
it runs once with a cycle beyond the last. Counters do not wrap: with u32 counters that takes
2^32 steps.

### `Server`: the services and the lives of their simulations

Handlers (`hpc`, one per service), `Start` goroutines (`phase`, one per request, up to `Done`
and then through the deferred calls), pins, attached uprobes, model processes, crashes. Requests
are numbered as they are accepted. The cycles are left to `Probe`: here a process runs and ends.

| model | code |
|---|---|
| `Accept`, `Lock`, `ReadRequest`, `ReadFails`, `Reply`, `Unlock` | `StartService` and the four handlers of `server.go`, `getData`, `lockServer`, `unlockServer` |
| `Load`, `Pin`, `Fill`, `Link`, `Launch` and their `...Fails` | `simulator.go` 119-436 |
| `Wait`, `Harvest`, `HarvestFails` | 437-494 |
| `PinRb`, `PinRbFails`, `MonitorEnds`, `MonitorFails` | 456-462, 495-664, 768-842 |
| `Done`, `Fail`, `Finish` | `wg.Done`, `errCh <- err` |
| `UnpinRb`, `Cancel`, `Detach`, `Unpin` | the deferred calls, the last registered first |
| `ProcEnds`, `ProcQuits` | SIGKILL of the timer probe or of the context; the model ending by itself |
| `LoseRecord` | a read probe without its signals or without room in `out_rb`, `probe.c` 441, 456 |
| `Crash`, `Restart` | the server program; `make run`, which removes the pins |

A fault is a step of the code that returns an error; its kind is recorded per request in
`faults`, so that the properties can tell a failure with a cause from one without. `Pin` and
`Harvest` fail without a fault when the path is taken or gone. Two faults are not errors of a step
but leave the monitor waiting for ever (`Stuck`): a model that quits early, and the record of a
cycle that is lost, after which `MonitorEnds` is disabled (`simulator.go` 818). A link that fails may leave
earlier ones attached. The kill of a cancelled process is separate from the cancel and is lost
in a crash; the uprobes have no PID filter, so any attached timer probe can end any running
process. `ReadFails` covers a closed, short or undecodable request. What happens on the
connection of a perturbation beside that is in `Session`. A reply that cannot be written is only
logged by the code and counts as sent.

### `Service`: what the server promises

Without goroutines, pins and processes: requests come, one at a time is served, it may attach to
the executable while it is served, and is answered once; it may stay attached after that, but no
other one attaches before it lets go. One that is served may get stuck: it is not answered then,
nor anybody else, until it recovers, which nothing makes it do. `Server` maps to it (`Promise`):
the request of the handler that holds the lock is served, the simulation with uprobes attached
drives the executable, one whose monitor misses a record is stuck, a crash drops whoever was not
answered. Its fairness says that what is begun is answered, released and detached while nothing is
stuck.

### `Session`: the perturbation services

`Session` extends `Server` by what happens on one connection of a perturbation service. It takes
the actions of `Server` as they are, and strengthens those that start or end a goroutine, so that
every behaviour of it is one of `Server` (`SessionsAreServed`).

| model | code |
|---|---|
| `ClientSends`, `Answered` | how `client/sign.py` and `state.py` use the protocol |
| `StartSession`, `DropSession`, `ConfirmStart`, `EndSession`, `CloseChannel`, `CloseConnection` | `handleSignalPerturbation`, `handleStatePerturbation` |
| `HandlerOverreads`, `ReaderOverreads` | the chunks of `getData`, `server.go` 61-109 |
| `ReaderGets`, `ReaderAcks`, `ReaderSends`, `ReaderPanics`, `ReaderEnds`, `ReaderGivesUp` | `readPerturbationFromNet`, `readStatePerturbationFromNet` |
| `Simulate` | `Start`, which starts the injector goroutine when the ring is pinned |
| `Take`, `TakeNothing`, `Stop`, `OpenRing`, `OpenFails`, `WriteRing` | the select loop and `perturb` calls, `simulator.go` 505-664, and what the injector program does first |

Abstractions. A perturbation is its number. The body of a message is read as one unit with its
length; acks are counts (`Messages`), since a client cannot tell them apart. A client sends when
it likes; `piped` remembers who sent before the answer to the last message had come. The records
of one perturbation are written to the ring as one unit: how they fill it is `Probe`'s `Inject`.
A send on a closed channel is `ReaderPanics`, which is `Server`'s `Crash` and takes every
goroutine with it; `panicked` remembers whose reader it was. `OtherCrash` is any other end of the
server program, at any moment: the panics at `simulator.go` 97, 418 and 757, or a kill.

### `Pipeline` and `Stream`: from the probes to Redis

`Pipeline` composes `Probe` with the monitor, through `out_rb`, which they share. `Stream` is
what a watcher is promised: cycles are logged one after the other, some are lost, those that are
not are shown in order and without gaps, and the stream ends well only when all are shown. The
refinement maps `log_counter` to the cycles logged and the members of the sorted set to those
shown.

| model | code |
|---|---|
| `StartMonitor` | `simulator.go` 775-795 |
| `ReadRecord`, `BatchFull`, `ReadTimesOut`, `Complete` | the loop of `monitorSimulation`, 796-831 |
| `WriteBatch`, `Flush`, `writeToRedis` | the batches, 823-861 |
| `MonitorFails` | the returns with an error, 768-791 |

The read deadline of 50 ms can only pass with the ring empty: a record that is there is returned
first. `redis` holds the members this simulation adds; those of earlier runs, which nobody
removes, are left out, as the monitor never reads the set.

### `Ieee754` and `Inputs`: data

`Ieee754` is `ieee754_add` with its helpers (`probe.c` 123-252), operator by operator, for any
widths of exponent and mantissa; the 64 bit registers become `WIDTH` bits. `IsSum` says how near
to the exact sum the result has to be: less than one unit of the last place of the largest of the
three numbers, with denormals counted as nothing and a sum that is too large giving 0, which is
what the code does with them. It is not the rounding of IEEE 754, which the code does not claim.
Two assumptions say what the widths have in common with 11, 52 and 64: a register is a power of
two wide, as the search that halves it needs (`RegisterAssumption`), and the exponents reach
further than the bits of a mantissa (`RangeAssumption`; with 2 bits of exponent and 5 of mantissa
a sum can cancel below the smallest normal number by more than `IsSum` allows). The halving is a
recursive function over the steps, so that it can be proved about.

`Inputs` is what `Start` makes of a request and a perturbation, and what the write probe makes of
the two: `SetCycles`, `ExtractTrajectory`, `FillMaps`, `Inject`, `Drain`. Each error return is a
phase `failed`, each index past a slice `panicked`. Anything can be in the lists of a request:
wrong types are the model values `NotNumber` and `NotList`. The map of a signal is padded to whole
pages, and has to be as large as `tracee_map` expects its inner maps to be (`TEMPLATE`, 4096): that
map was loaded from the template in `probe.c` before the number of cycles is known, so a
simulation of more than 4096 cycles is refused (`simulator.go` 269). Every name but `time` is a signal's
(`signalVals`), so a signal that is called `time` gets no value, as in the code. The widths of
msgpack's integers are scaled (`U8`, `U16`, `U32`). Lateness is left to `Probe`; there is one perturbation message.

### Modules for TLC and for proofs

`MCProbe`, `MCServer`, `MCSession`, `MCPipeline` and `MCInputs` define the sets the `.cfg` files
use. The proofs: `ProbeProofs`, extended by `ProbeOutProofs`, about `Probe`; `ServerProofs`,
extended by `ServiceProofs`, about `Server`; `SessionProofs` about `Session`; `PipelineProofs`
about `Pipeline`; `Ieee754Proofs` about `Ieee754`, and `InputsProofs`, which uses it, about
`Inputs`.

Operators whose comment says "a plausible slip" are no part of a model: each is a definition with
a mistake in it, which shows that the property next to it can fail.

## 3. The runs

| run | instance | shows |
|---|---|---|
| `probe_signal` | 3 cycles of 2 steps, 3 injections at times 0 to 3, ring of 2, write probe at the timer's address, failing reads and writes | `TypeOK`, `KilledWhenDone`, `SignalsWrittenExactly`, `LateIffOfferedLate`, `SimulationStops` |
| `probe_state` | 3 cycles, 4 injections, ring of 2, state map of 2 entries, failing writes | `StateWrittenLast`, `LateIffOfferedLate` |
| `probe_fals` | 3 cycles of 3 steps, two outputs, failing reads, early exit | `TimeCountsMajorSteps`, `OutputAccounted` |
| `server_safe` | all services, 2 requests, one fault of any kind, one crash | `TypeOK`, `SimulationsSerialized`, `PinsAccounted`, `SuccessIsReal` |
| `server_queue` | falsification and signal, 3 requests, one fault | `OneAttached`, `OwnTraces`, `PinsRemovedByOwner` |
| `server_live` | 2 requests, two faults of any kinds, one crash | `RequestsAnswered`, `AllCleanedUp`, `ImplementsService` |
| `session_stray` | 2 signal perturbations, 2 messages of the first client, channel of 1, a crash of any kind and a panicking reader | `InjectedOnceInOrder`, `StrayOnlyAfterCleanup` |
| `session_live` | 1 signal perturbation, 2 messages, one fault, failing injectors, a crash of any kind and a panicking reader | `SessionTypeOK`, `SurvivesPunctualClients`, `PatientClientsAreRead`, `GoroutinesEnd`, `SessionsEnd` |
| `pipeline` | 7 cycles of 2 steps, output ring of 2, batches of 3, failing reads, early exit, failing Redis | `PipelineTypeOK`, `OutputAccounted`, `ImplementsStream`, `CompleteRunEnds`, `PipelineStops` |
| `inputs` | numbers of 8 bits, lists of up to 3, times from -5 to 8, integers of 1, 2 and 3 bits, pages and maps of 2 | `InputsTypeOK`, `TrajectoryReachesMaps`, `CellsHoldSums`, `CellsHoldExactSums`, `UnnamedKeepTheirCells`, `FittingIsAccepted` |
| `server_overlap` | 2 falsifications, no fault | violates `FaultFreeGetsResult` |
| `server_swallow` | 1 signal perturbation, a monitor fault | violates `MonitorErrorReported` |

Why these bounds. In `Probe` the interesting cases need a full ring (3 or 4 records for 2
places), a record for a past, a present, a future and a cycle that does not exist (`MCTimes`),
two records for one cycle, and a simulation that ends with records queued: three cycles have
them all. In `Server` a cleanup overlaps with one following request, and a third one sees what
the first two left; where only what is left behind matters one fault is enough, because every
failure path ends in the same cleanup. `server_live` has two: one request may then fail and the
other hang, or one hang and be ended by an error of its monitor. In `Session` the second simulation is only
there to be met by what the first one left, so its client sends nothing; two messages are enough
for one to be read together with another, one to wait in the channel of 1 and one to be held by
the reader. In `Pipeline` seven cycles make two full batches and one that is not, and a ring of
two is full in between. `Inputs` takes *every* pair of numbers with 4 bits of exponent and 3 of
mantissa, infinities, denormals and both zeros among them, and every number of cycles around the
limit of the page arithmetic.

Deadlock is not checked: simulations end, and after `MaxRequests` requests nothing happens.

### Fairness

`SimulationStops` assumes that the model's loop goes on (`WF(ProcessStep)`), since nothing in it
blocks, and that the reader polls (`WF(Consume)`); nothing is assumed of the injectors.
`CompleteRunEnds` and `PipelineStops` assume the same of the loop and of the monitor.
`RequestsAnswered` and `AllCleanedUp` assume that goroutines that can run do run
(`HandlerStep`, `StartStep`, each without a fault: nothing has to fail, and no error of Redis saves
a monitor that waits for a lost record; nothing in the lock's queue is assumed, no handler can be
overtaken for ever by finitely many requests), that a process under a timer probe reaches its
last cycle (`WF(ProcEnds)`, which is `SimulationStops`), that clients send their request or go
away, and that a crashed server is started again. The code sets no read deadline, so a silent
client does hold the lock; of it nothing can be shown. A monitor that misses a record, lost in the
probe or never written by a model that quit, keeps the lock, its uprobes and its pins for ever. The
runs have these faults, and the properties say that nothing else can keep a request waiting: in the
end it is answered, or the server hangs on such a monitor (`Hung`) for good.

`GoroutinesEnd` and `SessionsEnd` assume weak fairness of each goroutine: a runnable goroutine
runs. The injector's select needs more. Its context is cancelled once and for all, but the closed
channel is ready as well and yields an empty perturbation each time, so the branch that ends it is
ready again and again and taken only by chance: Go's select chooses uniformly among the ready
branches, which is strong fairness of `Stop` and no less. Without it the goroutine may run the
injector program for ever. `SessionsEnd` excepts a handler whose `getData` has read beyond the
request: it waits for the rest of a message that is not there, with the lock, until the client
goes away (`Overreading`); and a server that is `Hung`.

### Two runs that fail

* `server_overlap`. `Start` calls `wg.Done` (`simulator.go` 668) and then unpins. The handler
  meanwhile sends the result and unlocks, and the next request may reach `inner.Pin` (244) while
  the old pins exist. It fails, and its client is disconnected, without any fault. The comment of
  `handleFalsification` (`server.go` 233) promises the result.
* `server_swallow`. After a perturbed simulation the code means to "return the error if occured"
  (`simulator.go` 657), but asks `errCh`, while the monitor reported to `errChm`. The client is
  told "Simulation ended without errors".

That the collision in the first one is an error, and no worse, is what `OneAttached`,
`OwnTraces` and `PinsRemovedByOwner` say: the pin that fails is all that keeps the uprobes and
maps of two simulations apart. The mutants of these runs that let the pin pass break all three.

## 4. The proofs

All theorems are proved from the named assumptions on the constants in `Probe` and `Server`
(naturals, positive where the code divides or allocates, services among the four), `Ieee754`
(the widths, see above) and `Inputs` (the integer types grow, two pages are not larger than 32 bits
count, and a map of `tracee_map` has a page of entries), which TLC evaluates in every run. Every
safety property that a run checks is proved.

**`ProbeProofs`**: `TypeCorrect`. `TypeOK` is not inductive: that the counters stay within their
bounds depends on where the process is (`ProcInv`: the read probes run only in a process not
killed, the cycle counter is past the last cycle only once SIGKILL is pending, the log counter is
behind the cycle counter until the cycle is logged), and what the probe drains is well typed only
because the ring holds records that were sent, have no fate yet, and are in the order they were
sent (`QueueInv`). `TypeInv` is the conjunction of these with `TypeOK`.

Also `LateIsDecidedByTheRing`, `SignalsAreWrittenExactly` and
`LastStateIsWritten`, the last two with failing writes: a cycle is written as a whole or not at all,
and once. The invariant `InjInv` says where every record is: the p-th record of the
ring has the slot `NextDrain + p - 1`, the cycle that will drain it (`SlotInv`); a trace cell is
the sum of the records taken for its cycle (`SignalInv`), and the entry of the state map the last
of them (`StateInv`); and the cycles already written are behind `NextDrain`, so that a record
drained later for one of them is late and cannot change what was written. The three theorems are
read off it.

**`ServerProofs`**: for any number of requests, signals, faults and crashes,
* `LockSerializes`: `HandlerInv` adds to `SimulationsSerialized` that only the lock's holder is
  past `lockServer`, that handlers serve different requests, that a request being read has no
  simulation yet, and that one whose `WaitGroup` is done no longer works;
* `NeverTwoAttached`, `OutputsAreOwn`, `OnlyOwnersUnpin`: `PinsOwned` says that a simulation with
  `n` deferred Unpins owns the first `n` paths, and all of them from `Link` on;
  `AttachedPinned` that uprobes are attached only while all its pins are there. Two attached
  simulations would both own the first path;
* `ServerTypeCorrect`, where `HarvestInv` bounds the outputs read.

**`ProbeOutProofs`**: `TimeIsMajorSteps`, `KilledOnlyWhenDone` and `EveryOutputIsAccounted`.
`OutInv` adds to the type invariant where in a cycle it is counted, written and logged (`LogInv`,
`WriteInv`: between the timer and the probe that logs it, a cycle is counted and not logged), and
what the logged cycles have left (`RecordInv`, `TraceInv`): records in order, disjoint from the
losses, which make up with them the cycles below the log counter, and fewer than those as soon as
there is a loss, which is what bounds their number.

**`ServiceProofs`**: `ServerServes`, the safety part of `ImplementsService`: the initial states
map to initial states, and each action to one of `Service` or to a stutter. `ServiceInv` says that
a request is unanswered until its handler is past the reply and answered from then on, that
whoever holds the lock serves, and that a simulation attaches once. A monitor gets stuck only while
its request is served and unanswered, and stays so in the steps of handlers (`WorkingIsServed`,
`HandlerKeepsStuck`).

Also `EveryPinIsAccounted` is inductive once it is said that a ring is pinned
only from `PinRb` to `UnpinRb` (`RbOwned`). `SuccessIsTrue` rests on `OutcomeInv`: each fault of a
monitoring or falsification is in `errCh`, or its client was disconnected, and what was answered
was true of a simulation that is over.

**`PipelineProofs`**: `PipelineImplementsStream` and `MonitorTypeCorrect`. `PipelineInv` adds to
`OutInv` that what the monitor has taken is in Redis or in its batch, and as many records as it
has counted. When it has counted `MAX_CYCLES` there can be no lost one, by `RecordInv`.
`PipelineRunsProbes`: with a monitor on its ring `Probe` runs as it does alone, so
`OutputAccounted` holds then as well.

**`SessionProofs`**, for any number of sessions, perturbations, faults, panics and other crashes:
* `SessionsAreServed`: every step of `Session` is a step of `Server` or leaves it alone, so
  everything proved about `Server` holds in a session;
* `StraysComeAfterCleanup`: while an injector's own simulation has its ring, its service has no
  ring of an earlier one (`InjectorInv`, from `InTurn`: a service takes its requests in turn) and
  its pins are all there, which keeps the next one from coming that far (`RbInv`). So what it
  opens is its own ring, or a later one after `npins` went to 0;
* `PunctualClientsAreSafe`: a channel is closed only when its simulation is over, and what a
  reader holds comes on top of what went through the channel (`ReaderInv`); that a reader that
  panicked has left something behind stays true ever after, crashes included (`PanicInv`);
* `PatientClientsHaveAnswers`: a client that never ran ahead has sent at most as many messages as
  it got (`PatientInv`), so a reader that still confirms finds nothing to read too much of;
* `PerturbationsInOrder`: numbers in the channel continue those taken from it (`OrderInv`,
  `CountInv`); one that was taken is the last one and in the injector's hands, or in exactly one
  place (`HandsInv`, `PlaceInv`, `OnceInv`).

**`Ieee754Proofs`**, for all widths. A pattern of bits is a number, a shift a product or a
quotient, so most of it is arithmetic with powers of two (`PowerSum`, `DivIs`, `Bits`).
* `CountLeadingZeroes`: the recursive function exists (`StepsExist`, `HalvedSteps`), and after
  `i` halvings the register holds the number shifted by what was counted, nothing has been lost,
  and fewer than `WIDTH \div 2^i` zeroes are left in front (`HalveMoves`); after the last one,
  none.
* `AdditionType`: what is packed has its three fields in range (`Packed`), whatever the operands.
* `AdditionIsSum`: the operands are ordered, the smaller one is shifted to the larger one's
  exponent and loses less than one unit of the place it is shifted to (`ShiftedOut`,
  `GapBounds`); the sum or difference is shifted until its first bit is the hidden one, to the
  left without a loss, or to the right by one bit, which with what was lost before is still less
  than one unit of the larger exponent (`NormalizedIs`). What is left is to tell apart, by the
  exponent that results, normal numbers (`FittedSum`), a result below the smallest one
  (`TooSmallSum`), and one beyond the largest (`TooLargeSum`). Both orders of the operands are
  covered.
* `AdditionIsExact`: when nothing is shifted out of the smaller number and the sum is a number or
  0, no bit is wrong. Whole numbers of up to 53 bits are added like that. There is one way to
  write the exact sum with the hidden bit set, and the result is written so (`OneNormalForm`,
  `OddHasNoNormalForm`).
* `AdditionCommutes`: when neither operand is larger they are equal, or cancel.
* `AddingZero`: nothing is shifted out, and the result is packed from the fields it came from.

**`InputsProofs`**: `InputsTypeCorrect`, `TrajectoryArrives`, `PerturbationsAreAdded`,
`WholeNumbersAddExactly`, `UnnamedAreUntouched` and `FittingRuns`, for any signals, requests, pages and integer types. The
invariant `IInv` says with the type and with `FittingIsAccepted` how far `Start` has come
(`PhaseInv`: from the extraction on the lists are numbers and no longer than the simulation, and
nothing is injected before it runs), that what is injected is the perturbation, entirely
(`RecordsInv`), and what each cell holds (`CellsInv`): what was planned while no record of its
time is drained, one call of `ieee754_add` after the first, and for a signal without a name in
the perturbation what was planned, after any number of them. The step that drains a record rests
on `AdditionType` and `AddingZero`, the properties of the sums on `AdditionIsSum` and
`AdditionIsExact`.
`FittingIsAccepted` itself needs that `paddedEntries` gives one page to up to a page of cycles, and
none to a number that wraps to 0 (`Padding`); any other number of pages is refused.

Induction over numbers is used in the form of a set that holds 0 and the successor of each of its
members (`Induction`), which follows from the library's theorem about well-founded sets; the
powers of two are the numbers of subsets (`PowerCounts`), since the provers know nothing of an
exponent that is not a number.

Only model-checked: the liveness properties (`SimulationStops`, `RequestsAnswered`,
`AllCleanedUp`, the fairness of `Service`, `CompleteRunEnds`, `PipelineStops`, `GoroutinesEnd`,
`SessionsEnd`), which are out of the prover's reach.

## 5. How the project grew

First the probes, since all four services rest on them, and the server; then the sessions on top
of the server, the monitor on top of the probes, the abstract specifications `Service` and
`Stream`, and the data. What could follow: a `Probe` with a second process, the dying model of the
last simulation, driving the maps of this one; and the sorted set in Redis over several runs.

## 6. Not modelled

* Redis itself, the dashboard and the Python clients beyond what they send: input and output.
* The encoding of messages, formatting of results, logging, the build, the layout of records, the
  eBPF verifier.
* Two processes driving the probes of one simulation. The uprobes have no PID filter, so the model
  of the last simulation, if it is not dead yet, counts cycles of this one. `Server` lets it end
  the simulation; `Probe` has one process.
* `config.json`, which clients overwrite before they connect: whose configuration a request runs
  with. A ratio of minor to major steps of 0, and u32 counters that wrap.
* Simulations with more than 16 signals or 8 written ones: the constants are in `Probe`, but no
  instance is as large. What the proofs say holds for them too.
* What a message is beyond the widths of its integers and the types of its elements: msgpack.
