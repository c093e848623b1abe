# A TLA+ development of hackrf

This directory specifies the HackRF host software of the repository: libhackrf
(`src/lib/hackrf/hackrf.c`), on which everything else stands, the sweep built on
it (`hackrf_sweep.c`) and the status monitor (`hackrf_sweep_svc.c`) that shares
the library with it.
Source lines are cited as `file:line`, relative to the repository.

## 1. Inventory

| Component | State | Operations | Hard behaviour |
|---|---|---|---|
| Streaming engine (`hackrf.c`) | per device: `transfer_thread_started`, `streaming`, `do_exit`, `callback`, `rx_ctx`/`tx_ctx`, the transfers | `hackrf_start_rx/tx`, `hackrf_stop_rx/tx`, `hackrf_close`, `hackrf_is_streaming`, transfer thread, transfer callback | three kinds of threads write the same flags without a lock; callbacks run on any thread that handles events; partial failure of a start, a stop or a close |
| Library lifecycle (`hackrf.c`) | `g_libusb_context`, `open_devices` | `hackrf_init`, `hackrf_exit`, three opens, `hackrf_close` | unlocked globals, a 16-bit counter, a five-step open that must undo itself |
| Board control (`hackrf.c`, `hackrf.h`) | `last_libusb_error`; on the board: mode, rate, filter | about forty vendor requests | boundary tests, 16-bit fields, short transfers, calls of several requests |
| Device list (`hackrf.c:378-511`) | the list object | list, free, open by serial suffix | negative lengths, a reused array, early returns that skip frees |
| Sweep engine (`hackrf_sweep.c`) | file-level globals shared by `hackrf_sweep` and `rx_callback` | parameter parsing, sweep set-up, per-block FFT, the polling loop | callback on the transfer thread updates counters the loop resets; globals survive from run to run |
| Sweep service and status monitor (`hackrf_sweep_svc.c`) | the list and the device it has open | `CheckHackRFStatus` | early returns with the device open; shares context and count with the sweep |
| Plugin (`hackrf_plugin.c`) | threads | socket thread, device manager thread, one `hackrf_sweep` per request | requests come one after the other into globals that are never reset |
| Admin console, socket client, input helpers, Bluetooth scan, password manager, scripts | little | menus, one socket, a prompt, a scan | mostly I/O |

How they interact: the plugin starts a device manager thread and the sweep
service; both call libhackrf, so the globals of the library are shared between
threads. The sweep registers `rx_callback` with `hackrf_start_rx`; libhackrf
runs it on the transfer thread, or on whatever thread handles libusb events.
The status monitor opens and closes boards while a sweep may be running.

What makes each correct: a streaming answer is backed by a thread, a session
ends once and is joined before the next; a closed device is no longer used by
anyone; the context outlives every handle; a failed open leaves nothing
behind; what reaches a board is in range and decodes to what the caller said;
success means that all of it got there. The list of hazards in `PROJECT.json`
says at which lines these can go wrong.

## 2. Plan

1. `TransferEngine` with `StreamSession`, its proofs; `Lifecycle`;
   `BoardControl`. **Done.**
2. `DeviceList`: enumeration and serial-suffix matching. **Done.**
3. `SweepPlan`: the arithmetic of the sweep's parameters. **Done.**
4. `SweepApp`: `hackrf_sweep`, `rx_callback` and the signal handler as processes
   on top of the session interface `StreamSession`. **Done.**
5. `StatusMonitor`: `CheckHackRFStatus`, the sweep's use of the library and the
   admin console in one process. **Done.**
6. Proofs: every safety invariant and every action property that a passing run
   checks, for every value of the constants (section 5). **Done.**
7. Left: an abstract specification of the library for a program with one thread
   (a set of open devices and a context that outlives them, opens and closes each
   one step), with `Lifecycle` proved to implement it and `StatusMonitor`'s use of
   the library stated over it.

## 3. Modules

| Module | Models |
|---|---|
| `TransferEngine` | streaming: transfers, transfer thread, start, stop, close, callbacks |
| `StreamSession` | abstract specification: what streaming looks like to the application |
| `TransferEngineProofs` | theorems about `TransferEngine` and the refinement of `StreamSession` |
| `Lifecycle` | the library's globals, opening and closing |
| `LifecycleProofs` | theorems about handles, boards, count and context |
| `BoardControl` | the vendor requests, sample rate and filter, CPLD image |
| `BoardControlProofs` | theorems about what reaches a board and what success means |
| `SweepPlan` | operators: FFT size, tuning steps, where bins come from and go to |
| `SweepApp` | the sweep: `hackrf_sweep`, `rx_callback`, signals, on `StreamSession` |
| `SweepPlanProofs` | lemmas about where the bins of a sweep go |
| `SweepAppProofs` | theorems about the ranges, bins, memory and verdicts of a sweep |
| `DeviceList` | operators: what a device list holds, which board an open finds |
| `StatusMonitor` | `CheckHackRFStatus`, sweep and admin console on one library |
| `StatusMonitorProofs` | theorems about lists, searches and the context they need |
| `MC...` | symmetry and constants for TLC |

### TransferEngine

One element of `Device` is one `hackrf_device` object. Its fields are variables
under their own names; `pc` is the position of the application thread that uses
it and `thread` that of its transfer thread. `transfers` says for each transfer
whether it is with libusb (`submitted`, or `cancelling` after
`libusb_cancel_transfer`) or not. A call is cut into steps where another thread
may come in: `StartCall`, `StartControlReturn` (the mode request returns, the
context is stored, `create_transfer_thread` tests its flag), one `SubmitOne` per
transfer, `CreateThread`; `StopCall`/`CloseCall`, `StopControlReturn`,
`JoinThread`, `FreeDevice`. The transfer thread is `ThreadCheck`,
`EventsReturn`, `EventsFail`; the transfer callback is `BeginCallback`, then the
application's callback, then `EndCallback`, or `TransferFails`.

External, modelled from its use: libusb runs callbacks on any thread in
`libusb_handle_events_timeout` **or** in a synchronous control transfer, one at
a time per context; it refuses to submit a transfer in flight; `libusb_close`
waits for callbacks and drops the handle's transfers. A failed control transfer
may have reached the board. Undefined behaviour (a null callback, a freed
object) sets `crashed` and ends the behaviour. `disturbed`, `tainted` and `late`
are history variables, read by properties only: a mode request or start failed
on the session, a start left transfers in flight, and which transfers completed
although the last `kill_transfer_thread` had cancelled them.

The set `Env` says which failures may happen, so that a run can ask what is
true without them; the proofs hold for every `Env`.

### StreamSession

Per device: `new`, `idle`, `live`, `ended`, `gone`, and whether the session's
worker runs. The refinement mapping (`SessionOf`, `WorkerOf`) reads the first
from `transfer_thread_started` and `hackrf_is_streaming`, the second from
`thread`. It allows what the code does at its edges: a session that is ended
before its thread exists (`StartStillborn`), and a close that abandons a running
session when both stops failed (`Abandon`).

### Lifecycle

Application threads interleave inside `hackrf_init`, `hackrf_exit`, the opens
and `hackrf_close`: the test and the use of `g_libusb_context`, the load and the
store of `open_devices` (kept to 16 bits) are separate steps. `handle` is
libusb's view: which handles are open or have claimed a board's interface.
`hackrf_close` starts here after its two stops, which belong to
`TransferEngine`, and its result is not modelled. Which board an open finds is
any board. A thread opens between its own `hackrf_init` and `hackrf_exit`
(`ready`), as the callers in the repository do; since `hackrf_init` does not
count its callers, the context may be gone all the same. `overlapped` is a
history variable: it tells behaviours in which some call was interrupted by
another thread from those in which the calls merely alternate.

### BoardControl

Each C function is an operator that yields a request: required API version,
parameter test, `wValue`, `wIndex`, data stage, length, and the number of bytes
below which the function reports an error. `Call` carries out any of them:
version test, parameter test, transfer, result test. `hackrf_set_sample_rate`,
its manual variant and `hackrf_cpld_write` send several requests and take
several steps. A transfer that fails or falls short may or may not have been
carried out by the board.

A `double` sample rate from 1 Hz to 2^27 Hz is its whole number of Hz, the rest of
its mantissa in units of the last place (`ulps`) and its exponent.
`hackrf_set_sample_rate` follows 1249-1279: `freq_frac` with the bit that `1.0 + freq`
loses in the last Hz below a power of two (`Crosses`), the accumulator of the loop
(`Multiples`), the mask that leaves a tolerance of 16 ulps on either side of a whole
number (`NearWhole`), the first hit or 1 (`RateDivider`), and the rounded product
(`RateHz`). So 10000000.33333334 is taken for a third, as in the code. Outside that
range the shift at 1266 is undefined (below 2^-4 Hz and from 2^27 Hz on), and rates
below 1 Hz are left out.

`hackrf_set_freq` cuts its two words to 32 bits as 1117-1118 do. `DWORD`, which is
2^32, `FREQ_ONE_MHZ` and the limits of IF and LO are constants of the model: TLC's
integers have 32 bits, so the runs scale each of them down.

### SweepPlan and SweepApp

`SweepPlan` translates the formulas: rounding of `fftSize` to an odd multiple of
four, `step_count` and the widened ranges, the place of the samples in a block,
the two runs of bins that are kept, the index of a run in the inverse FFT's
input. What the board tunes to in its interleaved mode (`Headers`) is external.

`SweepApp` has the globals of `hackrf_sweep.c` as variables under their names.
The thread in `hackrf_sweep` (`pc`) goes through the argument tests (`Sweep`),
`FillWindow`, `SetGains` with the planning loop, `StartRx`, `InitSweep`,
`SetAmp`, `SetAntenna`, the polling loop (`Poll`, `CheckBytes`, `ResetBytes`),
`StopRx`, `Join`, `Close` and `ExitSweep`. `rx_callback` (`cb`) is
`CallbackEnter` (which loads `byte_count`), `CallbackCount` (which stores it) and
one `Block` or `BadBlock` per block. It runs on the transfer thread or on the main
thread inside a control transfer. The engine below is not modelled again: every
step that touches a session is a step of `StreamSession`, which
`ImplementsSessionHolds` proves `TransferEngine` to implement.

The command line parser that set the options is gone from this repository, and
nothing opens the output file `fd`: with the globals as initialised the callback
returns -1 at once and every sweep ends for want of data. The options have
external linkage, so the runs let the host set them (`options`), the untouched
defaults being one of the settings. The host calls `hackRFSweepThread` (to open
the device) and `hackrf_sweep` once per request, as `client_request_cb` does.
`hackrf_sweep.c` does not compile as it stands (for example 412, and 844, where a
function is used as a thread handle); the model follows its evident control and
leaves out the records built for the client (311-332, 396-417).

### DeviceList and StatusMonitor

`DeviceList` defines, for any bus, what `hackrf_device_list` returns, board by
board with the reused array (`list_board` is the body of its loop), the loop of
`hackrf_open_usb` that looks for a serial number (`try_board` is its body), and
which board `hackrf_open` takes. Where that loop compares characters before the
beginning of its array, any result is allowed: `stray` is the set of boards for
which what it meets there is equal. Where it stores outside the array, the
behaviour ends (`crashed`).

`StatusMonitor` puts three programs on one library. A library call is one step;
`Lifecycle` is about what happens when calls overlap. The monitor is one action
per call of `CheckHackRFStatus`, with its early returns: an empty list, and each
of the five reads, after which the device and the list are out of everyone's
reach (`strays`). The sweep opens by serial number, closes and exits; the admin
console's `ConnectHackRFDevice` opens a device into a copy of its pointer. Boards
in `Hotplug` come and go, boards in `Shared` are taken by another process.

## 4. Runs

| Run | Instance | Shows |
|---|---|---|
| `engine_faults` | 1 device, 2 clients, 2 transfers, all failures | a streaming answer has a thread; a thread outlives its object only after two failed stops, which `hackrf_close` reports; `SessionIsCoherent`; a session ends once; a null callback only after a start that failed halfway; refinement of `StreamSession` |
| `engine_live` | fair scheduling, 1 device, 1 client, 2 transfers, all failures | every call returns, every exit request is honoured, a stopped device has nothing in flight uncancelled but transfers that completed after their cancellation |
| `lifecycle_one_thread` | 6 opens, 3 null closes, all failures | the device count, and what `hackrf_exit` makes of it |
| `lifecycle_threads` | 2 threads, 3 handles, 2 boards | failed opens undo themselves; a board has one owner; calls that do not overlap are safe without a lock |
| `control_requests` | boundary values, 4 API versions, all failures | ranges, decoding, success means complete |
| `control_sequences` | 10 doubles, 2 rates of the manual variant, 3 bandwidths, 4 image lengths | rate, filter and CPLD image after success |
| `sweep_session` | 3 requests, 2 device objects, 12 option settings, all failures, fair scheduling | the callback touches only what is there unless an earlier call left its session running; every MHz asked for is reported; the inverse FFT's input is filled exactly once; the verdict "no data" is given only when no transfer was counted since the counter's last reset; interrupted, finished and silent sweeps end |
| `device_monitor` | 4 USB devices, 2 checks, 1 sweep, 1 admin connection, all failures | open devices keep the context; leaked lists and devices are exactly those of the early returns; lists and searches name the right board; only another program's `hackrf_exit` takes the context away; a check ends |

Runs that end in a violation, each a statement of the repository the code does
not keep (`findings` in `PROJECT.json` quotes it):

* `engine_multi_device`: with two devices, a transfer may complete before the
  second device's callback is stored (238 before 1555).
* `lifecycle_null_close`: `hackrf_close(NULL)` makes `hackrf_exit` destroy a
  context in use.
* `control_filter_comment`: a rate without its filter after a partial failure.
* `sweep_one_second`: the sweep gives up after one sleep of 50 ms (763), not
  after "one second" (774).

Noted while modelling, without a run of their own: the transfer thread writes
`streaming` (1465), a field commented "read only" (92); the comment at 1831 says
API version 0x1002 where the code tests for 0x0102; the gain functions report a
failed transfer as an invalid parameter (1364, 1394, 1423); `hackrf_set_freq` cuts
frequencies of 2^32 MHz or more without an error (1117); in the last Hz below a
power of two the search for a divider may miss one above 10 (8388607 + 1/31 Hz is
set as 8388607 Hz); a descriptor that cannot be read is reported as old firmware
(125); `hackrf_exit` in one
thread can destroy the context of a device another thread is opening, because
the device is counted last (562). In the sweep: the local `num_sweeps` (591)
hides the global that `rx_callback` compares with (254), so a finite sweep does
not end; `do_exit` is never cleared, so after one interrupted or one-shot sweep
every later call ends at once; a range is kept even if the options are then
refused (617-679), and after ten the array is full for good; 8184 bins are
accepted but rounded up to 8188, of which the first come from the block's header;
`StartHackRFSweepService` takes success of `pthread_create` for an error and does
not join (846); a transfer counted between the test of `byte_count` (772) and its
reset (777) is forgotten. In the monitor: a null list is dereferenced (46); `bNoConnection`
is set and never cleared (50). After a failed read the board stays claimed by a
lost handle, so the sweep cannot open it until it is unplugged.

### Bounds

Two transfers are the fewest for which `prepare_transfers` can fail halfway and
one can complete while another is in flight. Two clients
tell an old callback or context from a new one. Two devices are the fewest that
meet in the event loop. `MAX_OPENS` bounds the opens; two boards and three
handles let a thread fail to claim a board while others are open. The numbers of
`MCBoardControl` are the last that passes each test and the first that does not
(30 to 32, 40, 47, 62, 255, 1023 and their successors; flash addresses around
2^16 and 2^20; with a MHz of 10 and a `DWORD` of 64, the frequencies 639 and 640
are the last whose MHz fit and the first whose do not). Its doubles are the nearest
to both ends of the supported range, to fractions with denominators 2, 3, 7 and
31, one with denominator 64, which no divider below `MAX_N` carries, one off its
fraction but within the tolerance, and two in the last Hz below 2^23; all are
from 2^22 Hz up, so that their ulps fit TLC's integers.
All counters of `TransferEngine` are finite in the code.

For the sweep: three requests are needed to overflow a table of two ranges
(`MAX_SWEEP_RANGES` is 10 in the code) and to start again after a failure; two
device objects, to find a session of the first still running under the second;
`MAX_BYTES`, transfers counted between two polls, must exceed one for a lost
update; a transfer has two blocks instead of 16, so that the end of a sweep can
come in its middle; one completed sweep (`MAX_SWEEPS`) ends a one-shot call. The
ranges are one MHz more than a step, in the middle and at the upper limit, and one
beyond it; the FFT sizes are 4, 5, 20, 8184 and the first values refused.
For the monitor: serial numbers are capped at 3 characters instead of 32, with
one shorter than that, one as long, and one asked for that is too long; one board can be unplugged, one is shared,
one has no serial number; two checks let the second meet what the first lost.

### Fairness

The `FairSpec` of `TransferEngine` is used by `engine_live`. Threads that can run, run (weak
fairness on the steps of a call, of the thread loop, of the join and of the end
of the application's callback, which must return). An event handler leaves
libusb after a finite batch of events or after its 500 ms timeout
(`hackrf.c:1458`), and `libusb_close` interrupts handlers; these steps are
disabled while a callback runs, hence strong fairness for them. Control transfers
have no timeout (their last argument is 0), so that they return is an assumption
about the board and the bus. `pthread_join` is only relied on once the transfer
thread has returned; that it may fail earlier helps no property. Nothing obliges
the application to start a call or a board to complete a transfer.

`sweep_session`: the thread in `hackrf_sweep` takes its steps, with strong
fairness because a control transfer may be delayed by callbacks it handles and
still returns; a callback that has begun goes on; the worker of an ended session
quits (that is what `ExitRequestHonoured` checks in the engine). The board need
not deliver transfers and nobody need press Ctrl-C. `device_monitor`: a started
check goes on, since no call in it waits for another program.

## 5. Proofs

Every safety invariant and every action property of the passing runs is a
theorem, for every value of the constants that their assumptions allow. None is
inductive by itself; this section gives, module by module, the invariant that is
and why it is needed. These invariants were also checked with TLC on the
instances of the runs (they are not properties of a run), except for the parts
of `BoardControlProofs` that quantify over all numbers. Where a theorem needs a
hypothesis beyond the assumptions of the model, it states it with ASSUME and it
is repeated here.

### TransferEngineProofs

For every set of devices and clients, every `TRANSFER_COUNT` of at least 1 and
every set of failures (`TransferCountAssumption`, `NullAssumption`,
`EnvAssumption`): `TypeCorrect`, `StreamingHasWorkerHolds`, `SafeCloseHolds`,
`SessionIsCoherentHolds`, the action property `NeverResurrectsHolds` and the
refinement `ImplementsSessionHolds` (initial states map to initial states, and
every step to a step of `StreamSession` or a stutter).

`IInv` is `TypeOK` and, for each device, six facts about a flag and the thread it
speaks of: the started flag and the transfer thread go together
(`FlagOwnsThread`), nothing has a thread before it is created (`NoThreadYet`), a
join waits only for a started thread that was asked to exit (`JoinAsked`), a
thread that has exited had a reason that is still visible (`ExitHasReason`; this
is what makes `hackrf_is_streaming` honest), a close that has passed a stop with a
thread left has kept that stop's error, in `result1` for `hackrf_stop_rx` and in
`result2` for `hackrf_stop_tx` (`CloseKnows`), and a freed object has no transfers
with libusb and no callback running (`Unlinked`). Steps
of other devices cannot disturb a device's part, except that any thread may run
its callbacks: the frame lemmas (`Frame`, `AppFrame`) say so, and the three
preservation lemmas (`AppInv`, `ThreadInv`, `EventInv`) go through the actions.
`NeverResurrects` and the refinement follow step by step from `IInv`.

`SessionIsCoherent` speaks of states between calls only. `SessionInv` says what
its parts are while a start is under way: which of mode, context, endpoint and
callback have been stored at which position (`StartStored`), and that a session
that keeps running undisturbed is coherent wherever its application thread is.

Two theorems hold for one device (`OneDevice`); `engine_multi_device` shows that
the first of them fails for two. `CrashNeedsFailedStartHolds` rests on
`HandlerInv`, who may be inside libusb at all: a start can only be interrupted
by a callback on its own thread, and before the first session is complete there
is no transfer in flight whose callback could run (`FirstSession`, `NoHandler`).
`StoppedMeansCancelledHolds` rests on the same invariant and on `Stopped`: between
sessions whatever is in flight uncancelled, and any callback still running, belongs
to a transfer that completed after its cancellation (`late`), since cancelling
covers all transfers and only a callback submits one again.

### LifecycleProofs

For any number of threads, handles and contexts, and fewer than 2^16 boards
(`BoardAssumption`: with more, open_devices would wrap to zero with devices
open): `TypeCorrect`, `HandlesAreDevicesHolds`, `BoardsAreExclusiveHolds` and
`SerialCallsAreSafeHolds`; for a program with one thread (`OneThread`), also
`CountIsLedgerHolds` and `ExitRespectsCountHolds`.

`HandleInv` is about ownership: a thread owns the handles of its device objects
and the one it is opening, whose state is the one its position calls for; no two
threads own a handle, every open handle is owned, and no two handles claim one
board. `TypeOK` is proved along with it, since the step that counts a device
adds the handle the thread holds, which must be one. `SerialInv` is about the globals as long as no two calls
have overlapped: at the position of the only thread that may be inside a call,
`open_devices`, plus the null closes, plus what a pending store will add, equals
the number of device objects modulo 2^16 (`LedgerAt`), and the context is where
that position has seen it (`ContextAt`). The devices inject into the boards
(`FewDevices`), so a count of zero means that no device is open: that is the step
from the arithmetic to the safety of `hackrf_exit`.

### BoardControlProofs

For every set of arguments the C types allow (`BoardControlAssumption`:
bandwidths and sweep sizes are uint32_t, dividers are positive, a MHz is less than
`DWORD`; `RateAssumption`: a sample rate is a double from 1 Hz to 2^27 Hz, by its
parts) and every failure: `BoardRangesHolds`,
`BoardDecodesHolds`, `SuccessIsCompleteHolds`, `FilterFollowsRateHolds`,
`RateIsAsAskedHolds`, `CpldImageSentHolds`.

Every operator that yields a request yields one that is in range, decodes and
insists on all its data, whenever its own parameter test lets it through
(`Proper`); that is one lemma for each C function, and the arithmetic of splitting
a number into two 16-bit fields. `IInv` carries this through the calls that send
several requests: what they have sent is complete, a call waiting for its filter
carries the rate that was asked for (`RateCalled`), and the chunks of an image
sent so far are consecutive (`CpldProgress`). The filter table's widest entry
below a bound is found as the least element of a set of naturals.

What is exempt is exempt in the code: `BoardDecodes` speaks of frequencies below
2^32 MHz, `FilterFollowsRate` of the rates `hackrf.h:173` supports.
`RateIsAsAsked` compares the search of the code with something the search does not
mention, the fraction p/q to which the double is nearest. Nearest means that q
times the double is within q/2 ulps of p, at most 15 for q below `MAX_N`, so the
loop stops at q at the latest (`NearestIsHit`): the tolerance of 16 is just enough.
In the last Hz below a power of two each addend is off by up to one ulp more, and
q/2 + q stays within 15 for q up to 10 only. If the loop stops earlier, at i, then i times
the double is within the tolerance of a whole number f (`HitIsWhole`), so q f and
i p, both whole, differ by far less than one and are equal (`SameIfCrossed`,
`RateCarried`): the divider carries the same fraction.

### SweepPlanProofs and SweepAppProofs

For every number of ranges, every set of options and requested ranges and every
set of failures (`SweepAssumption`, `OptionsAssumption`): `TypeCorrect`,
`RangesSweptHolds`, `BinsInBoundsHolds`, `IfftTilesHolds`,
`SweepIsMemorySafeHolds`, and the action property `VerdictIsSoundHolds`.

`IInv` is the arithmetic part. `SizeInv`: while a call runs, `fftSize` is an odd
multiple of four. `RangeInv`: each stored range is the one asked for or that one
planned, and planned once the loop has run. It is needed because `frequencies`
survives a call, so that the planning loop meets ranges it has planned before;
the lemma `PlanTwice` (planning is idempotent) is what keeps them from growing,
and `PlanCovers` does the arithmetic of tuning steps and interleaved bands.
`IfftInv` adds that an IFFT has one range, a whole number of tuning steps, and
room for all their bins. `SweepPlanProofs` then counts the bins in runs of a
quarter of an FFT: each header's two runs have a number (`RunNumber`), every
number belongs to a header (`EveryRun`), the code puts run e at `place(e, s)`
(`IdxIsPlace`), which is a permutation, so that bins and triples of a header, a
run and an offset correspond one to one (`Tiling`).

`StateInv` adds the types and `SafeInv`: as long as no call has left a session
behind, workers run only in sessions, sessions exist only where `hackrf_sweep`
attends to them, and a running callback has a session, an open file and a thread
to run on. `VerdictIsSoundHolds` assumes `CountFits`: the transfers counted
between two polls do not exceed the width of `byte_count`, 2^32 bytes; at the
board's highest rate that takes a hundred seconds, and the loop polls every 50 ms.
It speaks of transfers counted since the counter was last reset; one counted
between the test (772) and the reset (777) is forgotten by the code and not covered.

### StatusMonitorProofs

For any bus, any set of serial numbers to look for and any number of calls
(`BusAssumption`: the bus is a sequence of devices with a product and possibly a
serial number; `NullAssumption` and `MonitorAssumption`: a null pointer is no
board, no list and no program): `TypeCorrect`, `ContextOutlivesDevicesHolds`,
`ListsAreAccountedForHolds`, `ListNamesBoardsHolds`, `FirstSuffixIsFoundHolds`,
`OnlyOthersTakeTheContextHolds`.

The invariant is a conjunction of what each program has at each position
(`Ownership`), the library's counts including what was forgotten (`Ledger`), when
the context is there and who destroyed it otherwise (`ContextInv`), and what the
last list and the last search returned (`NamedInv`, `FoundInv`). That
`hackrf_device_list` returns a list that satisfies `NamedInv` is a statement about
a recursively defined scan. The prover has no induction over data, so it is
proved from the least place of the bus after which the scan would be wrong
(the lemma `Least`, from the well-founded order of the naturals): the place before it is right, and
one more turn of the loop keeps it so. The search of `hackrf_open_usb` is treated
the same way (`SearchExists`, `TryStep`, `SearchFindsFirst`), and
`ComparedFromTheEnd` says that the comparison at the computed offset is the question
whether the board's number ends in the one asked for. `FirstSuffixIsFound` says it
of the numbers on the boards, not of the array: of those at least as long as the one
asked for and no longer than the array keeps. A longer number is compared by its
first 32 characters, whose end need not be its own.

### Only model-checked

The liveness properties, `CallsReturn`, `ExitRequestHonoured`, `InterruptEnds`,
`OneShotEnds`, `SilenceEnds` and `CheckReturns`: the prover supports neither
fairness nor ENABLED. The statements of the repository that the code does not
keep, which have their counterexamples.

## 6. Not modelled

The socket client is an unfinished straight line of system calls around functions
that are not in the repository. The plugin's `main` and its thread functions do
not compile and only start and join threads; `connect_to_new_server` passes an
undeclared variable to `hackrf_sweep`. `StartHackRFAdmins` and
`GetListofHackRFDevices` are unfinished copies of `hackrf_open_usb`. The input
helpers read one line and compare it; no state survives a call. `parse_u32` and
`parse_u32_range` have no caller. Two calls of `hackrf_sweep` at the same time
(the service's thread and a request) are not modelled: nothing about its globals
would survive that. Left out for good: the Bluetooth scan and the password manager
(no state), the byte-order macros, the scripts (offline plots), names and messages
(`hackrf_error_name` and the like), the values of samples, spectra and replies.
`hackrf_close`'s result and `last_libusb_error` are left out of `Lifecycle`; the
latter is in `BoardControl`. The code's data races on flags are modelled as atomic
loads and stores of one flag: on the platforms the build targets a `bool` is not
torn.
