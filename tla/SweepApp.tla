------------------------------ MODULE SweepApp ------------------------------
(***************************************************************************)
(* The sweep of src/src/lib/hackrf/hackrf_sweep.c: the thread that calls   *)
(* hackrf_sweep, rx_callback on the transfer thread, and the signal        *)
(* handler, which share the file's global variables without a lock.        *)
(*                                                                         *)
(* The streaming engine is represented by StreamSession, which             *)
(* TransferEngine is proved to implement: every step that starts, ends,    *)
(* joins or closes a session is a step of StreamSession.                   *)
(*                                                                         *)
(* A host program (the plugin) calls hackRFSweepThread to open the device  *)
(* and hackrf_sweep for each request it receives.  The options that the    *)
(* removed command line parser used to set are globals with external       *)
(* linkage; the host may assign them before its first call (options), but  *)
(* nothing in the repository does.                                         *)
(***************************************************************************)
EXTENDS SweepPlan, Sequences, FiniteSets

CONSTANTS
  Device,              \* hackrf_device objects, one per hackrf_open_by_serial
  NULL,
  RequestRange,        \* ranges <<freq_min, freq_max>> that requests ask for
  Options,             \* option settings of the host
  MAX_SWEEP_RANGES,    \* 10 in hackrf.h
  BLOCKS_PER_TRANSFER, \* 16 in hackrf_sweep.c
  MAX_REQUESTS,        \* bound: calls of hackrf_sweep
  MAX_BYTES,           \* bound: transfers counted between two polls
  MAX_SWEEPS,          \* bound: sweeps counted
  Env                  \* the failures the environment may produce

ASSUME SweepAssumption ==
  /\ MAX_SWEEP_RANGES \in Nat \ {0} /\ BLOCKS_PER_TRANSFER \in Nat \ {0}
  /\ MAX_REQUESTS \in Nat /\ MAX_BYTES \in Nat /\ MAX_SWEEPS \in Nat
  /\ NULL \notin Device
  /\ RequestRange \subseteq Nat \X Nat
  /\ Env \subseteq {"ctl_error", "start_error", "join_error", "stream_error",
                    "stillborn"}

ASSUME OptionsAssumption ==
  Options \subseteq [file : BOOLEAN,         \* has the host opened fd?
                     mode : {"text", "binary", "ifft", "both"},
                     one_shot : BOOLEAN, finite_mode : BOOLEAN,
                     amp : 0 .. 2,           \* not given, given, given and above 1
                     antenna : 0 .. 2,
                     num_samples : Nat,
                     fftSize : Nat]

VARIABLES
  (* globals of hackrf_sweep.c *)
  device,        \* the static pointer; still set after hackrf_close
  do_exit,
  fd,            \* is the output file open?
  byte_count,    \* uint32_t, in transfers of 2^18 bytes
  sweep_count,
  sweep_started,
  frequencies,   \* the ranges, num_ranges of them
  fftSize,
  step_count,
  buffers,       \* fftwIn, fftwOut, power, window: none, raw, ready or freed
  ifftBins,      \* bins ifftwIn has room for
  options,
  (* the session of each device object *)
  session, worker,
  (* the thread in hackrf_sweep *)
  pc,
  result,        \* SUCCESS or not, as |= accumulates it
  exit_code,     \* what the call returns
  (* rx_callback *)
  cb,            \* its position, the thread it runs on, a loaded byte_count
  crashed,       \* undefined behaviour the process has met
  (* history, read by no guard except the bound on requests *)
  asked,         \* the ranges as they were asked for
  requests,
  counted,       \* a transfer was counted since byte_count was last zeroed
  slept,         \* sleeps of 50 ms since the start or the last zeroing of byte_count
  orphaned,      \* a call returned and left its session streaming
  abandoned      \* hackrf_close gave up a running session

globals == <<device, do_exit, fd, byte_count, sweep_count, sweep_started,
             frequencies, fftSize, step_count, buffers, ifftBins, options>>
history == <<asked, requests, counted, slept, orphaned, abandoned>>
vars == <<globals, session, worker, pc, result, exit_code, cb, crashed, history>>

S == INSTANCE StreamSession

Quiet == [pc |-> "idle", on |-> "none", n |-> 0, j |-> 0]

BYTE_COUNT_WRAP == 16384   \* 2^32 bytes in transfers of 2^18

Init ==
  /\ device = NULL /\ do_exit = FALSE
  /\ options \in Options
  /\ fd = options.file
  /\ byte_count = 0 /\ sweep_count = 0 /\ sweep_started = FALSE
  /\ frequencies = <<>>
  /\ fftSize = options.fftSize
  /\ step_count = 0 /\ buffers = "none" /\ ifftBins = 0
  /\ S!Init
  /\ pc = "idle" /\ result = TRUE /\ exit_code = "NONE"
  /\ cb = Quiet /\ crashed = "no"
  /\ asked = <<>> /\ requests = 0 /\ counted = FALSE /\ slept = 0
  /\ orphaned = FALSE /\ abandoned = FALSE

-----------------------------------------------------------------------------
(* The host's calls.                                                       *)

IsOpen == device # NULL /\ session[device] \notin {"new", "gone"}

(* hackRFSweepThread, to its hackrf_open_by_serial.  Its later failures    *)
(* return too, and leave the device open.  A second open of the board      *)
(* fails and leaves everything as it is.                                   *)
hackRFSweepThread(d) ==
  /\ pc = "idle"
  /\ ~IsOpen
  /\ S!Open(d)
  /\ device' = d
  /\ UNCHANGED <<do_exit, fd, byte_count, sweep_count, sweep_started,
                 frequencies, fftSize, step_count, buffers, ifftBins, options,
                 pc, result, exit_code, cb, crashed, history>>

(* sigint_callback_handler, installed by hackRFSweepThread.                *)
Signal ==
  /\ device # NULL
  /\ ~do_exit
  /\ do_exit' = TRUE
  /\ UNCHANGED <<device, fd, byte_count, sweep_count, sweep_started,
                 frequencies, fftSize, step_count, buffers, ifftBins, options,
                 session, worker, pc, result, exit_code, cb, crashed, history>>

-----------------------------------------------------------------------------
(* hackrf_sweep: arguments, buffers, gains, ranges.                        *)

Live == device # NULL /\ session[device] = "live"

Unstopped == device # NULL /\ session[device] \in {"live", "ended"}

(* hackrf_sweep returns c.                                                 *)
Return(c) ==
  /\ pc' = "idle"
  /\ exit_code' = c
  /\ orphaned' = (orphaned \/ Unstopped)

(* Mutant of TooManyRanges: one range more than the array holds.           *)
TooManyRanges_late == Len(frequencies) > MAX_SWEEP_RANGES

TooManyRanges == Len(frequencies) >= MAX_SWEEP_RANGES

RangeRejected(r) == TooManyRanges \/ r[1] >= r[2] \/ r[2] > FREQ_MAX_MHZ

(* Tested after the range has been stored, when there are n ranges.        *)
OptionsRejected(n) ==
  \/ options.num_samples % SAMPLES_PER_BLOCK # 0
  \/ options.num_samples < SAMPLES_PER_BLOCK
  \/ options.amp = 2 \/ options.antenna = 2
  \/ options.mode = "both"
  \/ options.mode = "ifft" /\ n > 1
  \/ fftSize < 4 \/ fftSize > 8184

(* The buffers are replaced: the old ones are neither freed nor emptied.   *)
Sweep(r) ==
  /\ pc = "idle"
  /\ requests < MAX_REQUESTS
  /\ requests' = requests + 1
  /\ result' = TRUE
  /\ \/ /\ RangeRejected(r)
        /\ Return("FAILURE")
        /\ UNCHANGED <<frequencies, asked, fftSize, buffers>>
     \/ /\ ~RangeRejected(r)
        /\ frequencies' = Append(frequencies, r)
        /\ asked' = Append(asked, r)
        /\ IF OptionsRejected(Len(frequencies) + 1)
             THEN Return("FAILURE") /\ UNCHANGED <<fftSize, buffers>>
             ELSE /\ fftSize' = round_fft_size(fftSize)
                  /\ buffers' = "raw"
                  /\ pc' = "window"
                  /\ exit_code' = "SUCCESS"
                  /\ UNCHANGED orphaned
  /\ UNCHANGED <<device, do_exit, fd, byte_count, sweep_count, sweep_started,
                 step_count, ifftBins, options, session, worker, cb, crashed,
                 counted, slept, abandoned>>

(* The loop that fills the window.                                         *)
FillWindow ==
  /\ pc = "window"
  /\ buffers' = "ready"
  /\ pc' = "gain"
  /\ UNCHANGED <<device, do_exit, fd, byte_count, sweep_count, sweep_started,
                 frequencies, fftSize, step_count, ifftBins, options, session,
                 worker, result, exit_code, cb, crashed, history>>

MayFail(f) == {TRUE} \cup (IF f \in Env THEN {FALSE} ELSE {})

(* hackrf_set_vga_gain and hackrf_set_lna_gain return; every range is      *)
(* planned, step_count keeping that of the last; the IFFT's buffers.       *)
SetGains ==
  /\ pc = "gain" /\ cb.on # "main"
  /\ IF IsOpen
       THEN /\ result' \in MayFail("ctl_error")
            /\ frequencies' = [i \in DOMAIN frequencies |-> plan_range(frequencies[i])]
            /\ step_count'  = LET r == frequencies[Len(frequencies)]
                              IN  step_count_of(r[1], r[2])
            /\ ifftBins' = IF options.mode = "ifft" THEN fftSize * step_count' ELSE ifftBins
            /\ pc' = "start"
            /\ UNCHANGED crashed
       ELSE /\ crashed' = "bad_device"
            /\ UNCHANGED <<result, frequencies, step_count, ifftBins, pc>>
  /\ UNCHANGED <<device, do_exit, fd, byte_count, sweep_count, sweep_started,
                 fftSize, buffers, options, session, worker, exit_code, cb,
                 history>>

-----------------------------------------------------------------------------
(* hackrf_sweep: start_rx, init_sweep, amplifier, antenna.                 *)

(* hackrf_start_rx succeeds unless a session exists or it fails.           *)
StartRx ==
  /\ pc = "start"
  /\ slept' = 0
  /\ \/ /\ S!Start(device) \/ ("stillborn" \in Env /\ S!StartStillborn(device))
        /\ IF result
             THEN pc' = "init_sweep" /\ UNCHANGED <<exit_code, orphaned>>
             ELSE pc' = "idle" /\ exit_code' = "FAILURE" /\ orphaned' = TRUE
     \/ /\ session[device] # "idle" \/ "start_error" \in Env
        /\ Return("FAILURE")
        /\ UNCHANGED <<session, worker>>
  /\ UNCHANGED <<globals, result, cb, crashed, asked, requests, counted, abandoned>>

(* One request to the board, at pc = from; a failure ends the call and     *)
(* leaves the session as it is.                                            *)
Request(from, to) ==
  /\ pc = from /\ cb.on # "main"
  /\ \/ pc' = to /\ UNCHANGED <<exit_code, orphaned>>
     \/ "ctl_error" \in Env /\ Return("FAILURE")
  /\ UNCHANGED <<globals, session, worker, result, cb, crashed, asked, requests,
                 counted, slept, abandoned>>

Given(option) == option # 0

AfterSweep == IF Given(options.amp) THEN "amp"
              ELSE IF Given(options.antenna) THEN "antenna" ELSE "poll"

InitSweep == Request("init_sweep", AfterSweep)

SetAmp == Request("amp", IF Given(options.antenna) THEN "antenna" ELSE "poll")

SetAntenna == Request("antenna", "poll")

-----------------------------------------------------------------------------
(* hackrf_sweep: the polling loop.                                         *)

Main(from, to) == pc = from /\ pc' = to

(* Mutant of KeepPolling: do_exit is not looked at.                        *)
KeepPolling_deaf == Live

(* hackrf_is_streaming, then do_exit.                                      *)
KeepPolling == Live /\ ~do_exit

Poll ==
  /\ Main("poll", IF KeepPolling THEN "sleep" ELSE "stop_ctl")
  /\ UNCHANGED <<globals, session, worker, result, exit_code, cb, crashed, history>>

Min(a, b) == IF a < b THEN a ELSE b

SECOND == 20   \* sleeps of 50 ms

(* m_sleep(50) is over; the test of byte_count.                            *)
CheckBytes ==
  /\ slept' = Min(slept + 1, SECOND)
  /\ \/ byte_count = 0 /\ Main("sleep", "stop_ctl") /\ exit_code' = "NO_DATA"
     \/ byte_count # 0 /\ Main("sleep", "reset") /\ UNCHANGED exit_code
  /\ UNCHANGED <<globals, session, worker, result, cb, crashed, asked, requests,
                 counted, orphaned, abandoned>>

(* Mutant of zeroed: the reset of byte_count is missing.                   *)
zeroed_not(n) == n

zeroed(n) == 0

ResetBytes ==
  /\ Main("reset", IF KeepPolling THEN "sleep" ELSE "stop_ctl")
  /\ byte_count' = zeroed(byte_count)
  /\ counted' = FALSE
  /\ slept' = 0
  /\ UNCHANGED <<device, do_exit, fd, sweep_count, sweep_started, frequencies,
                 fftSize, step_count, buffers, ifftBins, options, session,
                 worker, result, exit_code, cb, crashed, asked, requests,
                 orphaned, abandoned>>

-----------------------------------------------------------------------------
(* hackrf_sweep: hackrf_stop_rx, hackrf_close, hackrf_exit, the frees.     *)

(* The mode request of a stop returns; then request_exit.                  *)
EndSession ==
  IF Live THEN S!End(device) ELSE UNCHANGED <<session, worker>>

(* Mutant of StopRx: what the callback uses is given back too soon.        *)
StopRx_frees ==
  /\ cb.on # "main"
  /\ Main("stop_ctl", "join") /\ EndSession
  /\ fd' = FALSE /\ buffers' = "freed"
  /\ UNCHANGED <<device, do_exit, byte_count, sweep_count, sweep_started,
                 frequencies, fftSize, step_count, ifftBins, options, result,
                 exit_code, cb, crashed, history>>

StopRx ==
  /\ cb.on # "main"
  /\ \/ Main("stop_ctl", "join") /\ EndSession
     \/ /\ "ctl_error" \in Env
        /\ Main("stop_ctl", "close_ctl")
        /\ UNCHANGED <<session, worker>>
  /\ UNCHANGED <<globals, result, exit_code, cb, crashed, history>>

(* pthread_join of the transfer thread, for a stop or for a close.         *)
Join(p) ==
  /\ \/ Main(p, "close_ctl") /\ S!Stop(device)
     \/ /\ "join_error" \in Env /\ p = "join"
        /\ Main(p, "close_ctl")
        /\ UNCHANGED <<session, worker>>
  /\ UNCHANGED <<globals, result, exit_code, cb, crashed, history>>

(* hackrf_close stops again, twice, and goes on whatever comes of it.      *)
Close ==
  /\ cb.on # "main"
  /\ \/ Main("close_ctl", "exit") /\ S!Close(device) /\ UNCHANGED abandoned
     \/ /\ Main("close_ctl", "close_join")
        /\ session[device] # "idle"
        /\ EndSession
        /\ UNCHANGED abandoned
     \/ /\ {"ctl_error", "join_error"} \cap Env # {}
        /\ Main("close_ctl", "exit")
        /\ S!Abandon(device)
        /\ abandoned' = TRUE
  /\ UNCHANGED <<globals, result, exit_code, cb, crashed, asked, requests,
                 counted, slept, orphaned>>

(* hackrf_exit, fclose, the frees.                                         *)
ExitSweep ==
  /\ Main("exit", "idle")
  /\ fd' = FALSE
  /\ buffers' = "freed"
  /\ UNCHANGED <<device, do_exit, byte_count, sweep_count, sweep_started,
                 frequencies, fftSize, step_count, ifftBins, options, session,
                 worker, result, exit_code, cb, crashed, history>>

-----------------------------------------------------------------------------
(* rx_callback, on the transfer thread, or on the main thread while it     *)
(* waits in a control transfer.                                            *)

InControl == pc \in {"gain", "init_sweep", "amp", "antenna", "stop_ctl", "close_ctl"}

MayRun(t) ==
  /\ session[device] \in {"live", "ended", "gone"}
  /\ \/ t = "worker" /\ worker[device]
     \/ t = "main" /\ InControl /\ session[device] # "gone"

(* Without a file the callback returns -1 and the library ends the         *)
(* session; otherwise byte_count is loaded.                                *)
CallbackEnter(t) ==
  /\ cb.pc = "idle" /\ device # NULL /\ MayRun(t)
  /\ byte_count < MAX_BYTES
  /\ CASE session[device] = "gone" ->
              crashed' = "freed_device" /\ UNCHANGED <<session, worker, cb>>
       [] session[device] # "gone" /\ fd ->
              /\ cb' = [pc |-> "count", on |-> t, n |-> byte_count, j |-> 0]
              /\ UNCHANGED <<session, worker, crashed>>
       [] OTHER -> EndSession /\ UNCHANGED <<cb, crashed>>
  /\ UNCHANGED <<globals, pc, result, exit_code, asked, requests,
                 counted, orphaned, abandoned, slept>>

(* Mutant of count_bytes: only the first transfer is counted.              *)
count_bytes_once(n) == IF sweep_started THEN n ELSE n + 1

count_bytes(n) == (n + 1) % BYTE_COUNT_WRAP

CallbackCount ==
  /\ cb.pc = "count"
  /\ byte_count' = count_bytes(cb.n)
  /\ counted' = TRUE
  /\ cb' = [cb EXCEPT !.pc = "block", !.n = 0]
  /\ UNCHANGED <<device, do_exit, fd, sweep_count, sweep_started, frequencies,
                 fftSize, step_count, buffers, ifftBins, options, session,
                 worker, pc, result, exit_code, crashed, asked, requests, slept,
                 orphaned, abandoned>>

(* The next block of the transfer, or the callback's return.               *)
NextBlock == cb' = IF cb.j + 1 = BLOCKS_PER_TRANSFER THEN Quiet
                                                     ELSE [cb EXCEPT !.j = @ + 1]

num_sweeps == 0   \* the global, which hackrf_sweep's own num_sweeps hides

(* Mutant of LastSweep: no sweep is the last.                              *)
LastSweep_never(n) == FALSE

LastSweep(n) == options.one_shot \/ (options.finite_mode /\ n = num_sweeps)

(* A row, or the IFFT of a sweep that is complete, needs the file and      *)
(* initialised buffers.                                                    *)
Output(b, completes) ==
  LET row   == ~do_exit' /\ sweep_started' /\ b # "beyond"
      frame == completes /\ options.mode = "ifft"
  IN  crashed' = CASE (row \/ frame) /\ buffers # "ready" -> "bad_buffers"
                  [] (row \/ frame) /\ buffers = "ready" /\ ~fd -> "closed_file"
                  [] OTHER -> crashed

(* A block without the 0x7F 0x7F header.                                   *)
BadBlock ==
  /\ cb.pc = "block"
  /\ NextBlock
  /\ UNCHANGED <<globals, session, worker, pc, result, exit_code, crashed, history>>

(***************************************************************************)
(* A block of the first frequency, of a later one or of one beyond         *)
(* FREQ_MAX_MHZ.                                                           *)
(***************************************************************************)
Block(b) ==
  LET completes == b = "first" /\ sweep_started IN
  /\ cb.pc = "block"
  /\ Len(frequencies) > 0
  /\ completes => sweep_count < MAX_SWEEPS
  /\ sweep_count' = IF completes THEN sweep_count + 1 ELSE sweep_count
  /\ do_exit' = (do_exit \/ (completes /\ LastSweep(sweep_count + 1)))
  /\ sweep_started' = (sweep_started \/ b = "first")
  /\ IF do_exit' THEN cb' = Quiet ELSE NextBlock
  /\ Output(b, completes)
  /\ UNCHANGED <<device, fd, byte_count, frequencies, fftSize, step_count,
                 buffers, ifftBins, options, session, worker, pc, result,
                 exit_code, asked, requests, counted, slept, orphaned, abandoned>>

-----------------------------------------------------------------------------
(* The engine: a transfer fails, or the worker of an ended session quits.  *)
StreamError ==
  /\ "stream_error" \in Env
  /\ Live /\ S!End(device)
  /\ UNCHANGED <<globals, pc, result, exit_code, cb, crashed, history>>

WorkerQuit(d) ==
  /\ worker[d] /\ ~(cb.on = "worker" /\ device = d)
  /\ S!Quit(d)
  /\ UNCHANGED <<globals, pc, result, exit_code, cb, crashed, history>>

MainStep ==
  \/ FillWindow \/ SetGains \/ StartRx \/ InitSweep \/ SetAmp \/ SetAntenna
  \/ Poll \/ CheckBytes \/ ResetBytes
  \/ StopRx \/ Join("join") \/ Close \/ Join("close_join") \/ ExitSweep

CallbackStep == CallbackCount \/ BadBlock \/ \E b \in {"first", "later", "beyond"} : Block(b)

HostStep == (\E d \in Device : hackRFSweepThread(d)) \/ (\E r \in RequestRange : Sweep(r))

Step ==
  \/ HostStep \/ Signal \/ MainStep
  \/ \E t \in {"worker", "main"} : CallbackEnter(t)
  \/ CallbackStep
  \/ StreamError \/ \E d \in Device : WorkerQuit(d)

(* The host has no more requests, or undefined behaviour was met.          *)
Done ==
  /\ crashed # "no" \/ pc = "idle"
  /\ UNCHANGED vars

Next == (crashed = "no" /\ Step) \/ Done

Spec == Init /\ [][Next]_vars

(***************************************************************************)
(* Fairness.  Threads that can run, run.  A control transfer returns even  *)
(* if callbacks run in it again and again (strong fairness); nothing       *)
(* obliges the board to deliver a transfer, the host to ask for a sweep or *)
(* the user to interrupt it.                                               *)
(***************************************************************************)
Fairness ==
  /\ SF_vars(crashed = "no" /\ MainStep)
  /\ WF_vars(crashed = "no" /\ CallbackStep)
  /\ \A d \in Device : WF_vars(crashed = "no" /\ WorkerQuit(d))

FairSpec == Spec /\ Fairness

-----------------------------------------------------------------------------
Pc == {"idle", "window", "gain", "start", "init_sweep", "amp", "antenna", "poll",
       "sleep", "reset", "stop_ctl", "join", "close_ctl", "close_join", "exit"}

(* Types; frequencies has room for MAX_SWEEP_RANGES ranges.                *)
TypeOK ==
  /\ device \in Device \cup {NULL}
  /\ {do_exit, fd, sweep_started, result, counted, orphaned, abandoned} \subseteq BOOLEAN
  /\ byte_count \in 0 .. BYTE_COUNT_WRAP - 1
  /\ {sweep_count, fftSize, step_count, ifftBins, requests, slept} \subseteq Nat
  /\ Len(frequencies) <= MAX_SWEEP_RANGES /\ Len(asked) = Len(frequencies)
  /\ \A i \in DOMAIN frequencies : {frequencies[i], asked[i]} \subseteq Nat \X Nat
  /\ buffers \in {"none", "raw", "ready", "freed"}
  /\ S!TypeOK
  /\ pc \in Pc
  /\ exit_code \in {"NONE", "SUCCESS", "FAILURE", "NO_DATA"}
  /\ cb \in [pc : {"idle", "count", "block"}, on : {"none", "worker", "main"},
             n : 0 .. BYTE_COUNT_WRAP - 1, j : 0 .. BLOCKS_PER_TRANSFER - 1]
  /\ crashed \in {"no", "bad_device", "freed_device", "bad_buffers", "closed_file"}

(***************************************************************************)
(* rx_callback never uses a buffer that is being prepared or is freed, the *)
(* file after fclose or a freed device, unless an earlier hackrf_sweep     *)
(* returned without stopping its session or hackrf_close gave one up.      *)
(***************************************************************************)
SweepIsMemorySafe == crashed \notin {"no", "bad_device"} => orphaned \/ abandoned

(* The ranges are planned and the board is being, or has been, told.       *)
Planned == pc \in {"start", "init_sweep", "amp", "antenna", "poll", "sleep", "reset"}

(***************************************************************************)
(* Of every range asked for, each MHz is in some row, and a range is never *)
(* widened by a whole step or more: planning again, as each further        *)
(* request does, changes nothing.                                          *)
(***************************************************************************)
RangesSwept ==
  Planned =>
    \A i \in DOMAIN asked :
      /\ asked[i][1] .. asked[i][2] - 1 \subseteq Reported(frequencies[i])
      /\ frequencies[i][2] < asked[i][2] + TUNE_STEP

(***************************************************************************)
(* The blocks of one sweep fill every bin of ifftwIn exactly once, and     *)
(* none outside it (a range near FREQ_MAX_MHZ may leave bins unfilled).    *)
(***************************************************************************)
IfftTiles ==
  Planned /\ options.mode = "ifft" =>
    LET f0   == frequencies[1][1]
        used == {f \in Headers(frequencies[1]) : f <= FREQ_MAX_MHZ}
        runs == [f \in used |->
                   {ifft_run(ifft_idx(f, f0, fftSize, ifftBins)[k], fftSize) : k \in 1 .. 2}]
        all  == UNION {UNION runs[f] : f \in used}
    IN  /\ ifftBins = fftSize * step_count
        /\ all \subseteq 0 .. ifftBins - 1
        /\ Cardinality(all) = Cardinality(used) * 2 * (fftSize \div 4)
        /\ used = Headers(frequencies[1]) => all = 0 .. ifftBins - 1

(***************************************************************************)
(* The two runs of bins that are kept lie apart within the fftSize bins,   *)
(* and up to 8180 bins are taken from samples only, never the header.      *)
(***************************************************************************)
BinsInBounds ==
  Planned =>
    /\ lower_bins(fftSize) + fftSize \div 4 <= upper_bins(fftSize)
    /\ upper_bins(fftSize) + fftSize \div 4 <= fftSize
    /\ fftSize <= 8180 => first_sample_byte(fftSize) >= HEADER_BYTES

(***************************************************************************)
(* hackrf_sweep gives up for want of data only if rx_callback has counted  *)
(* no transfer since byte_count was last zeroed, whatever the order of     *)
(* their loads and stores.  A transfer counted after the test of           *)
(* byte_count and before it is zeroed is lost with it: of that one the     *)
(* next test knows nothing, and neither does this property.                *)
(***************************************************************************)
VerdictIsSound ==
  [][pc = "sleep" /\ exit_code' = "NO_DATA" => ~counted]_vars

Over == pc = "idle" \/ crashed # "no"

(* An interrupted or finished sweep returns, callbacks or not.             *)
InterruptEnds == do_exit ~> Over

(* The one-shot sweep ends the call once it is complete.                   *)
OneShotEnds == options.one_shot /\ sweep_count > 0 ~> Over

(***************************************************************************)
(* While it polls, hackrf_sweep goes on only as long as callbacks come:    *)
(* a stream that has ended or is silent ends the call.                     *)
(***************************************************************************)
SilenceEnds == pc = "sleep" ~> Over \/ cb.pc # "idle"

(***************************************************************************)
(* "Couldn't transfer any data for one second." (hackrf_sweep.c:774)       *)
(***************************************************************************)
NoDataMeansOneSecond ==
  [][pc = "sleep" /\ exit_code' = "NO_DATA" => slept' = SECOND]_vars

=============================================================================
