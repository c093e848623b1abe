--------------------------- MODULE SweepAppProofs ---------------------------
(***************************************************************************)
(* Theorems about a sweep, for every sequence of requests, every setting   *)
(* of the options and every failure.  First its arithmetic: the ranges     *)
(* that are swept cover what was asked for and the bins lie where they     *)
(* should.  Then its state: what the callback meets, and what the verdict  *)
(* of a call is worth.                                                     *)
(***************************************************************************)
EXTENDS SweepApp, SweepPlanProofs, TLAPS

-----------------------------------------------------------------------------
(* FFT sizes.                                                              *)

(* while ((fftSize + 4) % 8) fftSize++ ends at an odd multiple of four.    *)
LEMMA RoundedSize ==
  ASSUME NEW n \in Nat, 4 <= n
  PROVE  /\ round_fft_size(n) \in Nat
         /\ round_fft_size(n) % 8 = 4
         /\ 4 <= round_fft_size(n)
         /\ n <= round_fft_size(n) /\ round_fft_size(n) < n + 8
BY DEF round_fft_size

(* For such a size the two runs of bins fit, and up to 8180 bins the       *)
(* samples start behind the block's header.                                *)
LEMMA BinsFit ==
  ASSUME NEW n \in Nat, n % 8 = 4, 4 <= n
  PROVE  /\ lower_bins(n) + n \div 4 <= upper_bins(n)
         /\ upper_bins(n) + n \div 4 <= n
         /\ n <= 8180 => first_sample_byte(n) >= HEADER_BYTES
<1>1. PICK k \in Nat : n = 8 * k + 4
  <2> WITNESS n \div 8 \in Nat
  <2> QED  OBVIOUS
<1>2. n \div 4 = 2 * k + 1 /\ n \div 8 = k /\ (n * 5) \div 8 = 5 * k + 2
  BY <1>1
<1> QED
  BY <1>1, <1>2 DEF lower_bins, upper_bins, first_sample_byte, BYTES_PER_BLOCK, HEADER_BYTES

-----------------------------------------------------------------------------
(* Ranges.                                                                 *)

(* What hackrf_sweep's range tests let through.                            *)
AcceptedRange(r) == r \in Nat \X Nat /\ r[1] < r[2] /\ r[2] <= FREQ_MAX_MHZ

(* A planned range is a whole number of steps, at least one, covers the    *)
(* range asked for and exceeds it by less than a step.                     *)
LEMMA PlannedRange ==
  ASSUME NEW r, AcceptedRange(r)
  PROVE  \E k \in Nat \ {0} :
           /\ plan_range(r) = <<r[1], r[1] + k * TUNE_STEP>>
           /\ r[2] <= r[1] + k * TUNE_STEP
           /\ r[1] + k * TUNE_STEP < r[2] + TUNE_STEP
<1> USE DEF TUNE_STEP
<1> DEFINE k == step_count_of(r[1], r[2])
<1>1. k \in Nat \ {0} /\ r[2] <= r[1] + k * 20 /\ r[1] + k * 20 < r[2] + 20
  BY DEF AcceptedRange, step_count_of
<1>2. plan_range(r) = <<r[1], r[1] + k * 20>>
  BY DEF plan_range
<1> QED
  BY <1>1, <1>2

(* Planning a planned range again changes nothing.                         *)
LEMMA PlanTwice ==
  ASSUME NEW r, AcceptedRange(r)
  PROVE  plan_range(plan_range(r)) = plan_range(r)
<1>1. PICK k \in Nat \ {0} : plan_range(r) = <<r[1], r[1] + k * TUNE_STEP>>
  BY PlannedRange
<1>2. step_count_of(r[1], r[1] + k * TUNE_STEP) = k
  BY DEF step_count_of, TUNE_STEP, AcceptedRange
<1> QED
  BY <1>1, <1>2 DEF plan_range

(* Every MHz of an accepted range is in a band of some header that is not  *)
(* above FREQ_MAX_MHZ.                                                     *)
LEMMA PlanCovers ==
  ASSUME NEW r, AcceptedRange(r)
  PROVE  r[1] .. r[2] - 1 \subseteq Reported(plan_range(r))
<1> USE DEF TUNE_STEP
<1>1. PICK k \in Nat \ {0} : /\ plan_range(r) = <<r[1], r[1] + k * TUNE_STEP>>
                             /\ r[2] <= r[1] + k * TUNE_STEP
  BY PlannedRange
<1>2. SUFFICES ASSUME NEW x \in r[1] .. r[2] - 1
               PROVE  x \in Reported(plan_range(r))
  OBVIOUS
<1> DEFINE lo == r[1]
           s  == (x - lo) \div 20
           o  == (x - lo) % 20
           q  == IF o < 5 \/ (10 <= o /\ o < 15) THEN 0 ELSE 5
           f  == lo + 20 * s + q
<1>3. lo \in Nat /\ x \in Nat /\ lo <= x /\ x < r[2] /\ r[2] \in Nat /\ r[2] <= 7250
  BY <1>2 DEF AcceptedRange, FREQ_MAX_MHZ
<1>4. s \in Nat /\ o \in 0 .. 19 /\ x = lo + 20 * s + o
  BY <1>3
<1>5. s \in 0 .. k - 1
  BY <1>1, <1>3, <1>4
<1>6. ((lo + k * 20) - lo) \div 20 = k
  BY <1>3
<1>7. f \in Headers(plan_range(r))
  <2>1. CASE q = 0
    BY <2>1, <1>1, <1>3, <1>4, <1>5, <1>6 DEF Headers
  <2>2. CASE q = 5
    BY <2>2, <1>1, <1>3, <1>4, <1>5, <1>6 DEF Headers
  <2> QED
    BY <2>1, <2>2
<1>8. f \in Nat /\ x \in bands_of(f) /\ f <= x
  <2> HIDE DEF s, o
  <2>1. q \in {0, 5} /\ o - q \in (0 .. 4) \cup (10 .. 14)
    BY <1>4
  <2> HIDE DEF q
  <2>2. f \in Nat /\ x = f + (o - q)
    BY <1>3, <1>4, <2>1
  <2> HIDE DEF f
  <2>3. x \in (f .. f + 4) \cup (f + 10 .. f + 14)
    BY <2>1, <2>2, <1>4
  <2>4. 20 \div 4 = 5 /\ 20 \div 2 = 10 /\ (20 * 3) \div 4 = 15
    OBVIOUS
  <2> QED
    BY <2>1, <2>2, <2>3, <2>4, <1>3, <1>4 DEF bands_of
<1>9. f <= FREQ_MAX_MHZ
  BY <1>3, <1>8 DEF FREQ_MAX_MHZ
<1> QED
  BY <1>7, <1>8, <1>9 DEF Reported

-----------------------------------------------------------------------------
(* The inductive invariant.                                                *)

(* While a call is in progress, fftSize has been rounded.                  *)
SizeInv ==
  /\ fftSize \in Nat
  /\ pc # "idle" => fftSize % 8 = 4 /\ 4 <= fftSize

(* Each range is the one asked for, or that one planned.                   *)
RangeInv ==
  /\ asked \in Seq(Nat \X Nat) /\ frequencies \in Seq(Nat \X Nat)
  /\ Len(frequencies) = Len(asked)
  /\ \A i \in DOMAIN asked :
       /\ AcceptedRange(asked[i])
       /\ frequencies[i] \in {asked[i], plan_range(asked[i])}
       /\ Planned => frequencies[i] = plan_range(asked[i])

(* The arithmetic part of the inductive invariant.                         *)
IInv == SizeInv /\ RangeInv

(* Before the first request there are no ranges and no call is running.    *)
LEMMA InitInv == Init => IInv
<1> SUFFICES ASSUME Init PROVE IInv
  OBVIOUS
<1>1. options.fftSize \in Nat
  BY OptionsAssumption DEF Init
<1> QED
  BY <1>1 DEF Init, IInv, SizeInv, RangeInv, Planned

(* A step that leaves the ranges and fftSize alone, begins no call and     *)
(* does not get past the planning.                                         *)
Elsewhere ==
  /\ fftSize' = fftSize /\ frequencies' = frequencies /\ asked' = asked
  /\ pc' # "idle" => pc # "idle"
  /\ Planned' => Planned

(* Such a step keeps the invariant.                                        *)
LEMMA ElsewhereInv == IInv /\ Elsewhere => IInv'
BY DEF IInv, SizeInv, RangeInv, Elsewhere

(* hackrf_sweep's argument tests: an accepted range is stored as it was    *)
(* asked for, and fftSize is rounded.                                      *)
LEMMA SweepInv ==
  ASSUME IInv, NEW r \in RequestRange, Sweep(r)
  PROVE  IInv'
<1> USE DEF IInv
<1>1. r \in Nat \X Nat
  BY SweepAssumption
<1>2. CASE RangeRejected(r)
  <2>1. Elsewhere
    BY <1>2 DEF Sweep, Return, Elsewhere, Planned
  <2> QED
    BY <2>1, ElsewhereInv
<1>3. CASE ~RangeRejected(r)
  <2>1. AcceptedRange(r)
    BY <1>1, <1>3 DEF RangeRejected, AcceptedRange, FREQ_MAX_MHZ
  <2>2. frequencies' = Append(frequencies, r) /\ asked' = Append(asked, r)
    BY <1>3 DEF Sweep
  <2>3. ~Planned'
    BY <1>3 DEF Sweep, Return, Planned
  <2>4. RangeInv'
    <3> DEFINE n == Len(asked)
    <3>1. /\ n \in Nat /\ Len(frequencies) = n
          /\ DOMAIN asked = 1 .. n /\ DOMAIN frequencies = 1 .. n
      BY DEF RangeInv
    <3>2. /\ asked' \in Seq(Nat \X Nat) /\ frequencies' \in Seq(Nat \X Nat)
          /\ Len(asked') = n + 1 /\ Len(frequencies') = n + 1
          /\ DOMAIN asked' = 1 .. n + 1
      BY <1>1, <2>2, <3>1 DEF RangeInv
    <3>3. ASSUME NEW i \in 1 .. n
          PROVE  asked'[i] = asked[i] /\ frequencies'[i] = frequencies[i]
      BY <2>2, <3>1 DEF RangeInv
    <3>4. asked'[n + 1] = r /\ frequencies'[n + 1] = r
      BY <2>2, <3>1 DEF RangeInv
    <3>5. ASSUME NEW i \in 1 .. n + 1
          PROVE  AcceptedRange(asked'[i])
                 /\ frequencies'[i] \in {asked'[i], plan_range(asked'[i])}
      <4>1. CASE i \in 1 .. n
        BY <4>1, <3>1, <3>3 DEF RangeInv
      <4>2. CASE i = n + 1
        BY <4>2, <3>4, <2>1
      <4> QED
        BY <4>1, <4>2, <3>1
    <3> QED
      BY <2>3, <3>2, <3>5 DEF RangeInv
  <2>5. SizeInv'
    <3>1. CASE OptionsRejected(Len(frequencies) + 1)
      BY <1>3, <3>1 DEF Sweep, Return, SizeInv
    <3>2. CASE ~OptionsRejected(Len(frequencies) + 1)
      <4>1. fftSize' = round_fft_size(fftSize) /\ fftSize \in Nat /\ 4 <= fftSize
        BY <1>3, <3>2 DEF Sweep, OptionsRejected, SizeInv
      <4> QED
        BY <4>1, RoundedSize DEF SizeInv
    <3> QED
      BY <3>1, <3>2
  <2> QED
    BY <2>4, <2>5
<1> QED
  BY <1>2, <1>3

(* The planning loop.                                                      *)
LEMMA SetGainsInv ==
  ASSUME IInv, SetGains
  PROVE  IInv'
<1> USE DEF IInv
<1>1. CASE ~IsOpen
  <2>1. Elsewhere
    BY <1>1 DEF SetGains, Elsewhere, Planned, history
  <2> QED
    BY <2>1, ElsewhereInv
<1>2. CASE IsOpen
  <2>1. /\ frequencies' = [i \in DOMAIN frequencies |-> plan_range(frequencies[i])]
        /\ asked' = asked /\ fftSize' = fftSize /\ pc # "idle"
    BY <1>2 DEF SetGains, history
  <2> DEFINE n == Len(asked)
  <2>a. /\ n \in Nat /\ Len(frequencies) = n
        /\ DOMAIN asked = 1 .. n /\ DOMAIN frequencies = 1 .. n
    BY DEF RangeInv
  <2>2. \A i \in DOMAIN asked : frequencies'[i] = plan_range(asked[i])
    <3> SUFFICES ASSUME NEW i \in DOMAIN asked
                 PROVE  frequencies'[i] = plan_range(asked[i])
      OBVIOUS
    <3>1. frequencies'[i] = plan_range(frequencies[i])
      BY <2>1, <2>a
    <3>2. AcceptedRange(asked[i]) /\ frequencies[i] \in {asked[i], plan_range(asked[i])}
      BY DEF RangeInv
    <3> QED
      BY <3>1, <3>2, PlanTwice
  <2>3. \A i \in DOMAIN asked : plan_range(asked[i]) \in Nat \X Nat
    <3> SUFFICES ASSUME NEW i \in DOMAIN asked
                 PROVE  plan_range(asked[i]) \in Nat \X Nat
      OBVIOUS
    <3>1. AcceptedRange(asked[i])
      BY DEF RangeInv
    <3>2. PICK k \in Nat \ {0} :
            plan_range(asked[i]) = <<asked[i][1], asked[i][1] + k * TUNE_STEP>>
      BY <3>1, PlannedRange
    <3> QED
      BY <3>1, <3>2 DEF AcceptedRange, TUNE_STEP
  <2>4. frequencies' \in Seq(Nat \X Nat) /\ Len(frequencies') = Len(asked)
    <3>1. frequencies' \in [1 .. n -> Nat \X Nat]
      <4>1. \A i \in 1 .. n : frequencies'[i] \in Nat \X Nat
        BY <2>2, <2>3, <2>a
      <4> QED
        BY <4>1, <2>1, <2>a
    <3> HIDE DEF n
    <3> QED
      BY <3>1, <2>a
  <2> QED
    BY <2>1, <2>2, <2>4 DEF RangeInv, SizeInv
<1> QED
  BY <1>1, <1>2

(* The other steps of the thread in hackrf_sweep.                          *)
LEMMA MainInv ==
  ASSUME IInv, MainStep
  PROVE  IInv'
<1> USE DEF Elsewhere, Planned, globals, history
<1>1. CASE FillWindow
  BY <1>1, ElsewhereInv DEF FillWindow
<1>2. CASE SetGains
  BY <1>2, SetGainsInv
<1>3. CASE StartRx
  BY <1>3, ElsewhereInv DEF StartRx, Return
<1>4. CASE InitSweep \/ SetAmp \/ SetAntenna
  BY <1>4, ElsewhereInv DEF InitSweep, SetAmp, SetAntenna, Request, Return, AfterSweep
<1>5. CASE Poll \/ CheckBytes \/ ResetBytes
  BY <1>5, ElsewhereInv DEF Poll, CheckBytes, ResetBytes, Main
<1>6. CASE StopRx \/ Close \/ ExitSweep
  BY <1>6, ElsewhereInv DEF StopRx, Close, ExitSweep, Main
<1>7. CASE Join("join") \/ Join("close_join")
  BY <1>7, ElsewhereInv DEF Join, Main
<1> QED
  BY <1>1, <1>2, <1>3, <1>4, <1>5, <1>6, <1>7 DEF MainStep

(* The callback, the engine and the signal handler touch none of this.     *)
LEMMA OthersInv ==
  ASSUME IInv,
         \/ Signal \/ CallbackStep \/ StreamError
         \/ \E t \in {"worker", "main"} : CallbackEnter(t)
         \/ \E d \in Device : WorkerQuit(d) \/ hackRFSweepThread(d)
  PROVE  IInv'
<1> USE DEF Elsewhere, Planned, globals, history
<1>1. CASE Signal \/ StreamError
  BY <1>1, ElsewhereInv DEF Signal, StreamError
<1>2. CASE CallbackStep
  BY <1>2, ElsewhereInv DEF CallbackStep, CallbackCount, BadBlock, Block
<1>3. CASE \E t \in {"worker", "main"} : CallbackEnter(t)
  BY <1>3, ElsewhereInv DEF CallbackEnter
<1>4. CASE \E d \in Device : WorkerQuit(d) \/ hackRFSweepThread(d)
  BY <1>4, ElsewhereInv DEF WorkerQuit, hackRFSweepThread
<1> QED
  BY <1>1, <1>2, <1>3, <1>4

(* Every step of hackrf_sweep, its callback and the engine keeps the       *)
(* invariant.                                                              *)
LEMMA NextInv == IInv /\ [Next]_vars => IInv'
<1> SUFFICES ASSUME IInv, [Next]_vars PROVE IInv'
  OBVIOUS
<1>1. CASE UNCHANGED vars
  BY <1>1, ElsewhereInv DEF Elsewhere, Planned, vars, globals, history
<1>2. CASE Step
  <2>1. CASE HostStep
    BY <2>1, SweepInv, OthersInv DEF HostStep
  <2> QED
    BY <1>2, <2>1, MainInv, OthersInv DEF Step
<1> QED
  BY <1>1, <1>2 DEF Next, Done

(* While hackrf_sweep runs its FFT size is rounded, and each stored range  *)
(* is the one asked for, planned once the planning loop has run.           *)
THEOREM InvHolds == Spec => []IInv
BY InitInv, NextInv, PTL DEF Spec

-----------------------------------------------------------------------------
(***************************************************************************)
(* Whatever requests came before, of every range asked for each MHz is in  *)
(* some row and no range grew by a step: the planning loop of hackrf_sweep *)
(* (707-713) and the headers rx_callback accepts (275).                    *)
(***************************************************************************)
THEOREM RangesSweptHolds == Spec => []RangesSwept
<1>1. IInv => RangesSwept
  <2> SUFFICES ASSUME IInv, Planned, NEW i \in DOMAIN asked
               PROVE  /\ asked[i][1] .. asked[i][2] - 1 \subseteq Reported(frequencies[i])
                      /\ frequencies[i][2] < asked[i][2] + TUNE_STEP
    BY DEF RangesSwept
  <2>1. AcceptedRange(asked[i]) /\ frequencies[i] = plan_range(asked[i])
    BY DEF IInv, RangeInv
  <2>2. PICK k \in Nat \ {0} :
          /\ plan_range(asked[i]) = <<asked[i][1], asked[i][1] + k * TUNE_STEP>>
          /\ asked[i][1] + k * TUNE_STEP < asked[i][2] + TUNE_STEP
    BY <2>1, PlannedRange
  <2> QED
    BY <2>1, <2>2, PlanCovers
<1> QED
  BY <1>1, InvHolds, PTL

(***************************************************************************)
(* For every FFT size hackrf_sweep accepts, the runs of bins rx_callback   *)
(* keeps lie apart and inside, and up to 8180 bins come from samples only. *)
(***************************************************************************)
THEOREM BinsInBoundsHolds == Spec => []BinsInBounds
<1>1. IInv => BinsInBounds
  BY BinsFit DEF IInv, SizeInv, BinsInBounds, Planned
<1> QED
  BY <1>1, InvHolds, PTL

-----------------------------------------------------------------------------
(* Types.                                                                  *)

(* The positions and local variables of rx_callback.                       *)
Callback == [pc : {"idle", "count", "block"}, on : {"none", "worker", "main"},
             n : 0 .. BYTE_COUNT_WRAP - 1, j : 0 .. BLOCKS_PER_TRANSFER - 1]

(* Where hackrf_sweep has a device: it has been used to set the gains.     *)
HasDevice == Planned \/ pc \in {"stop_ctl", "join", "close_ctl", "close_join", "exit"}

(* TypeOK in the form the proofs use, with the facts its own preservation  *)
(* needs: a call in progress has a range, and a device past the gains.     *)
Typed ==
  /\ device \in Device \cup {NULL}
  /\ do_exit \in BOOLEAN /\ fd \in BOOLEAN /\ sweep_started \in BOOLEAN
  /\ byte_count \in 0 .. BYTE_COUNT_WRAP - 1
  /\ sweep_count \in Nat /\ step_count \in Nat /\ ifftBins \in Nat
  /\ Len(frequencies) <= MAX_SWEEP_RANGES
  /\ buffers \in {"none", "raw", "ready", "freed"}
  /\ options \in Options
  /\ session \in [Device -> {"new", "idle", "live", "ended", "gone"}]
  /\ worker \in [Device -> BOOLEAN]
  /\ pc \in Pc
  /\ result \in BOOLEAN
  /\ exit_code \in {"NONE", "SUCCESS", "FAILURE", "NO_DATA"}
  /\ cb \in Callback
  /\ crashed \in {"no", "bad_device", "freed_device", "bad_buffers", "closed_file"}
  /\ requests \in Nat /\ slept \in Nat
  /\ counted \in BOOLEAN /\ orphaned \in BOOLEAN /\ abandoned \in BOOLEAN
  /\ HasDevice => device \in Device
  /\ pc # "idle" => Len(frequencies) >= 1

(***************************************************************************)
(* What keeps the callback away from memory that is not ready: as long as  *)
(* no session was orphaned or abandoned,                                   *)
(***************************************************************************)

(* a worker runs only in a session that is live or has just ended,         *)
WorkersInSessions == \A d \in Device : worker[d] => session[d] \in {"live", "ended"}

(* The positions of hackrf_sweep between start_rx and the end of           *)
(* hackrf_close.                                                           *)
Streaming == {"init_sweep", "amp", "antenna", "poll", "sleep", "reset", "stop_ctl", "join",
              "close_ctl", "close_join"}

(* a session exists only while hackrf_sweep attends to it,                 *)
SessionsAttended == Unstopped => pc \in Streaming

(* a device closed is gone when its buffers are freed,                     *)
ClosedBeforeFree == pc = "exit" => session[device] = "gone"

(* the buffers stay while the callback may come,                           *)
BuffersReady == pc \in Streaming \cup {"gain", "start"} => buffers = "ready"

(* and a running callback has a session, a file and a thread to run on.    *)
CallbackInSession ==
  /\ cb.pc = "idle" => cb.on = "none"
  /\ cb.pc # "idle" => Unstopped /\ fd /\ cb.on # "none"
  /\ cb.on = "worker" => worker[device]
  /\ cb.on = "main" => InControl

(* All of this holds unless a session was left behind.                     *)
SafeInv ==
  BuffersReady /\
  (~orphaned /\ ~abandoned =>
    /\ WorkersInSessions /\ SessionsAttended /\ ClosedBeforeFree /\ CallbackInSession
    /\ crashed \in {"no", "bad_device"})

(* A transfer counted since the last reset is in byte_count, and the       *)
(* verdict is still open while hackrf_sweep sleeps.                        *)
CountInv ==
  /\ counted => byte_count # 0
  /\ cb.n < MAX_BYTES \/ cb.n = 0
  /\ Planned => exit_code = "SUCCESS"
  /\ pc \in {"window", "gain"} => exit_code = "SUCCESS"

-----------------------------------------------------------------------------
(* The types are preserved.                                                *)

(* byte_count in units of transfers, as wide as the code's uint32_t.       *)
LEMMA Wrap ==
  /\ BYTE_COUNT_WRAP \in Nat /\ 1 < BYTE_COUNT_WRAP
  /\ 0 \in 0 .. BYTE_COUNT_WRAP - 1
BY SMT DEF BYTE_COUNT_WRAP

(* byte_count += transfer length stays in range, and is not zero unless it *)
(* wraps around.                                                           *)
LEMMA CountBytes ==
  ASSUME NEW n \in 0 .. BYTE_COUNT_WRAP - 1
  PROVE  /\ count_bytes(n) \in 0 .. BYTE_COUNT_WRAP - 1
         /\ n + 1 < BYTE_COUNT_WRAP => count_bytes(n) # 0
<1>1. /\ BYTE_COUNT_WRAP \in Nat /\ 1 < BYTE_COUNT_WRAP
      /\ n \in Nat /\ n < BYTE_COUNT_WRAP
  BY Wrap
<1>2. /\ (n + 1) % BYTE_COUNT_WRAP \in Nat
      /\ (n + 1) % BYTE_COUNT_WRAP < BYTE_COUNT_WRAP
  BY <1>1, SMT
<1>3. n + 1 < BYTE_COUNT_WRAP => (n + 1) % BYTE_COUNT_WRAP = n + 1
  BY <1>1, SMT DEF BYTE_COUNT_WRAP
<1> QED
  BY <1>1, <1>2, <1>3, SMT DEF count_bytes

(* The callback's record when it is not running.                           *)
LEMMA QuietType == Quiet \in Callback
<1>1. 0 \in 0 .. BLOCKS_PER_TRANSFER - 1
  BY SweepAssumption
<1> QED
  BY <1>1, Wrap DEF Quiet, Callback

(* NextBlock stays within the transfer.                                    *)
LEMMA NextBlockType ==
  ASSUME Typed, NextBlock
  PROVE  cb' \in Callback
<1>1. BLOCKS_PER_TRANSFER \in Nat \ {0}
  BY SweepAssumption
<1>2. cb.j \in 0 .. BLOCKS_PER_TRANSFER - 1
  BY DEF Typed, Callback
<1>3. cb.j + 1 # BLOCKS_PER_TRANSFER => cb.j + 1 \in 0 .. BLOCKS_PER_TRANSFER - 1
  BY <1>1, <1>2
<1>4. CASE cb' = Quiet
  BY <1>4, QuietType
<1>5. CASE cb.j + 1 # BLOCKS_PER_TRANSFER /\ cb' = [cb EXCEPT !.j = cb.j + 1]
  BY <1>3, <1>5 DEF Typed, Callback
<1> QED
  BY <1>4, <1>5 DEF NextBlock

(* The last range is not empty, so that its number of steps is a number.   *)
LEMMA LastSteps ==
  ASSUME IInv, Len(frequencies) >= 1
  PROVE  LET r == frequencies[Len(frequencies)] IN step_count_of(r[1], r[2]) \in Nat
<1> DEFINE i == Len(frequencies)
           r == frequencies[i]
<1>1. i \in DOMAIN asked
  BY DEF IInv, RangeInv
<1>2. AcceptedRange(asked[i]) /\ r \in {asked[i], plan_range(asked[i])}
  BY <1>1 DEF IInv, RangeInv
<1>3. PICK k \in Nat \ {0} : plan_range(asked[i]) = <<asked[i][1], asked[i][1] + k * TUNE_STEP>>
  BY <1>2, PlannedRange
<1> DEFINE a == asked[i][1]
           b == asked[i][2]
<1>4. a \in Nat /\ b \in Nat /\ a < b
  BY <1>2 DEF AcceptedRange
<1>5. k * TUNE_STEP \in Nat /\ k * TUNE_STEP > 0
  BY <1>3 DEF TUNE_STEP
<1>6. r[1] = a /\ r[2] \in {b, a + k * TUNE_STEP}
  BY <1>2, <1>3
<1>7. r[1] \in Nat /\ r[2] \in Nat /\ r[1] < r[2]
  BY <1>4, <1>5, <1>6
<1> HIDE DEF r, i
<1>8. step_count_of(r[1], r[2]) \in Nat
  BY <1>7 DEF step_count_of, TUNE_STEP
<1> QED
  BY <1>8 DEF r, i

(* Steps of a session keep its types.                                      *)
LEMMA SessionType ==
  ASSUME Typed, NEW d \in Device,
         \/ S!Open(d) \/ S!Start(d) \/ S!StartStillborn(d) \/ S!End(d)
         \/ S!Quit(d) \/ S!Stop(d) \/ S!Close(d) \/ S!Abandon(d)
         \/ UNCHANGED <<session, worker>>
  PROVE  /\ session' \in [Device -> {"new", "idle", "live", "ended", "gone"}]
         /\ worker' \in [Device -> BOOLEAN]
<1>1. worker' \in [Device -> BOOLEAN]
  BY DEF Typed, S!Open, S!Start, S!StartStillborn, S!End, S!Quit, S!Stop, S!Close, S!Abandon
<1>2. \/ UNCHANGED session
      \/ \E s \in {"idle", "live", "ended", "gone"} : session' = [session EXCEPT ![d] = s]
  BY DEF S!Open, S!Start, S!StartStillborn, S!End, S!Quit, S!Stop, S!Close, S!Abandon, S!Move
<1> QED
  BY <1>1, <1>2 DEF Typed

(* The arguments and the planning.                                         *)
LEMMA PrepareTyped ==
  ASSUME Typed, IInv, (\E r \in RequestRange : Sweep(r)) \/ FillWindow \/ SetGains
  PROVE  Typed'
<1> USE DEF Typed, HasDevice, Planned, Pc
<1>1. CASE \E r \in RequestRange : Sweep(r)
  <2>1. PICK r \in RequestRange : Sweep(r)
    BY <1>1
  <2>2. /\ Len(frequencies') <= MAX_SWEEP_RANGES
        /\ pc' # "idle" => Len(frequencies') >= 1
    <3>1. MAX_SWEEP_RANGES \in Nat /\ frequencies \in Seq(Nat \X Nat) /\ r \in Nat \X Nat
      BY SweepAssumption DEF IInv, RangeInv
    <3>2. CASE RangeRejected(r)
      BY <2>1, <3>2 DEF Sweep, Return
    <3>3. CASE ~RangeRejected(r)
      <4>1. frequencies' = Append(frequencies, r) /\ Len(frequencies) < MAX_SWEEP_RANGES
        BY <2>1, <3>1, <3>3 DEF Sweep, RangeRejected, TooManyRanges
      <4> QED
        BY <3>1, <4>1
    <3> QED
      BY <3>2, <3>3
  <2>3. requests' \in Nat /\ orphaned' \in BOOLEAN
    <3>1. requests' \in Nat
      BY <2>1 DEF Sweep
    <3>2. orphaned' = orphaned \/ orphaned' = (orphaned \/ Unstopped)
      BY <2>1 DEF Sweep, Return
    <3>3. (orphaned \/ Unstopped) \in BOOLEAN
      OBVIOUS
    <3> QED
      BY <3>1, <3>2, <3>3
  <2>4. /\ pc' \in {"idle", "window"} /\ exit_code' \in {"SUCCESS", "FAILURE"}
        /\ buffers' \in {buffers, "raw"} /\ result' = TRUE
    BY <2>1 DEF Sweep, Return
  <2> QED
    BY <2>1, <2>2, <2>3, <2>4 DEF Sweep
<1>2. CASE FillWindow
  BY <1>2 DEF FillWindow, history
<1>3. CASE SetGains
  <2>1. CASE ~IsOpen
    BY <1>3, <2>1 DEF SetGains, history
  <2>2. CASE IsOpen
    <3>1. /\ pc = "gain" /\ pc' = "start"
          /\ result' \in BOOLEAN
          /\ frequencies' = [i \in DOMAIN frequencies |-> plan_range(frequencies[i])]
      BY <1>3, <2>2 DEF SetGains, MayFail
    <3>2. Len(frequencies') = Len(frequencies)
      BY <3>1 DEF IInv, RangeInv
    <3>3. step_count' \in Nat
      BY <1>3, <2>2, <3>1, LastSteps DEF SetGains
    <3>4. ifftBins' \in Nat
      <4>1. fftSize \in Nat /\ \A m, n \in Nat : m * n \in Nat
        BY DEF IInv, SizeInv
      <4> QED
        BY <1>3, <2>2, <3>3, <4>1 DEF SetGains
    <3>5. device \in Device
      BY <2>2 DEF IsOpen
    <3> QED
      BY <1>3, <2>2, <3>1, <3>2, <3>3, <3>4, <3>5 DEF SetGains, history
  <2> QED
    BY <2>1, <2>2
<1> QED
  BY <1>1, <1>2, <1>3

(* The rest of hackrf_sweep.                                               *)
LEMMA MainTyped ==
  ASSUME Typed, StartRx \/ InitSweep \/ SetAmp \/ SetAntenna \/ Poll \/ CheckBytes
                \/ ResetBytes \/ StopRx \/ Join("join") \/ Close \/ Join("close_join")
                \/ ExitSweep
  PROVE  Typed'
<1> USE DEF Typed, HasDevice, Planned, Pc
<1>1. CASE StartRx
  <2>1. device \in Device /\ pc = "start" /\ pc' \in {"init_sweep", "idle"}
    BY <1>1 DEF StartRx, Return
  <2>2. /\ session' \in [Device -> {"new", "idle", "live", "ended", "gone"}]
        /\ worker' \in [Device -> BOOLEAN]
    BY <1>1, <2>1, SessionType DEF StartRx
  <2>3. orphaned' \in BOOLEAN /\ exit_code' \in {exit_code, "FAILURE"} /\ slept' \in Nat
    BY <1>1 DEF StartRx, Return, Unstopped
  <2> QED
    BY <1>1, <2>1, <2>2, <2>3 DEF StartRx, globals
<1>2. CASE InitSweep \/ SetAmp \/ SetAntenna
  <2>1. /\ pc \in {"init_sweep", "amp", "antenna"}
        /\ pc' \in {"amp", "antenna", "poll", "idle"}
    BY <1>2 DEF InitSweep, SetAmp, SetAntenna, Request, Return, AfterSweep
  <2>2. orphaned' \in BOOLEAN /\ exit_code' \in {exit_code, "FAILURE"}
    BY <1>2 DEF InitSweep, SetAmp, SetAntenna, Request, Return, Unstopped
  <2> QED
    BY <1>2, <2>1, <2>2 DEF InitSweep, SetAmp, SetAntenna, Request, globals
<1>3. CASE Poll
  BY <1>3 DEF Poll, Main, globals, history
<1>4. CASE CheckBytes
  <2>1. slept' \in Nat
    BY <1>4 DEF CheckBytes, Min, SECOND
  <2> QED
    BY <1>4, <2>1 DEF CheckBytes, Main, globals
<1>5. CASE ResetBytes
  <2>1. pc = "reset" /\ pc' \in {"sleep", "stop_ctl"}
    BY <1>5 DEF ResetBytes, Main
  <2>2. byte_count' \in 0 .. BYTE_COUNT_WRAP - 1
    BY <1>5, Wrap DEF ResetBytes, zeroed
  <2>3. counted' \in BOOLEAN /\ slept' \in Nat
    BY <1>5 DEF ResetBytes
  <2> QED
    BY <1>5, <2>1, <2>2, <2>3 DEF ResetBytes
<1>6. CASE StopRx
  <2>1. device \in Device /\ pc = "stop_ctl" /\ pc' \in {"join", "close_ctl"}
    BY <1>6 DEF StopRx, Main
  <2>2. /\ session' \in [Device -> {"new", "idle", "live", "ended", "gone"}]
        /\ worker' \in [Device -> BOOLEAN]
    BY <1>6, <2>1, SessionType DEF StopRx, EndSession
  <2> QED
    BY <1>6, <2>1, <2>2 DEF StopRx, globals, history
<1>7. CASE Join("join") \/ Join("close_join")
  <2>1. device \in Device /\ pc \in {"join", "close_join"} /\ pc' = "close_ctl"
    BY <1>7 DEF Join, Main
  <2>2. /\ session' \in [Device -> {"new", "idle", "live", "ended", "gone"}]
        /\ worker' \in [Device -> BOOLEAN]
    BY <1>7, <2>1, SessionType DEF Join
  <2> QED
    BY <1>7, <2>1, <2>2 DEF Join, globals, history
<1>8. CASE Close
  <2>1. device \in Device /\ pc = "close_ctl" /\ pc' \in {"exit", "close_join"}
    BY <1>8 DEF Close, Main
  <2>2. /\ session' \in [Device -> {"new", "idle", "live", "ended", "gone"}]
        /\ worker' \in [Device -> BOOLEAN]
    BY <1>8, <2>1, SessionType DEF Close, EndSession
  <2>3. abandoned' \in BOOLEAN
    BY <1>8 DEF Close
  <2> QED
    BY <1>8, <2>1, <2>2, <2>3 DEF Close, globals
<1>9. CASE ExitSweep
  <2>1. pc' = "idle" /\ fd' \in BOOLEAN /\ buffers' = "freed"
    BY <1>9 DEF ExitSweep, Main
  <2> QED
    BY <1>9, <2>1 DEF ExitSweep, history
<1> QED
  BY <1>1, <1>2, <1>3, <1>4, <1>5, <1>6, <1>7, <1>8, <1>9

(* The callback, the engine, the host's open and the signal handler.       *)
LEMMA OthersTyped ==
  ASSUME Typed,
         \/ Signal \/ CallbackStep \/ StreamError
         \/ \E t \in {"worker", "main"} : CallbackEnter(t)
         \/ \E d \in Device : WorkerQuit(d) \/ hackRFSweepThread(d)
  PROVE  Typed'
<1> USE DEF Typed, HasDevice, Planned
<1>1. CASE Signal
  BY <1>1 DEF Signal, history
<1>2. CASE StreamError
  <2>1. device \in Device
    BY <1>2 DEF StreamError, Live
  <2> QED
    BY <1>2, <2>1, SessionType DEF StreamError, globals, history
<1>3. CASE \E t \in {"worker", "main"} : CallbackEnter(t)
  <2>1. PICK t \in {"worker", "main"} : CallbackEnter(t)
    BY <1>3
  <2>2. device \in Device
    BY <2>1 DEF CallbackEnter
  <2>3. cb' \in Callback
    <3>1. CASE cb' = [pc |-> "count", on |-> t, n |-> byte_count, j |-> 0]
      <4>1. 0 \in 0 .. BLOCKS_PER_TRANSFER - 1
        BY SweepAssumption
      <4> QED
        BY <3>1, <4>1 DEF Callback
    <3> QED
      BY <2>1, <3>1 DEF CallbackEnter
  <2>4. /\ session' \in [Device -> {"new", "idle", "live", "ended", "gone"}]
        /\ worker' \in [Device -> BOOLEAN]
    BY <2>1, <2>2, SessionType DEF CallbackEnter, EndSession
  <2>5. crashed' \in {crashed, "freed_device"}
    BY <2>1 DEF CallbackEnter
  <2> QED
    BY <2>1, <2>3, <2>4, <2>5 DEF CallbackEnter, globals
<1>4. CASE CallbackCount
  <2>1. cb.n \in 0 .. BYTE_COUNT_WRAP - 1
    BY DEF Callback
  <2>2. byte_count' \in 0 .. BYTE_COUNT_WRAP - 1
    BY <1>4, <2>1, CountBytes DEF CallbackCount
  <2>3. cb' \in Callback
    BY <1>4, Wrap DEF CallbackCount, Callback
  <2> QED
    BY <1>4, <2>2, <2>3 DEF CallbackCount
<1>5. CASE BadBlock
  BY <1>5, NextBlockType DEF BadBlock, globals, history
<1>6. CASE \E b \in {"first", "later", "beyond"} : Block(b)
  <2>1. PICK b \in {"first", "later", "beyond"} : Block(b)
    BY <1>6
  <2>2. cb' \in Callback
    BY <2>1, NextBlockType, QuietType DEF Block
  <2>3. sweep_count' \in Nat
    BY <2>1 DEF Block
  <2>4. do_exit' \in BOOLEAN /\ sweep_started' \in BOOLEAN
    BY <2>1 DEF Block
  <2>5. crashed' \in {crashed, "bad_buffers", "closed_file"}
    BY <2>1 DEF Block, Output
  <2> QED
    BY <2>1, <2>2, <2>3, <2>4, <2>5 DEF Block
<1>7. CASE \E d \in Device : WorkerQuit(d)
  BY <1>7, SessionType DEF WorkerQuit, globals, history
<1>8. CASE \E d \in Device : hackRFSweepThread(d)
  BY <1>8, SessionType DEF hackRFSweepThread, history
<1> QED
  BY <1>1, <1>2, <1>3, <1>4, <1>5, <1>6, <1>7, <1>8 DEF CallbackStep

-----------------------------------------------------------------------------
(* Memory safety.                                                          *)

(* No session was left behind,                                             *)
Clean == ~orphaned /\ ~abandoned

(* and what holds then.                                                    *)
CleanInv ==
  /\ WorkersInSessions /\ SessionsAttended /\ ClosedBeforeFree /\ CallbackInSession
  /\ crashed \in {"no", "bad_device"}

(* Outside the positions where hackrf_sweep attends to a session no        *)
(* callback runs.                                                          *)
LEMMA NoCallback ==
  ASSUME CleanInv, pc \notin Streaming \/ ~Unstopped
  PROVE  ~Unstopped /\ cb.pc = "idle" /\ cb.on = "none"
BY DEF CleanInv, SessionsAttended, CallbackInSession

(* A step of hackrf_sweep that leaves sessions and callback alone: at its  *)
(* end no session is left behind and no control transfer is left with a    *)
(* callback in it.                                                         *)
LEMMA PcStepClean ==
  ASSUME CleanInv, UNCHANGED <<device, session, worker, cb, fd>>,
         crashed' \in {"no", "bad_device"},
         Unstopped => pc' \in Streaming,
         cb.on = "main" => InControl',
         pc' = "exit" => pc = "exit"
  PROVE  CleanInv'
BY DEF CleanInv, WorkersInSessions, SessionsAttended, ClosedBeforeFree, CallbackInSession,
       Unstopped

(* A session may end, and a worker quit, while hackrf_sweep attends to it. *)
LEMMA EndClean ==
  ASSUME Typed, CleanInv, Live => S!End(device), ~Live => UNCHANGED <<session, worker>>
  PROVE  /\ WorkersInSessions'
         /\ device' = device => (Unstopped' <=> Unstopped)
         /\ worker' = worker
         /\ session[device] = "gone" /\ device # NULL => session'[device] = "gone"
<1>1. CASE ~Live
  BY <1>1 DEF CleanInv, WorkersInSessions, Unstopped
<1>2. CASE Live
  <2>1. /\ device \in Device /\ session[device] = "live" /\ worker' = worker
        /\ session' = [session EXCEPT ![device] = "ended"]
    BY <1>2 DEF Live, Typed, S!End, S!Move
  <2> QED
    BY <2>1 DEF CleanInv, WorkersInSessions, Unstopped, Typed
<1> QED
  BY <1>1, <1>2

(* hackrf_sweep up to the start of its session.                            *)
LEMMA PrepareClean ==
  ASSUME Typed, CleanInv, Clean', crashed = "no",
         (\E r \in RequestRange : Sweep(r)) \/ FillWindow \/ SetGains \/ StartRx
  PROVE  CleanInv'
<1>1. /\ pc \in {"idle", "window", "gain", "start"}
      /\ ~Unstopped /\ cb.pc = "idle" /\ cb.on = "none"
  <2>1. pc \in {"idle", "window", "gain", "start"}
    BY DEF Sweep, FillWindow, SetGains, StartRx
  <2> QED
    BY <2>1, NoCallback DEF Streaming
<1>2. CASE (\E r \in RequestRange : Sweep(r)) \/ FillWindow \/ SetGains
  <2>1. /\ UNCHANGED <<device, session, worker, cb, fd>> /\ crashed' \in {"no", "bad_device"}
        /\ pc' \in {"idle", "window", "gain", "start"}
    BY <1>1, <1>2 DEF Sweep, FillWindow, SetGains, Return
  <2> QED
    BY <1>1, <2>1, PcStepClean
<1>3. CASE StartRx
  <2>1. device \in Device /\ UNCHANGED <<device, cb, fd, crashed>>
    BY <1>3 DEF StartRx, globals, Typed, HasDevice, Planned
  <2>2. CASE UNCHANGED <<session, worker>> /\ pc' = "idle"
    BY <1>1, <2>1, <2>2, PcStepClean
  <2>3. CASE /\ S!Start(device) \/ S!StartStillborn(device)
             /\ pc' = "init_sweep"
    <3>1. \E s \in {"live", "ended"} : session' = [session EXCEPT ![device] = s]
      BY <2>3 DEF S!Start, S!StartStillborn, S!Move
    <3>2. worker' = [worker EXCEPT ![device] = TRUE]
      BY <2>3 DEF S!Start, S!StartStillborn
    <3>3. WorkersInSessions'
      BY <2>1, <3>1, <3>2 DEF CleanInv, WorkersInSessions, Typed
    <3> QED
      BY <1>1, <2>1, <2>3, <3>3
         DEF CleanInv, SessionsAttended, ClosedBeforeFree, CallbackInSession, Streaming
  <2> QED
    BY <1>3, <2>2, <2>3 DEF StartRx, Return, Clean
<1> QED
  BY <1>2, <1>3

(* hackrf_sweep from its first request to the polling loop.                *)
LEMMA AttendClean ==
  ASSUME Typed, CleanInv, Clean', crashed = "no",
         InitSweep \/ SetAmp \/ SetAntenna \/ Poll \/ CheckBytes \/ ResetBytes
  PROVE  CleanInv'
<1>1. /\ UNCHANGED <<device, session, worker, cb, fd, crashed>>
      /\ cb.on # "main"
      /\ pc' # "exit"
      /\ Unstopped => pc' \in Streaming
  <2>1. CASE InitSweep \/ SetAmp \/ SetAntenna
    <3>1. /\ UNCHANGED <<device, session, worker, cb, fd, crashed>> /\ cb.on # "main"
      BY <2>1 DEF InitSweep, SetAmp, SetAntenna, Request, globals
    <3>2. pc' \in {"amp", "antenna", "poll"} \/ (pc' = "idle" /\ orphaned' = (orphaned \/ Unstopped))
      BY <2>1 DEF InitSweep, SetAmp, SetAntenna, Request, Return, AfterSweep
    <3> QED
      BY <3>1, <3>2 DEF Streaming, Clean
  <2>2. CASE Poll \/ CheckBytes \/ ResetBytes
    <3>1. /\ UNCHANGED <<device, session, worker, cb, fd, crashed>>
          /\ pc \in {"poll", "sleep", "reset"} /\ pc' \in {"sleep", "reset", "stop_ctl"}
      BY <2>2 DEF Poll, CheckBytes, ResetBytes, Main, globals
    <3> QED
      BY <3>1 DEF Streaming, CleanInv, CallbackInSession, InControl
  <2> QED
    BY <2>1, <2>2
<1> QED
  BY <1>1, PcStepClean

(* hackrf_stop_rx, hackrf_close, the frees.                                *)
LEMMA EndingClean ==
  ASSUME Typed, CleanInv, Clean', crashed = "no",
         StopRx \/ Join("join") \/ Close \/ Join("close_join") \/ ExitSweep
  PROVE  CleanInv'
<1> USE DEF Streaming
<1>0. device \in Device /\ device # NULL
  <2>1. HasDevice
    BY DEF StopRx, Join, Close, ExitSweep, Main, HasDevice
  <2> QED
    BY <2>1, SweepAssumption DEF Typed
<1>1. CASE StopRx
  <2>1. /\ UNCHANGED <<device, cb, fd, crashed>> /\ cb.on # "main"
        /\ pc' \in {"join", "close_ctl"}
        /\ EndSession \/ UNCHANGED <<session, worker>>
    BY <1>1 DEF StopRx, Main, globals
  <2>2. CASE EndSession
    <3>1. WorkersInSessions' /\ (Unstopped' <=> Unstopped) /\ worker' = worker
      BY <2>1, <2>2, EndClean DEF EndSession
    <3> QED
      BY <2>1, <3>1 DEF CleanInv, SessionsAttended, ClosedBeforeFree, CallbackInSession
  <2>3. CASE UNCHANGED <<session, worker>>
    BY <2>1, <2>3, PcStepClean
  <2> QED
    BY <2>1, <2>2, <2>3
<1>2. CASE Join("join") \/ Join("close_join")
  <2>1. /\ UNCHANGED <<device, cb, fd, crashed>> /\ pc' = "close_ctl"
        /\ pc \in {"join", "close_join"}
        /\ S!Stop(device) \/ UNCHANGED <<session, worker>>
    BY <1>2 DEF Join, Main, globals
  <2>2. cb.on # "main"
    BY <2>1 DEF CleanInv, CallbackInSession, InControl
  <2>3. CASE S!Stop(device)
    <3>1. /\ ~worker[device] /\ worker' = worker
          /\ session' = [session EXCEPT ![device] = "idle"]
      BY <2>3 DEF S!Stop, S!Move
    <3>2. cb.pc = "idle" /\ cb.on = "none"
      BY <2>2, <3>1 DEF CleanInv, CallbackInSession, Typed, Callback
    <3>3. WorkersInSessions' /\ ~Unstopped'
      BY <1>0, <2>1, <3>1 DEF CleanInv, WorkersInSessions, Unstopped, Typed
    <3> QED
      BY <2>1, <3>2, <3>3 DEF CleanInv, SessionsAttended, ClosedBeforeFree, CallbackInSession
  <2>4. CASE UNCHANGED <<session, worker>>
    BY <2>1, <2>2, <2>4, PcStepClean
  <2> QED
    BY <2>1, <2>3, <2>4
<1>3. CASE Close
  <2>1. UNCHANGED <<device, cb, fd, crashed>> /\ cb.on # "main" /\ pc = "close_ctl"
    BY <1>3 DEF Close, Main, globals
  <2>2. CASE pc' = "exit" /\ S!Close(device)
    <3>1. /\ session[device] = "idle" /\ worker' = worker
          /\ session' = [session EXCEPT ![device] = "gone"]
      BY <2>2 DEF S!Close, S!Move
    <3>2. ~Unstopped
      BY <3>1 DEF Unstopped
    <3>3. cb.pc = "idle" /\ cb.on = "none"
      BY <3>2, NoCallback
    <3>4. WorkersInSessions' /\ ~Unstopped' /\ session'[device'] = "gone"
      BY <1>0, <2>1, <3>1 DEF CleanInv, WorkersInSessions, Unstopped, Typed
    <3> QED
      BY <2>1, <2>2, <3>3, <3>4 DEF CleanInv, SessionsAttended, ClosedBeforeFree,
                                    CallbackInSession
  <2>3. CASE pc' = "close_join" /\ EndSession
    <3>1. WorkersInSessions' /\ (Unstopped' <=> Unstopped) /\ worker' = worker
      BY <2>1, <2>3, EndClean DEF EndSession
    <3> QED
      BY <2>1, <2>3, <3>1 DEF CleanInv, SessionsAttended, ClosedBeforeFree, CallbackInSession
  <2> QED
    BY <1>3, <2>2, <2>3 DEF Close, Main, Clean
<1>4. CASE ExitSweep
  <2>1. /\ pc = "exit" /\ pc' = "idle" /\ UNCHANGED <<device, session, worker, cb, crashed>>
    BY <1>4 DEF ExitSweep, Main
  <2>2. ~Unstopped /\ cb.pc = "idle" /\ cb.on = "none"
    BY <2>1, NoCallback
  <2> QED
    BY <2>1, <2>2 DEF CleanInv, WorkersInSessions, SessionsAttended, ClosedBeforeFree,
                      CallbackInSession, Unstopped
<1> QED
  BY <1>1, <1>2, <1>3, <1>4

(* rx_callback.                                                            *)
LEMMA CallbackClean ==
  ASSUME Typed, CleanInv, BuffersReady, crashed = "no",
         CallbackStep \/ \E t \in {"worker", "main"} : CallbackEnter(t)
  PROVE  CleanInv'
<1>1. CASE \E t \in {"worker", "main"} : CallbackEnter(t)
  <2>1. PICK t \in {"worker", "main"} : CallbackEnter(t)
    BY <1>1
  <2>2. /\ device \in Device /\ device # NULL /\ UNCHANGED <<device, fd, pc>>
        /\ cb.pc = "idle" /\ MayRun(t)
    BY <2>1, SweepAssumption DEF CallbackEnter, Typed, globals
  <2>3. session[device] \in {"live", "ended"}
    BY <2>2 DEF MayRun, CleanInv, WorkersInSessions
  <2>4. Unstopped
    BY <2>2, <2>3 DEF Unstopped
  <2>5. CASE fd
    <3>1. /\ cb' = [pc |-> "count", on |-> t, n |-> byte_count, j |-> 0]
          /\ UNCHANGED <<session, worker, crashed>>
      BY <2>1, <2>3, <2>5 DEF CallbackEnter
    <3>2. cb'.pc = "count" /\ cb'.on = t
      BY <3>1
    <3>3. /\ t = "worker" => worker[device]
          /\ t = "main" => InControl
      BY <2>2 DEF MayRun
    <3>4. (Unstopped' <=> Unstopped) /\ (InControl' <=> InControl)
      BY <2>2, <3>1 DEF Unstopped, InControl
    <3>5. CallbackInSession'
      BY <2>2, <2>4, <2>5, <3>1, <3>2, <3>3, <3>4 DEF CallbackInSession
    <3> QED
      BY <2>2, <3>1, <3>4, <3>5 DEF CleanInv, WorkersInSessions, SessionsAttended,
                                    ClosedBeforeFree
  <2>6. CASE ~fd
    <3>1. EndSession /\ UNCHANGED <<cb, crashed>>
      BY <2>1, <2>3, <2>6 DEF CallbackEnter
    <3>2. /\ WorkersInSessions' /\ (Unstopped' <=> Unstopped) /\ worker' = worker
      BY <2>2, <3>1, EndClean DEF EndSession
    <3>3. pc # "exit"
      BY <2>4 DEF CleanInv, SessionsAttended, Streaming
    <3> QED
      BY <2>2, <3>1, <3>2, <3>3 DEF CleanInv, SessionsAttended, ClosedBeforeFree,
                                    CallbackInSession, InControl
  <2> QED
    BY <2>5, <2>6
<1>2. CASE CallbackStep
  <2>1. UNCHANGED <<device, session, worker, pc, fd>>
    BY <1>2 DEF CallbackStep, CallbackCount, BadBlock, Block, globals
  <2>2. /\ cb.pc # "idle" /\ Unstopped /\ fd /\ buffers = "ready"
    <3>1. cb.pc # "idle"
      BY <1>2 DEF CallbackStep, CallbackCount, BadBlock, Block
    <3> QED
      BY <3>1 DEF CleanInv, CallbackInSession, SessionsAttended, BuffersReady
  <2>3. crashed' = "no"
    BY <1>2, <2>2 DEF CallbackStep, CallbackCount, BadBlock, Block, Output
  <2>4. cb' = Quiet \/ (cb'.pc # "idle" /\ cb'.on = cb.on)
    <3>1. CASE CallbackCount
      BY <3>1 DEF CallbackCount, Typed, Callback
    <3>2. CASE NextBlock
      BY <2>2, <3>2 DEF NextBlock, Typed, Callback
    <3> QED
      BY <1>2, <3>1, <3>2 DEF CallbackStep, BadBlock, Block
  <2>5. (Unstopped' <=> Unstopped) /\ (InControl' <=> InControl)
    BY <2>1 DEF Unstopped, InControl
  <2>6. CallbackInSession'
    <3>1. CASE cb' = Quiet
      BY <3>1 DEF CallbackInSession, Quiet
    <3>2. CASE cb'.pc # "idle" /\ cb'.on = cb.on
      BY <2>1, <2>2, <2>5, <3>2 DEF CleanInv, CallbackInSession
    <3> QED
      BY <2>4, <3>1, <3>2
  <2> QED
    BY <2>1, <2>3, <2>5, <2>6 DEF CleanInv, WorkersInSessions, SessionsAttended,
                                  ClosedBeforeFree
<1> QED
  BY <1>1, <1>2

(* The engine, the host's open and the signal handler.                     *)
LEMMA OthersClean ==
  ASSUME Typed, CleanInv, crashed = "no",
         Signal \/ StreamError \/ \E d \in Device : WorkerQuit(d) \/ hackRFSweepThread(d)
  PROVE  CleanInv'
<1>1. CASE Signal
  BY <1>1, PcStepClean DEF Signal, CleanInv, SessionsAttended, CallbackInSession, InControl
<1>2. CASE StreamError
  <2>1. UNCHANGED <<device, cb, fd, crashed, pc>> /\ Live /\ S!End(device) /\ device # NULL
    BY <1>2 DEF StreamError, globals, Live
  <2>2. WorkersInSessions' /\ (Unstopped' <=> Unstopped) /\ worker' = worker
    BY <2>1, EndClean
  <2>3. pc # "exit"
    BY <2>1 DEF Live, CleanInv, ClosedBeforeFree
  <2> QED
    BY <2>1, <2>2, <2>3 DEF CleanInv, SessionsAttended, ClosedBeforeFree, CallbackInSession,
                            InControl
<1>3. CASE \E d \in Device : WorkerQuit(d)
  <2>1. PICK d \in Device : WorkerQuit(d)
    BY <1>3
  <2>2. /\ UNCHANGED <<device, cb, fd, crashed, pc, session>>
        /\ worker' = [worker EXCEPT ![d] = FALSE]
        /\ cb.on = "worker" => device # d
    BY <2>1 DEF WorkerQuit, S!Quit, globals
  <2>3. WorkersInSessions'
    BY <2>2 DEF CleanInv, WorkersInSessions, Typed
  <2>4. cb.on = "worker" => worker'[device]
    <3> SUFFICES ASSUME cb.on = "worker" PROVE worker'[device]
      OBVIOUS
    <3>1. Unstopped /\ worker[device]
      BY DEF CleanInv, CallbackInSession
    <3>2. device \in Device
      BY <3>1 DEF Unstopped, Typed
    <3> QED
      BY <2>2, <3>1, <3>2 DEF Typed
  <2> QED
    BY <2>2, <2>3, <2>4 DEF CleanInv, SessionsAttended, ClosedBeforeFree, CallbackInSession,
                            InControl, Unstopped
<1>4. CASE \E d \in Device : hackRFSweepThread(d)
  <2>1. PICK d \in Device : hackRFSweepThread(d)
    BY <1>4
  <2>2. /\ pc = "idle" /\ device' = d /\ UNCHANGED <<pc, cb, crashed, worker>>
        /\ session[d] = "new" /\ session' = [session EXCEPT ![d] = "idle"]
    BY <2>1 DEF hackRFSweepThread, S!Open, S!Move
  <2>3. cb.pc = "idle" /\ cb.on = "none"
    BY <2>2, NoCallback DEF Streaming
  <2>4. WorkersInSessions' /\ ~Unstopped'
    BY <2>2 DEF CleanInv, WorkersInSessions, Unstopped, Typed
  <2> QED
    BY <2>2, <2>3, <2>4 DEF CleanInv, SessionsAttended, ClosedBeforeFree, CallbackInSession
<1> QED
  BY <1>1, <1>2, <1>3, <1>4

(* The buffers are filled before the gains are set, and freed last.        *)
LEMMA StepBuffers ==
  ASSUME BuffersReady, Step
  PROVE  BuffersReady'
<1> USE DEF BuffersReady, Streaming, globals
<1>1. CASE HostStep
  BY <1>1 DEF HostStep, hackRFSweepThread, Sweep, Return
<1>2. CASE MainStep
  <2>1. CASE FillWindow \/ SetGains \/ StartRx
    BY <2>1 DEF FillWindow, SetGains, StartRx, Return
  <2>2. CASE InitSweep \/ SetAmp \/ SetAntenna
    BY <2>2 DEF InitSweep, SetAmp, SetAntenna, Request, Return
  <2>3. CASE Poll \/ CheckBytes \/ ResetBytes
    BY <2>3 DEF Poll, CheckBytes, ResetBytes, Main
  <2>4. CASE StopRx \/ Close \/ ExitSweep
    BY <2>4 DEF StopRx, Close, ExitSweep, Main
  <2>5. CASE Join("join") \/ Join("close_join")
    BY <2>5 DEF Join, Main
  <2> QED
    BY <1>2, <2>1, <2>2, <2>3, <2>4, <2>5 DEF MainStep
<1>3. CASE Signal \/ StreamError \/ \E d \in Device : WorkerQuit(d)
  BY <1>3 DEF Signal, StreamError, WorkerQuit
<1>4. CASE CallbackStep \/ \E t \in {"worker", "main"} : CallbackEnter(t)
  BY <1>4 DEF CallbackStep, CallbackCount, BadBlock, Block, CallbackEnter
<1> QED
  BY <1>1, <1>2, <1>3, <1>4 DEF Step

(* A session that was orphaned or abandoned stays so.                      *)
LEMMA StepHistory ==
  ASSUME Typed, Step, Clean'
  PROVE  Clean
<1> DEFINE kept == /\ orphaned' \in {orphaned, TRUE, (orphaned \/ Unstopped)}
                   /\ abandoned' \in {abandoned, TRUE}
<1> USE DEF history
<1>1. kept
  <2>1. CASE HostStep
    BY <2>1 DEF HostStep, hackRFSweepThread, Sweep, Return
  <2>2. CASE FillWindow \/ SetGains \/ StartRx
    BY <2>2 DEF FillWindow, SetGains, StartRx, Return
  <2>3. CASE InitSweep \/ SetAmp \/ SetAntenna
    BY <2>3 DEF InitSweep, SetAmp, SetAntenna, Request, Return
  <2>4. CASE Poll \/ CheckBytes \/ ResetBytes
    BY <2>4 DEF Poll, CheckBytes, ResetBytes
  <2>5. CASE StopRx \/ Close \/ ExitSweep
    BY <2>5 DEF StopRx, Close, ExitSweep
  <2>6. CASE Join("join") \/ Join("close_join")
    BY <2>6 DEF Join
  <2>7. CASE Signal \/ StreamError \/ \E d \in Device : WorkerQuit(d)
    BY <2>7 DEF Signal, StreamError, WorkerQuit
  <2>8. CASE CallbackStep \/ \E t \in {"worker", "main"} : CallbackEnter(t)
    BY <2>8 DEF CallbackStep, CallbackCount, BadBlock, Block, CallbackEnter
  <2> QED
    BY <2>1, <2>2, <2>3, <2>4, <2>5, <2>6, <2>7, <2>8 DEF Step, MainStep
<1>2. ~orphaned' /\ ~abandoned'
  BY DEF Clean
<1>3. ~orphaned /\ ~abandoned
  <2>1. /\ orphaned' = orphaned \/ orphaned' = TRUE \/ orphaned' = (orphaned \/ Unstopped)
        /\ abandoned' = abandoned \/ abandoned' = TRUE
    BY <1>1
  <2>2. orphaned \in BOOLEAN /\ abandoned \in BOOLEAN
    BY DEF Typed
  <2> HIDE DEF kept
  <2>3. ~abandoned
    BY <1>2, <2>1, <2>2
  <2>4. CASE orphaned' = orphaned \/ orphaned' = TRUE
    BY <1>2, <2>2, <2>3, <2>4
  <2>5. CASE orphaned' = (orphaned \/ Unstopped)
    BY <1>2, <2>2, <2>3, <2>5
  <2> QED
    BY <2>1, <2>4, <2>5
<1> QED
  BY <1>3 DEF Clean

(* The inductive invariant.                                                *)
StateInv == IInv /\ Typed /\ SafeInv

(* Nothing is open, no buffer is allocated and no callback runs.           *)
LEMMA InitState == Init => StateInv
<1> SUFFICES ASSUME Init PROVE StateInv
  OBVIOUS
<1>1. IInv
  BY InitInv
<1>2. Typed
  <2>1. byte_count \in 0 .. BYTE_COUNT_WRAP - 1
    BY Wrap DEF Init
  <2>2. cb \in Callback
    BY QuietType DEF Init
  <2>3. /\ session \in [Device -> {"new", "idle", "live", "ended", "gone"}]
        /\ worker \in [Device -> BOOLEAN]
    BY DEF Init, S!Init
  <2>4. options \in Options /\ fd = options.file /\ options.file \in BOOLEAN
    BY OptionsAssumption DEF Init
  <2>5. frequencies = <<>> /\ Len(frequencies) = 0 /\ Len(frequencies) <= MAX_SWEEP_RANGES
    BY SweepAssumption DEF Init
  <2> QED
    BY <2>1, <2>2, <2>3, <2>4, <2>5 DEF Init, Typed, Pc, HasDevice, Planned
<1>3. SafeInv
  BY DEF Init, S!Init, SafeInv, BuffersReady, Streaming, WorkersInSessions,
         SessionsAttended, ClosedBeforeFree, CallbackInSession, Unstopped, Quiet
<1> QED
  BY <1>1, <1>2, <1>3 DEF StateInv

(* The types and the safety argument together are inductive.               *)
LEMMA NextState == StateInv /\ [Next]_vars => StateInv'
<1> SUFFICES ASSUME StateInv, [Next]_vars PROVE StateInv'
  OBVIOUS
<1> USE DEF StateInv
<1>1. IInv'
  BY NextInv
<1>2. CASE UNCHANGED vars
  <2>1. Typed'
    BY <1>2 DEF vars, globals, history, Typed, HasDevice, Planned
  <2>2. SafeInv'
    BY <1>2 DEF vars, globals, history, SafeInv, BuffersReady, WorkersInSessions,
                SessionsAttended, ClosedBeforeFree, CallbackInSession, Unstopped, InControl
  <2> QED
    BY <1>1, <2>1, <2>2
<1>3. CASE crashed = "no" /\ Step
  <2>1. Typed'
    BY <1>3, PrepareTyped, MainTyped, OthersTyped DEF Step, HostStep, MainStep
  <2>2. BuffersReady'
    BY <1>3, StepBuffers DEF SafeInv
  <2>3. Clean' => CleanInv'
    <3> SUFFICES ASSUME Clean' PROVE CleanInv'
      OBVIOUS
    <3>1. CleanInv /\ BuffersReady
      BY <1>3, StepHistory DEF SafeInv, Clean, CleanInv
    <3> QED
      BY <1>3, <3>1, PrepareClean, AttendClean, EndingClean, CallbackClean, OthersClean
         DEF Step, HostStep, MainStep
  <2>4. SafeInv'
    BY <2>2, <2>3 DEF SafeInv, Clean, CleanInv
  <2> QED
    BY <1>1, <2>1, <2>4
<1> QED
  BY <1>2, <1>3 DEF Next, Done

(* A running callback always has a session hackrf_sweep attends to, an     *)
(* open file and filled buffers, until a session is orphaned or abandoned. *)
THEOREM StateInvHolds == Spec => []StateInv
BY InitState, NextState, PTL DEF Spec

(***************************************************************************)
(* Every global of hackrf_sweep.c keeps its type whatever the thread, the  *)
(* callback and the signal handler do: byte_count its width, and           *)
(* frequencies never more than MAX_SWEEP_RANGES ranges (584).              *)
(***************************************************************************)
THEOREM TypeCorrect == Spec => []TypeOK
<1>1. StateInv => TypeOK
  <2> SUFFICES ASSUME StateInv PROVE TypeOK
    OBVIOUS
  <2> USE DEF StateInv
  <2>1. {do_exit, fd, sweep_started, result, counted, orphaned, abandoned} \subseteq BOOLEAN
    BY DEF Typed
  <2>2. {sweep_count, fftSize, step_count, ifftBins, requests, slept} \subseteq Nat
    BY DEF Typed, IInv, SizeInv
  <2>3. /\ Len(asked) = Len(frequencies)
        /\ \A i \in DOMAIN frequencies : {frequencies[i], asked[i]} \subseteq Nat \X Nat
    BY DEF IInv, RangeInv
  <2>4. S!TypeOK
    BY DEF Typed, S!TypeOK
  <2> QED
    BY <2>1, <2>2, <2>3, <2>4 DEF Typed, TypeOK, Callback
<1> QED
  BY <1>1, StateInvHolds, PTL

(***************************************************************************)
(* For any number of requests, devices and interleavings, rx_callback      *)
(* touches a buffer that is not ready, a closed file or a freed device     *)
(* only after a hackrf_sweep that returned early left its session          *)
(* streaming or hackrf_close gave one up.                                  *)
(***************************************************************************)
THEOREM SweepIsMemorySafeHolds == Spec => []SweepIsMemorySafe
<1>1. StateInv => SweepIsMemorySafe
  BY DEF StateInv, SafeInv, SweepIsMemorySafe
<1> QED
  BY <1>1, StateInvHolds, PTL

-----------------------------------------------------------------------------
(* The verdict on a silent board.                                          *)

(* The callback's transfers are counted in fewer than 2^32 bytes between   *)
(* two resets of byte_count: about 100 seconds of samples at 20 MS/s, in   *)
(* which hackrf_sweep polls some 2000 times.                               *)
CountFits == MAX_BYTES < BYTE_COUNT_WRAP

(* Nothing has been counted and no call is running.                        *)
LEMMA InitCount == Init => CountInv
BY DEF Init, CountInv, Planned, Quiet

(* Steps that count nothing, reset nothing and do not enter the positions  *)
(* in which the verdict is open.                                           *)
LEMMA CountKept ==
  ASSUME CountInv, UNCHANGED <<byte_count, counted>>, cb'.n \in {0, cb.n},
         Planned' \/ pc' \in {"window", "gain"} => exit_code' = "SUCCESS"
  PROVE  CountInv'
BY DEF CountInv

(* Every step keeps what has been counted.                                 *)
LEMMA NextCount ==
  ASSUME CountFits, Typed, CountInv, [Next]_vars
  PROVE  CountInv'
<1> USE DEF globals, history
<1>1. CASE UNCHANGED vars
  BY <1>1 DEF vars, CountInv, Planned
<1>2. CASE HostStep
  <2>1. /\ UNCHANGED <<byte_count, counted, cb>>
        /\ Planned' \/ pc' \in {"window", "gain"} => exit_code' = "SUCCESS"
    BY <1>2 DEF HostStep, hackRFSweepThread, Sweep, Return, Planned, CountInv
  <2> QED
    BY <2>1, CountKept
<1>3. CASE FillWindow \/ SetGains \/ StartRx \/ InitSweep \/ SetAmp \/ SetAntenna
  <2>1. UNCHANGED <<byte_count, counted, cb>>
    BY <1>3 DEF FillWindow, SetGains, StartRx, InitSweep, SetAmp, SetAntenna, Request
  <2>2. \/ pc' = "idle"
        \/ UNCHANGED exit_code /\ (Planned \/ pc \in {"window", "gain"})
    BY <1>3 DEF FillWindow, SetGains, StartRx, InitSweep, SetAmp, SetAntenna, Request,
                Return, Planned
  <2>3. Planned' \/ pc' \in {"window", "gain"} => exit_code' = "SUCCESS"
    BY <2>2 DEF CountInv, Planned
  <2> QED
    BY <2>1, <2>3, CountKept
<1>4. CASE Poll \/ CheckBytes
  <2>1. UNCHANGED <<byte_count, counted, cb>>
    BY <1>4 DEF Poll, CheckBytes
  <2>2. pc' = "stop_ctl" \/ (UNCHANGED exit_code /\ Planned /\ pc' \notin {"window", "gain"})
    BY <1>4 DEF Poll, CheckBytes, Main, Planned
  <2>3. Planned' \/ pc' \in {"window", "gain"} => exit_code' = "SUCCESS"
    BY <2>2 DEF CountInv, Planned
  <2> QED
    BY <2>1, <2>3, CountKept
<1>5. CASE ResetBytes
  <2>1. ~counted' /\ cb' = cb /\ exit_code' = exit_code /\ Planned /\ pc' \in {"sleep", "stop_ctl"}
    BY <1>5 DEF ResetBytes, Main, Planned
  <2> QED
    BY <2>1 DEF CountInv
<1>6. CASE StopRx \/ Join("join") \/ Close \/ Join("close_join") \/ ExitSweep
  <2>1. UNCHANGED <<byte_count, counted, cb>>
    BY <1>6 DEF StopRx, Join, Close, ExitSweep
  <2>2. pc' \in {"join", "close_ctl", "close_join", "exit", "idle"}
    BY <1>6 DEF StopRx, Join, Close, ExitSweep, Main
  <2> QED
    BY <2>1, <2>2, CountKept DEF Planned
<1>7. CASE \E t \in {"worker", "main"} : CallbackEnter(t)
  <2>1. /\ UNCHANGED <<byte_count, counted, pc, exit_code>> /\ byte_count < MAX_BYTES
        /\ cb' = cb \/ \E t \in {"worker", "main"} :
                         cb' = [pc |-> "count", on |-> t, n |-> byte_count, j |-> 0]
    BY <1>7 DEF CallbackEnter
  <2>2. cb' = cb \/ cb'.n = byte_count
    BY <2>1
  <2> QED
    BY <2>1, <2>2 DEF CountInv, Planned
<1>8. CASE CallbackCount
  <2>1. cb.n \in 0 .. BYTE_COUNT_WRAP - 1 /\ MAX_BYTES \in Nat
    BY SweepAssumption DEF Typed, Callback
  <2>2. BYTE_COUNT_WRAP \in Nat /\ 1 < BYTE_COUNT_WRAP /\ (cb.n < MAX_BYTES \/ cb.n = 0)
    BY Wrap DEF CountInv
  <2>3. cb.n + 1 < BYTE_COUNT_WRAP
    BY <2>1, <2>2, SMT DEF CountFits
  <2>4. byte_count' # 0
    BY <1>8, <2>1, <2>3, CountBytes DEF CallbackCount
  <2>5. cb'.n = 0
    BY <1>8 DEF CallbackCount, Typed, Callback
  <2> QED
    BY <1>8, <2>4, <2>5 DEF CallbackCount, CountInv, Planned
<1>9. CASE BadBlock \/ \E b \in {"first", "later", "beyond"} : Block(b)
  <2>1. UNCHANGED <<byte_count, counted, pc, exit_code>>
    BY <1>9 DEF BadBlock, Block
  <2>2. cb' = Quiet \/ cb' = [cb EXCEPT !.j = @ + 1]
    BY <1>9 DEF BadBlock, Block, NextBlock
  <2>3. cb'.n \in {0, cb.n}
    BY <2>2 DEF Quiet, Typed, Callback
  <2> QED
    BY <2>1, <2>3, CountKept DEF CountInv, Planned
<1>10. CASE Signal \/ StreamError \/ \E d \in Device : WorkerQuit(d)
  <2>1. UNCHANGED <<byte_count, counted, cb, pc, exit_code>>
    BY <1>10 DEF Signal, StreamError, WorkerQuit
  <2> QED
    BY <2>1, CountKept DEF CountInv, Planned
<1> QED
  BY <1>1, <1>2, <1>3, <1>4, <1>5, <1>6, <1>7, <1>8, <1>9, <1>10
     DEF Next, Done, Step, MainStep, CallbackStep

(* Only the test of byte_count gives up for want of data, and it finds     *)
(* byte_count zero.                                                        *)
LEMMA VerdictStep ==
  ASSUME CountInv, [Next]_vars, pc = "sleep", exit_code' = "NO_DATA"
  PROVE  ~counted
<1> USE DEF globals, history
<1>1. exit_code = "SUCCESS"
  BY DEF CountInv, Planned
<1>2. CASE CheckBytes
  BY <1>1, <1>2 DEF CheckBytes, CountInv
<1>3. CASE \/ UNCHANGED vars \/ Signal \/ StreamError \/ CallbackStep
           \/ \E t \in {"worker", "main"} : CallbackEnter(t)
           \/ \E d \in Device : WorkerQuit(d)
  <2>1. UNCHANGED exit_code
    BY <1>3 DEF vars, Signal, StreamError, CallbackStep, CallbackCount, BadBlock, Block,
                CallbackEnter, WorkerQuit
  <2> QED
    BY <1>1, <2>1
<1>4. CASE HostStep \/ (MainStep /\ ~CheckBytes)
  <2>1. pc # "sleep"
    BY <1>4 DEF HostStep, hackRFSweepThread, Sweep, MainStep, FillWindow, SetGains, StartRx,
                InitSweep, SetAmp, SetAntenna, Request, Poll, ResetBytes, StopRx, Join, Close,
                ExitSweep, Main
  <2> QED
    BY <2>1
<1> QED
  BY <1>2, <1>3, <1>4 DEF Next, Done, Step

(***************************************************************************)
(* However the callback's load and store of byte_count interleave with the *)
(* resets, "Couldn't transfer any data" (774) is reported only if no       *)
(* transfer was counted since byte_count was last reset (777), provided    *)
(* that it does not wrap between two resets.  (A transfer counted between  *)
(* the test at 772 and the reset at 777 is forgotten by the reset.)        *)
(***************************************************************************)
THEOREM VerdictIsSoundHolds ==
  ASSUME CountFits
  PROVE  Spec => VerdictIsSound
<1>1. StateInv => Typed
  BY DEF StateInv
<1>2. Init => CountInv
  BY InitCount
<1>3. CountInv /\ Typed /\ [Next]_vars => CountInv'
  BY NextCount
<1>4. CountInv /\ [Next]_vars => [pc = "sleep" /\ exit_code' = "NO_DATA" => ~counted]_vars
  BY VerdictStep
<1> QED
  BY <1>1, <1>2, <1>3, <1>4, StateInvHolds, PTL DEF Spec, VerdictIsSound

-----------------------------------------------------------------------------
(* The inverse FFT's input.                                                *)

Planning == pc \in {"window", "gain"} \/ Planned

(* An IFFT is for one range only, which is a whole number of tuning steps  *)
(* once planned, with a place for each of their bins.                      *)
IfftInv ==
  options.mode = "ifft" =>
    /\ Planning => Len(frequencies) = 1
    /\ Planned =>
         /\ step_count \in Nat \ {0}
         /\ frequencies[1][2] = frequencies[1][1] + step_count * TUNE_STEP
         /\ ifftBins = fftSize * step_count

(* A step that leaves the plan as it is.                                   *)
PlanKept ==
  /\ UNCHANGED <<frequencies, fftSize, step_count, ifftBins, options>>
  /\ Planned' => Planned
  /\ Planning' => Planning

(* Such a step keeps the invariant.                                        *)
LEMMA PlanKeptInv == IfftInv /\ PlanKept => IfftInv'
BY DEF IfftInv, PlanKept

(* The argument tests refuse a second range for an IFFT.                   *)
LEMMA SweepIfft ==
  ASSUME IInv, IfftInv, NEW r \in RequestRange, Sweep(r)
  PROVE  IfftInv'
<1>1. CASE ~Planning'
  BY <1>1 DEF IfftInv, Planning
<1>2. CASE Planning'
  <2>1. ~RangeRejected(r) /\ ~OptionsRejected(Len(frequencies) + 1)
    BY <1>2 DEF Sweep, Return, Planning, Planned
  <2>2. /\ frequencies' = Append(frequencies, r) /\ options' = options
        /\ ~Planned'
    BY <2>1 DEF Sweep, Planned
  <2>3. frequencies \in Seq(Nat \X Nat)
    BY DEF IInv, RangeInv
  <2>4. Len(frequencies') = Len(frequencies) + 1 /\ Len(frequencies) \in Nat
    BY <2>2, <2>3
  <2>5. options.mode = "ifft" => Len(frequencies) + 1 <= 1
    BY <2>1, <2>4 DEF OptionsRejected
  <2> QED
    BY <2>2, <2>4, <2>5 DEF IfftInv
<1> QED
  BY <1>1, <1>2

(* A sequence of one.                                                      *)
LEMMA OneElement ==
  ASSUME NEW T, NEW q \in Seq(T), Len(q) = 1
  PROVE  DOMAIN q = {1} /\ q[1] \in T
<1>1. DOMAIN q = 1 .. 1 /\ 1 .. 1 = {1}
  OBVIOUS
<1>2. q \in [1 .. Len(q) -> T]
  OBVIOUS
<1> QED
  BY <1>1, <1>2, Zenon

(* The planning loop, and the room for the bins.                           *)
LEMMA SetGainsIfft ==
  ASSUME IInv, IfftInv, SetGains
  PROVE  IfftInv'
<1>1. CASE ~IsOpen
  BY <1>1, PlanKeptInv DEF SetGains, PlanKept, Planning, Planned
<1>2. CASE IsOpen /\ options.mode # "ifft"
  BY <1>2 DEF SetGains, IfftInv
<1>3. CASE IsOpen /\ options.mode = "ifft"
  <2>1. /\ frequencies' = [i \in DOMAIN frequencies |-> plan_range(frequencies[i])]
        /\ step_count' = step_count_of(frequencies[Len(frequencies)][1],
                                       frequencies[Len(frequencies)][2])
        /\ ifftBins' = fftSize * step_count'
        /\ fftSize' = fftSize /\ options' = options
    BY <1>3 DEF SetGains
  <2>2. Len(frequencies) = 1
    BY <1>3 DEF SetGains, IfftInv, Planning
  <2>a. /\ frequencies \in Seq(Nat \X Nat) /\ asked \in Seq(Nat \X Nat)
        /\ Len(asked) = 1
    BY <2>2 DEF IInv, RangeInv
  <2>3. 1 \in DOMAIN asked
    <3>1. DOMAIN asked = 1 .. 1
      BY <2>a
    <3> QED
      BY <3>1
  <2>4. DOMAIN frequencies = {1} /\ frequencies[1] \in Nat \X Nat
    BY <2>a, <2>2, OneElement
  <2>5. frequencies' = [i \in {1} |-> plan_range(frequencies[1])]
    BY <2>1, <2>4
  <2>6. Len(frequencies') = 1 /\ frequencies'[1] = plan_range(frequencies[1])
    <3>1. {1} = 1 .. 1
      OBVIOUS
    <3>2. frequencies'[1] = plan_range(frequencies[1])
      BY <2>5
    <3>3. frequencies' = <<plan_range(frequencies[1])>>
      BY <2>5, <3>1
    <3> QED
      BY <3>2, <3>3
  <2>7. frequencies[1][1] < frequencies[1][2]
    <3>1. /\ AcceptedRange(asked[1])
          /\ frequencies[1] \in {asked[1], plan_range(asked[1])}
      BY <2>3 DEF IInv, RangeInv
    <3>2. PICK k \in Nat \ {0} :
            plan_range(asked[1]) = <<asked[1][1], asked[1][1] + k * TUNE_STEP>>
      BY <3>1, PlannedRange
    <3> QED
      BY <3>1, <3>2 DEF AcceptedRange, TUNE_STEP
  <2> DEFINE lo == frequencies[1][1]
             hi == frequencies[1][2]
  <2>8. step_count' = step_count_of(lo, hi)
    BY <2>1, <2>2
  <2>9. step_count_of(lo, hi) \in Nat \ {0}
    BY <2>4, <2>7 DEF step_count_of, TUNE_STEP
  <2>10. /\ frequencies'[1][1] = lo
         /\ frequencies'[1][2] = lo + step_count_of(lo, hi) * TUNE_STEP
    BY <2>6 DEF plan_range
  <2> QED
    BY <2>1, <2>6, <2>8, <2>9, <2>10 DEF IfftInv
<1> QED
  BY <1>1, <1>2, <1>3

(* The other steps of the thread in hackrf_sweep.                          *)
LEMMA MainIfft ==
  ASSUME IInv, IfftInv, MainStep
  PROVE  IfftInv'
<1> USE DEF PlanKept, Planning, Planned, globals, history
<1>1. CASE FillWindow
  BY <1>1, PlanKeptInv DEF FillWindow
<1>2. CASE SetGains
  BY <1>2, SetGainsIfft
<1>3. CASE StartRx
  BY <1>3, PlanKeptInv DEF StartRx, Return
<1>4. CASE InitSweep \/ SetAmp \/ SetAntenna
  BY <1>4, PlanKeptInv DEF InitSweep, SetAmp, SetAntenna, Request, Return, AfterSweep
<1>5. CASE Poll \/ CheckBytes \/ ResetBytes
  BY <1>5, PlanKeptInv DEF Poll, CheckBytes, ResetBytes, Main
<1>6. CASE StopRx \/ Close \/ ExitSweep
  BY <1>6, PlanKeptInv DEF StopRx, Close, ExitSweep, Main
<1>7. CASE Join("join") \/ Join("close_join")
  BY <1>7, PlanKeptInv DEF Join, Main
<1> QED
  BY <1>1, <1>2, <1>3, <1>4, <1>5, <1>6, <1>7 DEF MainStep

(* The callback, the engine and the signal handler touch none of this.     *)
LEMMA OthersIfft ==
  ASSUME IfftInv,
         \/ Signal \/ CallbackStep \/ StreamError
         \/ \E t \in {"worker", "main"} : CallbackEnter(t)
         \/ \E d \in Device : WorkerQuit(d) \/ hackRFSweepThread(d)
  PROVE  IfftInv'
<1> USE DEF PlanKept, Planning, Planned, globals, history
<1>1. CASE Signal \/ StreamError
  BY <1>1, PlanKeptInv DEF Signal, StreamError
<1>2. CASE CallbackStep
  BY <1>2, PlanKeptInv DEF CallbackStep, CallbackCount, BadBlock, Block
<1>3. CASE \E t \in {"worker", "main"} : CallbackEnter(t)
  BY <1>3, PlanKeptInv DEF CallbackEnter
<1>4. CASE \E d \in Device : WorkerQuit(d) \/ hackRFSweepThread(d)
  BY <1>4, PlanKeptInv DEF WorkerQuit, hackRFSweepThread
<1> QED
  BY <1>1, <1>2, <1>3, <1>4

(* Every step keeps the invariant.                                         *)
LEMMA NextIfft == IInv /\ IfftInv /\ [Next]_vars => IfftInv'
<1> SUFFICES ASSUME IInv, IfftInv, [Next]_vars PROVE IfftInv'
  OBVIOUS
<1>1. CASE UNCHANGED vars
  BY <1>1, PlanKeptInv DEF PlanKept, Planning, Planned, vars, globals, history
<1>2. CASE Step
  <2>1. CASE HostStep
    BY <2>1, SweepIfft, OthersIfft DEF HostStep
  <2> QED
    BY <1>2, <2>1, MainIfft, OthersIfft DEF Step
<1> QED
  BY <1>1, <1>2 DEF Next, Done

(* The runs of bins of a sweep for an IFFT, for every FFT size and range.  *)
LEMMA TilesInPlan ==
  ASSUME IInv, IfftInv
  PROVE  IfftTiles
<1> SUFFICES ASSUME Planned, options.mode = "ifft" PROVE IfftTiles
  BY DEF IfftTiles
<1> DEFINE lo   == frequencies[1][1]
           hs   == Headers(frequencies[1])
           used == {f \in hs : f <= FREQ_MAX_MHZ}
           runs == [f \in used |->
                      {ifft_run(ifft_idx(f, lo, fftSize, ifftBins)[k], fftSize) : k \in 1 .. 2}]
           all  == UNION {UNION runs[f] : f \in used}
<1>1. PICK m \in Nat \ {0} : fftSize = 4 * m
  <2>1. fftSize \in Nat /\ fftSize % 8 = 4 /\ 4 <= fftSize
    BY DEF IInv, SizeInv, Planned
  <2>2. fftSize \div 4 \in Nat \ {0} /\ fftSize = 4 * (fftSize \div 4)
    BY <2>1
  <2> QED
    BY <2>2
<1>2. /\ step_count \in Nat \ {0} /\ ifftBins = fftSize * step_count
      /\ Len(frequencies) = 1 /\ frequencies[1][2] = lo + step_count * 20
  BY DEF IfftInv, Planning, TUNE_STEP
<1>3. frequencies \in Seq(Nat \X Nat)
  BY DEF IInv, RangeInv
<1>4. lo \in Nat /\ frequencies[1] = <<lo, lo + step_count * 20>>
  <2>1. frequencies[1] \in Nat \X Nat
    BY <1>2, <1>3, OneElement
  <2> QED
    BY <2>1, <1>2
<1>5. all = ifft_bins(used, lo, fftSize, ifftBins)
  <2> DEFINE Q(f) == {ifft_run(ifft_idx(f, lo, fftSize, ifftBins)[k], fftSize) : k \in 1 .. 2}
  <2>1. runs = [f \in used |-> Q(f)]
    OBVIOUS
  <2>2. ifft_bins(used, lo, fftSize, ifftBins) = UNION {UNION Q(f) : f \in used}
    BY DEF ifft_bins
  <2> HIDE DEF Q, used, runs
  <2>3. {UNION runs[f] : f \in used} = {UNION Q(f) : f \in used}
    BY <2>1
  <2> QED
    BY <2>2, <2>3
<1>6. ifftBins = 4 * m * step_count
  BY <1>1, <1>2
<1>7. used \in SUBSET hs /\ IsFiniteSet(used)
  <2>1. IsFiniteSet(hs)
    BY <1>2, <1>4, HeadersFinite
  <2> QED
    BY <2>1, FS_Subset
<1>8. (4 * m) \div 4 = m
  OBVIOUS
<1> HIDE DEF lo, used, hs, all, runs
<1>9. hs = Headers(<<lo, lo + step_count * 20>>)
  BY <1>4 DEF hs
<1>10. Tiled(used, lo, m, step_count)
  <2>1. used \in SUBSET Headers(<<lo, lo + step_count * 20>>)
    BY <1>7, <1>9
  <2>2. step_count \in Nat \ {0} /\ lo \in Nat /\ IsFiniteSet(used)
    BY <1>2, <1>4, <1>7
  <2> QED
    BY <2>1, <2>2, Tiling
<1>11. /\ all \subseteq 0 .. ifftBins - 1
       /\ Cardinality(all) = Cardinality(used) * 2 * (fftSize \div 4)
       /\ used = hs => all = 0 .. ifftBins - 1
  BY <1>1, <1>5, <1>6, <1>8, <1>9, <1>10 DEF Tiled
<1> QED
  BY <1>2, <1>11 DEF IfftTiles, lo, used, hs, all, runs

(***************************************************************************)
(* The two runs of bins of every block land in ifftwIn (349-361) inside    *)
(* the array allocated for them, no two on the same bin, and when no       *)
(* header was skipped they leave no gap: for every FFT size, every range   *)
(* and every history of requests.                                          *)
(***************************************************************************)
THEOREM IfftTilesHolds == Spec => []IfftTiles
<1>1. Init => IfftInv
  BY DEF Init, IfftInv, Planning, Planned
<1>2. IInv /\ IfftInv => IfftTiles
  BY TilesInPlan
<1> QED
  BY <1>1, <1>2, NextIfft, InvHolds, PTL DEF Spec

=============================================================================
