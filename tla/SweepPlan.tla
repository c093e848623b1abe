------------------------------ MODULE SweepPlan ------------------------------
(***************************************************************************)
(* The arithmetic of a sweep (src/src/lib/hackrf/hackrf_sweep.c): how many *)
(* FFT bins, how many tuning steps, and where rx_callback takes samples    *)
(* from and puts bins to.  Frequencies are in MHz.                         *)
(***************************************************************************)
EXTENDS Integers

FREQ_MAX_MHZ == 7250

TUNE_STEP == 20   \* DEFAULT_SAMPLE_RATE_HZ / FREQ_ONE_MHZ

SAMPLES_PER_BLOCK == 8192

BYTES_PER_BLOCK == 16384

(* Each block starts with 0x7F 0x7F and a frequency of eight bytes.        *)
HEADER_BYTES == 10

-----------------------------------------------------------------------------
(* while ((fftSize + 4) % 8) fftSize++: up to an odd multiple of four.     *)
round_fft_size(n) == n + ((4 - n) % 8)

(* Mutant of step_count_of: one step too many when the range is a whole    *)
(* number of steps.                                                        *)
step_count_of_eager(lo, hi) == 1 + (hi - lo) \div TUNE_STEP

step_count_of(lo, hi) == 1 + (hi - lo - 1) \div TUNE_STEP

(* A range <<lo, hi>> with its high end moved up to a whole step.          *)
plan_range(r) == <<r[1], r[1] + step_count_of(r[1], r[2]) * TUNE_STEP>>

-----------------------------------------------------------------------------
(* rx_callback, for blocks of fftSize = n bins.                            *)

(* Mutant of first_sample_byte: the FFT is taken from the block's start.   *)
first_sample_byte_front(n) == 0

(* The FFT is taken from the end of the block.                             *)
first_sample_byte(n) == BYTES_PER_BLOCK - 2 * n

(* Of the n bins, two runs of n \div 4 are kept: these are their starts.   *)
upper_bins(n) == 1 + (n * 5) \div 8

lower_bins(n) == 1 + n \div 8

(* They are reported as the bands [f, f + 5) and [f + 10, f + 15).         *)
bands_of(f) ==
  (f .. f + TUNE_STEP \div 4 - 1)
    \cup (f + TUNE_STEP \div 2 .. f + (TUNE_STEP * 3) \div 4 - 1)

(***************************************************************************)
(* The board (external): in INTERLEAVED mode every tuning step is visited  *)
(* twice, a quarter of a step apart.                                       *)
(***************************************************************************)
Headers(r) ==
  {r[1] + TUNE_STEP * k : k \in 0 .. (r[2] - r[1]) \div TUNE_STEP - 1}
    \cup {r[1] + TUNE_STEP * k + TUNE_STEP \div 4 :
            k \in 0 .. (r[2] - r[1]) \div TUNE_STEP - 1}

(* Headers above FREQ_MAX_MHZ are skipped.                                 *)
Reported(r) == UNION {bands_of(f) : f \in {g \in Headers(r) : g <= FREQ_MAX_MHZ}}

-----------------------------------------------------------------------------
(* IFFT output: bins = n * step_count bins are collected for one range     *)
(* that starts at f0.                                                      *)

(* Mutant of ifft_idx: the two runs of bins are put side by side.          *)
ifft_idx_adjacent(f, f0, n, bins) ==
  LET first == (((f - f0) * n) \div TUNE_STEP + bins \div 2) % bins
  IN  <<first, (first + n \div 4) % bins>>

(* round((frequency - f0) / fft_bin_width), moved by half the bins, and    *)
(* the same n \div 2 further on: where the two runs of bins are put.       *)
ifft_idx(f, f0, n, bins) ==
  LET first == (((f - f0) * n + TUNE_STEP \div 2) \div TUNE_STEP + bins \div 2) % bins
  IN  <<first, (first + n \div 2) % bins>>

(* The bins the block with header f writes.                                *)
ifft_run(start, n) == start .. start + n \div 4 - 1

=============================================================================
