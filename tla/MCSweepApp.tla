----------------------------- MODULE MCSweepApp -----------------------------
(***************************************************************************)
(* SweepApp for TLC.                                                       *)
(***************************************************************************)
EXTENDS SweepApp

(* The globals as hackrf_sweep.c initialises them, but for the file.       *)
Base == [file |-> TRUE, mode |-> "text", one_shot |-> FALSE, finite_mode |-> FALSE,
         amp |-> 0, antenna |-> 0, num_samples |-> 8192, fftSize |-> 20]

(* What the repository itself ever runs with: no file is opened.           *)
MCDefault == {[Base EXCEPT !.file = FALSE]}

(* Each option once, FFT sizes at their limits, and settings that are      *)
(* refused.                                                                *)
MCOptions ==
  MCDefault
    \cup {[Base EXCEPT !.amp = 1, !.antenna = 1, !.fftSize = 5],
          [Base EXCEPT !.amp = 1, !.one_shot = TRUE, !.fftSize = 8184],
          [Base EXCEPT !.antenna = 1, !.finite_mode = TRUE, !.mode = "binary", !.fftSize = 4],
          [Base EXCEPT !.mode = "ifft"],
          [Base EXCEPT !.mode = "both"], [Base EXCEPT !.amp = 2],
          [Base EXCEPT !.antenna = 2], [Base EXCEPT !.num_samples = 0],
          [Base EXCEPT !.num_samples = 8193], [Base EXCEPT !.fftSize = 3],
          [Base EXCEPT !.fftSize = 8185]}

(* One MHz more than a step, the same at the upper limit, a range that is  *)
(* refused.                                                                *)
MCRange == {<<2400, 2421>>, <<7229, 7250>>, <<7000, 7251>>}

=============================================================================
