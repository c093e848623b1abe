--------------------------- MODULE MCStatusMonitor ---------------------------
(***************************************************************************)
(* StatusMonitor for TLC.  USB_MAX_SERIAL_LENGTH is 3 instead of 32.  One  *)
(* board's serial number is shorter than that, one's is as long, one board *)
(* has none, and there is a device that is not a HackRF.  The serial       *)
(* numbers asked for: none, the end of one board's and not of the other's, *)
(* one that is longer than the first board's, one that is too long.        *)
(***************************************************************************)
EXTENDS StatusMonitor

Device(p, s) == [product |-> p, serial |-> s]

MCBus == << Device("rad1o", <<"b", "a">>),
            Device("other", NULL),
            Device("one",   <<"a", "a", "b">>),
            Device("one",   NULL) >>

MCWanted == {NULL, <<"b">>, <<"a", "a", "b">>, <<"a", "a", "b", "b">>}

MCCalls == [p \in Program |-> IF p = "monitor" THEN 2 ELSE 1]

=============================================================================
