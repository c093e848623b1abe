----------------------------- MODULE DeviceList -----------------------------
(***************************************************************************)
(* Finding boards (src/src/lib/hackrf/hackrf.c): hackrf_device_list, and   *)
(* how hackrf_open and hackrf_open_by_serial choose a board.               *)
(*                                                                         *)
(* Bus is the order in which libusb lists the USB devices.  A serial       *)
(* number is a sequence of characters.  What happens to each device during *)
(* one scan is a function outcome: it cannot be opened ("shut"), its       *)
(* serial number cannot be read ("unread"), or all goes well ("ok").       *)
(***************************************************************************)
EXTENDS Integers, Sequences, FiniteSets

CONSTANTS
  Bus,                    \* sequence of [product, serial]; serial NULL: none
  NULL,
  GARBAGE,                \* what an uninitialised char array holds
  USB_MAX_SERIAL_LENGTH   \* 32 in hackrf.c

Product == {"one", "jawbreaker", "rad1o", "other"}

ASSUME BusAssumption ==
  /\ USB_MAX_SERIAL_LENGTH \in Nat
  /\ Bus \in Seq([product : Product, serial : {NULL} \cup Seq(STRING)])

Board == {b \in DOMAIN Bus : Bus[b].product # "other"}

(* A board and its serial number in a device list.                         *)
Entry == [board : Board, serial : {NULL, GARBAGE} \cup Seq(STRING)]

(* The null pointer is neither a board nor a list.                         *)
ASSUME NullAssumption == NULL \notin Nat /\ NULL \notin Seq(Entry)

Outcome == {"shut", "unread", "ok"}

Min(a, b) == IF a < b THEN a ELSE b

(* serial_number[serial_number_length] = 0, at most at position 32.        *)
capped(s) == SubSeq(s, 1, Min(Len(s), USB_MAX_SERIAL_LENGTH))

(***************************************************************************)
(* hackrf_device_list over the plugged devices.  The array serial_number   *)
(* is reused from board to board.  A failed read returns a negative        *)
(* length, which the uint8_t turns into one above 32, so the array's old   *)
(* contents are listed.                                                    *)
(***************************************************************************)
listed(old, b, out) ==
  IF Bus[b].serial = NULL \/ out = "shut" THEN NULL
  ELSE IF out = "unread" THEN old
  ELSE capped(Bus[b].serial)

(* Mutant of buffer_after: a board that cannot be opened clears the array. *)
buffer_after_clearing(old, b, out) ==
  IF out = "ok" /\ Bus[b].serial # NULL THEN capped(Bus[b].serial) ELSE <<>>

buffer_after(old, b, out) ==
  IF out = "ok" /\ Bus[b].serial # NULL THEN capped(Bus[b].serial) ELSE old

(* The body of the loop: what it makes of the list and the array before.   *)
list_board(before, b, plugged, outcome) ==
  IF b \notin Board \cap plugged THEN before
  ELSE [list   |-> Append(before.list,
                          [board  |-> b,
                           serial |-> listed(before.buffer, b, outcome[b])]),
        buffer |-> buffer_after(before.buffer, b, outcome[b])]

hackrf_device_list(plugged, outcome) ==
  LET scan[b \in 0 .. Len(Bus)] ==
        IF b = 0 THEN [list |-> <<>>, buffer |-> GARBAGE]
        ELSE list_board(scan[b - 1], b, plugged, outcome)
  IN  scan[Len(Bus)].list

-----------------------------------------------------------------------------
(* hackrf_open_usb, for a desired serial number w of at most 32 characters *)

HasSuffix(s, w) == SubSeq(s, Len(s) - Len(w) + 1, Len(s)) = w

(* Mutant of Matches: the serial number's beginning is compared.           *)
Matches_prefix(b, w, stray) ==
  LET s == capped(Bus[b].serial)
  IN  IF Len(w) > Len(s) THEN b \in stray ELSE SubSeq(s, 1, Len(w)) = w

(***************************************************************************)
(* strncmp(serial_number + serial_number_length - match_len, ...) == 0.    *)
(* For a serial number shorter than w the comparison starts before the     *)
(* array; stray is the set of boards for which what it meets there is      *)
(* equal to w.                                                             *)
(***************************************************************************)
Matches(b, w, stray) ==
  LET s == capped(Bus[b].serial)
  IN  IF Len(w) > Len(s) THEN b \in stray ELSE HasSuffix(s, w)

(* The boards the loop opens, unless it has found one before.              *)
Tried(plugged, outcome) ==
  {b \in Board \cap plugged : Bus[b].serial # NULL /\ outcome[b] # "shut"}

(* The body of the loop: what it makes of the board found before, b comes  *)
(* next on the bus.                                                        *)
try_board(before, b, tried, w, stray) ==
  IF before = NULL /\ b \in tried /\ Matches(b, w, stray) THEN b ELSE before

hackrf_open_usb(plugged, outcome, w, stray) ==
  LET usb_device[b \in 0 .. Len(Bus)] ==
        IF b = 0 THEN NULL
        ELSE try_board(usb_device[b - 1], b, Tried(plugged, outcome), w, stray)
  IN  usb_device[Len(Bus)]

(* A failed read on the way stores a zero outside the array.               *)
Corrupts(plugged, outcome, found) ==
  \E b \in Tried(plugged, outcome) : outcome[b] = "unread" /\ (found = NULL \/ b <= found)

-----------------------------------------------------------------------------
(* hackrf_open: libusb_open_device_with_vid_pid takes the first device of  *)
(* a product and does not go on if it cannot be opened.                    *)
First(plugged, p) ==
  LET those == {b \in plugged : Bus[b].product = p}
  IN  IF those = {} THEN NULL ELSE CHOOSE b \in those : \A c \in those : b <= c

Opens(plugged, outcome, p) ==
  First(plugged, p) # NULL /\ outcome[First(plugged, p)] # "shut"

hackrf_open(plugged, outcome) ==
  CASE Opens(plugged, outcome, "one") -> First(plugged, "one")
    [] ~Opens(plugged, outcome, "one") /\ Opens(plugged, outcome, "jawbreaker") ->
         First(plugged, "jawbreaker")
    [] OTHER -> IF Opens(plugged, outcome, "rad1o") THEN First(plugged, "rad1o") ELSE NULL

=============================================================================
