---------------------------- MODULE StatusMonitor ----------------------------
(***************************************************************************)
(* Three programs of this repository in one process, on one libhackrf:     *)
(* the status monitor CheckHackRFStatus (hackrf_sweep_svc.c), the sweep's  *)
(* opening and closing of its board (hackrf_sweep.c) and the admin         *)
(* console's ConnectHackRFDevice (hackrf_admin.c).  They share libhackrf's *)
(* context and its count of open devices, and the boards.                  *)
(*                                                                         *)
(* A library call is one step here.  What happens inside overlapping calls *)
(* is the subject of Lifecycle, what a list holds and which board is found *)
(* that of DeviceList.  No caller reads what these functions return: a     *)
(* failure is the early return itself.                                     *)
(***************************************************************************)
EXTENDS DeviceList

CONSTANTS
  Wanted,      \* serial numbers the sweep may be asked for, or NULL
  Hotplug,     \* boards that may be unplugged and plugged in again
  Shared,      \* boards another process may hold
  MAX_CALLS,   \* bound: per program, how often it is started
  Env          \* the failures the environment may produce

Program == {"monitor", "sweep", "admin"}

ASSUME MonitorAssumption ==
  /\ MAX_CALLS \in [Program -> Nat]
  /\ Wanted \subseteq {NULL} \cup Seq(STRING)
  /\ NULL \notin Program
  /\ Hotplug \subseteq Board /\ Shared \subseteq Board
  /\ Env \subseteq {"init_error", "shut", "unread", "setup_error", "read_error", "no_mem"}

VARIABLES
  plugged,            \* USB devices on the bus
  claim,              \* per board: who holds its interface
  g_libusb_context,   \* there is a context
  open_devices,
  lists,              \* libusb device lists not yet freed
  list,               \* the monitor's device list; NULL: none
  dangling,           \* the context of the monitor's list is gone
  i,                  \* the monitor's loop counter, from 1
  device,             \* per program: its board; NULL: none
  found,              \* what comparing serial numbers has found for the sweep
  pc,
  calls,              \* history: per program, how often it was started
  strays,             \* history: devices and lists that nobody can free
  destroyer,          \* history: the program whose hackrf_exit was the last
                      \* to destroy the context
  crashed             \* [who, why]; NULL: not crashed

library == <<claim, g_libusb_context, open_devices, lists, destroyer, dangling>>
monitor == <<list, i>>
history == <<calls, strays>>
vars == <<plugged, library, monitor, device, found, pc, history, crashed>>

Init ==
  /\ plugged \in {DOMAIN Bus \ h : h \in SUBSET Hotplug}
  /\ claim \in {[b \in Board |-> IF b \in s THEN "other" ELSE "free"] : s \in SUBSET Shared}
  /\ g_libusb_context = FALSE
  /\ open_devices = 0
  /\ lists = 0
  /\ list = NULL
  /\ dangling = FALSE
  /\ i = 1
  /\ device = [p \in Program |-> NULL]
  /\ found = NULL
  /\ pc  = [p \in Program |-> "idle"]
  /\ calls = [p \in Program |-> 0]
  /\ strays = [devices |-> 0, lists |-> 0]
  /\ destroyer = NULL
  /\ crashed = NULL

Goto(p, l) == pc' = [pc EXCEPT ![p] = l]

Return(p) == Goto(p, "idle")

Crash(p, why) == crashed' = [who |-> p, why |-> why]

-----------------------------------------------------------------------------
(* The library calls the programs share.                                   *)

(* Mutant of hackrf_init: its test of the context is the wrong way round.  *)
hackrf_init_inverted == UNCHANGED library

hackrf_init ==
  /\ g_libusb_context' = TRUE
  /\ UNCHANGED <<claim, open_devices, lists, destroyer, dangling>>

(* Mutant of MayExit: the number of open devices is not looked at.         *)
MayExit_always == g_libusb_context

MayExit == open_devices = 0 /\ g_libusb_context

hackrf_exit(p) ==
  /\ g_libusb_context' = (g_libusb_context /\ ~MayExit)
  /\ destroyer' = IF MayExit THEN p ELSE destroyer
  /\ dangling'  = (dangling \/ (MayExit /\ list # NULL))
  /\ UNCHANGED <<claim, open_devices, lists>>

(* hackrf_open_setup: the interface is free and nothing fails.             *)
Claims(p, b) ==
  /\ claim[b] = "free" /\ b \in plugged
  /\ claim' = [claim EXCEPT ![b] = p]
  /\ open_devices' = open_devices + 1
  /\ UNCHANGED <<g_libusb_context, lists, destroyer, dangling>>

MayNotClaim(b) == claim[b] # "free" \/ b \notin plugged \/ "setup_error" \in Env

hackrf_close(p) ==
  /\ claim' = [b \in Board |-> IF b = device[p] /\ claim[b] = p THEN "free" ELSE claim[b]]
  /\ open_devices' = open_devices - 1
  /\ device' = [device EXCEPT ![p] = NULL]
  /\ UNCHANGED <<g_libusb_context, lists, destroyer, dangling>>

(* What may happen to each board during one scan of the bus.               *)
Scan ==
  {outcome \in [Board -> {"ok"} \cup (Env \cap Outcome)] :
     \A b \in Board : Bus[b].serial = NULL => outcome[b] # "unread"}

-----------------------------------------------------------------------------
(* Each program begins with hackrf_init, and gives up if that fails.       *)
Start(p, next) ==
  /\ pc[p] = "idle"
  /\ calls[p] < MAX_CALLS[p]
  /\ calls' = [calls EXCEPT ![p] = @ + 1]
  /\ \/ hackrf_init /\ Goto(p, next)
     \/ /\ ~g_libusb_context /\ "init_error" \in Env
        /\ Return(p)
        /\ UNCHANGED library
  /\ UNCHANGED <<plugged, monitor, device, found, strays, crashed>>

(* CheckHackRFStatus.                                                      *)
CheckStart == Start("monitor", "list")

(* hackrf_device_list, and the test of its result: a null list is used, an *)
(* empty one is neither freed nor followed by hackrf_exit.                 *)
CheckList ==
  /\ pc["monitor"] = "list"
  /\ \/ ~g_libusb_context /\ Crash("monitor", "no_context")
        /\ UNCHANGED <<library, monitor, pc, strays>>
     \/ g_libusb_context /\ "no_mem" \in Env /\ Crash("monitor", "null_list")
        /\ UNCHANGED <<library, monitor, pc, strays>>
     \/ /\ g_libusb_context
        /\ lists' = lists + 1
        /\ \E outcome \in Scan :
             LET got == hackrf_device_list(plugged, outcome) IN
             \/ /\ Len(got) < 1
                /\ Return("monitor")
                /\ strays' = [strays EXCEPT !.lists = @ + 1]
                /\ UNCHANGED monitor
             \/ /\ Len(got) >= 1
                /\ list' = got
                /\ i' = 1
                /\ Goto("monitor", "open")
                /\ UNCHANGED strays
        /\ UNCHANGED <<claim, g_libusb_context, open_devices, destroyer, dangling, crashed>>
  /\ UNCHANGED <<plugged, device, found, calls>>

(* The body of the loop is done: the next board, or the end of the list.   *)
(* Mutants of NextBoard: a board that cannot be opened is tried for ever,  *)
(* or the counter is incremented in the body as well.                      *)
NextBoard_stuck ==
  /\ i' = IF device["monitor"] = NULL THEN i ELSE i + 1
  /\ Goto("monitor", IF i' <= Len(list) THEN "open" ELSE "free")

NextBoard_twice ==
  /\ i' = i + 2
  /\ Goto("monitor", IF i' <= Len(list) THEN "open" ELSE "free")

NextBoard ==
  /\ i' = i + 1
  /\ Goto("monitor", IF i < Len(list) THEN "open" ELSE "free")

(* hackrf_device_list_open: a board that cannot be opened is passed over.  *)
CheckOpen ==
  LET b == list[i].board IN
  /\ pc["monitor"] = "open"
  /\ \/ /\ dangling
        /\ Crash("monitor", "stale_list")
        /\ UNCHANGED <<library, i, device, pc>>
     \/ /\ ~dangling
        /\ Claims("monitor", b)
        /\ device' = [device EXCEPT !["monitor"] = b]
        /\ Goto("monitor", "read")
        /\ UNCHANGED <<i, crashed>>
     \/ /\ ~dangling
        /\ MayNotClaim(b) \/ "shut" \in Env
        /\ NextBoard
        /\ UNCHANGED <<library, device, crashed>>
  /\ UNCHANGED <<plugged, list, found, history>>

(***************************************************************************)
(* The five reads.  When one fails the function returns: the device stays  *)
(* open, and neither it nor the list is known to anyone any more.          *)
(***************************************************************************)
ReadFails ==
  /\ device["monitor"] \notin plugged \/ "read_error" \in Env
  /\ claim' = [b \in Board |->
                 IF b = device["monitor"] /\ claim[b] = "monitor" THEN "lost" ELSE claim[b]]
  /\ device' = [device EXCEPT !["monitor"] = NULL]
  /\ strays' = [devices |-> strays.devices + 1, lists |-> strays.lists + 1]
  /\ list' = NULL
  /\ dangling' = FALSE
  /\ Return("monitor")
  /\ UNCHANGED <<g_libusb_context, open_devices, lists, destroyer>>

CheckRead ==
  /\ pc["monitor"] = "read"
  /\ \/ /\ device["monitor"] \in plugged
        /\ Goto("monitor", "close")
        /\ UNCHANGED <<library, list, device, strays>>
     \/ ReadFails
  /\ UNCHANGED <<plugged, i, found, calls, crashed>>

CheckClose ==
  /\ pc["monitor"] = "close"
  /\ hackrf_close("monitor")
  /\ NextBoard
  /\ UNCHANGED <<plugged, list, found, history, crashed>>

(* hackrf_device_list_free gives back the list of libusb devices.          *)
(* Mutant of lists_after_free: it does not.                                *)
lists_after_free_kept == lists

lists_after_free == lists - 1

CheckFree ==
  /\ pc["monitor"] = "free"
  /\ IF dangling
       THEN Crash("monitor", "stale_list") /\ UNCHANGED <<lists, list, pc>>
       ELSE /\ lists' = lists_after_free
            /\ list' = NULL
            /\ Goto("monitor", "exit")
            /\ UNCHANGED crashed
  /\ UNCHANGED <<plugged, claim, g_libusb_context, open_devices, destroyer, dangling,
                 i, device, found, history>>

CheckExit ==
  /\ pc["monitor"] = "exit"
  /\ hackrf_exit("monitor")
  /\ Return("monitor")
  /\ UNCHANGED <<plugged, monitor, device, found, history, crashed>>

-----------------------------------------------------------------------------
(* The sweep: hackrf_init, hackrf_open_by_serial, hackrf_close and         *)
(* hackrf_exit.  When it cannot open its board it returns at once.         *)
SweepStart == Start("sweep", "open")

(* hackrf_open_by_serial: the search.  Without a serial number it is       *)
(* hackrf_open's; a serial number that is too long ends it with the device *)
(* list in hand.                                                           *)
Search(w, outcome) ==
  IF w = NULL THEN {hackrf_open(plugged, outcome)}
  ELSE IF Len(w) > USB_MAX_SERIAL_LENGTH THEN {NULL}
  ELSE {hackrf_open_usb(plugged, outcome, w, stray) : stray \in SUBSET Board}

TooLong(w) == w # NULL /\ Len(w) > USB_MAX_SERIAL_LENGTH

(* hackrf_open_usb compares serial numbers.                                *)
Compares(w) == w # NULL /\ ~TooLong(w)

(* The board of a search that found one, set up or not.                    *)
SetUp(b) ==
  \/ /\ Claims("sweep", b)
     /\ device' = [device EXCEPT !["sweep"] = b]
     /\ Goto("sweep", "running")
  \/ /\ MayNotClaim(b)
     /\ Goto("sweep", "failed")
     /\ UNCHANGED <<library, device>>

SweepOpen ==
  /\ pc["sweep"] = "open"
  /\ IF ~g_libusb_context
       THEN Crash("sweep", "no_context") /\ UNCHANGED <<library, device, found, pc, strays>>
       ELSE \E w \in Wanted, outcome \in Scan : \E b \in Search(w, outcome) :
              IF Compares(w) /\ Corrupts(plugged, outcome, b)
                THEN Crash("sweep", "overrun")
                     /\ UNCHANGED <<library, device, found, pc, strays>>
                ELSE /\ found' = IF Compares(w)
                                   THEN [wanted |-> w, tried |-> Tried(plugged, outcome),
                                         board |-> b]
                                   ELSE NULL
                     /\ \/ b # NULL /\ SetUp(b) /\ UNCHANGED strays
                        \/ /\ b = NULL
                           /\ Goto("sweep", "failed")
                           /\ lists'  = lists + IF TooLong(w) THEN 1 ELSE 0
                           /\ strays' = [strays EXCEPT !.lists = @ + IF TooLong(w) THEN 1 ELSE 0]
                           /\ UNCHANGED <<claim, g_libusb_context, open_devices, destroyer,
                                          dangling, device>>
                     /\ UNCHANGED crashed
  /\ UNCHANGED <<plugged, monitor, calls>>

SweepFailed ==
  /\ pc["sweep"] = "failed"
  /\ Return("sweep")
  /\ found' = NULL
  /\ UNCHANGED <<plugged, library, monitor, device, history, crashed>>

SweepClose ==
  /\ pc["sweep"] = "running"
  /\ hackrf_close("sweep")
  /\ Goto("sweep", "exit")
  /\ found' = NULL
  /\ UNCHANGED <<plugged, monitor, history, crashed>>

SweepExit ==
  /\ pc["sweep"] = "exit"
  /\ hackrf_exit("sweep")
  /\ Return("sweep")
  /\ UNCHANGED <<plugged, monitor, device, found, history, crashed>>

-----------------------------------------------------------------------------
(* ConnectHackRFDevice: hackrf_open writes to the function's own copy of   *)
(* the pointer, so the device it opens is lost on return.                  *)
AdminStart == Start("admin", "open")

AdminOpen ==
  /\ pc["admin"] = "open"
  /\ \E outcome \in Scan :
       LET b == hackrf_open(plugged, outcome) IN
       \/ /\ ~g_libusb_context
          /\ Crash("admin", "no_context")
          /\ UNCHANGED <<library, pc, strays>>
       \/ /\ g_libusb_context /\ b # NULL
          /\ Claims("lost", b)
          /\ strays' = [strays EXCEPT !.devices = @ + 1]
          /\ Return("admin")
          /\ UNCHANGED crashed
       \/ /\ g_libusb_context /\ (b # NULL => MayNotClaim(b))
          /\ Return("admin")
          /\ UNCHANGED <<library, strays, crashed>>
  /\ UNCHANGED <<plugged, monitor, device, found, calls>>

-----------------------------------------------------------------------------
(* The surroundings: boards come and go, another process uses them.        *)
Unplug(b) ==
  /\ b \in plugged \cap Hotplug
  /\ plugged' = plugged \ {b}
  /\ claim' = [claim EXCEPT ![b] = "free"]
  /\ UNCHANGED <<g_libusb_context, open_devices, lists, destroyer, dangling, monitor,
                 device, found, pc, history, crashed>>

Plug(b) ==
  /\ b \in Hotplug \ plugged
  /\ plugged' = plugged \cup {b}
  /\ UNCHANGED <<library, monitor, device, found, pc, history, crashed>>

OtherProcess(b) ==
  /\ b \in plugged \cap Shared
  /\ \/ claim[b] = "free"  /\ claim' = [claim EXCEPT ![b] = "other"]
     \/ claim[b] = "other" /\ claim' = [claim EXCEPT ![b] = "free"]
  /\ UNCHANGED <<plugged, g_libusb_context, open_devices, lists, destroyer, dangling,
                 monitor, device, found, pc, history, crashed>>

-----------------------------------------------------------------------------
CheckHackRFStatus ==
  CheckStart \/ CheckList \/ CheckOpen \/ CheckRead \/ CheckClose \/ CheckFree \/ CheckExit

Sweep == SweepStart \/ SweepOpen \/ SweepFailed \/ SweepClose \/ SweepExit

ConnectHackRFDevice == AdminStart \/ AdminOpen

Surroundings == \E b \in Board : Unplug(b) \/ Plug(b) \/ OtherProcess(b)

(* After undefined behaviour nothing more is said; the programs may also   *)
(* simply not be started any more.                                         *)
Crashed == crashed # NULL /\ UNCHANGED vars

Resting ==
  /\ \A p \in Program : pc[p] = "idle" /\ calls[p] = MAX_CALLS[p]
  /\ UNCHANGED vars

Next ==
  \/ crashed = NULL /\ (CheckHackRFStatus \/ Sweep \/ ConnectHackRFDevice \/ Surroundings)
  \/ Crashed
  \/ Resting

Spec == Init /\ [][Next]_vars

(* A thread in a call of this library goes on: no call waits for another.  *)
FairSpec ==
  /\ Spec
  /\ WF_vars(crashed = NULL /\ pc["monitor"] # "idle" /\ CheckHackRFStatus)

-----------------------------------------------------------------------------
(* Types.                                                                  *)
TypeOK ==
  /\ plugged \subseteq DOMAIN Bus
  /\ claim \in [Board -> Program \cup {"free", "lost", "other"}]
  /\ g_libusb_context \in BOOLEAN /\ dangling \in BOOLEAN
  /\ open_devices \in Nat /\ lists \in Nat
  /\ list # NULL => \A k \in 1 .. Len(list) : list[k].board \in Board
  /\ i \in 1 .. Cardinality(Board) + 1
  /\ device \in [Program -> Board \cup {NULL}]
  /\ found # NULL => found.board \in Board \cup {NULL} /\ found.wanted \in Wanted
  /\ pc \in [Program -> {"idle", "list", "open", "read", "close", "free", "exit",
                         "failed", "running"}]
  /\ \A p \in Program : calls[p] \in 0 .. MAX_CALLS[p]
  /\ strays.devices \in Nat /\ strays.lists \in Nat
  /\ destroyer \in Program \cup {NULL}
  /\ crashed # NULL => crashed.who \in Program

(***************************************************************************)
(* hackrf_exit's count keeps the context alive for every device that is    *)
(* open, the forgotten ones too, whichever program asks for the exit and   *)
(* whatever was unplugged meanwhile; and the count is exact.               *)
(***************************************************************************)
ContextOutlivesDevices ==
  /\ open_devices = Cardinality({p \in Program : device[p] # NULL}) + strays.devices
  /\ open_devices > 0 => g_libusb_context

(***************************************************************************)
(* Where the device lists go.  Apart from the one the monitor is working   *)
(* on, the lists not freed are those of its checks that returned           *)
(* EXIT_FAILURE after listing and of searches for a serial number that is  *)
(* too long: a check that returns EXIT_SUCCESS has freed its list.         *)
(***************************************************************************)
ListsAreAccountedFor ==
  lists = strays.lists + (IF list # NULL /\ (crashed # NULL \/ pc["monitor"] # "idle")
                          THEN 1 ELSE 0)

Own(e) == e.serial = capped(Bus[e.board].serial)

(***************************************************************************)
(* hackrf_device_list names the boards it found, in the order of the bus.  *)
(* A serial number that is not the board's own (its read failed) is the    *)
(* one of the closest board before it that was read, and an array never    *)
(* written only appears if there is no such board.                         *)
(***************************************************************************)
ListNamesBoards ==
  list # NULL =>
    \A k \in 1 .. Len(list) :
      /\ \A j \in 1 .. k - 1 : list[j].board < list[k].board
      /\ \/ list[k].serial = NULL
         \/ list[k].serial = GARBAGE /\ \A j \in 1 .. k - 1 : list[j].serial \in {NULL, GARBAGE}
         \/ Own(list[k])
         \/ \E j \in 1 .. k - 1 :
              /\ Own(list[j]) /\ list[j].serial = list[k].serial
              /\ \A m \in j + 1 .. k - 1 : list[m].serial \in {NULL, list[j].serial}

(***************************************************************************)
(* hackrf_open_by_serial: "If a shorter serial number is specified, only   *)
(* match against the suffix" (hackrf.c:465).  This holds of every board    *)
(* whose serial number is at least as long as the one asked for and not    *)
(* longer than the array keeps: it is only taken when its number ends with *)
(* the one asked for, and it is not passed over for a later one.           *)
(***************************************************************************)
EndsWith(s, w) == \E k \in 0 .. Len(s) : SubSeq(s, k + 1, Len(s)) = w

Comparable(b, w) == Len(Bus[b].serial) \in Len(w) .. USB_MAX_SERIAL_LENGTH

FirstSuffixIsFound ==
  found # NULL =>
    \A b \in found.tried : Comparable(b, found.wanted) =>
      /\ found.board = b => EndsWith(Bus[b].serial, found.wanted)
      /\ EndsWith(Bus[b].serial, found.wanted) =>
           found.board # NULL /\ found.board <= b

(***************************************************************************)
(* A program is caught without a context, or with a list whose context is  *)
(* gone, only when another program's hackrf_exit destroyed it: each one by *)
(* itself makes its calls in an order that is safe.                        *)
(***************************************************************************)
OnlyOthersTakeTheContext ==
  (crashed # NULL /\ crashed.why \in {"no_context", "stale_list"}) =>
    destroyer \notin {NULL, crashed.who}

(***************************************************************************)
(* A status check ends, whichever boards are busy, gone or failing.        *)
(***************************************************************************)
CheckReturns == pc["monitor"] # "idle" ~> (pc["monitor"] = "idle" \/ crashed # NULL)

=============================================================================
