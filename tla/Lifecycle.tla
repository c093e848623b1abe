------------------------------ MODULE Lifecycle ------------------------------
(***************************************************************************)
(* hackrf_init, hackrf_exit, the hackrf_open family and hackrf_close: the  *)
(* globals g_libusb_context and open_devices, and what each call acquires  *)
(* and gives back (src/src/lib/hackrf/hackrf.c).                           *)
(*                                                                         *)
(* The globals are neither atomic nor locked, and the programs of this     *)
(* repository call the library from several threads (the status monitor,   *)
(* the sweep), so a call is split where another thread's call can change   *)
(* what it has read: between a test and its use, between the load and the  *)
(* store of open_devices, and between the steps of hackrf_open_setup.      *)
(* Streaming is the subject of TransferEngine: here hackrf_close begins    *)
(* where its two stops have returned.                                      *)
(***************************************************************************)
EXTENDS Integers, FiniteSets

CONSTANTS
  Thread,            \* application threads
  Board,             \* boards on the bus
  Handle,            \* libusb device handles
  Context,           \* libusb contexts
  NULL,
  MAX_OPENS,         \* bound: calls of hackrf_open
  MAX_NULL_CLOSES,   \* bound: calls of hackrf_close(NULL)
  Env                \* the failures the environment may produce

ASSUME LifecycleAssumption ==
  /\ MAX_OPENS \in Nat /\ MAX_NULL_CLOSES \in Nat
  /\ NULL \notin Context \cup Handle \cup Board
  /\ Env \subseteq {"init_error", "open_error", "config_error", "claim_error",
                    "no_mem", "alloc_error"}

VARIABLES
  g_libusb_context,
  open_devices,    \* uint16_t
  live,            \* contexts libusb_init has made and libusb_exit not destroyed
  handle,          \* per handle: is it open, on which board, in which context
  device,          \* per thread: handles of the hackrf_device objects it holds
  pc,
  local,           \* per thread: handle being opened, value of open_devices read
  ret,             \* per thread: what its last call returned
  leaked,          \* transfers nobody can free any more
  ready,           \* per thread: has called hackrf_init and not hackrf_exit
  opens,           \* history: calls of hackrf_open
  nullCloses,      \* history: calls of hackrf_close(NULL)
  overlapped,      \* history: a thread took a step inside another's call
  crashed

vars == <<g_libusb_context, open_devices, live, handle, device, pc, local,
          ret, leaked, ready, opens, nullCloses, overlapped, crashed>>

UINT16 == 65536

(* There are fewer boards than open_devices can count (a USB bus has 127   *)
(* addresses).                                                             *)
ASSUME BoardAssumption == IsFiniteSet(Board) /\ Cardinality(Board) < UINT16

Closed == [state |-> "closed", board |-> NULL, ctx |-> NULL]

NoLocal == [h |-> NULL, n |-> 0]

Init ==
  /\ g_libusb_context = NULL
  /\ open_devices = 0
  /\ live   = {}
  /\ handle = [h \in Handle |-> Closed]
  /\ device = [t \in Thread |-> {}]
  /\ pc     = [t \in Thread |-> "idle"]
  /\ local  = [t \in Thread |-> NoLocal]
  /\ ret    = [t \in Thread |-> "SUCCESS"]
  /\ leaked = FALSE
  /\ ready  = [t \in Thread |-> FALSE]
  /\ opens = 0
  /\ nullCloses = 0
  /\ overlapped = FALSE
  /\ crashed = "no"

Goto(t, p) == pc' = [pc EXCEPT ![t] = p]

(* The call of thread t returns r.                                         *)
Return(t, r) ==
  /\ Goto(t, "idle")
  /\ local' = [local EXCEPT ![t] = NoLocal]
  /\ ret'   = [ret EXCEPT ![t] = r]

Ready(t, b) == ready' = [ready EXCEPT ![t] = b]

OpenHandles(c) == {h \in Handle : handle[h].state # "closed" /\ handle[h].ctx = c}

-----------------------------------------------------------------------------
(* hackrf_init: the test, then libusb_init.                                *)
InitCall(t) ==
  /\ pc[t] = "idle"
  /\ IF g_libusb_context # NULL
       THEN Return(t, "SUCCESS") /\ Ready(t, TRUE)
       ELSE Goto(t, "init") /\ UNCHANGED <<local, ret, ready>>
  /\ UNCHANGED <<g_libusb_context, open_devices, live, handle, device, leaked,
                 opens, nullCloses, crashed>>

InitCreate(t) ==
  /\ pc[t] = "init"
  /\ \/ /\ \E c \in Context \ live :
             g_libusb_context' = c /\ live' = live \cup {c}
        /\ Return(t, "SUCCESS")
        /\ Ready(t, TRUE)
     \/ /\ "init_error" \in Env
        /\ Return(t, "LIBUSB")
        /\ UNCHANGED <<g_libusb_context, live, ready>>
  /\ UNCHANGED <<open_devices, handle, device, leaked, opens, nullCloses, crashed>>

-----------------------------------------------------------------------------
(* hackrf_exit: the test of open_devices, libusb_exit, the store of NULL.  *)

(* Mutant of MayExit: the number of open devices is not looked at.         *)
MayExit_always == TRUE

MayExit == open_devices = 0

ExitCall(t) ==
  /\ pc[t] = "idle"
  /\ \/ ~MayExit /\ Return(t, "NOT_LAST_DEVICE") /\ UNCHANGED ready
     \/ MayExit /\ g_libusb_context = NULL /\ Return(t, "SUCCESS") /\ Ready(t, FALSE)
     \/ /\ MayExit /\ g_libusb_context # NULL
        /\ Goto(t, "exit")
        /\ UNCHANGED <<local, ret, ready>>
  /\ UNCHANGED <<g_libusb_context, open_devices, live, handle, device, leaked,
                 opens, nullCloses, crashed>>

(* libusb_exit on a context that is gone, or that has open handles, is     *)
(* undefined.                                                              *)
ExitDestroy(t) ==
  LET c == g_libusb_context IN
  /\ pc[t] = "exit"
  /\ \/ c \notin live /\ crashed' = "no_context" /\ UNCHANGED <<live, pc>>
     \/ /\ c \in live
        /\ live' = live \ {c}
        /\ crashed' = IF OpenHandles(c) = {} THEN "no" ELSE "exit_in_use"
        /\ Goto(t, "exit_store")
  /\ UNCHANGED <<g_libusb_context, open_devices, handle, device, local, ret,
                 leaked, opens, nullCloses, ready>>

ExitStore(t) ==
  /\ pc[t] = "exit_store"
  /\ g_libusb_context' = NULL
  /\ Return(t, "SUCCESS")
  /\ Ready(t, FALSE)
  /\ UNCHANGED <<open_devices, live, handle, device, leaked, opens, nullCloses, crashed>>

-----------------------------------------------------------------------------
(***************************************************************************)
(* hackrf_open, hackrf_open_by_serial and hackrf_device_list_open find a   *)
(* board and libusb_open it: they differ in which board that is.  A thread *)
(* opens between its own hackrf_init and hackrf_exit, but hackrf_init does *)
(* not count: another thread's hackrf_exit may have taken the context.     *)
(***************************************************************************)
OpenCall(t, b, h) ==
  /\ pc[t] = "idle"
  /\ opens < MAX_OPENS
  /\ opens' = opens + 1
  /\ handle[h] = Closed
  /\ ready[t]
  /\ IF g_libusb_context \notin live
       THEN crashed' = "no_context" /\ UNCHANGED <<handle, pc, local, ret>>
       ELSE /\ \/ /\ handle' = [handle EXCEPT ![h] =
                                  [state |-> "open", board |-> b,
                                   ctx |-> g_libusb_context]]
                  /\ local' = [local EXCEPT ![t].h = h]
                  /\ Goto(t, "configure")
                  /\ UNCHANGED ret
               \/ /\ "open_error" \in Env
                  /\ \E r \in {"NOT_FOUND", "LIBUSB"} : Return(t, r)
                  /\ UNCHANGED handle
            /\ UNCHANGED crashed
  /\ UNCHANGED <<g_libusb_context, open_devices, live, device, leaked, nullCloses, ready>>

(* A null pointer or an index outside the list: refused at once.           *)
OpenInvalid(t) ==
  /\ pc[t] = "idle"
  /\ Return(t, "INVALID_PARAM")
  /\ UNCHANGED <<g_libusb_context, open_devices, live, handle, device, leaked,
                 opens, nullCloses, ready, crashed>>

(* The error exits of hackrf_open_setup close the handle; the last two     *)
(* release the interface first, which closing does as well.                *)
libusb_close(h) == handle' = [handle EXCEPT ![h] = Closed]

(* set_hackrf_configuration with its two rounds of detach_kernel_drivers.  *)
Configure(t) ==
  /\ pc[t] = "configure"
  /\ \/ Goto(t, "claim") /\ UNCHANGED <<handle, local, ret>>
     \/ /\ "config_error" \in Env
        /\ libusb_close(local[t].h)
        /\ Return(t, "LIBUSB")
  /\ UNCHANGED <<g_libusb_context, open_devices, live, device, leaked,
                 opens, nullCloses, ready, crashed>>

(* One handle at a time claims a board's interface.                        *)
Claimable(b) == \A h \in Handle : ~(handle[h].state = "claimed" /\ handle[h].board = b)

(* Mutants of ClaimFails: the handle is not closed, or the error of        *)
(* libusb_claim_interface is ignored.                                      *)
ClaimFails_leak(t) == Return(t, "LIBUSB") /\ UNCHANGED handle

ClaimFails_ignored(t) == Goto(t, "allocate") /\ UNCHANGED <<handle, local, ret>>

ClaimFails(t) == libusb_close(local[t].h) /\ Return(t, "LIBUSB")

ClaimInterface(t) ==
  LET h == local[t].h IN
  /\ pc[t] = "claim"
  /\ \/ /\ Claimable(handle[h].board)
        /\ handle' = [handle EXCEPT ![h].state = "claimed"]
        /\ Goto(t, "allocate")
        /\ UNCHANGED <<local, ret>>
     \/ /\ ~Claimable(handle[h].board) \/ "claim_error" \in Env
        /\ ClaimFails(t)
  /\ UNCHANGED <<g_libusb_context, open_devices, live, device, leaked,
                 opens, nullCloses, ready, crashed>>

(***************************************************************************)
(* malloc of the device object, then allocate_transfers.  When the latter  *)
(* fails the object is freed, and with it the only reference to the        *)
(* transfers allocated so far.                                             *)
(***************************************************************************)
Allocate(t) ==
  /\ pc[t] = "allocate"
  /\ \/ Goto(t, "count") /\ UNCHANGED <<handle, local, ret, leaked>>
     \/ /\ \/ "no_mem" \in Env /\ UNCHANGED leaked
           \/ "alloc_error" \in Env /\ leaked' = TRUE
        /\ libusb_close(local[t].h)
        /\ Return(t, "NO_MEM")
  /\ UNCHANGED <<g_libusb_context, open_devices, live, device, opens, nullCloses, ready, crashed>>

-----------------------------------------------------------------------------
(* open_devices++ and open_devices--: a load and a store.                  *)

count_up(n) == (n + 1) % UINT16

(* Mutants of count_down: the counter stops at zero, or goes below it.     *)
count_down_saturating(n) == IF n = 0 THEN 0 ELSE n - 1

count_down_signed(n) == n - 1

count_down(n) == (n + UINT16 - 1) % UINT16

(* *device = lib_device; load open_devices.                                *)
CountLoad(t) ==
  /\ pc[t] = "count"
  /\ device' = [device EXCEPT ![t] = @ \cup {local[t].h}]
  /\ local'  = [local EXCEPT ![t].n = open_devices]
  /\ Goto(t, "count_store")
  /\ UNCHANGED <<g_libusb_context, open_devices, live, handle, ret, leaked,
                 opens, nullCloses, ready, crashed>>

CountStore(t) ==
  /\ pc[t] = "count_store"
  /\ open_devices' = count_up(local[t].n)
  /\ Return(t, "SUCCESS")
  /\ UNCHANGED <<g_libusb_context, live, handle, device, leaked, opens, nullCloses, ready, crashed>>

(* hackrf_close of an object: libusb_close, free_transfers, free.          *)
CloseCall(t, h) ==
  /\ pc[t] = "idle"
  /\ h \in device[t]
  /\ libusb_close(h)
  /\ device' = [device EXCEPT ![t] = @ \ {h}]
  /\ Goto(t, "uncount")
  /\ UNCHANGED <<g_libusb_context, open_devices, live, local, ret, leaked,
                 opens, nullCloses, ready, crashed>>

(* hackrf_close(NULL) skips all that, and still counts a device down.      *)
CloseNull(t) ==
  /\ pc[t] = "idle"
  /\ nullCloses < MAX_NULL_CLOSES
  /\ nullCloses' = nullCloses + 1
  /\ Goto(t, "uncount")
  /\ UNCHANGED <<g_libusb_context, open_devices, live, handle, device, local,
                 ret, leaked, opens, ready, crashed>>

UncountLoad(t) ==
  /\ pc[t] = "uncount"
  /\ local' = [local EXCEPT ![t].n = open_devices]
  /\ Goto(t, "uncount_store")
  /\ UNCHANGED <<g_libusb_context, open_devices, live, handle, device, ret, leaked,
                 opens, nullCloses, ready, crashed>>

UncountStore(t) ==
  /\ pc[t] = "uncount_store"
  /\ open_devices' = count_down(local[t].n)
  /\ Return(t, "SUCCESS")
  /\ UNCHANGED <<g_libusb_context, live, handle, device, leaked, opens, nullCloses, ready, crashed>>

-----------------------------------------------------------------------------
Step(t) ==
  \/ InitCall(t) \/ InitCreate(t)
  \/ ExitCall(t) \/ ExitDestroy(t) \/ ExitStore(t)
  \/ \E b \in Board, h \in Handle : OpenCall(t, b, h)
  \/ OpenInvalid(t)
  \/ Configure(t) \/ ClaimInterface(t) \/ Allocate(t)
  \/ CountLoad(t) \/ CountStore(t)
  \/ \E h \in Handle : CloseCall(t, h)
  \/ CloseNull(t) \/ UncountLoad(t) \/ UncountStore(t)

(* After undefined behaviour nothing more is said.                         *)
Crashed == crashed # "no" /\ UNCHANGED vars

Next ==
  \/ /\ crashed = "no"
     /\ \E t \in Thread :
          /\ Step(t)
          /\ overlapped' = (overlapped \/ \E u \in Thread \ {t} : pc[u] # "idle")
  \/ Crashed

Spec == Init /\ [][Next]_vars

-----------------------------------------------------------------------------
Pc == {"idle", "init", "exit", "exit_store", "configure", "claim", "allocate",
       "count", "count_store", "uncount", "uncount_store"}

(* Types: open_devices keeps the width of the code's uint16_t.             *)
TypeOK ==
  /\ g_libusb_context \in Context \cup {NULL}
  /\ open_devices \in 0 .. UINT16 - 1
  /\ live \subseteq Context
  /\ handle \in [Handle -> [state : {"closed", "open", "claimed"},
                            board : Board \cup {NULL},
                            ctx   : Context \cup {NULL}]]
  /\ device \in [Thread -> SUBSET Handle]
  /\ pc \in [Thread -> Pc]
  /\ local \in [Thread -> [h : Handle \cup {NULL}, n : 0 .. UINT16 - 1]]
  /\ ret \in [Thread -> {"SUCCESS", "LIBUSB", "NOT_LAST_DEVICE", "NOT_FOUND", "NO_MEM",
                       "INVALID_PARAM"}]
  /\ leaked \in BOOLEAN
  /\ ready \in [Thread -> BOOLEAN]
  /\ opens \in 0 .. MAX_OPENS
  /\ nullCloses \in 0 .. MAX_NULL_CLOSES
  /\ overlapped \in BOOLEAN
  /\ crashed \in {"no", "no_context", "exit_in_use"}

Quiet == crashed = "no" /\ \A t \in Thread : pc[t] = "idle"

(***************************************************************************)
(* Between the calls of a single thread, open_devices is the number of     *)
(* device objects less the calls of hackrf_close(NULL), modulo 2^16: no    *)
(* failed open is counted and no close is counted twice.                   *)
(***************************************************************************)
CountIsLedger ==
  Quiet => (open_devices + nullCloses) % UINT16
             = Cardinality(UNION {device[t] : t \in Thread}) % UINT16

(***************************************************************************)
(* Between calls, the open handles are exactly those of device objects,    *)
(* each with its interface claimed: every error exit of hackrf_open_setup  *)
(* gives back what it had acquired.                                        *)
(***************************************************************************)
HandlesAreDevices ==
  Quiet => \A h \in Handle :
             /\ handle[h].state # "open"
             /\ handle[h].state = "claimed" <=> \E t \in Thread : h \in device[t]

(***************************************************************************)
(* Of several device objects, in whatever threads, no two drive the same   *)
(* board.                                                                  *)
(***************************************************************************)
BoardsAreExclusive ==
  \A t, u \in Thread : \A g \in device[t], h \in device[u] :
    g # h => handle[g].board # handle[h].board

(***************************************************************************)
(* For a single thread hackrf_exit destroys the context of an open handle  *)
(* only after some hackrf_close(NULL) has spoilt the count it relies on.   *)
(***************************************************************************)
ExitRespectsCount == crashed = "exit_in_use" => nullCloses > 0

(***************************************************************************)
(* Threads that never enter the library at the same time are as safe as    *)
(* one thread, the globals having no lock: the count is exact, no context  *)
(* is overwritten by a second libusb_init or destroyed with a handle open, *)
(* and a call never meets a destroyed context, only a missing one.         *)
(***************************************************************************)
SerialCallsAreSafe ==
  (~overlapped /\ nullCloses = 0) =>
    /\ live \subseteq {g_libusb_context}
    /\ crashed # "exit_in_use"
    /\ crashed = "no_context" => g_libusb_context = NULL
    /\ Quiet => open_devices = Cardinality(UNION {device[t] : t \in Thread})

(***************************************************************************)
(* hackrf_exit refuses with HACKRF_ERROR_NOT_LAST_DEVICE, "one or more     *)
(* HackRFs still in use" (hackrf.c:1719): it never destroys the context of *)
(* an open handle.                                                         *)
(***************************************************************************)
ExitRespectsUse == crashed # "exit_in_use"

=============================================================================
