--------------------------- MODULE TransferEngine ---------------------------
(***************************************************************************)
(* The streaming engine of libhackrf (src/src/lib/hackrf/hackrf.c): the    *)
(* USB transfers of each open device, the transfer thread that drives      *)
(* them, and hackrf_start_rx/tx, hackrf_stop_rx/tx and hackrf_close, which *)
(* create and destroy that thread.                                         *)
(*                                                                         *)
(* All devices share one libusb context (g_libusb_context).  libusb runs a *)
(* transfer's callback on WHATEVER thread is handling events of the        *)
(* context: any device's transfer thread, and any thread inside a          *)
(* synchronous libusb_control_transfer.  Two devices therefore meet in the *)
(* event loop, and a callback can run on an application thread.            *)
(*                                                                         *)
(* One element of Device is one hackrf_device object, from the malloc in   *)
(* hackrf_open_setup to the free in hackrf_close.  Every device is used by *)
(* one application thread (the callers in this repository never share one);*)
(* application threads of different devices interleave.                    *)
(*                                                                         *)
(* A step of the model ends where another thread could observe or change   *)
(* what the next statement uses: inside a control transfer, between two    *)
(* submissions, before pthread_create, at pthread_join, before             *)
(* libusb_close, at the loop test of the transfer thread and around the    *)
(* application's sample callback.                                          *)
(***************************************************************************)
EXTENDS Naturals

CONSTANTS
  Device,          \* hackrf_device objects that share g_libusb_context
  Client,          \* identities of (callback, context) pairs given to start
  NULL,            \* the null pointer
  TRANSFER_COUNT,  \* USB transfers per device (4 in hackrf.c:82)
  Env              \* the failures the environment may produce

ASSUME TransferCountAssumption == TRANSFER_COUNT \in Nat \ {0}

ASSUME NullAssumption == NULL \notin Client

(***************************************************************************)
(* The failures hackrf.c has a branch for, by the call that reports them:  *)
(* libusb_control_transfer, libusb_submit_transfer, pthread_create,        *)
(* pthread_join, libusb_handle_events_timeout, a transfer status other     *)
(* than COMPLETED, an application callback that returns non-zero, and (not *)
(* an error) a transfer that completes although it was cancelled.          *)
(***************************************************************************)
Failures == {"ctl_error", "submit_error", "thread_error", "join_error",
             "events_error", "xfer_error", "callback_stop",
             "late_completion"}

ASSUME EnvAssumption == Env \subseteq Failures

Index     == 0 .. TRANSFER_COUNT - 1
Direction == {"rx", "tx"}

VARIABLES
  (* struct hackrf_device *)
  transfer_thread_started,
  streaming,
  do_exit,
  callback,      \* sample callback of the last start, NULL after open
  ctx,           \* rx_ctx and tx_ctx
  transfers,     \* per transfer: idle, submitted or cancelling
  endpoint,      \* endpoint address last written into the transfers
  (* threads *)
  thread,        \* the transfer thread: none, check, events or exited
  pc,            \* where the device's application thread is
  arg,           \* arguments of the start call in progress
  next,          \* transfer_index of prepare_transfers
  result1,       \* hackrf_close: what hackrf_stop_rx returned
  result2,       \* hackrf_close: what hackrf_stop_tx returned
  ret,           \* what the last call returned
  inCallback,    \* the sample callback running, with the thread it runs on
  crashed,       \* undefined behaviour the process has met
  (* the board *)
  mode,          \* transceiver mode the firmware is in
  (* history, read by no action's guard *)
  disturbed,     \* a mode request failed, or a start was refused, after the
                 \* running session began
  tainted,       \* a start failed while transfers were outstanding
  late           \* the transfers that completed although the last stop had
                 \* cancelled them

device_vars == <<transfer_thread_started, streaming, do_exit, callback, ctx,
                 transfers, endpoint>>
call_vars   == <<pc, arg, next, result1, result2, ret>>
history     == <<disturbed, tainted, late>>
vars == <<device_vars, thread, call_vars, inCallback, crashed, mode, history>>

-----------------------------------------------------------------------------
(* Program counters of an application thread.                              *)

InStop  == {"stop_ctl", "rx_ctl", "tx_ctl"}     \* in hackrf_set_transceiver_mode
InJoin  == {"stop_join", "rx_join", "tx_join"}  \* in pthread_join
InControl == {"start_ctl"} \cup InStop
Pc == {"new", "idle", "submit", "create", "close_usb", "freed"}
        \cup InControl \cup InJoin

Join(p) == CASE p = "stop_ctl" -> "stop_join"
             [] p = "rx_ctl"   -> "rx_join"
             [] p = "tx_ctl"   -> "tx_join"

Open(d) == pc[d] \notin {"new", "freed"}

(* A thread is the application thread or the transfer thread of a device.  *)
Thread == {"app", "xfer"} \X Device

HandlesEvents(t) ==
  \/ t[1] = "xfer" /\ thread[t[2]] = "events"
  \/ t[1] = "app"  /\ pc[t[2]] \in InControl

RunsCallback(t) == \E cb \in inCallback : cb[1] = t

Outstanding(d) == \E i \in Index : transfers[d][i] # "idle"

Return(d, p, r) ==
  /\ pc'  = [pc EXCEPT ![d] = p]
  /\ ret' = [ret EXCEPT ![d] = r]

(* A start call returns r: its arguments are gone.                         *)
NoArg == <<"rx", NULL>>

StartReturn(d, r) ==
  /\ Return(d, "idle", r)
  /\ arg' = [arg EXCEPT ![d] = NoArg]

(* Mutant of hackrf_is_streaming: do_exit is not looked at.                *)
is_streaming_ignoring_exit(d) ==
  IF transfer_thread_started[d] /\ streaming[d] THEN "TRUE"
                                                ELSE "STREAMING_STOPPED"

(***************************************************************************)
(* hackrf_is_streaming, as a function of the state.                        *)
(***************************************************************************)
hackrf_is_streaming(d) ==
  CASE transfer_thread_started[d] /\ streaming[d] /\ ~do_exit[d] -> "TRUE"
    [] ~transfer_thread_started[d] -> "STREAMING_THREAD_ERR"
    [] transfer_thread_started[d] /\ ~streaming[d] -> "STREAMING_STOPPED"
    [] OTHER -> "STREAMING_EXIT_CALLED"

-----------------------------------------------------------------------------
Init ==
  /\ transfer_thread_started = [d \in Device |-> FALSE]
  /\ streaming  = [d \in Device |-> FALSE]
  /\ do_exit    = [d \in Device |-> FALSE]
  /\ callback   = [d \in Device |-> NULL]
  /\ ctx        = [d \in Device |-> [dir \in Direction |-> NULL]]
  /\ transfers  = [d \in Device |-> [i \in Index |-> "idle"]]
  /\ endpoint   = [d \in Device |-> "rx"]
  /\ thread     = [d \in Device |-> "none"]
  /\ pc         = [d \in Device |-> "new"]
  /\ arg        = [d \in Device |-> NoArg]
  /\ next       = [d \in Device |-> 0]
  /\ result1    = [d \in Device |-> "SUCCESS"]
  /\ result2    = [d \in Device |-> "SUCCESS"]
  /\ ret        = [d \in Device |-> "SUCCESS"]
  /\ inCallback = {}
  /\ crashed    = "no"
  /\ mode       = [d \in Device |-> "off"]
  /\ disturbed  = [d \in Device |-> FALSE]
  /\ tainted    = [d \in Device |-> FALSE]
  /\ late       = [d \in Device |-> {}]

(***************************************************************************)
(* hackrf_open_setup has succeeded: the object's fields have the values    *)
(* Init gives them and allocate_transfers has filled the array.  (malloc   *)
(* leaves rx_ctx and tx_ctx indeterminate; NULL stands for that.  A        *)
(* callback is handed both, one of which its own start has stored.)        *)
(***************************************************************************)
OpenDevice(d) ==
  /\ pc[d] = "new"
  /\ Return(d, "idle", "SUCCESS")
  /\ UNCHANGED <<device_vars, thread, arg, next, result1, result2, inCallback,
                 crashed, mode, history>>

-----------------------------------------------------------------------------
(* hackrf_start_rx and hackrf_start_tx                                     *)

StartCall(d, dir, c) ==
  /\ pc[d] = "idle"
  /\ pc'  = [pc EXCEPT ![d] = "start_ctl"]
  /\ arg' = [arg EXCEPT ![d] = <<dir, c>>]
  /\ UNCHANGED <<device_vars, thread, next, result1, result2, ret, inCallback,
                 crashed, mode, history>>

(***************************************************************************)
(* A control transfer that returns an error may or may not have reached    *)
(* the board.                                                              *)
(***************************************************************************)
ModeRequestFails(d, value) ==
  /\ "ctl_error" \in Env
  /\ \E m \in {mode[d], value} : mode' = [mode EXCEPT ![d] = m]
  /\ disturbed' = [disturbed EXCEPT ![d] = TRUE]

(* Mutant of MayCreate: a second start is let through.                     *)
MayCreate_always(d) == TRUE

(* The guard of create_transfer_thread.                                    *)
MayCreate(d) == ~transfer_thread_started[d]

(* The stores of create_transfer_thread before prepare_transfers.          *)
ResetFlags(d) ==
  /\ streaming' = [streaming EXCEPT ![d] = FALSE]
  /\ do_exit'   = [do_exit EXCEPT ![d] = FALSE]

(***************************************************************************)
(* hackrf_set_transceiver_mode returns inside start: the context is stored *)
(* even when the call then ends with HACKRF_ERROR_BUSY.                    *)
(***************************************************************************)
StartControlReturn(d) ==
  LET dir == arg[d][1] IN
  /\ pc[d] = "start_ctl"
  /\ ~RunsCallback(<<"app", d>>)
  /\ \/ /\ ModeRequestFails(d, dir)
        /\ StartReturn(d, "LIBUSB")
        /\ UNCHANGED <<streaming, do_exit, ctx, next>>
     \/ /\ mode' = [mode EXCEPT ![d] = dir]
        /\ ctx'  = [ctx EXCEPT ![d][dir] = arg[d][2]]
        /\ \/ /\ MayCreate(d)
              /\ ResetFlags(d)
              /\ pc'   = [pc EXCEPT ![d] = "submit"]
              /\ next' = [next EXCEPT ![d] = 0]
              /\ UNCHANGED <<arg, ret, disturbed>>
           \/ /\ ~MayCreate(d)
              /\ StartReturn(d, "BUSY")
              /\ disturbed' = [disturbed EXCEPT ![d] = TRUE]
              /\ UNCHANGED <<streaming, do_exit, next>>
  /\ UNCHANGED <<transfer_thread_started, callback, transfers, endpoint,
                 thread, result1, result2, inCallback, crashed, tainted, late>>

(* Mutant of LastTransfer: the loop runs once too often.                   *)
LastTransfer_late(i) == i = TRANSFER_COUNT

(* The loop of prepare_transfers ends with transfer i.                     *)
LastTransfer(i) == i + 1 = TRANSFER_COUNT

(***************************************************************************)
(* One iteration of prepare_transfers.  libusb_submit_transfer refuses a   *)
(* transfer that is still in flight (LIBUSB_ERROR_BUSY).  On an error the  *)
(* transfers submitted so far stay submitted.  (transfers is not NULL in   *)
(* an open device: the branch for that, "This shouldn't happen", cannot be *)
(* taken.)                                                                 *)
(***************************************************************************)
SubmitOne(d) ==
  LET i == next[d] IN
  /\ pc[d] = "submit"
  /\ endpoint' = [endpoint EXCEPT ![d] = arg[d][1]]
  /\ \/ /\ transfers[d][i] = "idle"
        /\ transfers' = [transfers EXCEPT ![d][i] = "submitted"]
        /\ next' = [next EXCEPT ![d] = IF LastTransfer(i) THEN 0 ELSE i + 1]
        /\ pc'   = [pc EXCEPT ![d] = IF LastTransfer(i) THEN "create" ELSE "submit"]
        /\ UNCHANGED <<arg, ret, tainted>>
     \/ /\ transfers[d][i] # "idle" \/ "submit_error" \in Env
        /\ StartReturn(d, "LIBUSB")
        /\ next' = [next EXCEPT ![d] = 0]
        /\ tainted' = [tainted EXCEPT ![d] = @ \/ Outstanding(d)]
        /\ UNCHANGED transfers
  /\ UNCHANGED <<transfer_thread_started, streaming, do_exit, callback, ctx,
                 thread, result1, result2, inCallback, crashed, mode, disturbed,
                 late>>

(* Mutants of StoreSession: the callback is never stored, or only the      *)
(* first one is.                                                           *)
StoreSession_no_callback(d) ==
  /\ streaming' = [streaming EXCEPT ![d] = TRUE]
  /\ UNCHANGED callback

StoreSession_first_callback(d) ==
  /\ streaming' = [streaming EXCEPT ![d] = TRUE]
  /\ callback'  = [callback EXCEPT ![d] = IF @ = NULL THEN arg[d][2] ELSE @]

(* The stores of create_transfer_thread after prepare_transfers.           *)
StoreSession(d) ==
  /\ streaming' = [streaming EXCEPT ![d] = TRUE]
  /\ callback'  = [callback EXCEPT ![d] = arg[d][2]]

(***************************************************************************)
(* The rest of create_transfer_thread.  streaming and callback are stored  *)
(* before pthread_create and stay as they are when it fails.               *)
(* transfer_thread_started is only ever read by the application thread, so *)
(* its store is part of this step.                                         *)
(***************************************************************************)
CreateThread(d) ==
  /\ pc[d] = "create"
  /\ StoreSession(d)
  /\ \/ /\ thread' = [thread EXCEPT ![d] = "check"]
        /\ transfer_thread_started' = [transfer_thread_started EXCEPT ![d] = TRUE]
        /\ StartReturn(d, "SUCCESS")
        /\ disturbed' = [disturbed EXCEPT ![d] = FALSE]
        /\ tainted'   = [tainted EXCEPT ![d] = FALSE]
     \/ /\ "thread_error" \in Env
        /\ StartReturn(d, "THREAD")
        /\ tainted' = [tainted EXCEPT ![d] = TRUE]
        /\ UNCHANGED <<thread, transfer_thread_started, disturbed>>
  /\ UNCHANGED <<do_exit, ctx, transfers, endpoint, next, result1, result2,
                 inCallback, crashed, mode, late>>

-----------------------------------------------------------------------------
(* hackrf_stop_rx / hackrf_stop_tx (the same code), and hackrf_close       *)

StopCall(d) ==
  /\ pc[d] = "idle"
  /\ pc' = [pc EXCEPT ![d] = "stop_ctl"]
  /\ UNCHANGED <<device_vars, thread, arg, next, result1, result2, ret,
                 inCallback, crashed, mode, history>>

CloseCall(d) ==
  /\ pc[d] = "idle"
  /\ pc' = [pc EXCEPT ![d] = "rx_ctl"]
  /\ UNCHANGED <<device_vars, thread, arg, next, result1, result2, ret,
                 inCallback, crashed, mode, history>>

(***************************************************************************)
(* What follows a stop that returns r: the caller, hackrf_close's          *)
(* hackrf_stop_tx (whatever hackrf_stop_rx returned), or libusb_close.     *)
(***************************************************************************)
StopReturn(d, r) ==
  \/ /\ pc[d] \in {"stop_ctl", "stop_join"}
     /\ Return(d, "idle", r)
     /\ UNCHANGED <<result1, result2>>
  \/ /\ pc[d] \in {"rx_ctl", "rx_join"}
     /\ pc' = [pc EXCEPT ![d] = "tx_ctl"]
     /\ result1' = [result1 EXCEPT ![d] = r]
     /\ UNCHANGED <<result2, ret>>
  \/ /\ pc[d] \in {"tx_ctl", "tx_join"}
     /\ pc' = [pc EXCEPT ![d] = "close_usb"]
     /\ result2' = [result2 EXCEPT ![d] = r]
     /\ UNCHANGED <<result1, ret>>

(***************************************************************************)
(* hackrf_set_transceiver_mode(OFF) returns, then kill_transfer_thread up  *)
(* to pthread_join.  An error of the mode request skips                    *)
(* kill_transfer_thread: the transfer thread keeps running.                *)
(***************************************************************************)
StopControlReturn(d) ==
  /\ pc[d] \in InStop
  /\ ~RunsCallback(<<"app", d>>)
  /\ \/ /\ ModeRequestFails(d, "off")
        /\ StopReturn(d, "LIBUSB")
        /\ UNCHANGED do_exit
     \/ /\ mode'    = [mode EXCEPT ![d] = "off"]
        /\ do_exit' = [do_exit EXCEPT ![d] = TRUE]
        /\ IF transfer_thread_started[d]
             THEN /\ pc' = [pc EXCEPT ![d] = Join(pc[d])]
                  /\ UNCHANGED <<result1, result2, ret>>
             ELSE StopReturn(d, "SUCCESS")
        /\ UNCHANGED disturbed
  /\ UNCHANGED <<transfer_thread_started, streaming, callback, ctx, transfers,
                 endpoint, thread, arg, next, inCallback, crashed, tainted, late>>

(* pthread_join returns once the transfer thread has returned.             *)
Joinable(d) == thread[d] = "exited"

(* Mutant of cancel_transfers: the transfers are left in flight.           *)
cancel_transfers_skipped(ts) == ts

(***************************************************************************)
(* libusb_cancel_transfer only asks: the transfer stays in flight until an *)
(* event handler reaps it.                                                 *)
(***************************************************************************)
cancel_transfers(ts) ==
  [i \in Index |-> IF ts[i] = "submitted" THEN "cancelling" ELSE ts[i]]

(* Mutant of JoinFails: the flag is cleared before the result is tested.   *)
JoinFails_flag_cleared(d) ==
  /\ "join_error" \in Env
  /\ StopReturn(d, "THREAD")
  /\ transfer_thread_started' = [transfer_thread_started EXCEPT ![d] = FALSE]
  /\ UNCHANGED <<thread, transfers, late>>

(* pthread_join returns an error: the thread still counts as started.      *)
JoinFails(d) ==
  /\ "join_error" \in Env
  /\ StopReturn(d, "THREAD")
  /\ UNCHANGED <<thread, transfer_thread_started, transfers, late>>

(* kill_transfer_thread from pthread_join on.                              *)
JoinThread(d) ==
  /\ pc[d] \in InJoin
  /\ \/ /\ Joinable(d)
        /\ thread' = [thread EXCEPT ![d] = "none"]
        /\ transfer_thread_started' = [transfer_thread_started EXCEPT ![d] = FALSE]
        /\ transfers' = [transfers EXCEPT ![d] = cancel_transfers(@)]
        /\ late' = [late EXCEPT ![d] = {}]
        /\ StopReturn(d, "SUCCESS")
     \/ JoinFails(d)
  /\ UNCHANGED <<streaming, do_exit, callback, ctx, endpoint, arg, next,
                 inCallback, crashed, mode, disturbed, tainted>>

(* libusb_close drops the device's transfers that are still in flight.     *)
libusb_close(ts) == [i \in Index |-> "idle"]

(* libusb_close takes the lock event handlers hold while callbacks run.    *)
NoEventHandler == inCallback = {}

(* hackrf_close returns hackrf_stop_tx's error before hackrf_stop_rx's.    *)
close_result(r1, r2) == IF r2 # "SUCCESS" THEN r2 ELSE r1

(***************************************************************************)
(* The end of hackrf_close: libusb_release_interface, libusb_close,        *)
(* free_transfers and free.                                                *)
(***************************************************************************)
FreeDevice(d) ==
  /\ pc[d] = "close_usb"
  /\ NoEventHandler
  /\ transfers' = [transfers EXCEPT ![d] = libusb_close(@)]
  /\ Return(d, "freed", close_result(result1[d], result2[d]))
  /\ UNCHANGED <<transfer_thread_started, streaming, do_exit, callback, ctx,
                 endpoint, thread, arg, next, result1, result2, inCallback,
                 crashed, mode, history>>

-----------------------------------------------------------------------------
(* transfer_threadproc                                                     *)

(* Mutant of KeepsRunning: do_exit is not looked at.                       *)
KeepsRunning_ignoring_exit(d) == streaming[d]

KeepsRunning(d) == streaming[d] /\ ~do_exit[d]

(* The while condition; it reads the device object, freed or not.          *)
ThreadCheck(d) ==
  /\ thread[d] = "check"
  /\ IF pc[d] = "freed"
       THEN crashed' = "use_after_free" /\ UNCHANGED thread
       ELSE /\ thread' = [thread EXCEPT ![d] = IF KeepsRunning(d) THEN "events"
                                                                  ELSE "exited"]
            /\ UNCHANGED crashed
  /\ UNCHANGED <<device_vars, call_vars, inCallback, mode, history>>

(* libusb_handle_events_timeout returns: after events, or after 500 ms.    *)
EventsReturn(d) ==
  /\ thread[d] = "events"
  /\ ~RunsCallback(<<"xfer", d>>)
  /\ thread' = [thread EXCEPT ![d] = "check"]
  /\ UNCHANGED <<device_vars, call_vars, inCallback, crashed, mode, history>>

(* ... or fails, and the thread stores streaming = false.                  *)
EventsFail(d) ==
  /\ "events_error" \in Env
  /\ thread[d] = "events"
  /\ ~RunsCallback(<<"xfer", d>>)
  /\ IF pc[d] = "freed"
       THEN crashed' = "use_after_free" /\ UNCHANGED <<streaming, thread>>
       ELSE /\ streaming' = [streaming EXCEPT ![d] = FALSE]
            /\ thread'    = [thread EXCEPT ![d] = "check"]
            /\ UNCHANGED crashed
  /\ UNCHANGED <<transfer_thread_started, do_exit, callback, ctx, transfers,
                 endpoint, call_vars, inCallback, mode, history>>

-----------------------------------------------------------------------------
(* hackrf_libusb_transfer_callback, run by the event handler t             *)

request_exit(d) == do_exit' = [do_exit EXCEPT ![d] = TRUE]

MayComplete(d, i) ==
  \/ transfers[d][i] = "submitted"
  \/ transfers[d][i] = "cancelling" /\ "late_completion" \in Env

(* Status COMPLETED: the transfer is no longer in flight and               *)
(* device->callback is called.                                             *)
BeginCallback(t, d, i) ==
  /\ NoEventHandler
  /\ HandlesEvents(t)
  /\ MayComplete(d, i)
  /\ transfers' = [transfers EXCEPT ![d][i] = "idle"]
  /\ late' = [late EXCEPT ![d] =
                IF transfers[d][i] = "cancelling" THEN @ \cup {i} ELSE @]
  /\ IF callback[d] = NULL
       THEN crashed' = "null_callback" /\ UNCHANGED inCallback
       ELSE inCallback' = {<<t, d, i>>} /\ UNCHANGED crashed
  /\ UNCHANGED <<transfer_thread_started, streaming, do_exit, callback, ctx,
                 endpoint, thread, call_vars, mode, disturbed, tainted>>

(* The application's callback has returned.                                *)
EndCallback(t, d, i) ==
  /\ <<t, d, i>> \in inCallback
  /\ inCallback' = {}
  /\ \/ /\ transfers[d][i] = "idle"
        /\ transfers' = [transfers EXCEPT ![d][i] = "submitted"]
        /\ UNCHANGED do_exit
     \/ /\ \/ transfers[d][i] # "idle"
           \/ "submit_error" \in Env
           \/ "callback_stop" \in Env
        /\ request_exit(d)
        /\ UNCHANGED transfers
  /\ UNCHANGED <<transfer_thread_started, streaming, callback, ctx, endpoint,
                 thread, call_vars, crashed, mode, history>>

(* Any other status: cancelled, timed out, stalled, no device, ...         *)
TransferFails(t, d, i) ==
  /\ NoEventHandler
  /\ HandlesEvents(t)
  /\ \/ transfers[d][i] = "cancelling"
     \/ transfers[d][i] = "submitted" /\ "xfer_error" \in Env
  /\ transfers' = [transfers EXCEPT ![d][i] = "idle"]
  /\ request_exit(d)
  /\ UNCHANGED <<transfer_thread_started, streaming, callback, ctx, endpoint,
                 thread, call_vars, inCallback, crashed, mode, history>>

-----------------------------------------------------------------------------
(* Nothing is left to do: the process is dead, or every device is closed.  *)
Finished ==
  \/ crashed # "no"
  \/ \A d \in Device : pc[d] = "freed" /\ thread[d] \in {"none", "exited"}

AppStep(d) ==
  \/ OpenDevice(d)
  \/ \E dir \in Direction, c \in Client : StartCall(d, dir, c)
  \/ StartControlReturn(d)
  \/ SubmitOne(d)
  \/ CreateThread(d)
  \/ StopCall(d)
  \/ CloseCall(d)
  \/ StopControlReturn(d)
  \/ JoinThread(d)
  \/ FreeDevice(d)

ThreadStep(d) == ThreadCheck(d) \/ EventsReturn(d) \/ EventsFail(d)

EventStep(t, d, i) ==
  BeginCallback(t, d, i) \/ EndCallback(t, d, i) \/ TransferFails(t, d, i)

Next ==
  \/ /\ crashed = "no"
     /\ \/ \E d \in Device : AppStep(d)
        \/ \E d \in Device : ThreadStep(d)
        \/ \E t \in Thread, d \in Device, i \in Index : EventStep(t, d, i)
  \/ Finished /\ UNCHANGED vars

Spec == Init /\ [][Next]_vars

(***************************************************************************)
(* Fairness.  A thread that can run, runs (weak fairness).  An event       *)
(* handler leaves libusb after a finite batch of events, or after its      *)
(* timeout; the steps that wait for that are disabled whenever a callback  *)
(* runs, so their fairness is strong: libusb_handle_events_timeout, the    *)
(* control transfers (the board or the bus answers: their timeout is 0),   *)
(* and libusb_close, which interrupts the handlers.  pthread_join is only  *)
(* relied on once the thread has returned.                                 *)
(* Nothing obliges the application to begin a call, or a board to complete *)
(* a transfer.                                                             *)
(***************************************************************************)
Fairness ==
  /\ \A d \in Device :
       /\ WF_vars(crashed = "no" /\ (SubmitOne(d) \/ CreateThread(d)))
       /\ WF_vars(crashed = "no" /\ Joinable(d) /\ JoinThread(d))
       /\ WF_vars(crashed = "no" /\ ThreadCheck(d))
       /\ SF_vars(crashed = "no" /\ (StartControlReturn(d) \/ StopControlReturn(d)))
       /\ SF_vars(crashed = "no" /\ EventsReturn(d))
       /\ SF_vars(crashed = "no" /\ FreeDevice(d))
  /\ WF_vars(/\ crashed = "no"
             /\ \E t \in Thread, d \in Device, i \in Index : EndCallback(t, d, i))

FairSpec == Spec /\ Fairness

-----------------------------------------------------------------------------
Result == {"SUCCESS", "LIBUSB", "THREAD", "BUSY"}

(* Types of the variables, which mirror struct hackrf_device.              *)
TypeOK ==
  /\ transfer_thread_started \in [Device -> BOOLEAN]
  /\ streaming  \in [Device -> BOOLEAN]
  /\ do_exit    \in [Device -> BOOLEAN]
  /\ callback   \in [Device -> Client \cup {NULL}]
  /\ ctx        \in [Device -> [Direction -> Client \cup {NULL}]]
  /\ transfers  \in [Device -> [Index -> {"idle", "submitted", "cancelling"}]]
  /\ endpoint   \in [Device -> Direction]
  /\ thread     \in [Device -> {"none", "check", "events", "exited"}]
  /\ pc         \in [Device -> Pc]
  /\ arg        \in [Device -> Direction \X (Client \cup {NULL})]
  /\ next       \in [Device -> Index]
  /\ result1    \in [Device -> Result]
  /\ result2    \in [Device -> Result]
  /\ ret        \in [Device -> Result]
  /\ inCallback \subseteq Thread \X Device \X Index
  /\ crashed    \in {"no", "use_after_free", "null_callback"}
  /\ mode       \in [Device -> Direction \cup {"off"}]
  /\ disturbed  \in [Device -> BOOLEAN]
  /\ tainted    \in [Device -> BOOLEAN]
  /\ late       \in [Device -> SUBSET Index]

(***************************************************************************)
(* hackrf_is_streaming answers HACKRF_TRUE only while a transfer thread is *)
(* there to deliver samples: whatever ended the thread (do_exit, an event  *)
(* error) shows in the answer before the thread is gone.                   *)
(***************************************************************************)
StreamingHasWorker ==
  \A d \in Device :
    pc[d] # "freed" /\ hackrf_is_streaming(d) = "TRUE"
      => thread[d] \in {"check", "events"}

(***************************************************************************)
(* A transfer thread outlives its device object only when hackrf_stop_rx   *)
(* AND hackrf_stop_tx failed inside hackrf_close, and then hackrf_close    *)
(* reports it.  The thread goes on reading the freed object; that is the   *)
(* only way the engine comes to do so.                                     *)
(***************************************************************************)
Orphan(d) == pc[d] = "freed" /\ thread[d] # "none"

SafeClose ==
  /\ \A d \in Device : Orphan(d) =>
       result1[d] # "SUCCESS" /\ result2[d] # "SUCCESS" /\ ret[d] # "SUCCESS"
  /\ crashed = "use_after_free" => \E d \in Device : Orphan(d)

(***************************************************************************)
(* With one device, libhackrf calls a null sample callback only when an    *)
(* earlier start failed halfway through prepare_transfers and left         *)
(* transfers in flight.                                                    *)
(***************************************************************************)
CrashNeedsFailedStart ==
  crashed = "null_callback" => \E d \in Device : tainted[d]

(***************************************************************************)
(* Outside a session, and unless a start failed halfway, an idle device    *)
(* has no transfer in flight uncancelled, so no more samples are asked     *)
(* for.  The only exceptions are the transfers that completed although     *)
(* kill_transfer_thread had cancelled them: their callback submits them    *)
(* again.                                                                  *)
(***************************************************************************)
StoppedMeansCancelled ==
  \A d \in Device :
    pc[d] = "idle" /\ ~transfer_thread_started[d] /\ ~tainted[d]
      => \A i \in Index \ late[d] : transfers[d][i] # "submitted"

(***************************************************************************)
(* While hackrf_is_streaming says so, and unless a later mode request or   *)
(* start failed on the device, the board's mode, the endpoint of the       *)
(* transfers, the sample callback and the context handed to it all come    *)
(* from the same start call.                                               *)
(***************************************************************************)
SessionIsCoherent ==
  \A d \in Device :
    pc[d] = "idle" /\ hackrf_is_streaming(d) = "TRUE" /\ ~disturbed[d]
      => mode[d] = endpoint[d] /\ ctx[d][endpoint[d]] = callback[d]

(***************************************************************************)
(* A session that has ended (do_exit set or streaming cleared) stays       *)
(* ended: no step makes hackrf_is_streaming true again while its transfer  *)
(* thread has not been joined.                                             *)
(***************************************************************************)
NeverResurrects ==
  [][\A d \in Device :
       thread[d] # "none" /\ hackrf_is_streaming(d) # "TRUE"
         => hackrf_is_streaming(d)' # "TRUE"]_vars

(***************************************************************************)
(* Every call returns: a start, a stop that joins the transfer thread, and *)
(* a close, whatever callbacks run meanwhile (unless the process crashed). *)
(***************************************************************************)
CallsReturn ==
  \A d \in Device :
    pc[d] \notin {"new", "idle", "freed"}
      ~> pc[d] \in {"idle", "freed"} \/ crashed # "no"

(***************************************************************************)
(* request_exit stops the transfer thread without the application's help   *)
(* ("Fatal error stop transfer", hackrf.c:1505).                           *)
(***************************************************************************)
ExitRequestHonoured ==
  \A d \in Device :
    do_exit[d] /\ thread[d] \in {"check", "events"}
      ~> thread[d] \in {"none", "exited"} \/ crashed # "no"

-----------------------------------------------------------------------------
(* The session an application sees: see StreamSession.                     *)
SessionOf(d) ==
  CASE pc[d] = "new"   -> "new"
    [] pc[d] = "freed" -> "gone"
    [] OTHER -> CASE ~transfer_thread_started[d]           -> "idle"
                  [] hackrf_is_streaming(d) = "TRUE"       -> "live"
                  [] OTHER                                 -> "ended"

WorkerOf(d) == thread[d] \in {"check", "events"}

Session == INSTANCE StreamSession WITH
             session <- [d \in Device |-> SessionOf(d)],
             worker  <- [d \in Device |-> WorkerOf(d)]

(***************************************************************************)
(* The engine implements StreamSession: start, stop, close, transfer       *)
(* errors and the transfer thread together make each device go through one *)
(* session at a time, that ends once and is stopped only after its worker  *)
(* thread has quit.                                                        *)
(***************************************************************************)
ImplementsSession == Session!Spec

-----------------------------------------------------------------------------
(* What a comment of the repository says, and the code does not keep.      *)

(***************************************************************************)
(* "We also handle multiple devices by serial number"                      *)
(* (hackrf_plugin.c:26): in a process with several devices, and without    *)
(* any failure, the library never calls a null sample callback.            *)
(***************************************************************************)
MultipleDevicesHandled == crashed # "null_callback"

=============================================================================
