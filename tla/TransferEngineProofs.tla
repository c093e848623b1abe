------------------------ MODULE TransferEngineProofs ------------------------
(***************************************************************************)
(* Proofs about TransferEngine, for any number of devices, clients and     *)
(* transfers and any set of failures.                                      *)
(***************************************************************************)
EXTENDS TransferEngine, TLAPS

-----------------------------------------------------------------------------
(* Types.                                                                  *)

(* Index is not empty, so prepare_transfers has a first transfer.          *)
LEMMA IndexFacts ==
  /\ 0 \in Index
  /\ \A i \in Index : i + 1 # TRANSFER_COUNT => i + 1 \in Index
BY TransferCountAssumption DEF Index

(* What a stop does next leaves the types of the caller's locals alone.    *)
LEMMA StopReturnType ==
  ASSUME TypeOK, NEW d \in Device, NEW r \in {"SUCCESS", "LIBUSB", "THREAD"},
         pc[d] \in InStop \cup InJoin, StopReturn(d, r)
  PROVE  /\ pc' \in [Device -> Pc]
         /\ result1' \in [Device -> Result]
         /\ result2' \in [Device -> Result]
         /\ ret' \in [Device -> Result]
<1> USE DEF Pc, InControl, InStop, InJoin, Result
<1>0. /\ pc \in [Device -> Pc]
      /\ result1 \in [Device -> Result]
      /\ result2 \in [Device -> Result]
      /\ ret \in [Device -> Result]
  BY DEF TypeOK
<1>1. CASE Return(d, "idle", r) /\ UNCHANGED <<result1, result2>>
  BY <1>0, <1>1 DEF Return
<1>2. CASE /\ pc' = [pc EXCEPT ![d] = "tx_ctl"]
           /\ result1' = [result1 EXCEPT ![d] = r]
           /\ UNCHANGED <<result2, ret>>
  BY <1>0, <1>2
<1>3. CASE /\ pc' = [pc EXCEPT ![d] = "close_usb"]
           /\ result2' = [result2 EXCEPT ![d] = r]
           /\ UNCHANGED <<result1, ret>>
  BY <1>0, <1>3
<1>4. QED
  BY <1>1, <1>2, <1>3 DEF StopReturn

(* A completed or failed transfer is one of an event handler's.            *)
LEMMA EventStepType ==
  ASSUME TypeOK, NEW t \in Thread, NEW d \in Device, NEW i \in Index,
         EventStep(t, d, i)
  PROVE  TypeOK'
<1>1. CASE BeginCallback(t, d, i)
  <2>1. inCallback' \subseteq Thread \X Device \X Index
    BY <1>1 DEF BeginCallback, TypeOK
  <2>2. transfers' \in [Device -> [Index -> {"idle", "submitted", "cancelling"}]]
    BY <1>1 DEF BeginCallback, TypeOK
  <2>3. crashed' \in {"no", "use_after_free", "null_callback"}
    BY <1>1 DEF BeginCallback, TypeOK
  <2>4. late' \in [Device -> SUBSET Index]
    <3>1. late \in [Device -> SUBSET Index]
      BY DEF TypeOK
    <3>2. \E S \in SUBSET Index : late' = [late EXCEPT ![d] = S]
      <4>1. late[d] \in SUBSET Index /\ late[d] \cup {i} \in SUBSET Index
        BY <3>1
      <4>2. \/ late' = [late EXCEPT ![d] = late[d]]
            \/ late' = [late EXCEPT ![d] = late[d] \cup {i}]
        BY <1>1 DEF BeginCallback
      <4>3. QED
        BY <4>1, <4>2
    <3>3. QED
      BY <3>1, <3>2
  <2>5. QED
    BY <1>1, <2>1, <2>2, <2>3, <2>4 DEF BeginCallback, TypeOK, call_vars, device_vars, history
<1>2. CASE EndCallback(t, d, i)
  <2>1. transfers' \in [Device -> [Index -> {"idle", "submitted", "cancelling"}]]
    <3>1. \/ UNCHANGED transfers
          \/ transfers' = [transfers EXCEPT ![d] = [@ EXCEPT ![i] = "submitted"]]
      BY <1>2 DEF EndCallback
    <3>2. transfers \in [Device -> [Index -> {"idle", "submitted", "cancelling"}]]
      BY DEF TypeOK
    <3>3. QED
      BY <3>1, <3>2
  <2>2. do_exit' \in [Device -> BOOLEAN]
    BY <1>2 DEF EndCallback, request_exit, TypeOK
  <2>3. inCallback' \subseteq Thread \X Device \X Index
    BY <1>2 DEF EndCallback
  <2>4. QED
    BY <1>2, <2>1, <2>2, <2>3 DEF EndCallback, TypeOK, call_vars, history
<1>3. CASE TransferFails(t, d, i)
  BY <1>3 DEF TransferFails, request_exit, TypeOK, call_vars, history
<1>4. QED
  BY <1>1, <1>2, <1>3 DEF EventStep

(* Types of the transfer thread's variables.                               *)
LEMMA ThreadStepType ==
  ASSUME TypeOK, NEW d \in Device, ThreadStep(d)
  PROVE  TypeOK'
<1>1. CASE ThreadCheck(d)
  BY <1>1 DEF ThreadCheck, TypeOK, call_vars, device_vars, history
<1>2. CASE EventsReturn(d)
  BY <1>2 DEF EventsReturn, TypeOK, call_vars, device_vars, history
<1>3. CASE EventsFail(d)
  BY <1>3 DEF EventsFail, TypeOK, call_vars, history
<1>4. QED
  BY <1>1, <1>2, <1>3 DEF ThreadStep

(* Types of the application threads' variables.                            *)
LEMMA AppStepType ==
  ASSUME TypeOK, NEW d \in Device, AppStep(d)
  PROVE  TypeOK'
<1> USE DEF Pc, InControl, InStop, InJoin, Result, Direction
<1>0. arg[d] \in Direction \X (Client \cup {NULL}) /\ next[d] \in Index
  BY DEF TypeOK
<1>A. /\ arg \in [Device -> Direction \X (Client \cup {NULL})]
      /\ NoArg \in Direction \X (Client \cup {NULL})
  BY DEF TypeOK, NoArg
<1>1. CASE OpenDevice(d)
  BY <1>1 DEF OpenDevice, Return, device_vars, history, TypeOK
<1>2. ASSUME NEW dir \in Direction, NEW c \in Client, StartCall(d, dir, c)
      PROVE  TypeOK'
  BY <1>2 DEF StartCall, device_vars, history, TypeOK
<1>3. CASE StartControlReturn(d)
  <2> DEFINE dir == arg[d][1]
  <2>1. mode' \in [Device -> Direction \cup {"off"}]
    <3>1. \E m \in {mode[d], dir} : mode' = [mode EXCEPT ![d] = m]
      BY <1>3 DEF StartControlReturn, ModeRequestFails
    <3>2. mode \in [Device -> Direction \cup {"off"}] /\ dir \in Direction
      BY <1>0 DEF TypeOK
    <3>3. QED
      BY <3>1, <3>2
  <2>2. ctx' \in [Device -> [Direction -> Client \cup {NULL}]]
    <3>1. UNCHANGED ctx \/ ctx' = [ctx EXCEPT ![d] = [@ EXCEPT ![dir] = arg[d][2]]]
      BY <1>3 DEF StartControlReturn
    <3>2. /\ ctx \in [Device -> [Direction -> Client \cup {NULL}]]
          /\ arg[d][2] \in Client \cup {NULL}
      BY <1>0 DEF TypeOK
    <3>3. QED
      BY <3>1, <3>2
  <2>3. streaming' \in [Device -> BOOLEAN] /\ do_exit' \in [Device -> BOOLEAN]
    <3>1. \/ UNCHANGED <<streaming, do_exit>>
          \/ ResetFlags(d)
      BY <1>3 DEF StartControlReturn
    <3>2. streaming \in [Device -> BOOLEAN] /\ do_exit \in [Device -> BOOLEAN]
      BY DEF TypeOK
    <3>3. QED
      BY <3>1, <3>2 DEF ResetFlags
  <2>4. pc' \in [Device -> Pc] /\ ret' \in [Device -> Result]
    <3>1. \E p \in {"idle", "submit"} : pc' = [pc EXCEPT ![d] = p]
      BY <1>3 DEF StartControlReturn, StartReturn, Return
    <3>2. UNCHANGED ret \/ \E r \in {"LIBUSB", "BUSY"} : ret' = [ret EXCEPT ![d] = r]
      BY <1>3 DEF StartControlReturn, StartReturn, Return
    <3>3. pc \in [Device -> Pc] /\ ret \in [Device -> Result]
      BY DEF TypeOK
    <3>4. QED
      BY <3>1, <3>2, <3>3
  <2>5. arg' \in [Device -> Direction \X (Client \cup {NULL})]
    <3>1. UNCHANGED arg \/ arg' = [arg EXCEPT ![d] = NoArg]
      BY <1>3 DEF StartControlReturn, StartReturn
    <3>2. QED
      BY <1>A, <3>1
  <2>6. next' \in [Device -> Index] /\ disturbed' \in [Device -> BOOLEAN]
    <3>1. UNCHANGED next \/ next' = [next EXCEPT ![d] = 0]
      BY <1>3 DEF StartControlReturn
    <3>2. UNCHANGED disturbed \/ disturbed' = [disturbed EXCEPT ![d] = TRUE]
      BY <1>3 DEF StartControlReturn, ModeRequestFails
    <3>3. next \in [Device -> Index] /\ disturbed \in [Device -> BOOLEAN]
      BY DEF TypeOK
    <3>4. QED
      BY <3>1, <3>2, <3>3, IndexFacts
  <2>7. UNCHANGED <<transfer_thread_started, callback, transfers, endpoint,
                    thread, result1, result2, inCallback, crashed, tainted, late>>
    BY <1>3 DEF StartControlReturn
  <2>8. QED
    BY <2>1, <2>2, <2>3, <2>4, <2>5, <2>6, <2>7 DEF TypeOK
<1>4. CASE SubmitOne(d)
  <2>1. endpoint' \in [Device -> Direction]
    <3>1. endpoint' = [endpoint EXCEPT ![d] = arg[d][1]]
      BY <1>4 DEF SubmitOne
    <3>2. QED
      BY <1>0, <3>1 DEF TypeOK
  <2>2. transfers' \in [Device -> [Index -> {"idle", "submitted", "cancelling"}]]
    <3>1. \/ UNCHANGED transfers
          \/ transfers' = [transfers EXCEPT ![d] = [@ EXCEPT ![next[d]] = "submitted"]]
      BY <1>4 DEF SubmitOne
    <3>2. transfers \in [Device -> [Index -> {"idle", "submitted", "cancelling"}]]
      BY DEF TypeOK
    <3>3. QED
      BY <1>0, <3>1, <3>2
  <2>3. next' \in [Device -> Index]
    <3>1. \E j \in Index : next' = [next EXCEPT ![d] = j]
      BY <1>0, <1>4, IndexFacts DEF SubmitOne, LastTransfer
    <3>2. QED
      BY <3>1 DEF TypeOK
  <2>4. pc' \in [Device -> Pc] /\ ret' \in [Device -> Result]
    <3>1. \E p \in {"create", "submit", "idle"} : pc' = [pc EXCEPT ![d] = p]
      BY <1>4 DEF SubmitOne, StartReturn, Return
    <3>2. UNCHANGED ret \/ ret' = [ret EXCEPT ![d] = "LIBUSB"]
      BY <1>4 DEF SubmitOne, StartReturn, Return
    <3>3. pc \in [Device -> Pc] /\ ret \in [Device -> Result]
      BY DEF TypeOK
    <3>4. QED
      BY <3>1, <3>2, <3>3
  <2>5. arg' \in [Device -> Direction \X (Client \cup {NULL})]
    <3>1. UNCHANGED arg \/ arg' = [arg EXCEPT ![d] = NoArg]
      BY <1>4 DEF SubmitOne, StartReturn
    <3>2. QED
      BY <1>A, <3>1
  <2>6. tainted' \in [Device -> BOOLEAN]
    <3>1. UNCHANGED tainted \/ \E b \in BOOLEAN : tainted' = [tainted EXCEPT ![d] = b]
      <4>1. (tainted[d] \/ Outstanding(d)) \in BOOLEAN
        BY DEF TypeOK
      <4>2. \/ UNCHANGED tainted
            \/ tainted' = [tainted EXCEPT ![d] = tainted[d] \/ Outstanding(d)]
        BY <1>4 DEF SubmitOne
      <4>3. QED
        BY <4>1, <4>2
    <3>2. QED
      BY <3>1 DEF TypeOK
  <2>7. UNCHANGED <<transfer_thread_started, streaming, do_exit, callback, ctx,
                    thread, result1, result2, inCallback, crashed, mode, disturbed, late>>
    BY <1>4 DEF SubmitOne
  <2>8. QED
    BY <2>1, <2>2, <2>3, <2>4, <2>5, <2>6, <2>7 DEF TypeOK
<1>5. CASE CreateThread(d)
  <2>1. callback' \in [Device -> Client \cup {NULL}] /\ streaming' \in [Device -> BOOLEAN]
    <3>1. StoreSession(d)
      BY <1>5 DEF CreateThread
    <3>2. /\ callback \in [Device -> Client \cup {NULL}]
          /\ streaming \in [Device -> BOOLEAN]
          /\ arg[d][2] \in Client \cup {NULL}
      BY <1>0 DEF TypeOK
    <3>3. QED
      BY <3>1, <3>2 DEF StoreSession
  <2>2. /\ thread' \in [Device -> {"none", "check", "events", "exited"}]
        /\ transfer_thread_started' \in [Device -> BOOLEAN]
        /\ disturbed' \in [Device -> BOOLEAN]
        /\ tainted' \in [Device -> BOOLEAN]
    <3>1. /\ thread \in [Device -> {"none", "check", "events", "exited"}]
          /\ transfer_thread_started \in [Device -> BOOLEAN]
          /\ disturbed \in [Device -> BOOLEAN]
          /\ tainted \in [Device -> BOOLEAN]
      BY DEF TypeOK
    <3>2. QED
      BY <1>5, <3>1 DEF CreateThread
  <2>3. pc' \in [Device -> Pc] /\ ret' \in [Device -> Result]
    <3>1. pc' = [pc EXCEPT ![d] = "idle"]
      BY <1>5 DEF CreateThread, StartReturn, Return
    <3>2. \E r \in {"SUCCESS", "THREAD"} : ret' = [ret EXCEPT ![d] = r]
      BY <1>5 DEF CreateThread, StartReturn, Return
    <3>3. pc \in [Device -> Pc] /\ ret \in [Device -> Result]
      BY DEF TypeOK
    <3>4. QED
      BY <3>1, <3>2, <3>3
  <2>4. arg' \in [Device -> Direction \X (Client \cup {NULL})]
    <3>1. arg' = [arg EXCEPT ![d] = NoArg]
      BY <1>5 DEF CreateThread, StartReturn
    <3>2. QED
      BY <1>A, <3>1
  <2>5. UNCHANGED <<do_exit, ctx, transfers, endpoint, next, result1, result2,
                    inCallback, crashed, mode, late>>
    BY <1>5 DEF CreateThread
  <2>6. QED
    BY <2>1, <2>2, <2>3, <2>4, <2>5 DEF TypeOK
<1>6. CASE StopCall(d)
  BY <1>6 DEF StopCall, device_vars, history, TypeOK
<1>7. CASE CloseCall(d)
  BY <1>7 DEF CloseCall, device_vars, history, TypeOK
<1>8. CASE StopControlReturn(d)
  <2>1. /\ pc' \in [Device -> Pc]
        /\ result1' \in [Device -> Result]
        /\ result2' \in [Device -> Result]
        /\ ret' \in [Device -> Result]
    <3>1. CASE StopReturn(d, "LIBUSB") \/ StopReturn(d, "SUCCESS")
      BY <1>8, <3>1, StopReturnType DEF StopControlReturn
    <3>2. CASE pc' = [pc EXCEPT ![d] = Join(pc[d])] /\ UNCHANGED <<result1, result2, ret>>
      <4>1. Join(pc[d]) \in InJoin
        BY <1>8 DEF StopControlReturn, Join
      <4>2. QED
        BY <3>2, <4>1 DEF TypeOK
    <3>3. QED
      BY <1>8, <3>1, <3>2 DEF StopControlReturn
  <2>2. /\ mode' \in [Device -> Direction \cup {"off"}]
        /\ disturbed' \in [Device -> BOOLEAN]
        /\ do_exit' \in [Device -> BOOLEAN]
    <3>1. \E m \in {mode[d], "off"} : mode' = [mode EXCEPT ![d] = m]
      BY <1>8 DEF StopControlReturn, ModeRequestFails
    <3>2. UNCHANGED disturbed \/ disturbed' = [disturbed EXCEPT ![d] = TRUE]
      BY <1>8 DEF StopControlReturn, ModeRequestFails
    <3>3. UNCHANGED do_exit \/ do_exit' = [do_exit EXCEPT ![d] = TRUE]
      BY <1>8 DEF StopControlReturn
    <3>4. /\ mode \in [Device -> Direction \cup {"off"}]
          /\ disturbed \in [Device -> BOOLEAN]
          /\ do_exit \in [Device -> BOOLEAN]
      BY DEF TypeOK
    <3>5. QED
      BY <3>1, <3>2, <3>3, <3>4
  <2>3. QED
    BY <1>8, <2>1, <2>2 DEF StopControlReturn, TypeOK
<1>9. CASE JoinThread(d)
  <2>1. /\ pc' \in [Device -> Pc]
        /\ result1' \in [Device -> Result]
        /\ result2' \in [Device -> Result]
        /\ ret' \in [Device -> Result]
    BY <1>9, StopReturnType DEF JoinThread, JoinFails
  <2>2. transfers' \in [Device -> [Index -> {"idle", "submitted", "cancelling"}]]
    <3>1. transfers \in [Device -> [Index -> {"idle", "submitted", "cancelling"}]]
      BY DEF TypeOK
    <3>2. cancel_transfers(transfers[d]) \in [Index -> {"idle", "submitted", "cancelling"}]
      BY <3>1 DEF cancel_transfers
    <3>3. \/ UNCHANGED transfers
          \/ transfers' = [transfers EXCEPT ![d] = cancel_transfers(transfers[d])]
      BY <1>9 DEF JoinThread, JoinFails
    <3>4. QED
      BY <3>1, <3>2, <3>3
  <2>3. /\ thread' \in [Device -> {"none", "check", "events", "exited"}]
        /\ transfer_thread_started' \in [Device -> BOOLEAN]
        /\ late' \in [Device -> SUBSET Index]
    <3>1. /\ thread \in [Device -> {"none", "check", "events", "exited"}]
          /\ transfer_thread_started \in [Device -> BOOLEAN]
          /\ late \in [Device -> SUBSET Index]
      BY DEF TypeOK
    <3>2. {} \in SUBSET Index
      OBVIOUS
    <3>3. QED
      BY <1>9, <3>1, <3>2 DEF JoinThread, JoinFails
  <2>4. QED
    BY <1>9, <2>1, <2>2, <2>3 DEF JoinThread, TypeOK
<1>10. CASE FreeDevice(d)
  BY <1>10 DEF FreeDevice, Return, libusb_close, close_result, history, TypeOK
<1>11. QED
  BY <1>1, <1>2, <1>3, <1>4, <1>5, <1>6, <1>7, <1>8, <1>9, <1>10 DEF AppStep

(* Every step keeps the types.                                             *)
LEMMA NextType == TypeOK /\ [Next]_vars => TypeOK'
<1> SUFFICES ASSUME TypeOK, [Next]_vars PROVE TypeOK'
  OBVIOUS
<1>1. CASE UNCHANGED vars
  BY <1>1 DEF vars, device_vars, call_vars, history, TypeOK
<1>2. CASE Next
  BY <1>1, <1>2, AppStepType, ThreadStepType, EventStepType DEF Next
<1>3. QED
  BY <1>1, <1>2

(***************************************************************************)
(* Every reachable state of the engine is well typed: in particular        *)
(* prepare_transfers never leaves the array of transfers, and every call   *)
(* of the application is at a known point.                                 *)
(***************************************************************************)
THEOREM TypeCorrect == Spec => []TypeOK
<1>1. Init => TypeOK
  BY IndexFacts, NullAssumption DEF Init, TypeOK, NoArg, Direction, Pc, Result
<1>2. QED
  BY <1>1, NextType, PTL DEF Spec

-----------------------------------------------------------------------------
(* The inductive invariant.                                                *)

(* The application's flag and the thread agree: kill_transfer_thread       *)
(* clears the flag only after the join.                                    *)
FlagOwnsThread(d) == transfer_thread_started[d] <=> thread[d] # "none"

(* No thread exists while a start builds the next session, and none before *)
(* hackrf_open.                                                            *)
NoThreadYet(d) == pc[d] \in {"new", "submit", "create"} => ~transfer_thread_started[d]

(* A joiner has asked for the exit of a thread that exists.                *)
JoinAsked(d) == pc[d] \in InJoin => transfer_thread_started[d] /\ do_exit[d]

(* The thread leaves its loop for a reason that lasts.                     *)
ExitHasReason(d) == thread[d] = "exited" => ~KeepsRunning(d)

(* What hackrf_close has learnt from its two stops.                        *)
CloseKnows(d) ==
  transfer_thread_started[d] =>
    /\ pc[d] \in {"tx_ctl", "tx_join", "close_usb", "freed"} => result1[d] # "SUCCESS"
    /\ pc[d] \in {"close_usb", "freed"} => result2[d] # "SUCCESS"
    /\ pc[d] = "freed" => ret[d] # "SUCCESS"

(* libusb knows nothing of an object that is not open.                     *)
Unlinked(d) ==
  pc[d] \in {"new", "freed"} =>
    /\ \A i \in Index : transfers[d][i] = "idle"
    /\ \A cb \in inCallback : cb[2] # d

(* All of it, for one device.                                              *)
DeviceInv(d) ==
  /\ FlagOwnsThread(d)
  /\ NoThreadYet(d)
  /\ JoinAsked(d)
  /\ ExitHasReason(d)
  /\ CloseKnows(d)
  /\ Unlinked(d)

IInv == TypeOK /\ \A d \in Device : DeviceInv(d)

(* The state DeviceInv(e) reads, apart from callbacks in progress, is as   *)
(* it was.                                                                 *)
Same(e) ==
  /\ transfer_thread_started'[e] = transfer_thread_started[e]
  /\ thread'[e]    = thread[e]
  /\ pc'[e]        = pc[e]
  /\ streaming'[e] = streaming[e]
  /\ do_exit'[e]   = do_exit[e]
  /\ result1'[e]   = result1[e]
  /\ result2'[e]   = result2[e]
  /\ ret'[e]       = ret[e]
  /\ transfers'[e] = transfers[e]

LEMMA Frame ==
  ASSUME NEW e \in Device, DeviceInv(e), Same(e),
         \A cb \in inCallback' : cb \in inCallback \/ cb[2] # e
  PROVE  DeviceInv(e)'
BY DEF DeviceInv, Same, FlagOwnsThread, NoThreadYet, JoinAsked, ExitHasReason,
       KeepsRunning, CloseKnows, Unlinked

(* A call on one device leaves the others alone.                           *)
LEMMA AppFrame ==
  ASSUME TypeOK, NEW d \in Device, AppStep(d), NEW e \in Device, e # d
  PROVE  Same(e) /\ UNCHANGED inCallback
<1>1. CASE OpenDevice(d)
  BY <1>1 DEF OpenDevice, Return, device_vars, TypeOK, Same
<1>2. ASSUME NEW dir \in Direction, NEW c \in Client, StartCall(d, dir, c)
      PROVE  Same(e) /\ UNCHANGED inCallback
  BY <1>2 DEF StartCall, device_vars, TypeOK, Same
<1>3. CASE StartControlReturn(d)
  BY <1>3 DEF StartControlReturn, ResetFlags, StartReturn, Return, TypeOK, Same
<1>4. CASE SubmitOne(d)
  BY <1>4 DEF SubmitOne, StartReturn, Return, TypeOK, Same
<1>5. CASE CreateThread(d)
  BY <1>5 DEF CreateThread, StoreSession, StartReturn, Return, TypeOK, Same
<1>6. CASE StopCall(d)
  BY <1>6 DEF StopCall, device_vars, TypeOK, Same
<1>7. CASE CloseCall(d)
  BY <1>7 DEF CloseCall, device_vars, TypeOK, Same
<1>8. CASE StopControlReturn(d)
  BY <1>8 DEF StopControlReturn, StopReturn, Return, TypeOK, Same
<1>9. CASE JoinThread(d)
  BY <1>9 DEF JoinThread, JoinFails, StopReturn, Return, TypeOK, Same
<1>10. CASE FreeDevice(d)
  BY <1>10 DEF FreeDevice, Return, TypeOK, Same
<1>11. QED
  BY <1>1, <1>2, <1>3, <1>4, <1>5, <1>6, <1>7, <1>8, <1>9, <1>10 DEF AppStep

LEMMA AppInv ==
  ASSUME IInv, NEW d \in Device, AppStep(d)
  PROVE  DeviceInv(d)'
<1> USE DEF DeviceInv, FlagOwnsThread, NoThreadYet, JoinAsked, ExitHasReason,
            KeepsRunning, CloseKnows, Unlinked, InJoin
<1>0. TypeOK /\ DeviceInv(d)
  BY DEF IInv
<1>1. CASE OpenDevice(d)
  BY <1>0, <1>1 DEF OpenDevice, Return, device_vars, history, TypeOK
<1>2. ASSUME NEW dir \in Direction, NEW c \in Client, StartCall(d, dir, c)
      PROVE  DeviceInv(d)'
  BY <1>0, <1>2 DEF StartCall, device_vars, history, TypeOK
<1>3. CASE StartControlReturn(d)
  BY <1>0, <1>3 DEF StartControlReturn, MayCreate, ResetFlags, StartReturn, Return, TypeOK
<1>4. CASE SubmitOne(d)
  BY <1>0, <1>4 DEF SubmitOne, StartReturn, Return, TypeOK
<1>5. CASE CreateThread(d)
  BY <1>0, <1>5 DEF CreateThread, StoreSession, StartReturn, Return, TypeOK
<1>6. CASE StopCall(d)
  BY <1>0, <1>6 DEF StopCall, device_vars, history, TypeOK
<1>7. CASE CloseCall(d)
  BY <1>0, <1>7 DEF CloseCall, device_vars, history, TypeOK
<1>8. CASE StopControlReturn(d)
  BY <1>0, <1>8 DEF StopControlReturn, StopReturn, Return, Join, InStop, TypeOK
<1>9. CASE JoinThread(d)
  BY <1>0, <1>9 DEF JoinThread, JoinFails, Joinable, StopReturn, Return, TypeOK
<1>10. CASE FreeDevice(d)
  BY <1>0, <1>10 DEF FreeDevice, NoEventHandler, libusb_close, close_result, Return, TypeOK
<1>11. QED
  BY <1>1, <1>2, <1>3, <1>4, <1>5, <1>6, <1>7, <1>8, <1>9, <1>10 DEF AppStep

(* A step of the transfer thread.                                          *)
LEMMA ThreadInv ==
  ASSUME IInv, NEW d \in Device, ThreadStep(d), NEW e \in Device
  PROVE  DeviceInv(e)'
<1> USE DEF DeviceInv, FlagOwnsThread, NoThreadYet, JoinAsked, ExitHasReason,
            KeepsRunning, CloseKnows, Unlinked, InJoin
<1>0. TypeOK /\ DeviceInv(e)
  BY DEF IInv
<1>1. CASE ThreadCheck(d)
  BY <1>0, <1>1 DEF ThreadCheck, device_vars, call_vars, history, TypeOK
<1>2. CASE EventsReturn(d)
  BY <1>0, <1>2 DEF EventsReturn, device_vars, call_vars, history, TypeOK
<1>3. CASE EventsFail(d)
  BY <1>0, <1>3 DEF EventsFail, call_vars, history, TypeOK
<1>4. QED
  BY <1>1, <1>2, <1>3 DEF ThreadStep

(* A transfer ends in an event handler: its device is open, because it has *)
(* a transfer in flight or a callback running.                             *)
LEMMA EventInv ==
  ASSUME IInv, NEW t \in Thread, NEW d \in Device, NEW i \in Index,
         EventStep(t, d, i), NEW e \in Device
  PROVE  DeviceInv(e)'
<1> USE DEF DeviceInv, FlagOwnsThread, NoThreadYet, JoinAsked, ExitHasReason,
            KeepsRunning, CloseKnows, Unlinked, InJoin
<1>0. TypeOK /\ DeviceInv(e) /\ DeviceInv(d)
  BY DEF IInv
<1>1. CASE BeginCallback(t, d, i)
  BY <1>0, <1>1 DEF BeginCallback, NoEventHandler, MayComplete, call_vars, history, TypeOK
<1>2. CASE EndCallback(t, d, i)
  BY <1>0, <1>2 DEF EndCallback, request_exit, call_vars, history, TypeOK
<1>3. CASE TransferFails(t, d, i)
  BY <1>0, <1>3 DEF TransferFails, request_exit, call_vars, history, TypeOK
<1>4. QED
  BY <1>1, <1>2, <1>3 DEF EventStep

(* Every step keeps the inductive invariant.                               *)
LEMMA NextInv == IInv /\ [Next]_vars => IInv'
<1> SUFFICES ASSUME IInv, [Next]_vars PROVE IInv'
  OBVIOUS
<1>1. TypeOK'
  BY NextType DEF IInv
<1>2. ASSUME NEW e \in Device PROVE DeviceInv(e)'
  <2>0. TypeOK /\ DeviceInv(e)
    BY DEF IInv
  <2>1. CASE UNCHANGED vars
    BY <2>0, <2>1, Frame DEF vars, device_vars, call_vars, history, Same
  <2>2. ASSUME NEW d \in Device, AppStep(d) PROVE DeviceInv(e)'
    BY <2>0, <2>2, AppInv, AppFrame, Frame
  <2>3. QED
    BY <2>1, <2>2, ThreadInv, EventInv DEF Next
<1>3. QED
  BY <1>1, <1>2 DEF IInv

LEMMA Invariance == Spec => []IInv
<1>1. Init => IInv
  <2>1. Init => TypeOK
    BY IndexFacts, NullAssumption DEF Init, TypeOK, NoArg, Direction, Pc, Result
  <2>2. ASSUME Init, NEW d \in Device PROVE DeviceInv(d)
    <3>1. ~transfer_thread_started[d] /\ thread[d] = "none" /\ pc[d] = "new"
      BY <2>2 DEF Init
    <3>2. Unlinked(d)
      BY <2>2 DEF Init, Unlinked
    <3>3. QED
      BY <3>1, <3>2 DEF DeviceInv, FlagOwnsThread, NoThreadYet, JoinAsked,
                        ExitHasReason, CloseKnows, InJoin
  <2>3. QED
    BY <2>1, <2>2 DEF IInv
<1>2. QED
  BY <1>1, NextInv, PTL DEF Spec

-----------------------------------------------------------------------------
(***************************************************************************)
(* hackrf_is_streaming answers HACKRF_TRUE only while a transfer thread is *)
(* in its loop, for any number of devices and under every failure.         *)
(***************************************************************************)
THEOREM StreamingHasWorkerHolds == Spec => []StreamingHasWorker
<1>1. IInv => StreamingHasWorker
  BY DEF IInv, DeviceInv, FlagOwnsThread, ExitHasReason, KeepsRunning, TypeOK,
         StreamingHasWorker, hackrf_is_streaming
<1>2. QED
  BY <1>1, Invariance, PTL

(***************************************************************************)
(* hackrf_close leaves a transfer thread behind only after hackrf_stop_rx  *)
(* and hackrf_stop_tx both failed, and says so; and only such a thread     *)
(* ever reads a freed device object.                                       *)
(***************************************************************************)
THEOREM SafeCloseHolds == Spec => []SafeClose
<1> DEFINE Blamed == crashed = "use_after_free" => \E d \in Device : Orphan(d)
<1>1. Init => Blamed
  BY DEF Init
<1>2. IInv /\ Blamed /\ [Next]_vars => Blamed'
  <2> SUFFICES ASSUME Blamed, [Next]_vars, crashed' = "use_after_free"
               PROVE  \E d \in Device : Orphan(d)'
    OBVIOUS
  <2>1. CASE crashed = "use_after_free"
    <3>1. UNCHANGED vars
      BY <2>1 DEF Next
    <3>2. QED
      BY <2>1, <3>1 DEF vars, call_vars, Orphan
  <2>2. CASE crashed # "use_after_free"
    <3>1. ~UNCHANGED vars
      BY <2>2 DEF vars
    <3>2. \A d \in Device : ~AppStep(d)
      BY <2>2 DEF AppStep, OpenDevice, StartCall, StartControlReturn, SubmitOne,
                  CreateThread, StopCall, CloseCall, StopControlReturn, JoinThread,
                  FreeDevice
    <3>3. \A t \in Thread, d \in Device, i \in Index : ~EventStep(t, d, i)
      BY <2>2 DEF EventStep, BeginCallback, EndCallback, TransferFails
    <3>4. PICK d \in Device : ThreadStep(d)
      BY <3>1, <3>2, <3>3 DEF Next
    <3>5. pc[d] = "freed" /\ thread[d] # "none" /\ UNCHANGED <<pc, thread>>
      BY <2>2, <3>4 DEF ThreadStep, ThreadCheck, EventsReturn, EventsFail, call_vars
    <3>6. QED
      BY <3>5 DEF Orphan
  <2>3. QED
    BY <2>1, <2>2
<1>3. IInv /\ Blamed => SafeClose
  BY DEF IInv, DeviceInv, FlagOwnsThread, CloseKnows, SafeClose, Orphan
<1> HIDE DEF Blamed
<1>4. QED
  BY <1>1, <1>2, <1>3, Invariance, PTL DEF Spec

(***************************************************************************)
(* A session that has ended stays ended until its thread has been joined.  *)
(***************************************************************************)
THEOREM NeverResurrectsHolds == Spec => NeverResurrects
<1> DEFINE Step == \A d \in Device :
                     thread[d] # "none" /\ hackrf_is_streaming(d) # "TRUE"
                       => hackrf_is_streaming(d)' # "TRUE"
<1>1. IInv /\ [Next]_vars => [Step]_vars
  <2> SUFFICES ASSUME IInv, Next, NEW e \in Device,
                      thread[e] # "none", hackrf_is_streaming(e) # "TRUE",
                      hackrf_is_streaming(e)' = "TRUE"
               PROVE  FALSE
    OBVIOUS
  <2>0. TypeOK /\ transfer_thread_started[e] /\ ~KeepsRunning(e)
    BY DEF IInv, DeviceInv, FlagOwnsThread, hackrf_is_streaming, KeepsRunning, TypeOK
  <2>9. KeepsRunning(e)'
    BY DEF hackrf_is_streaming, KeepsRunning
  <2>1. ASSUME NEW d \in Device, AppStep(d) PROVE FALSE
    <3>1. e = d
      BY <2>0, <2>1, <2>9, AppFrame DEF Same, KeepsRunning
    <3>2. ~CreateThread(d) /\ ~ResetFlags(d)
      <4>1. ~CreateThread(d)
        BY <2>0, <3>1 DEF IInv, DeviceInv, NoThreadYet, CreateThread
      <4>2. ~ResetFlags(d)
        BY <2>0, <2>9, <3>1 DEF ResetFlags, KeepsRunning, TypeOK
      <4>3. QED
        BY <4>1, <4>2
    <3>3. UNCHANGED streaming
      BY <2>1, <3>2 DEF AppStep, OpenDevice, StartCall, StartControlReturn, SubmitOne,
                        StopCall, CloseCall, StopControlReturn, JoinThread, FreeDevice,
                        device_vars
    <3>4. UNCHANGED do_exit \/ do_exit' = [do_exit EXCEPT ![d] = TRUE]
      BY <2>1, <3>2 DEF AppStep, OpenDevice, StartCall, StartControlReturn, SubmitOne,
                        StopCall, CloseCall, StopControlReturn, JoinThread, FreeDevice,
                        device_vars
    <3>5. QED
      BY <2>0, <2>9, <3>1, <3>3, <3>4 DEF KeepsRunning, TypeOK
  <2>2. ASSUME NEW d \in Device, ThreadStep(d) PROVE FALSE
    BY <2>0, <2>2, <2>9 DEF ThreadStep, ThreadCheck, EventsReturn, EventsFail,
                            device_vars, history, KeepsRunning, TypeOK
  <2>3. ASSUME NEW t \in Thread, NEW d \in Device, NEW i \in Index, EventStep(t, d, i)
        PROVE  FALSE
    BY <2>0, <2>3, <2>9 DEF EventStep, BeginCallback, EndCallback, TransferFails,
                            request_exit, KeepsRunning, TypeOK
  <2>4. CASE UNCHANGED vars
    BY <2>0, <2>4, <2>9 DEF vars, device_vars, KeepsRunning
  <2>5. QED
    BY <2>1, <2>2, <2>3, <2>4 DEF Next
<1>2. QED
  BY <1>1, Invariance, PTL DEF Spec, NeverResurrects

-----------------------------------------------------------------------------
(* Refinement of StreamSession.                                            *)

(* One device's part of a step of StreamSession.                           *)
Moves(d, from, to) == SessionOf(d) = from /\ SessionOf(d)' = to

SessionStep(d) ==
  \/ SessionOf(d)' = SessionOf(d) /\ WorkerOf(d)' = WorkerOf(d)
  \/ Moves(d, "new", "idle") /\ WorkerOf(d)' = WorkerOf(d)
  \/ Moves(d, "idle", "live") /\ WorkerOf(d)'
  \/ Moves(d, "idle", "ended") /\ WorkerOf(d)'
  \/ Moves(d, "live", "ended") /\ WorkerOf(d)' = WorkerOf(d)
  \/ Moves(d, "ended", "ended") /\ ~WorkerOf(d)'
  \/ Moves(d, "ended", "idle") /\ ~WorkerOf(d) /\ ~WorkerOf(d)'
  \/ Moves(d, "idle", "gone") /\ WorkerOf(d)' = WorkerOf(d)
  \/ Moves(d, "live", "gone") /\ WorkerOf(d)' = WorkerOf(d)
  \/ Moves(d, "ended", "gone") /\ WorkerOf(d)' = WorkerOf(d)

(* A step in which only d moves is a step of StreamSession, or none.       *)
LEMMA Lift ==
  ASSUME NEW d \in Device, SessionStep(d),
         \A e \in Device : e # d => /\ SessionOf(e)' = SessionOf(e)
                                    /\ WorkerOf(e)' = WorkerOf(e)
  PROVE  [Session!Next]_(Session!vars)
<1> DEFINE s == [e \in Device |-> SessionOf(e)]
           w == [e \in Device |-> WorkerOf(e)]
<1>0. /\ s' = [s EXCEPT ![d] = SessionOf(d)']
      /\ w' = [w EXCEPT ![d] = WorkerOf(d)']
      /\ s[d] = SessionOf(d)
      /\ w[d] = WorkerOf(d)
  OBVIOUS
<1> HIDE DEF s, w
<1>1. CASE SessionOf(d)' = SessionOf(d) /\ WorkerOf(d)' = WorkerOf(d)
  <2>1. s' = s /\ w' = w
    BY <1>0, <1>1 DEF s, w
  <2>2. QED
    BY <2>1 DEF s, w, Session!vars
<1> USE DEF Session!Move, Moves
<1>2. CASE Moves(d, "new", "idle") /\ WorkerOf(d)' = WorkerOf(d)
  <2>1. Session!Open(d)
    BY <1>0, <1>2 DEF s, w, Session!Open
  <2>2. QED
    BY <2>1 DEF Session!Next
<1>3. CASE Moves(d, "idle", "live") /\ WorkerOf(d)'
  <2>1. Session!Start(d)
    BY <1>0, <1>3 DEF s, w, Session!Start, WorkerOf
  <2>2. QED
    BY <2>1 DEF Session!Next
<1>4. CASE Moves(d, "idle", "ended") /\ WorkerOf(d)'
  <2>1. Session!StartStillborn(d)
    BY <1>0, <1>4 DEF s, w, Session!StartStillborn, WorkerOf
  <2>2. QED
    BY <2>1 DEF Session!Next
<1>5. CASE Moves(d, "live", "ended") /\ WorkerOf(d)' = WorkerOf(d)
  <2>1. Session!End(d)
    BY <1>0, <1>5 DEF s, w, Session!End
  <2>2. QED
    BY <2>1 DEF Session!Next
<1>6. CASE Moves(d, "ended", "ended") /\ ~WorkerOf(d)'
  <2>1. Session!Quit(d)
    <3>1. WorkerOf(d)' = FALSE
      BY <1>6 DEF WorkerOf
    <3>2. s' = s
      BY <1>6 DEF s
    <3>3. QED
      BY <1>0, <1>6, <3>1, <3>2 DEF s, w, Session!Quit
  <2>2. QED
    BY <2>1 DEF Session!Next
<1>7. CASE Moves(d, "ended", "idle") /\ ~WorkerOf(d) /\ ~WorkerOf(d)'
  <2>1. Session!Stop(d)
    <3>1. WorkerOf(d)' = WorkerOf(d)
      BY <1>7 DEF WorkerOf
    <3>2. w' = w /\ ~w[d]
      BY <1>7, <3>1 DEF w
    <3>3. QED
      BY <1>0, <1>7, <3>2 DEF s, w, Session!Stop
  <2>2. QED
    BY <2>1 DEF Session!Next
<1>8. CASE Moves(d, "idle", "gone") /\ WorkerOf(d)' = WorkerOf(d)
  <2>1. Session!Close(d)
    BY <1>0, <1>8 DEF s, w, Session!Close
  <2>2. QED
    BY <2>1 DEF Session!Next
<1>9. CASE (Moves(d, "live", "gone") \/ Moves(d, "ended", "gone"))
           /\ WorkerOf(d)' = WorkerOf(d)
  <2>1. Session!Abandon(d)
    BY <1>0, <1>9 DEF s, w, Session!Abandon
  <2>2. QED
    BY <2>1 DEF Session!Next
<1>10. QED
  BY <1>1, <1>2, <1>3, <1>4, <1>5, <1>6, <1>7, <1>8, <1>9 DEF SessionStep

(* The mapping reads nothing but what Same keeps.                          *)
LEMMA MapFrame ==
  ASSUME NEW e \in Device, Same(e)
  PROVE  SessionOf(e)' = SessionOf(e) /\ WorkerOf(e)' = WorkerOf(e)
BY DEF Same, SessionOf, WorkerOf, hackrf_is_streaming

LEMMA AppSession ==
  ASSUME IInv, NEW d \in Device, AppStep(d)
  PROVE  SessionStep(d)
<1> USE DEF SessionStep, Moves, SessionOf, WorkerOf, hackrf_is_streaming
<1>0. TypeOK /\ DeviceInv(d)
  BY DEF IInv
<1>1. CASE OpenDevice(d)
  BY <1>0, <1>1 DEF OpenDevice, Return, device_vars, history, TypeOK, DeviceInv, NoThreadYet
<1>2. ASSUME NEW dir \in Direction, NEW c \in Client, StartCall(d, dir, c)
      PROVE  SessionStep(d)
  BY <1>0, <1>2 DEF StartCall, device_vars, history, TypeOK
<1>3. CASE StartControlReturn(d)
  BY <1>0, <1>3 DEF StartControlReturn, MayCreate, ResetFlags, StartReturn, Return, TypeOK
<1>4. CASE SubmitOne(d)
  BY <1>0, <1>4 DEF SubmitOne, StartReturn, Return, TypeOK
<1>5. CASE CreateThread(d)
  BY <1>0, <1>5 DEF CreateThread, StoreSession, StartReturn, Return, TypeOK,
                    DeviceInv, NoThreadYet
<1>6. CASE StopCall(d)
  BY <1>0, <1>6 DEF StopCall, device_vars, history, TypeOK
<1>7. CASE CloseCall(d)
  BY <1>0, <1>7 DEF CloseCall, device_vars, history, TypeOK
<1>8. CASE StopControlReturn(d)
  BY <1>0, <1>8 DEF StopControlReturn, StopReturn, Return, Join, InStop, TypeOK
<1>9. CASE JoinThread(d)
  BY <1>0, <1>9 DEF JoinThread, JoinFails, Joinable, StopReturn, Return, TypeOK,
                    InJoin, DeviceInv, JoinAsked
<1>10. CASE FreeDevice(d)
  BY <1>0, <1>10 DEF FreeDevice, Return, history, TypeOK
<1>11. QED
  BY <1>1, <1>2, <1>3, <1>4, <1>5, <1>6, <1>7, <1>8, <1>9, <1>10 DEF AppStep

(* A step of d's transfer thread, or the end of one of d's transfers.      *)
LEMMA OtherSession ==
  ASSUME IInv, NEW d \in Device,
         \/ ThreadStep(d)
         \/ \E t \in Thread, i \in Index : EventStep(t, d, i)
  PROVE  /\ SessionStep(d)
         /\ \A e \in Device : e # d => /\ SessionOf(e)' = SessionOf(e)
                                       /\ WorkerOf(e)' = WorkerOf(e)
<1> USE DEF SessionStep, Moves, SessionOf, WorkerOf, hackrf_is_streaming
<1>0. TypeOK /\ DeviceInv(d)
  BY DEF IInv
<1>1. CASE ThreadCheck(d)
  BY <1>0, <1>1 DEF ThreadCheck, KeepsRunning, device_vars, call_vars, history, TypeOK,
                    DeviceInv, FlagOwnsThread, NoThreadYet
<1>2. CASE EventsReturn(d)
  BY <1>0, <1>2 DEF EventsReturn, device_vars, call_vars, history, TypeOK
<1>3. CASE EventsFail(d)
  BY <1>0, <1>3 DEF EventsFail, call_vars, history, TypeOK, DeviceInv, FlagOwnsThread
<1>4. ASSUME NEW t \in Thread, NEW i \in Index, EventStep(t, d, i)
      PROVE  /\ SessionStep(d)
             /\ \A e \in Device : e # d => /\ SessionOf(e)' = SessionOf(e)
                                           /\ WorkerOf(e)' = WorkerOf(e)
  <2>1. UNCHANGED <<transfer_thread_started, streaming, thread, pc>>
    BY <1>4 DEF EventStep, BeginCallback, EndCallback, TransferFails, call_vars
  <2>2. UNCHANGED do_exit \/ do_exit' = [do_exit EXCEPT ![d] = TRUE]
    BY <1>4 DEF EventStep, BeginCallback, EndCallback, TransferFails, request_exit
  <2>3. QED
    BY <1>0, <2>1, <2>2 DEF TypeOK
<1>5. QED
  BY <1>1, <1>2, <1>3, <1>4 DEF ThreadStep

(***************************************************************************)
(* The streaming engine implements StreamSession: every call, transfer     *)
(* ending and thread step moves at most one device through its session.    *)
(***************************************************************************)
THEOREM ImplementsSessionHolds == Spec => ImplementsSession
<1>1. Init => Session!Init
  <2> SUFFICES ASSUME Init PROVE Session!Init
    OBVIOUS
  <2>1. ASSUME NEW d \in Device PROVE SessionOf(d) = "new" /\ WorkerOf(d) = FALSE
    BY DEF Init, SessionOf, WorkerOf
  <2>2. QED
    BY <2>1 DEF Session!Init
<1>2. IInv /\ [Next]_vars => [Session!Next]_(Session!vars)
  <2> SUFFICES ASSUME IInv, [Next]_vars PROVE [Session!Next]_(Session!vars)
    OBVIOUS
  <2>1. ASSUME NEW d \in Device, AppStep(d) PROVE [Session!Next]_(Session!vars)
    <3>1. \A e \in Device : e # d => /\ SessionOf(e)' = SessionOf(e)
                                     /\ WorkerOf(e)' = WorkerOf(e)
      BY <2>1, AppFrame, MapFrame DEF IInv
    <3>2. QED
      BY <2>1, <3>1, AppSession, Lift
  <2>2. ASSUME NEW d \in Device,
               \/ ThreadStep(d)
               \/ \E t \in Thread, i \in Index : EventStep(t, d, i)
        PROVE  [Session!Next]_(Session!vars)
    BY <2>2, OtherSession, Lift
  <2>3. CASE UNCHANGED vars
    <3>1. \A e \in Device : SessionOf(e)' = SessionOf(e) /\ WorkerOf(e)' = WorkerOf(e)
      BY <2>3, MapFrame DEF vars, device_vars, call_vars, history, Same
    <3>2. QED
      BY <3>1 DEF Session!vars
  <2>4. QED
    BY <2>1, <2>2, <2>3 DEF Next
<1>3. QED
  BY <1>1, <1>2, Invariance, PTL DEF Spec, ImplementsSession, Session!Spec

-----------------------------------------------------------------------------
(* A session's parts come from one start.                                  *)

(* From the mode request on, a start has set the board's mode and stored   *)
(* its context; after prepare_transfers the transfers have its endpoint.   *)
StartStored(d) ==
  /\ pc[d] \in {"submit", "create"} =>
       mode[d] = arg[d][1] /\ ctx[d][arg[d][1]] = arg[d][2]
  /\ pc[d] = "create" => endpoint[d] = arg[d][1]

(* Wherever its application thread is, a session that runs undisturbed is  *)
(* the one its start made.                                                 *)
Coherent(d) ==
  transfer_thread_started[d] /\ KeepsRunning(d) /\ ~disturbed[d] =>
    mode[d] = endpoint[d] /\ ctx[d][endpoint[d]] = callback[d]

(* Together they are inductive, given IInv.                                *)
SessionInv(d) == StartStored(d) /\ Coherent(d)

(* A step that leaves all of this device alone.                            *)
LEMMA SessionFrame ==
  ASSUME NEW e \in Device, SessionInv(e),
         transfer_thread_started'[e] = transfer_thread_started[e],
         pc'[e] = pc[e], mode'[e] = mode[e], arg'[e] = arg[e], ctx'[e] = ctx[e],
         endpoint'[e] = endpoint[e], callback'[e] = callback[e],
         disturbed'[e] = disturbed[e],
         KeepsRunning(e)' => KeepsRunning(e)
  PROVE  SessionInv(e)'
BY DEF SessionInv, StartStored, Coherent

(* Steps of application threads.                                           *)
LEMMA AppSessionInv ==
  ASSUME IInv, NEW d \in Device, AppStep(d), NEW e \in Device, SessionInv(e)
  PROVE  SessionInv(e)'
<1> USE DEF SessionInv, StartStored, Coherent, KeepsRunning
<1>0. TypeOK /\ DeviceInv(e)
  BY DEF IInv
<1>1. CASE OpenDevice(d)
  BY <1>0, <1>1 DEF OpenDevice, Return, device_vars, history, TypeOK
<1>2. ASSUME NEW dir \in Direction, NEW c \in Client, StartCall(d, dir, c)
      PROVE  SessionInv(e)'
  BY <1>0, <1>2 DEF StartCall, device_vars, history, TypeOK
<1>3. CASE StartControlReturn(d)
  <2> DEFINE dir == arg[d][1]
  <2>1. pc[d] = "start_ctl" /\ UNCHANGED <<transfer_thread_started, callback, endpoint>>
    BY <1>3 DEF StartControlReturn
  <2>2. dir \in Direction
    BY <1>0 DEF TypeOK
  <2>3. CASE /\ ModeRequestFails(d, dir) /\ StartReturn(d, "LIBUSB")
             /\ UNCHANGED <<streaming, do_exit, ctx>>
    BY <1>0, <2>1, <2>3 DEF ModeRequestFails, StartReturn, Return, TypeOK
  <2>4. CASE /\ mode' = [mode EXCEPT ![d] = dir]
             /\ ctx'  = [ctx EXCEPT ![d] = [ctx[d] EXCEPT ![dir] = arg[d][2]]]
             /\ StartReturn(d, "BUSY")
             /\ disturbed' = [disturbed EXCEPT ![d] = TRUE]
             /\ UNCHANGED <<streaming, do_exit>>
    BY <1>0, <2>1, <2>4 DEF StartReturn, Return, TypeOK
  <2>5. CASE /\ mode' = [mode EXCEPT ![d] = dir]
             /\ ctx'  = [ctx EXCEPT ![d] = [ctx[d] EXCEPT ![dir] = arg[d][2]]]
             /\ MayCreate(d) /\ ResetFlags(d)
             /\ pc' = [pc EXCEPT ![d] = "submit"]
             /\ UNCHANGED <<arg, disturbed>>
    <3>1. CASE e = d
      <4>1. /\ ctx'[d][dir] = arg[d][2] /\ mode'[d] = dir /\ arg'[d] = arg[d]
            /\ pc'[d] = "submit" /\ ~transfer_thread_started'[d]
        BY <1>0, <2>1, <2>2, <2>5 DEF MayCreate, TypeOK
      <4> QED
        BY <3>1, <4>1
    <3>2. CASE e # d
      BY <1>0, <2>1, <2>5, <3>2 DEF ResetFlags, TypeOK
    <3> QED
      BY <3>1, <3>2
  <2> QED
    BY <1>3, <2>3, <2>4, <2>5 DEF StartControlReturn
<1>4. CASE SubmitOne(d)
  BY <1>0, <1>4 DEF SubmitOne, StartReturn, Return, TypeOK, DeviceInv, NoThreadYet
<1>5. CASE CreateThread(d)
  BY <1>0, <1>5 DEF CreateThread, StoreSession, StartReturn, Return, TypeOK,
                    DeviceInv, NoThreadYet
<1>6. CASE StopCall(d)
  BY <1>0, <1>6 DEF StopCall, device_vars, history, TypeOK
<1>7. CASE CloseCall(d)
  BY <1>0, <1>7 DEF CloseCall, device_vars, history, TypeOK
<1>8. CASE StopControlReturn(d)
  BY <1>0, <1>8 DEF StopControlReturn, ModeRequestFails, StopReturn, Return, Join,
                    InStop, TypeOK
<1>9. CASE JoinThread(d)
  BY <1>0, <1>9 DEF JoinThread, JoinFails, StopReturn, Return, TypeOK
<1>10. CASE FreeDevice(d)
  BY <1>0, <1>10 DEF FreeDevice, Return, history, TypeOK
<1>11. QED
  BY <1>1, <1>2, <1>3, <1>4, <1>5, <1>6, <1>7, <1>8, <1>9, <1>10 DEF AppStep

(* The transfer threads and the event handlers can only end a session.     *)
LEMMA OtherSessionInv ==
  ASSUME IInv, NEW d \in Device,
         \/ ThreadStep(d)
         \/ \E t \in Thread, i \in Index : EventStep(t, d, i),
         NEW e \in Device, SessionInv(e)
  PROVE  SessionInv(e)'
<1>0. TypeOK
  BY DEF IInv
<1>1. UNCHANGED <<transfer_thread_started, pc, mode, arg, ctx, endpoint, callback, disturbed>>
  BY DEF ThreadStep, ThreadCheck, EventsReturn, EventsFail, EventStep, BeginCallback,
         EndCallback, TransferFails, device_vars, call_vars, history
<1>2. UNCHANGED streaming \/ streaming' = [streaming EXCEPT ![d] = FALSE]
  BY DEF ThreadStep, ThreadCheck, EventsReturn, EventsFail, EventStep, BeginCallback,
         EndCallback, TransferFails, device_vars
<1>3. UNCHANGED do_exit \/ do_exit' = [do_exit EXCEPT ![d] = TRUE]
  BY DEF ThreadStep, ThreadCheck, EventsReturn, EventsFail, EventStep, BeginCallback,
         EndCallback, TransferFails, request_exit, device_vars
<1>4. KeepsRunning(e)' => KeepsRunning(e)
  BY <1>0, <1>2, <1>3 DEF KeepsRunning, TypeOK
<1> QED
  BY <1>1, <1>4, SessionFrame

(***************************************************************************)
(* While a session runs, and no later mode request or start on its device  *)
(* failed, the board's mode, the endpoint of the transfers, the callback   *)
(* and its context come from one start call: for any number of devices and *)
(* under every failure.                                                    *)
(***************************************************************************)
THEOREM SessionIsCoherentHolds == Spec => []SessionIsCoherent
<1> DEFINE All == \A d \in Device : SessionInv(d)
<1>1. ASSUME Init PROVE All
  <2>1. \A d \in Device : pc[d] = "new" /\ ~transfer_thread_started[d]
    BY <1>1 DEF Init
  <2>2. QED
    BY <2>1 DEF SessionInv, StartStored, Coherent
<1>2. IInv /\ All /\ [Next]_vars => All'
  <2> SUFFICES ASSUME IInv, All, [Next]_vars, NEW e \in Device PROVE SessionInv(e)'
    OBVIOUS
  <2>1. CASE UNCHANGED vars
    BY <2>1, SessionFrame DEF vars, device_vars, call_vars, history, KeepsRunning
  <2>2. QED
    BY <2>1, AppSessionInv, OtherSessionInv DEF Next
<1>3. IInv /\ All => SessionIsCoherent
  BY DEF IInv, TypeOK, SessionInv, Coherent, SessionIsCoherent, hackrf_is_streaming,
         KeepsRunning
<1> HIDE DEF All
<1>4. QED
  BY <1>1, <1>2, <1>3, Invariance, PTL DEF Spec

-----------------------------------------------------------------------------
(* One device in the process.                                              *)

(* The library's context is used by one device only.  (With two, an event  *)
(* handler of one device completes the transfers of the other at a time    *)
(* that device does not expect: MultipleDevicesHandled.)                   *)
OneDevice == \A d, e \in Device : d = e

(* A callback that runs, runs on a thread that is handling events.         *)
HandlerInv == \A cb \in inCallback : HandlesEvents(cb[1])

(* The arguments of a start are kept until it returns.                     *)
HasClient(d) == pc[d] \in {"start_ctl", "submit", "create"} => arg[d][2] \in Client

(* Before its first session a device has no callback and, unless a start   *)
(* failed halfway, libusb has none of its transfers.                       *)
FirstSession(d) ==
  /\ HasClient(d)
  /\ callback[d] = NULL /\ ~tainted[d] =>
       /\ ~transfer_thread_started[d]
       /\ \A cb \in inCallback : cb[2] # d
       /\ pc[d] \notin {"submit", "create"} => ~Outstanding(d)

(* Outside a session nothing is asked of the board any more, but by the    *)
(* transfers that completed after their cancellation.                      *)
Stopped(d) ==
  ~transfer_thread_started[d] /\ ~tainted[d] /\ pc[d] \notin {"submit", "create"} =>
    /\ \A i \in Index \ late[d] : transfers[d][i] # "submitted"
    /\ \A cb \in inCallback : cb[2] = d => cb[3] \in late[d]

(* While a start prepares its transfers, and while a stop has its thread   *)
(* joined, no thread of the only device handles events.                    *)
LEMMA NoHandler ==
  ASSUME OneDevice, IInv, HandlerInv, NEW d \in Device,
         \/ pc[d] \in {"submit", "create"}
         \/ pc[d] \in InJoin /\ thread[d] = "exited"
  PROVE  inCallback = {} /\ \A t \in Thread : ~HandlesEvents(t)
<1>1. TypeOK /\ DeviceInv(d)
  BY DEF IInv
<1>2. thread[d] # "events" /\ pc[d] \notin InControl
  BY <1>1 DEF DeviceInv, NoThreadYet, FlagOwnsThread, InControl, InStop, InJoin
<1>3. ASSUME NEW t \in Thread PROVE ~HandlesEvents(t)
  <2>1. t[2] = d
    BY DEF Thread, OneDevice
  <2> QED
    BY <1>2, <2>1 DEF HandlesEvents
<1>4. \A cb \in inCallback : cb[1] \in Thread
  BY <1>1 DEF TypeOK
<1> QED
  BY <1>3, <1>4 DEF HandlerInv

(* A thread stays an event handler until its callback has returned.        *)
LEMMA HandlerKept ==
  ASSUME IInv, HandlerInv, [Next]_vars
  PROVE  HandlerInv'
<1>0. TypeOK
  BY DEF IInv
<1>1. ASSUME NEW cb \in inCallback, NEW d \in Device,
             \A e \in Device \ {d} : pc'[e] = pc[e] /\ thread'[e] = thread[e],
             pc'[d] = pc[d] \/ ~RunsCallback(<<"app", d>>) \/ pc[d] \notin InControl,
             thread'[d] = thread[d] \/ ~RunsCallback(<<"xfer", d>>) \/ thread[d] # "events"
      PROVE  HandlesEvents(cb[1])'
  <2>1. cb[1] \in Thread /\ HandlesEvents(cb[1])
    BY <1>0 DEF TypeOK, HandlerInv
  <2>2. PICK k \in {"app", "xfer"}, e \in Device : cb[1] = <<k, e>>
    BY <2>1 DEF Thread
  <2>3. RunsCallback(<<k, e>>)
    BY <2>2 DEF RunsCallback
  <2>4. CASE e # d
    BY <1>1, <2>1, <2>2, <2>4 DEF HandlesEvents
  <2>5. CASE e = d /\ k = "app"
    BY <1>1, <2>1, <2>2, <2>3, <2>5 DEF HandlesEvents
  <2>6. CASE e = d /\ k = "xfer"
    BY <1>1, <2>1, <2>2, <2>3, <2>6 DEF HandlesEvents
  <2> QED
    BY <2>2, <2>4, <2>5, <2>6
<1>2. ASSUME NEW d \in Device, AppStep(d) PROVE HandlerInv'
  <2>1. UNCHANGED inCallback
    BY <1>2 DEF AppStep, OpenDevice, StartCall, StartControlReturn, SubmitOne, CreateThread,
                StopCall, CloseCall, StopControlReturn, JoinThread, FreeDevice
  <2>2. \A e \in Device \ {d} : pc'[e] = pc[e] /\ thread'[e] = thread[e]
    BY <1>0, <1>2, AppFrame DEF Same
  <2>3. ~RunsCallback(<<"app", d>>) \/ pc[d] \notin InControl
    BY <1>2 DEF AppStep, OpenDevice, StartCall, StartControlReturn, SubmitOne, CreateThread,
                StopCall, CloseCall, StopControlReturn, JoinThread, FreeDevice,
                InControl, InStop, InJoin
  <2>4. thread'[d] = thread[d] \/ thread[d] # "events"
    <3>1. CASE CreateThread(d)
      BY <3>1 DEF CreateThread, IInv, DeviceInv, NoThreadYet, FlagOwnsThread
    <3>2. CASE JoinThread(d)
      BY <3>2 DEF JoinThread, JoinFails, Joinable
    <3>3. CASE ~CreateThread(d) /\ ~JoinThread(d)
      BY <1>2, <3>3 DEF AppStep, OpenDevice, StartCall, StartControlReturn, SubmitOne,
                        StopCall, CloseCall, StopControlReturn, FreeDevice
    <3> QED
      BY <3>1, <3>2, <3>3
  <2> QED
    BY <1>1, <2>1, <2>2, <2>3, <2>4 DEF HandlerInv
<1>3. ASSUME NEW d \in Device, ThreadStep(d) PROVE HandlerInv'
  <2>1. UNCHANGED <<inCallback, pc>>
    BY <1>3 DEF ThreadStep, ThreadCheck, EventsReturn, EventsFail, call_vars
  <2>2. \A e \in Device \ {d} : thread'[e] = thread[e]
    BY <1>0, <1>3 DEF ThreadStep, ThreadCheck, EventsReturn, EventsFail, TypeOK
  <2>3. ~RunsCallback(<<"xfer", d>>) \/ thread[d] # "events"
    BY <1>3 DEF ThreadStep, ThreadCheck, EventsReturn, EventsFail
  <2> QED
    BY <1>1, <2>1, <2>2, <2>3 DEF HandlerInv
<1>4. ASSUME NEW t \in Thread, NEW d \in Device, NEW i \in Index, EventStep(t, d, i)
      PROVE  HandlerInv'
  <2>1. UNCHANGED <<pc, thread>>
    BY <1>4 DEF EventStep, BeginCallback, EndCallback, TransferFails, call_vars
  <2>2. inCallback' = {} \/ inCallback' = inCallback
        \/ (inCallback' = {<<t, d, i>>} /\ HandlesEvents(t))
    BY <1>4 DEF EventStep, BeginCallback, EndCallback, TransferFails
  <2> QED
    BY <2>1, <2>2 DEF HandlerInv, HandlesEvents
<1>5. CASE UNCHANGED vars
  BY <1>5 DEF vars, call_vars, HandlerInv, HandlesEvents
<1> QED
  BY <1>2, <1>3, <1>4, <1>5 DEF Next

(* Every step keeps FirstSession.                                          *)
LEMMA FirstSessionKept ==
  ASSUME OneDevice, IInv, HandlerInv, NEW d \in Device, FirstSession(d), [Next]_vars
  PROVE  FirstSession(d)'
<1> USE DEF FirstSession, HasClient, Outstanding
<1>0. TypeOK /\ DeviceInv(d)
  BY DEF IInv
<1>1. CASE AppStep(d)
  <2>1. CASE OpenDevice(d)
    BY <1>0, <2>1 DEF OpenDevice, Return, device_vars, history, TypeOK
  <2>2. ASSUME NEW dir \in Direction, NEW c \in Client, StartCall(d, dir, c)
        PROVE  FirstSession(d)'
    BY <1>0, <2>2 DEF StartCall, device_vars, history, TypeOK
  <2>3. CASE StartControlReturn(d)
    BY <1>0, <2>3 DEF StartControlReturn, MayCreate, StartReturn, Return, TypeOK
  <2>4. CASE SubmitOne(d)
    <3>1. inCallback = {} /\ inCallback' = {}
      BY <2>4, NoHandler DEF SubmitOne
    <3>2. UNCHANGED <<callback, transfer_thread_started>> /\ ~transfer_thread_started[d]
      BY <1>0, <2>4 DEF SubmitOne, DeviceInv, NoThreadYet
    <3>3. HasClient(d)'
      BY <1>0, <2>4 DEF SubmitOne, StartReturn, Return, TypeOK
    <3>4. \/ pc'[d] \in {"submit", "create"}
          \/ UNCHANGED transfers /\ (Outstanding(d) => tainted'[d])
      BY <1>0, <2>4 DEF SubmitOne, StartReturn, Return, TypeOK
    <3> QED
      BY <3>1, <3>2, <3>3, <3>4
  <2>5. CASE CreateThread(d)
    <3>1. callback'[d] # NULL /\ pc'[d] = "idle"
      BY <1>0, <2>5, NullAssumption DEF CreateThread, StoreSession, StartReturn, Return, TypeOK
    <3> QED
      BY <3>1
  <2>6. CASE StopCall(d)
    BY <1>0, <2>6 DEF StopCall, device_vars, history, TypeOK
  <2>7. CASE CloseCall(d)
    BY <1>0, <2>7 DEF CloseCall, device_vars, history, TypeOK
  <2>8. CASE StopControlReturn(d)
    BY <1>0, <2>8 DEF StopControlReturn, StopReturn, Return, Join, InStop, TypeOK
  <2>9. CASE JoinThread(d)
    <3>1. callback'[d] = callback[d] /\ tainted'[d] = tainted[d] /\ arg' = arg
          /\ UNCHANGED inCallback
      BY <2>9 DEF JoinThread
    <3>2. pc'[d] \in {"idle", "tx_ctl", "close_usb"}
      BY <1>0, <2>9 DEF JoinThread, JoinFails, StopReturn, Return, TypeOK
    <3>3. transfer_thread_started[d]
      BY <1>0, <2>9 DEF JoinThread, DeviceInv, JoinAsked
    <3> QED
      BY <3>1, <3>2, <3>3
  <2>10. CASE FreeDevice(d)
    BY <1>0, <2>10 DEF FreeDevice, libusb_close, Return, history, TypeOK
  <2> QED
    BY <1>1, <2>1, <2>2, <2>3, <2>4, <2>5, <2>6, <2>7, <2>8, <2>9, <2>10 DEF AppStep
<1>2. CASE ThreadStep(d)
  <2>1. UNCHANGED <<pc, arg, callback, tainted, transfers, transfer_thread_started, inCallback>>
    BY <1>2 DEF ThreadStep, ThreadCheck, EventsReturn, EventsFail, device_vars, call_vars, history
  <2> QED
    BY <2>1
<1>3. ASSUME NEW t \in Thread, NEW i \in Index, EventStep(t, d, i)
      PROVE  FirstSession(d)'
  <2>1. UNCHANGED <<pc, arg, callback, tainted, transfer_thread_started>>
    BY <1>3 DEF EventStep, BeginCallback, EndCallback, TransferFails, call_vars, history
  <2>2. CASE callback[d] = NULL /\ ~tainted[d]
    <3>1. \A cb \in inCallback : cb[2] # d
      BY <2>2
    <3>2. ~EndCallback(t, d, i)
      BY <3>1 DEF EndCallback
    <3>3. HandlesEvents(t) /\ transfers[d][i] # "idle"
      BY <1>3, <3>2 DEF EventStep, BeginCallback, TransferFails, MayComplete
    <3>4. pc[d] \in {"submit", "create"}
      BY <2>2, <3>3
    <3> QED
      BY <3>3, <3>4, NoHandler
  <2>3. CASE ~(callback[d] = NULL /\ ~tainted[d])
    BY <2>1, <2>3
  <2> QED
    BY <2>2, <2>3
<1>4. CASE UNCHANGED vars
  BY <1>4 DEF vars, device_vars, call_vars, history
<1> QED
  BY <1>1, <1>2, <1>3, <1>4 DEF Next, OneDevice

(* The first callback of the only device follows a start that stored it.   *)
LEMMA CrashKept ==
  ASSUME OneDevice, IInv, HandlerInv, \A d \in Device : FirstSession(d),
         CrashNeedsFailedStart, [Next]_vars
  PROVE  CrashNeedsFailedStart'
<1> USE DEF CrashNeedsFailedStart
<1>1. CASE crashed = "no" /\ crashed' = "null_callback"
  <2>1. PICK t \in Thread, d \in Device, i \in Index : BeginCallback(t, d, i)
    <3>1. \A d \in Device : ~AppStep(d) /\ ~ThreadStep(d)
      BY <1>1 DEF AppStep, OpenDevice, StartCall, StartControlReturn, SubmitOne, CreateThread,
                  StopCall, CloseCall, StopControlReturn, JoinThread, FreeDevice,
                  ThreadStep, ThreadCheck, EventsReturn, EventsFail
    <3>2. \A t \in Thread, d \in Device, i \in Index :
            ~EndCallback(t, d, i) /\ ~TransferFails(t, d, i)
      BY <1>1 DEF EndCallback, TransferFails
    <3>3. ~UNCHANGED vars
      BY <1>1 DEF vars
    <3> QED
      BY <3>1, <3>2, <3>3 DEF Next, EventStep
  <2>2. callback[d] = NULL /\ HandlesEvents(t) /\ transfers[d][i] # "idle"
        /\ UNCHANGED tainted
    BY <1>1, <2>1 DEF BeginCallback, MayComplete
  <2>3. ~tainted[d] => pc[d] \in {"submit", "create"}
    BY <2>2 DEF FirstSession, Outstanding
  <2>4. tainted[d]
    BY <2>2, <2>3, NoHandler
  <2> QED
    BY <2>2, <2>4
<1>2. CASE crashed # "no"
  BY <1>2 DEF Next, vars, history
<1>3. CASE crashed' # "null_callback"
  BY <1>3
<1> QED
  BY <1>1, <1>2, <1>3

(***************************************************************************)
(* With one device, a null sample callback is only ever called after a     *)
(* start that failed halfway through prepare_transfers, under every        *)
(* failure of the environment.                                             *)
(***************************************************************************)
THEOREM CrashNeedsFailedStartHolds ==
  ASSUME OneDevice
  PROVE  Spec => []CrashNeedsFailedStart
<1> DEFINE Inv1 == /\ HandlerInv /\ CrashNeedsFailedStart
                   /\ \A d \in Device : FirstSession(d)
<1>1. Init => Inv1
  BY DEF Init, HandlerInv, CrashNeedsFailedStart, FirstSession, HasClient, Outstanding
<1>2. IInv /\ Inv1 /\ [Next]_vars => Inv1'
  BY HandlerKept, CrashKept, FirstSessionKept
<1>3. Inv1 => CrashNeedsFailedStart
  OBVIOUS
<1> HIDE DEF Inv1
<1>4. QED
  BY <1>1, <1>2, <1>3, Invariance, PTL DEF Spec

(* Every step keeps Stopped.                                               *)
LEMMA StoppedKept ==
  ASSUME OneDevice, IInv, HandlerInv, NEW d \in Device, Stopped(d), [Next]_vars
  PROVE  Stopped(d)'
<1> USE DEF Stopped
<1>0. TypeOK /\ DeviceInv(d)
  BY DEF IInv
<1>1. CASE AppStep(d)
  <2>1. CASE OpenDevice(d)
    BY <1>0, <2>1 DEF OpenDevice, Return, device_vars, history, DeviceInv, Unlinked, TypeOK
  <2>2. ASSUME NEW dir \in Direction, NEW c \in Client, StartCall(d, dir, c)
        PROVE  Stopped(d)'
    BY <1>0, <2>2 DEF StartCall, device_vars, history, TypeOK
  <2>3. CASE StartControlReturn(d)
    BY <1>0, <2>3 DEF StartControlReturn, StartReturn, Return, TypeOK
  <2>4. CASE SubmitOne(d)
    <3>1. inCallback = {} /\ inCallback' = {}
      BY <2>4, NoHandler DEF SubmitOne
    <3>2. \/ pc'[d] \in {"submit", "create"}
          \/ UNCHANGED transfers /\ (Outstanding(d) => tainted'[d])
      BY <1>0, <2>4 DEF SubmitOne, StartReturn, Return, TypeOK
    <3> QED
      BY <3>1, <3>2 DEF Outstanding
  <2>5. CASE CreateThread(d)
    <3>1. transfer_thread_started'[d] \/ tainted'[d]
      BY <1>0, <2>5 DEF CreateThread, TypeOK
    <3> QED
      BY <3>1
  <2>6. CASE StopCall(d)
    BY <1>0, <2>6 DEF StopCall, device_vars, history, TypeOK
  <2>7. CASE CloseCall(d)
    BY <1>0, <2>7 DEF CloseCall, device_vars, history, TypeOK
  <2>8. CASE StopControlReturn(d)
    BY <1>0, <2>8 DEF StopControlReturn, StopReturn, Return, Join, InStop, TypeOK
  <2>9. CASE JoinThread(d)
    <3>1. CASE JoinFails(d)
      <4>1. transfer_thread_started'[d]
        BY <1>0, <2>9, <3>1 DEF JoinThread, JoinFails, DeviceInv, JoinAsked
      <4> QED
        BY <4>1
    <3>2. CASE /\ thread[d] = "exited"
               /\ transfers' = [transfers EXCEPT ![d] = cancel_transfers(@)]
      <4>1. inCallback' = {}
        BY <2>9, <3>2, NoHandler DEF JoinThread
      <4>2. \A i \in Index : transfers'[d][i] # "submitted"
        BY <1>0, <3>2 DEF cancel_transfers, TypeOK
      <4> QED
        BY <4>1, <4>2
    <3> QED
      BY <2>9, <3>1, <3>2 DEF JoinThread, Joinable
  <2>10. CASE FreeDevice(d)
    BY <1>0, <2>10 DEF FreeDevice, NoEventHandler, libusb_close, Return, history, TypeOK
  <2> QED
    BY <1>1, <2>1, <2>2, <2>3, <2>4, <2>5, <2>6, <2>7, <2>8, <2>9, <2>10 DEF AppStep
<1>2. CASE ThreadStep(d)
  <2>1. UNCHANGED <<pc, tainted, late, transfers, transfer_thread_started, inCallback>>
    BY <1>2 DEF ThreadStep, ThreadCheck, EventsReturn, EventsFail, device_vars, call_vars, history
  <2> QED
    BY <2>1
<1>3. ASSUME NEW t \in Thread, NEW i \in Index, EventStep(t, d, i)
      PROVE  Stopped(d)'
  <2>1. UNCHANGED <<pc, tainted, transfer_thread_started>>
    BY <1>3 DEF EventStep, BeginCallback, EndCallback, TransferFails, call_vars, history
  <2>2. CASE ~transfer_thread_started[d] /\ ~tainted[d] /\ pc[d] \notin {"submit", "create"}
    <3>1. /\ \A j \in Index \ late[d] : transfers[d][j] # "submitted"
          /\ \A cb \in inCallback : cb[2] = d => cb[3] \in late[d]
      BY <2>2
    <3>2. CASE BeginCallback(t, d, i)
      <4>1. /\ transfers' = [transfers EXCEPT ![d][i] = "idle"]
            /\ late'[d] = late[d] \cup {i}
        BY <1>0, <3>1, <3>2 DEF BeginCallback, MayComplete, TypeOK
      <4>2. inCallback' = {} \/ inCallback' = {<<t, d, i>>}
        BY <3>2 DEF BeginCallback, NoEventHandler
      <4>3. \A j \in Index \ late'[d] : transfers'[d][j] # "submitted"
        BY <1>0, <3>1, <4>1 DEF TypeOK
      <4> QED
        BY <4>1, <4>2, <4>3
    <3>3. CASE EndCallback(t, d, i)
      <4>1. i \in late[d] /\ late' = late /\ inCallback' = {}
        BY <3>1, <3>3 DEF EndCallback, history
      <4>2. \A j \in Index \ {i} : transfers'[d][j] = transfers[d][j]
        BY <1>0, <3>3 DEF EndCallback, TypeOK
      <4> QED
        BY <3>1, <4>1, <4>2
    <3>4. CASE TransferFails(t, d, i)
      <4>1. /\ UNCHANGED <<inCallback, late>>
            /\ transfers' = [transfers EXCEPT ![d][i] = "idle"]
        BY <3>4 DEF TransferFails, history
      <4>2. \A j \in Index \ late[d] : transfers'[d][j] # "submitted"
        BY <1>0, <3>1, <4>1 DEF TypeOK
      <4> QED
        BY <3>1, <4>1, <4>2
    <3> QED
      BY <1>3, <3>2, <3>3, <3>4 DEF EventStep
  <2>3. CASE ~(~transfer_thread_started[d] /\ ~tainted[d] /\ pc[d] \notin {"submit", "create"})
    BY <2>1, <2>3
  <2> QED
    BY <2>2, <2>3
<1>4. CASE UNCHANGED vars
  BY <1>4 DEF vars, device_vars, call_vars, history
<1> QED
  BY <1>1, <1>2, <1>3, <1>4 DEF Next, OneDevice

(***************************************************************************)
(* With one device, under every failure: a device that is not streaming    *)
(* has no transfer in flight uncancelled, but those that completed after   *)
(* their cancellation, unless a start failed halfway.                      *)
(***************************************************************************)
THEOREM StoppedMeansCancelledHolds ==
  ASSUME OneDevice
  PROVE  Spec => []StoppedMeansCancelled
<1> DEFINE Inv2 == HandlerInv /\ \A d \in Device : Stopped(d)
<1>1. Init => Inv2
  BY DEF Init, HandlerInv, Stopped
<1>2. IInv /\ Inv2 /\ [Next]_vars => Inv2'
  BY HandlerKept, StoppedKept
<1>3. Inv2 => StoppedMeansCancelled
  BY DEF Stopped, StoppedMeansCancelled
<1> HIDE DEF Inv2
<1>4. QED
  BY <1>1, <1>2, <1>3, Invariance, PTL DEF Spec

=============================================================================
