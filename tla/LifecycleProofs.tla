--------------------------- MODULE LifecycleProofs ---------------------------
(***************************************************************************)
(* Proofs about Lifecycle, for any number of threads, handles, contexts    *)
(* and calls and any set of failures.                                      *)
(***************************************************************************)
EXTENDS Lifecycle, FiniteSetTheorems, TLAPS

-----------------------------------------------------------------------------
(* Types.                                                                  *)

(* A 16-bit counter.                                                       *)
LEMMA Width == UINT16 \in Nat /\ 1 < UINT16
BY SMT DEF UINT16

(* A remainder fits the counter.                                           *)
LEMMA Remainder ==
  ASSUME NEW n \in Nat
  PROVE  n % UINT16 \in 0 .. UINT16 - 1
BY Width, SMT

(* So does zero.                                                           *)
LEMMA ZeroWord == 0 \in 0 .. UINT16 - 1
BY Width, SMT

(* open_devices++ and open_devices-- keep its width.                       *)
LEMMA CountType ==
  ASSUME NEW n \in 0 .. UINT16 - 1
  PROVE  count_up(n) \in 0 .. UINT16 - 1 /\ count_down(n) \in 0 .. UINT16 - 1
<1>1. n + 1 \in Nat /\ n + UINT16 - 1 \in Nat
  BY Width, SMT
<1> QED
  BY <1>1, Remainder, SMT DEF count_up, count_down

(* What a libusb handle, a thread's local variables and a result are.      *)
HandleRecord == [state : {"closed", "open", "claimed"}, board : Board \cup {NULL},
                 ctx   : Context \cup {NULL}]

Local == [h : Handle \cup {NULL}, n : 0 .. UINT16 - 1]

Result == {"SUCCESS", "LIBUSB", "NOT_LAST_DEVICE", "NOT_FOUND", "NO_MEM", "INVALID_PARAM"}

(* TypeOK in terms of these sets.                                          *)
Typed ==
  /\ g_libusb_context \in Context \cup {NULL}
  /\ open_devices \in 0 .. UINT16 - 1
  /\ live \subseteq Context
  /\ handle \in [Handle -> HandleRecord]
  /\ device \in [Thread -> SUBSET Handle]
  /\ pc \in [Thread -> Pc]
  /\ local \in [Thread -> Local]
  /\ ret \in [Thread -> Result]
  /\ leaked \in BOOLEAN
  /\ ready \in [Thread -> BOOLEAN]
  /\ opens \in 0 .. MAX_OPENS
  /\ nullCloses \in 0 .. MAX_NULL_CLOSES
  /\ overlapped \in BOOLEAN
  /\ crashed \in {"no", "no_context", "exit_in_use"}

(* Typed says what TypeOK says.                                            *)
LEMMA TypedIsTypeOK == Typed <=> TypeOK
BY DEF Typed, TypeOK, HandleRecord, Local, Result

(* Nothing is open and no call is in progress at first.                    *)
LEMMA InitType == Init => Typed
<1> SUFFICES ASSUME Init PROVE Typed
  OBVIOUS
<1>1. Closed \in HandleRecord /\ NoLocal \in Local
  BY ZeroWord DEF Closed, NoLocal, HandleRecord, Local
<1>2. MAX_OPENS \in Nat /\ MAX_NULL_CLOSES \in Nat
  BY LifecycleAssumption
<1>3. pc \in [Thread -> Pc] /\ ret \in [Thread -> Result]
  BY DEF Init, Pc, Result
<1>4. /\ handle \in [Handle -> HandleRecord] /\ local \in [Thread -> Local]
      /\ device \in [Thread -> SUBSET Handle] /\ ready \in [Thread -> BOOLEAN]
  BY <1>1 DEF Init
<1>5. open_devices \in 0 .. UINT16 - 1 /\ opens \in 0 .. MAX_OPENS
      /\ nullCloses \in 0 .. MAX_NULL_CLOSES
  BY <1>2, ZeroWord DEF Init
<1> QED
  BY <1>3, <1>4, <1>5 DEF Init, Typed

(* The return of a call keeps the types of the thread's variables.         *)
LEMMA ReturnType ==
  ASSUME Typed, NEW t \in Thread, NEW r \in Result, Return(t, r)
  PROVE  pc' \in [Thread -> Pc] /\ local' \in [Thread -> Local] /\ ret' \in [Thread -> Result]
<1>1. NoLocal \in Local
  BY ZeroWord DEF NoLocal, Local
<1> QED
  BY <1>1 DEF Return, Goto, Pc, Typed

(* So does a jump.                                                         *)
LEMMA GotoType ==
  ASSUME Typed, NEW t \in Thread, NEW p \in Pc, Goto(t, p)
  PROVE  pc' \in [Thread -> Pc]
BY DEF Goto, Typed

(* libusb_close resets the handle.                                         *)
LEMMA CloseType ==
  ASSUME Typed, NEW h, libusb_close(h)
  PROVE  handle' \in [Handle -> HandleRecord]
<1>1. Closed \in HandleRecord
  BY DEF Closed, HandleRecord
<1> QED
  BY <1>1 DEF libusb_close, Typed

(* Every step of the library keeps the types.                              *)
LEMMA StepType ==
  ASSUME Typed, NEW t \in Thread, Step(t), overlapped' \in BOOLEAN,
         pc[t] = "count" => local[t].h \in Handle
  PROVE  Typed'
<1> USE DEF Typed, Ready
<1>0. /\ Pc = {"idle", "init", "exit", "exit_store", "configure", "claim", "allocate",
               "count", "count_store", "uncount", "uncount_store"}
      /\ Result = {"SUCCESS", "LIBUSB", "NOT_LAST_DEVICE", "NOT_FOUND", "NO_MEM",
                   "INVALID_PARAM"}
  BY DEF Pc, Result
<1>1. CASE InitCall(t)
  BY <1>0, <1>1, ReturnType, GotoType DEF InitCall
<1>2. CASE InitCreate(t)
  BY <1>0, <1>2, ReturnType DEF InitCreate
<1>3. CASE ExitCall(t)
  BY <1>0, <1>3, ReturnType, GotoType DEF ExitCall
<1>4. CASE ExitDestroy(t)
  BY <1>0, <1>4, GotoType DEF ExitDestroy
<1>5. CASE ExitStore(t)
  BY <1>0, <1>5, ReturnType DEF ExitStore
<1>6. CASE \E b \in Board, h \in Handle : OpenCall(t, b, h)
  <2>1. PICK b \in Board, h \in Handle : OpenCall(t, b, h)
    BY <1>6
  <2>2. handle' \in [Handle -> HandleRecord]
    <3>1. [state |-> "open", board |-> b, ctx |-> g_libusb_context] \in HandleRecord
      BY DEF HandleRecord
    <3> QED
      BY <2>1, <3>1 DEF OpenCall
  <2>3. local' \in [Thread -> Local]
    <3>1. CASE UNCHANGED local
      BY <3>1
    <3>2. CASE local' = [local EXCEPT ![t].h = h]
      BY <3>2 DEF Local
    <3>3. CASE \E r \in Result : Return(t, r)
      BY <3>3, ReturnType
    <3> QED
      BY <1>0, <2>1, <3>1, <3>2, <3>3 DEF OpenCall
  <2>4. opens' \in 0 .. MAX_OPENS
    BY <2>1, LifecycleAssumption DEF OpenCall
  <2>5. pc' \in [Thread -> Pc] /\ ret' \in [Thread -> Result]
    BY <1>0, <2>1, ReturnType, GotoType DEF OpenCall
  <2> QED
    BY <2>1, <2>2, <2>3, <2>4, <2>5 DEF OpenCall
<1>7. CASE OpenInvalid(t)
  BY <1>0, <1>7, ReturnType DEF OpenInvalid
<1>8. CASE Configure(t)
  BY <1>0, <1>8, ReturnType, GotoType, CloseType DEF Configure
<1>9. CASE ClaimInterface(t)
  <2>1. handle' \in [Handle -> HandleRecord]
    <3>1. CASE handle' = [handle EXCEPT ![local[t].h].state = "claimed"]
      BY <3>1 DEF HandleRecord
    <3> QED
      BY <1>9, <3>1, CloseType DEF ClaimInterface, ClaimFails
  <2> QED
    BY <1>0, <1>9, <2>1, ReturnType, GotoType DEF ClaimInterface, ClaimFails
<1>10. CASE Allocate(t)
  BY <1>0, <1>10, ReturnType, GotoType, CloseType DEF Allocate
<1>11. CASE CountLoad(t)
  <2>1. local' \in [Thread -> Local]
    BY <1>11 DEF CountLoad, Local
  <2>2. device' \in [Thread -> SUBSET Handle]
    BY <1>11 DEF CountLoad, Local
  <2> QED
    BY <1>0, <1>11, <2>1, <2>2, GotoType DEF CountLoad
<1>12. CASE CountStore(t) \/ UncountStore(t)
  <2>1. local[t].n \in 0 .. UINT16 - 1
    BY DEF Local
  <2> QED
    BY <1>0, <1>12, <2>1, ReturnType, CountType DEF CountStore, UncountStore
<1>13. CASE \E h \in Handle : CloseCall(t, h)
  BY <1>0, <1>13, GotoType, CloseType DEF CloseCall
<1>14. CASE CloseNull(t)
  <2>1. nullCloses' \in 0 .. MAX_NULL_CLOSES
    BY <1>14, LifecycleAssumption DEF CloseNull
  <2> QED
    BY <1>0, <1>14, <2>1, GotoType DEF CloseNull
<1>15. CASE UncountLoad(t)
  <2>1. local' \in [Thread -> Local]
    BY <1>15 DEF UncountLoad, Local
  <2> QED
    BY <1>0, <1>15, <2>1, GotoType DEF UncountLoad
<1> QED
  BY <1>1, <1>2, <1>3, <1>4, <1>5, <1>6, <1>7, <1>8, <1>9, <1>10, <1>11, <1>12, <1>13,
     <1>14, <1>15 DEF Step

-----------------------------------------------------------------------------
(* Handles and who owns them.                                              *)

(* Thread t is in hackrf_open_setup, before the device object is out.      *)
Acquiring(t) == pc[t] \in {"configure", "claim", "allocate", "count"}

(* The handle is in one of t's devices or in the one it is opening.        *)
Owns(t, h) == h \in device[t] \/ (Acquiring(t) /\ local[t].h = h)

(* A handle being opened is in the state its position calls for.           *)
AcquiredState ==
  \A t \in Thread : Acquiring(t) =>
    /\ local[t].h \in Handle
    /\ local[t].h \notin device[t]
    /\ handle[local[t].h].state = IF pc[t] \in {"configure", "claim"} THEN "open" ELSE "claimed"

(* A device object has claimed its interface.                              *)
DevicesClaimed == \A t \in Thread : \A h \in device[t] : handle[h].state = "claimed"

(* No handle belongs to two threads.                                       *)
OneOwner == \A t, u \in Thread, h \in Handle : Owns(t, h) /\ Owns(u, h) => t = u

(* An open handle is on a board and somebody will close it.                *)
NoStrayHandle ==
  \A h \in Handle : handle[h].state # "closed" =>
    handle[h].board \in Board /\ \E t \in Thread : Owns(t, h)

(* A board's interface is claimed once.                                    *)
OneClaim ==
  \A g, h \in Handle :
    g # h /\ handle[g].state = "claimed" /\ handle[h].state = "claimed"
      => handle[g].board # handle[h].board

(* Who owns which handle.                                                  *)
HandleInv == AcquiredState /\ DevicesClaimed /\ OneOwner /\ NoStrayHandle /\ OneClaim

(* A step of thread t leaves the others' variables alone.                  *)
OthersKeep(t) ==
  \A u \in Thread \ {t} : pc'[u] = pc[u] /\ local'[u] = local[u] /\ device'[u] = device[u]

(* A step outside hackrf_open_setup that touches no handle.                *)
Elsewhere(t) ==
  /\ handle' = handle /\ device' = device
  /\ ~Acquiring(t) /\ ~Acquiring(t)'
  /\ OthersKeep(t)

(* Such a step keeps the invariant.                                        *)
LEMMA ElsewhereInv ==
  ASSUME Typed, HandleInv, NEW t \in Thread, Elsewhere(t)
  PROVE  HandleInv'
<1>1. \A u \in Thread : Acquiring(u)' <=> Acquiring(u)
  BY DEF Elsewhere, OthersKeep, Acquiring
<1>2. \A u \in Thread : Acquiring(u) => pc'[u] = pc[u] /\ local'[u] = local[u]
  BY DEF Elsewhere, OthersKeep
<1>3. \A u \in Thread, h \in Handle : Owns(u, h)' <=> Owns(u, h)
  BY <1>1, <1>2 DEF Owns, Elsewhere
<1> QED
  BY <1>1, <1>2, <1>3 DEF HandleInv, AcquiredState, DevicesClaimed, OneOwner, NoStrayHandle,
                          OneClaim, Elsewhere

(* Thread t gives back the handle h it is opening or has opened.           *)
Drops(t, h) ==
  /\ h \in Handle /\ Owns(t, h)
  /\ handle' = [handle EXCEPT ![h] = Closed]
  /\ ~Acquiring(t)'
  /\ Acquiring(t) => local[t].h = h
  /\ device'[t] = device[t] \ {h}
  /\ OthersKeep(t)

(* It was the only owner.                                                  *)
LEMMA DropsInv ==
  ASSUME Typed, HandleInv, NEW t \in Thread, NEW h, Drops(t, h)
  PROVE  HandleInv'
<1>1. handle'[h].state = "closed" /\ \A g \in Handle \ {h} : handle'[g] = handle[g]
  BY DEF Drops, Typed, Closed
<1>2. \A u \in Thread : Acquiring(u)' => u # t /\ Acquiring(u)
                                         /\ pc'[u] = pc[u] /\ local'[u] = local[u]
  BY DEF Drops, OthersKeep, Acquiring
<1>3. \A u \in Thread, g \in Handle : Owns(u, g)' => Owns(u, g) /\ g # h
  <2> SUFFICES ASSUME NEW u \in Thread, NEW g \in Handle, Owns(u, g)'
               PROVE  Owns(u, g) /\ g # h
    OBVIOUS
  <2>1. CASE u = t
    BY <2>1, <1>2 DEF Owns, Drops
  <2>2. CASE u # t
    <3>1. Owns(u, g)
      BY <2>2, <1>2 DEF Owns, Drops, OthersKeep
    <3> QED
      BY <2>2, <3>1 DEF HandleInv, OneOwner, Drops
  <2> QED
    BY <2>1, <2>2
<1>4. \A u \in Thread, g \in Handle \ {h} : Owns(u, g) => Owns(u, g)'
  BY DEF Owns, Drops, OthersKeep, Acquiring
<1>5. AcquiredState'
  <2> SUFFICES ASSUME NEW u \in Thread, Acquiring(u)'
               PROVE  /\ local'[u].h \in Handle /\ local'[u].h \notin device'[u]
                      /\ handle'[local'[u].h].state
                           = IF pc'[u] \in {"configure", "claim"} THEN "open" ELSE "claimed"
    BY DEF AcquiredState
  <2>1. u # t /\ Acquiring(u) /\ pc'[u] = pc[u] /\ local'[u] = local[u]
    BY <1>2
  <2>2. local[u].h \in Handle /\ local[u].h \notin device[u]
    BY <2>1 DEF HandleInv, AcquiredState
  <2>3. local[u].h # h
    BY <2>1, <2>2, <1>3 DEF Owns
  <2> QED
    BY <1>1, <2>1, <2>2, <2>3 DEF HandleInv, AcquiredState, Drops, OthersKeep
<1>6. DevicesClaimed'
  <2> SUFFICES ASSUME NEW u \in Thread, NEW g \in device'[u]
               PROVE  handle'[g].state = "claimed"
    BY DEF DevicesClaimed
  <2>1. g \in device[u] /\ g \in Handle
    BY DEF Drops, OthersKeep, Typed
  <2>2. g # h
    BY <2>1, <1>3 DEF Owns
  <2> QED
    BY <2>1, <2>2, <1>1 DEF HandleInv, DevicesClaimed
<1>7. OneOwner'
  BY <1>3 DEF HandleInv, OneOwner
<1>8. NoStrayHandle'
  BY <1>1, <1>4 DEF HandleInv, NoStrayHandle
<1>9. OneClaim'
  BY <1>1 DEF HandleInv, OneClaim
<1> QED
  BY <1>5, <1>6, <1>7, <1>8, <1>9 DEF HandleInv

(* libusb_open has succeeded on a closed handle.                           *)
LEMMA OpenedInv ==
  ASSUME Typed, HandleInv, NEW t \in Thread, NEW h \in Handle, NEW b \in Board, NEW c,
         pc[t] = "idle", handle[h] = Closed,
         handle' = [handle EXCEPT ![h] = [state |-> "open", board |-> b, ctx |-> c]],
         local' = [local EXCEPT ![t].h = h],
         Goto(t, "configure"), device' = device
  PROVE  HandleInv'
<1>1. /\ handle'[h].state = "open" /\ handle'[h].board = b
      /\ \A g \in Handle \ {h} : handle'[g] = handle[g]
      /\ handle[h].state = "closed"
  BY DEF Typed, Closed
<1>2. pc'[t] = "configure" /\ local'[t].h = h /\ OthersKeep(t)
  BY DEF Goto, Typed, OthersKeep, Local
<1>3. \A u \in Thread : ~Owns(u, h)
  BY <1>1 DEF HandleInv, AcquiredState, DevicesClaimed, Owns
<1>4. \A u \in Thread, g \in Handle : Owns(u, g)' <=> Owns(u, g) \/ (u = t /\ g = h)
  BY <1>2 DEF Owns, Acquiring, OthersKeep
<1>5. AcquiredState'
  <2> SUFFICES ASSUME NEW u \in Thread, Acquiring(u)'
               PROVE  /\ local'[u].h \in Handle /\ local'[u].h \notin device'[u]
                      /\ handle'[local'[u].h].state
                           = IF pc'[u] \in {"configure", "claim"} THEN "open" ELSE "claimed"
    BY DEF AcquiredState
  <2>1. CASE u = t
    BY <2>1, <1>1, <1>2, <1>3 DEF Owns
  <2>2. CASE u # t
    <3>1. pc'[u] = pc[u] /\ local'[u] = local[u] /\ Acquiring(u)
      BY <2>2, <1>2 DEF OthersKeep, Acquiring
    <3>2. local[u].h \in Handle /\ local[u].h # h
      BY <3>1, <1>3 DEF HandleInv, AcquiredState, Owns
    <3> QED
      BY <3>1, <3>2, <1>1 DEF HandleInv, AcquiredState
  <2> QED
    BY <2>1, <2>2
<1>6. DevicesClaimed'
  BY <1>1, <1>3 DEF HandleInv, DevicesClaimed, Owns, Typed
<1>7. OneOwner'
  BY <1>3, <1>4 DEF HandleInv, OneOwner
<1>8. NoStrayHandle'
  BY <1>1, <1>4 DEF HandleInv, NoStrayHandle
<1>9. OneClaim'
  BY <1>1 DEF HandleInv, OneClaim
<1> QED
  BY <1>5, <1>6, <1>7, <1>8, <1>9 DEF HandleInv

(* hackrf_open_setup goes on, its handle as it was or with its interface   *)
(* claimed.                                                                *)
LEMMA AdvanceInv ==
  ASSUME Typed, HandleInv, NEW t \in Thread, NEW p \in {"claim", "allocate", "count"},
         Acquiring(t), Goto(t, p), UNCHANGED <<local, device>>,
         \/ /\ \/ pc[t] = "configure" /\ p = "claim"
               \/ pc[t] = "allocate" /\ p = "count"
            /\ UNCHANGED handle
         \/ /\ pc[t] = "claim" /\ p = "allocate"
            /\ Claimable(handle[local[t].h].board)
            /\ handle' = [handle EXCEPT ![local[t].h].state = "claimed"]
  PROVE  HandleInv'
<1> DEFINE h == local[t].h
<1>1. h \in Handle /\ h \notin device[t] /\ Owns(t, h)
  BY DEF HandleInv, AcquiredState, Owns
<1>2. /\ handle'[h].board = handle[h].board
      /\ handle'[h].state = IF p = "claim" THEN "open" ELSE "claimed"
      /\ \A g \in Handle \ {h} : handle'[g] = handle[g]
  BY <1>1 DEF Typed, HandleRecord, HandleInv, AcquiredState
<1>3. pc'[t] = p /\ OthersKeep(t)
  BY DEF Goto, Typed, OthersKeep
<1>4. \A u \in Thread : Acquiring(u)' <=> Acquiring(u)
  BY <1>3 DEF Acquiring, OthersKeep
<1>5. \A u \in Thread, g \in Handle : Owns(u, g)' <=> Owns(u, g)
  BY <1>4 DEF Owns
<1>6. \A u \in Thread \ {t} : ~Owns(u, h)
  BY <1>1 DEF HandleInv, OneOwner
<1> HIDE DEF h
<1>7. AcquiredState'
  <2> SUFFICES ASSUME NEW u \in Thread, Acquiring(u)
               PROVE  /\ local[u].h \in Handle /\ local[u].h \notin device[u]
                      /\ handle'[local[u].h].state
                           = IF pc'[u] \in {"configure", "claim"} THEN "open" ELSE "claimed"
    BY <1>4 DEF AcquiredState
  <2>1. local[u].h \in Handle /\ local[u].h \notin device[u]
    BY DEF HandleInv, AcquiredState
  <2>2. CASE u = t
    BY <2>1, <2>2, <1>2, <1>3 DEF h
  <2>3. CASE u # t
    <3>1. local[u].h # h
      BY <2>3, <1>6 DEF Owns
    <3> QED
      BY <2>1, <2>3, <3>1, <1>2, <1>3 DEF HandleInv, AcquiredState, OthersKeep
  <2> QED
    BY <2>2, <2>3
<1>8. DevicesClaimed'
  <2> SUFFICES ASSUME NEW u \in Thread, NEW g \in device[u]
               PROVE  handle'[g].state = "claimed"
    BY DEF DevicesClaimed
  <2>1. g \in Handle /\ g # h
    BY <1>1, <1>6 DEF Owns, Typed
  <2> QED
    BY <2>1, <1>2 DEF HandleInv, DevicesClaimed
<1>9. OneOwner'
  BY <1>5 DEF HandleInv, OneOwner
<1>10. NoStrayHandle'
  <2>1. handle[h].state # "closed"
    BY DEF HandleInv, AcquiredState, h
  <2> QED
    BY <2>1, <1>1, <1>2, <1>5 DEF HandleInv, NoStrayHandle
<1>11. OneClaim'
  <2>1. CASE UNCHANGED handle
    BY <2>1 DEF HandleInv, OneClaim
  <2>2. CASE Claimable(handle[h].board)
    BY <2>2, <1>1, <1>2 DEF HandleInv, OneClaim, Claimable
  <2> QED
    BY <2>1, <2>2 DEF h
<1> QED
  BY <1>7, <1>8, <1>9, <1>10, <1>11 DEF HandleInv

(* *device = lib_device: the handle passes to the device object.           *)
LEMMA CountLoadInv ==
  ASSUME Typed, HandleInv, NEW t \in Thread, CountLoad(t)
  PROVE  HandleInv'
<1> DEFINE h == local[t].h
<1>1. pc[t] = "count" /\ h \in Handle /\ h \notin device[t] /\ handle[h].state = "claimed"
  BY DEF HandleInv, AcquiredState, CountLoad, Acquiring
<1>2. /\ pc'[t] = "count_store" /\ device'[t] = device[t] \cup {h} /\ OthersKeep(t)
      /\ handle' = handle
  BY DEF CountLoad, Goto, Typed, OthersKeep
<1>3. \A u \in Thread : Acquiring(u)' <=> Acquiring(u) /\ u # t
  BY <1>2 DEF Acquiring, OthersKeep
<1>4. \A u \in Thread, g \in Handle : Owns(u, g)' <=> Owns(u, g)
  BY <1>1, <1>2, <1>3 DEF Owns, OthersKeep, Acquiring
<1> QED
  BY <1>1, <1>2, <1>3, <1>4 DEF HandleInv, AcquiredState, DevicesClaimed, OneOwner,
                                NoStrayHandle, OneClaim, OthersKeep

(* Every step of the library keeps the invariant of the handles.           *)
LEMMA StepHandleInv ==
  ASSUME Typed, HandleInv, NEW t \in Thread, Step(t)
  PROVE  HandleInv'
<1>1. CASE InitCall(t) \/ InitCreate(t)
  <2>1. Elsewhere(t)
    BY <1>1 DEF InitCall, InitCreate, Return, Goto, Elsewhere, OthersKeep, Acquiring, Typed
  <2> QED
    BY <2>1, ElsewhereInv
<1>2. CASE ExitCall(t) \/ ExitDestroy(t) \/ ExitStore(t)
  <2>1. Elsewhere(t)
    BY <1>2 DEF ExitCall, ExitDestroy, ExitStore, Return, Goto, Elsewhere, OthersKeep,
                Acquiring, Typed
  <2> QED
    BY <2>1, ElsewhereInv
<1>3. CASE \E b \in Board, h \in Handle : OpenCall(t, b, h)
  <2>1. PICK b \in Board, h \in Handle : OpenCall(t, b, h)
    BY <1>3
  <2>2. CASE UNCHANGED handle
    <3>1. pc[t] = "idle" /\ device' = device
      BY <2>1 DEF OpenCall
    <3>2. CASE UNCHANGED <<pc, local>>
      <4>1. Elsewhere(t)
        BY <2>2, <3>1, <3>2 DEF Elsewhere, OthersKeep, Acquiring
      <4> QED
        BY <4>1, ElsewhereInv
    <3>3. CASE \E r \in {"NOT_FOUND", "LIBUSB"} : Return(t, r)
      <4>1. Elsewhere(t)
        BY <2>2, <3>1, <3>3 DEF Return, Goto, Elsewhere, OthersKeep, Acquiring, Typed
      <4> QED
        BY <4>1, ElsewhereInv
    <3>4. CASE /\ handle' = [handle EXCEPT ![h] = [state |-> "open", board |-> b,
                                                   ctx |-> g_libusb_context]]
               /\ local' = [local EXCEPT ![t].h = h]
               /\ Goto(t, "configure")
      BY <2>1, <3>1, <3>4, OpenedInv DEF OpenCall
    <3> QED
      BY <2>1, <3>2, <3>3, <3>4 DEF OpenCall
  <2>3. CASE /\ handle' = [handle EXCEPT ![h] = [state |-> "open", board |-> b,
                                                 ctx |-> g_libusb_context]]
             /\ local' = [local EXCEPT ![t].h = h]
             /\ Goto(t, "configure")
    BY <2>1, <2>3, OpenedInv DEF OpenCall
  <2> QED
    BY <2>1, <2>2, <2>3 DEF OpenCall
<1>4. CASE OpenInvalid(t)
  <2>1. Elsewhere(t)
    BY <1>4 DEF OpenInvalid, Return, Goto, Elsewhere, OthersKeep, Acquiring, Typed
  <2> QED
    BY <2>1, ElsewhereInv
<1>5. CASE Configure(t) \/ ClaimInterface(t) \/ Allocate(t)
  <2>1. Acquiring(t) /\ device' = device
    BY <1>5 DEF Configure, ClaimInterface, Allocate, Acquiring
  <2>2. CASE libusb_close(local[t].h) /\ Goto(t, "idle")
             /\ local' = [local EXCEPT ![t] = NoLocal]
    <3>1. Drops(t, local[t].h)
      BY <2>1, <2>2 DEF Drops, libusb_close, Goto, OthersKeep, Acquiring, Owns, Typed,
                        HandleInv, AcquiredState
    <3> QED
      BY <3>1, DropsInv
  <2>3. CASE UNCHANGED <<handle, local>> /\ pc[t] = "configure" /\ Goto(t, "claim")
    BY <2>1, <2>3, AdvanceInv
  <2>5. CASE UNCHANGED <<handle, local>> /\ pc[t] = "allocate" /\ Goto(t, "count")
    BY <2>1, <2>5, AdvanceInv
  <2>4. CASE /\ pc[t] = "claim" /\ Goto(t, "allocate") /\ UNCHANGED local
             /\ Claimable(handle[local[t].h].board)
             /\ handle' = [handle EXCEPT ![local[t].h].state = "claimed"]
    BY <2>1, <2>4, AdvanceInv
  <2>6. CASE Configure(t)
    BY <2>2, <2>3, <2>6 DEF Configure, Return
  <2>7. CASE ClaimInterface(t)
    BY <2>2, <2>4, <2>7 DEF ClaimInterface, ClaimFails, Return
  <2>8. CASE Allocate(t)
    BY <2>2, <2>5, <2>8 DEF Allocate, Return
  <2> QED
    BY <1>5, <2>6, <2>7, <2>8
<1>6. CASE CountLoad(t)
  BY <1>6, CountLoadInv
<1>7. CASE CountStore(t) \/ UncountLoad(t) \/ UncountStore(t) \/ CloseNull(t)
  <2>1. Elsewhere(t)
    BY <1>7 DEF CountStore, UncountLoad, UncountStore, CloseNull, Return, Goto, Elsewhere,
                OthersKeep, Acquiring, Typed
  <2> QED
    BY <2>1, ElsewhereInv
<1>8. CASE \E h \in Handle : CloseCall(t, h)
  <2>1. PICK h \in Handle : CloseCall(t, h)
    BY <1>8
  <2>2. Drops(t, h)
    BY <2>1 DEF CloseCall, libusb_close, Drops, Goto, OthersKeep, Acquiring, Owns, Typed
  <2> QED
    BY <2>2, DropsInv
<1> QED
  BY <1>1, <1>2, <1>3, <1>4, <1>5, <1>6, <1>7, <1>8 DEF Step

-----------------------------------------------------------------------------
(* The inductive invariant for any number of threads.                      *)
IInv == Typed /\ HandleInv

(* What the library's users may rely on for any number of threads is an    *)
(* invariant.                                                              *)
THEOREM InvHolds == Spec => []IInv
<1>1. Init => IInv
  <2> SUFFICES ASSUME Init PROVE HandleInv
    BY InitType DEF IInv
  <2>1. \A h \in Handle : handle[h].state = "closed"
    BY DEF Init, Closed
  <2>2. \A t \in Thread : ~Acquiring(t) /\ device[t] = {}
    BY DEF Init, Acquiring
  <2> QED
    BY <2>1, <2>2 DEF HandleInv, AcquiredState, DevicesClaimed, OneOwner, NoStrayHandle,
                      OneClaim, Owns
<1>2. IInv /\ [Next]_vars => IInv'
  <2> SUFFICES ASSUME IInv, [Next]_vars PROVE IInv'
    OBVIOUS
  <2>1. CASE UNCHANGED vars
    <3>1. Typed'
      BY <2>1 DEF vars, IInv, Typed
    <3>2. HandleInv'
      BY <2>1 DEF vars, IInv, HandleInv, AcquiredState, DevicesClaimed, OneOwner,
                  NoStrayHandle, OneClaim, Acquiring, Owns
    <3> QED
      BY <3>1, <3>2 DEF IInv
  <2>2. ASSUME NEW t \in Thread, Step(t), overlapped' \in BOOLEAN
        PROVE  IInv'
    <3>1. pc[t] = "count" => local[t].h \in Handle
      BY DEF IInv, HandleInv, AcquiredState, Acquiring
    <3> QED
      BY <2>2, <3>1, StepType, StepHandleInv DEF IInv
  <2>3. \A t \in Thread :
          (overlapped \/ \E u \in Thread \ {t} : pc[u] # "idle") \in BOOLEAN
    OBVIOUS
  <2> QED
    BY <2>1, <2>2, <2>3 DEF Next, Crashed
<1> QED
  BY <1>1, <1>2, PTL DEF Spec

(* The counter keeps its width and every variable its type, under all      *)
(* interleavings and failures.                                             *)
THEOREM TypeCorrect == Spec => []TypeOK
BY InvHolds, TypedIsTypeOK, PTL DEF IInv

(***************************************************************************)
(* Whatever threads opened, closed and failed concurrently: once all calls *)
(* have returned, the open handles are exactly those of device objects.    *)
(***************************************************************************)
THEOREM HandlesAreDevicesHolds == Spec => []HandlesAreDevices
<1>1. IInv => HandlesAreDevices
  <2> SUFFICES ASSUME IInv, Quiet, NEW h \in Handle
               PROVE  /\ handle[h].state # "open"
                      /\ handle[h].state = "claimed" <=> \E t \in Thread : h \in device[t]
    BY DEF HandlesAreDevices
  <2>1. \A t \in Thread : Owns(t, h) => h \in device[t]
    BY DEF Quiet, Owns, Acquiring
  <2>2. handle[h].state \in {"closed", "open", "claimed"}
    BY DEF IInv, Typed, HandleRecord
  <2> QED
    BY <2>1, <2>2 DEF IInv, HandleInv, NoStrayHandle, DevicesClaimed
<1> QED
  BY <1>1, InvHolds, PTL

(***************************************************************************)
(* At every moment, no two device objects of any threads drive one board:  *)
(* hackrf_open_setup hands out a device only with the interface claimed.   *)
(***************************************************************************)
THEOREM BoardsAreExclusiveHolds == Spec => []BoardsAreExclusive
<1>1. IInv => BoardsAreExclusive
  BY DEF IInv, Typed, HandleInv, DevicesClaimed, OneClaim, BoardsAreExclusive
<1> QED
  BY <1>1, InvHolds, PTL

-----------------------------------------------------------------------------
(***************************************************************************)
(* Threads that never overlap.  While one thread is in the library, at p   *)
(* and with n in its register, the others are idle; what then holds of the *)
(* count and of the context depends on p and n.                            *)
(***************************************************************************)
AllDevices == UNION {device[t] : t \in Thread}

(* What the store that is still to come will add to open_devices.          *)
Adjust(p) ==
  IF p = "count_store" THEN 1 ELSE IF p \in {"uncount", "uncount_store"} THEN -1 ELSE 0

(* open_devices, the null closes and the pending store make up the devices *)
(* there are, modulo 2^16; n is the value loaded.                          *)
LedgerAt(p, n) ==
  /\ (open_devices + nullCloses + Adjust(p)) % UINT16 = Cardinality(AllDevices) % UINT16
  /\ p \in {"count_store", "uncount_store"} => n = open_devices

(* The context each position of hackrf_init and hackrf_exit has seen.      *)
ContextAt(p) ==
  /\ p = "init" => g_libusb_context = NULL
  /\ p = "exit" => g_libusb_context # NULL /\ open_devices = 0
  /\ IF p = "exit_store" THEN live = {} ELSE g_libusb_context # NULL => g_libusb_context \in live

(* Only t is inside a call.                                                *)
Alone(t) == \A u \in Thread \ {t} : pc[u] = "idle"

(* Holds wherever the threads are.                                         *)
SafeSoFar ==
  /\ IsFiniteSet(AllDevices)
  /\ live \subseteq {g_libusb_context}
  /\ crashed = "exit_in_use" => nullCloses > 0
  /\ crashed = "no_context" => g_libusb_context = NULL

(* As long as no two calls have overlapped, the ledger balances and the    *)
(* context is where the position says.                                     *)
SerialInv ==
  ~overlapped =>
    /\ SafeSoFar
    /\ (\A t \in Thread : pc[t] = "idle") => LedgerAt("idle", 0) /\ ContextAt("idle")
    /\ \A t \in Thread : Alone(t) => LedgerAt(pc[t], local[t].n) /\ ContextAt(pc[t])

(* Adding the same to both sides of the ledger.                            *)
LEMMA LedgerSums ==
  ASSUME NEW x \in Int, NEW y \in Int, x % UINT16 = y % UINT16
  PROVE  (x + 1) % UINT16 = (y + 1) % UINT16 /\ (x - 1) % UINT16 = (y - 1) % UINT16
BY SMT DEF UINT16

(* open_devices++ and open_devices--, seen modulo 2^16.                    *)
LEMMA LedgerStores ==
  ASSUME NEW n \in 0 .. UINT16 - 1, NEW m \in Nat
  PROVE  /\ (count_up(n) + m) % UINT16 = (n + m + 1) % UINT16
         /\ (count_down(n) + m) % UINT16 = (n + m - 1) % UINT16
BY SMT DEF UINT16, count_up, count_down

(* A step that leaves the sum and the devices alone.                       *)
LEMMA LedgerFrame ==
  ASSUME NEW t \in Thread, LedgerAt(pc[t], local[t].n),
         open_devices' = open_devices, nullCloses' = nullCloses, device' = device,
         Adjust(pc'[t]) = Adjust(pc[t]),
         pc'[t] \notin {"count_store", "uncount_store"}
  PROVE  LedgerAt(pc[t], local[t].n)'
BY DEF LedgerAt, AllDevices

(* The set of device objects grows by a new one in hackrf_open_setup and   *)
(* loses one in hackrf_close.                                              *)
LEMMA DeviceAdded ==
  ASSUME IInv, NEW t \in Thread, CountLoad(t)
  PROVE  AllDevices' = AllDevices \cup {local[t].h} /\ local[t].h \notin AllDevices
<1>1. local[t].h \in Handle /\ Owns(t, local[t].h) /\ local[t].h \notin device[t]
  BY DEF IInv, HandleInv, AcquiredState, CountLoad, Acquiring, Owns
<1>2. \A u \in Thread : local[t].h \notin device[u]
  BY <1>1 DEF IInv, HandleInv, OneOwner, Owns
<1>3. device' = [device EXCEPT ![t] = @ \cup {local[t].h}]
  BY DEF CountLoad
<1> QED
  BY <1>2, <1>3 DEF AllDevices, IInv, Typed

(* hackrf_close takes out a device of its own thread.                      *)
LEMMA DeviceRemoved ==
  ASSUME IInv, NEW t \in Thread, NEW h \in Handle, CloseCall(t, h)
  PROVE  AllDevices' = AllDevices \ {h} /\ h \in AllDevices
<1>1. h \in device[t]
  BY DEF CloseCall
<1>2. \A u \in Thread : h \in device[u] => u = t
  BY <1>1 DEF IInv, HandleInv, OneOwner, Owns
<1>3. device' = [device EXCEPT ![t] = @ \ {h}]
  BY DEF CloseCall
<1> QED
  BY <1>1, <1>2, <1>3 DEF AllDevices, IInv, Typed

(* The ledger balances after every step of a thread that is alone.         *)
LEMMA StepLedger ==
  ASSUME IInv, NEW t \in Thread, Step(t), IsFiniteSet(AllDevices),
         LedgerAt(pc[t], local[t].n)
  PROVE  LedgerAt(pc[t], local[t].n)' /\ IsFiniteSet(AllDevices)'
<1>0. /\ open_devices \in 0 .. UINT16 - 1 /\ open_devices \in Int
      /\ nullCloses \in Nat /\ pc \in [Thread -> Pc]
      /\ local \in [Thread -> Local] /\ Cardinality(AllDevices) \in Nat
  BY Width, LifecycleAssumption, FS_CardinalityType DEF IInv, Typed
<1>1. CASE InitCall(t) \/ InitCreate(t) \/ OpenInvalid(t) \/ ExitCall(t) \/ ExitStore(t)
  <2>1. /\ Adjust(pc'[t]) = Adjust(pc[t]) /\ pc'[t] \notin {"count_store", "uncount_store"}
        /\ UNCHANGED <<open_devices, nullCloses, device>>
    BY <1>0, <1>1 DEF InitCall, InitCreate, OpenInvalid, ExitCall, ExitStore, Return, Goto, Adjust
  <2> QED
    BY <2>1, LedgerFrame DEF AllDevices
<1>2. CASE ExitDestroy(t) \/ \E b \in Board, h \in Handle : OpenCall(t, b, h)
  <2>1. /\ Adjust(pc'[t]) = Adjust(pc[t]) /\ pc'[t] \notin {"count_store", "uncount_store"}
        /\ UNCHANGED <<open_devices, nullCloses, device>>
    BY <1>0, <1>2 DEF ExitDestroy, OpenCall, Return, Goto, Adjust
  <2> QED
    BY <2>1, LedgerFrame DEF AllDevices
<1>3. CASE Configure(t) \/ ClaimInterface(t) \/ Allocate(t)
  <2>1. /\ Adjust(pc'[t]) = Adjust(pc[t]) /\ pc'[t] \notin {"count_store", "uncount_store"}
        /\ UNCHANGED <<open_devices, nullCloses, device>>
    BY <1>0, <1>3 DEF Configure, ClaimInterface, ClaimFails, Allocate, Return, Goto, Adjust
  <2> QED
    BY <2>1, LedgerFrame DEF AllDevices
<1>4. CASE CountLoad(t)
  <2>1. /\ pc[t] = "count" /\ pc'[t] = "count_store" /\ local'[t].n = open_devices
        /\ UNCHANGED <<open_devices, nullCloses>>
    BY <1>0, <1>4 DEF CountLoad, Goto, Local
  <2>2. IsFiniteSet(AllDevices') /\ Cardinality(AllDevices') = Cardinality(AllDevices) + 1
    BY <1>4, DeviceAdded, FS_AddElement
  <2>3. (open_devices + nullCloses) % UINT16 = Cardinality(AllDevices) % UINT16
    BY <1>0, <2>1 DEF LedgerAt, Adjust
  <2>4. (open_devices + nullCloses + 1) % UINT16 = (Cardinality(AllDevices) + 1) % UINT16
    BY <1>0, <2>3, LedgerSums
  <2> QED
    BY <2>1, <2>2, <2>4 DEF LedgerAt, Adjust
<1>5. CASE CountStore(t)
  <2>1. /\ pc[t] = "count_store" /\ pc'[t] = "idle" /\ UNCHANGED <<nullCloses, device>>
        /\ local[t].n = open_devices /\ open_devices' = count_up(open_devices)
    BY <1>0, <1>5 DEF CountStore, Return, Goto, LedgerAt
  <2>2. (open_devices + nullCloses + 1) % UINT16 = Cardinality(AllDevices) % UINT16
    BY <2>1 DEF LedgerAt, Adjust
  <2>3. (open_devices' + nullCloses) % UINT16 = Cardinality(AllDevices) % UINT16
    BY <1>0, <2>1, <2>2, LedgerStores
  <2>4. open_devices' + nullCloses + 0 = open_devices' + nullCloses
    BY <1>0, <2>1, CountType
  <2> QED
    BY <2>1, <2>3, <2>4 DEF LedgerAt, Adjust, AllDevices
<1>6. CASE \E h \in Handle : CloseCall(t, h)
  <2>0. PICK h \in Handle : CloseCall(t, h)
    BY <1>6
  <2>1. /\ pc[t] = "idle" /\ pc'[t] = "uncount" /\ UNCHANGED <<open_devices, nullCloses>>
    BY <1>0, <2>0 DEF CloseCall, Goto
  <2>2. IsFiniteSet(AllDevices') /\ Cardinality(AllDevices') = Cardinality(AllDevices) - 1
    BY <2>0, DeviceRemoved, FS_RemoveElement
  <2>3. (open_devices + nullCloses) % UINT16 = Cardinality(AllDevices) % UINT16
    BY <1>0, <2>1 DEF LedgerAt, Adjust
  <2>4. (open_devices + nullCloses - 1) % UINT16 = (Cardinality(AllDevices) - 1) % UINT16
    BY <1>0, <2>3, LedgerSums
  <2>5. open_devices + nullCloses + (-1) = open_devices + nullCloses - 1
    BY <1>0
  <2> QED
    BY <2>1, <2>2, <2>4, <2>5 DEF LedgerAt, Adjust
<1>7. CASE CloseNull(t)
  <2>1. /\ pc[t] = "idle" /\ pc'[t] = "uncount" /\ UNCHANGED <<open_devices, device>>
        /\ nullCloses' = nullCloses + 1
    BY <1>0, <1>7 DEF CloseNull, Goto
  <2>2. (open_devices + nullCloses) % UINT16 = Cardinality(AllDevices) % UINT16
    BY <1>0, <2>1 DEF LedgerAt, Adjust
  <2>3. open_devices + (nullCloses + 1) + (-1) = open_devices + nullCloses
    BY <1>0
  <2> QED
    BY <2>1, <2>2, <2>3 DEF LedgerAt, Adjust, AllDevices
<1>8. CASE UncountLoad(t)
  <2>1. /\ pc[t] = "uncount" /\ pc'[t] = "uncount_store" /\ local'[t].n = open_devices
        /\ UNCHANGED <<open_devices, nullCloses, device>>
    BY <1>0, <1>8 DEF UncountLoad, Goto, Local
  <2> QED
    BY <2>1 DEF LedgerAt, Adjust, AllDevices
<1>9. CASE UncountStore(t)
  <2>1. /\ pc[t] = "uncount_store" /\ pc'[t] = "idle" /\ UNCHANGED <<nullCloses, device>>
        /\ local[t].n = open_devices /\ open_devices' = count_down(open_devices)
    BY <1>0, <1>9 DEF UncountStore, Return, Goto, LedgerAt
  <2>2. (open_devices + nullCloses - 1) % UINT16 = Cardinality(AllDevices) % UINT16
    <3>1. (open_devices + nullCloses + (-1)) % UINT16 = Cardinality(AllDevices) % UINT16
      BY <2>1 DEF LedgerAt, Adjust
    <3>2. open_devices + nullCloses + (-1) = open_devices + nullCloses - 1
      BY <1>0
    <3> QED
      BY <3>1, <3>2
  <2>3. (open_devices' + nullCloses) % UINT16 = Cardinality(AllDevices) % UINT16
    BY <1>0, <2>1, <2>2, LedgerStores
  <2>4. open_devices' + nullCloses + 0 = open_devices' + nullCloses
    BY <1>0, <2>1, CountType
  <2> QED
    BY <2>1, <2>3, <2>4 DEF LedgerAt, Adjust, AllDevices
<1> QED
  BY <1>1, <1>2, <1>3, <1>4, <1>5, <1>6, <1>7, <1>8, <1>9 DEF Step

(* Each device object has a board of its own, so their number stays below  *)
(* the width of open_devices.                                              *)
LEMMA FewDevices ==
  ASSUME IInv
  PROVE  IsFiniteSet(AllDevices) /\ Cardinality(AllDevices) < UINT16
<1> DEFINE f == [h \in AllDevices |-> handle[h].board]
<1>1. \A h \in AllDevices : h \in Handle /\ handle[h].state = "claimed" /\ handle[h].board \in Board
  BY DEF AllDevices, IInv, Typed, HandleInv, DevicesClaimed, NoStrayHandle
<1>2. f \in Injection(AllDevices, Board)
  BY <1>1 DEF Injection, IsInjective, IInv, HandleInv, OneClaim
<1>3. IsFiniteSet(AllDevices) /\ Cardinality(AllDevices) <= Cardinality(Board)
  BY <1>2, BoardAssumption, FS_Injection
<1> QED
  BY <1>3, BoardAssumption, Width, FS_CardinalityType

(* A thread that is alone in hackrf_exit and finds no device counted has   *)
(* no open handle to fear for, unless a null pointer was closed.           *)
LEMMA NothingInUse ==
  ASSUME IInv, NEW t \in Thread, Alone(t), pc[t] = "exit", open_devices = 0,
         nullCloses = 0, LedgerAt(pc[t], local[t].n), NEW c
  PROVE  OpenHandles(c) = {}
<1>1. Cardinality(AllDevices) \in Nat /\ Cardinality(AllDevices) < UINT16
      /\ IsFiniteSet(AllDevices)
  BY FewDevices, FS_CardinalityType
<1>2. (0 + 0 + 0) % UINT16 = Cardinality(AllDevices) % UINT16
  BY DEF LedgerAt, Adjust
<1>3. Cardinality(AllDevices) = 0
  BY <1>1, <1>2, SMT DEF UINT16
<1>4. AllDevices = {}
  BY <1>1, <1>3, FS_EmptySet
<1>5. \A u \in Thread : ~Acquiring(u) /\ device[u] = {}
  BY <1>4 DEF Alone, Acquiring, AllDevices
<1> QED
  BY <1>5 DEF OpenHandles, IInv, HandleInv, NoStrayHandle, Owns

(* The context outlives what is done with it, step by step of a thread     *)
(* that is alone.                                                          *)
LEMMA StepContext ==
  ASSUME IInv, NEW t \in Thread, Step(t), Alone(t), crashed = "no", SafeSoFar,
         LedgerAt(pc[t], local[t].n), ContextAt(pc[t])
  PROVE  /\ ContextAt(pc[t])'
         /\ (live \subseteq {g_libusb_context})'
         /\ (crashed = "exit_in_use" => nullCloses > 0)'
         /\ (crashed = "no_context" => g_libusb_context = NULL)'
<1>0. /\ pc \in [Thread -> Pc] /\ nullCloses \in Nat /\ g_libusb_context \in Context \cup {NULL}
      /\ live \subseteq Context /\ NULL \notin Context /\ live \subseteq {g_libusb_context}
  BY LifecycleAssumption DEF IInv, Typed, SafeSoFar
<1>1. CASE InitCall(t)
  BY <1>0, <1>1 DEF InitCall, Return, Goto, ContextAt, SafeSoFar
<1>2. CASE InitCreate(t)
  <2>1. pc[t] = "init" /\ pc'[t] = "idle" /\ g_libusb_context = NULL /\ live = {}
        /\ crashed' = "no"
    BY <1>0, <1>2 DEF InitCreate, Return, Goto, ContextAt
  <2> QED
    BY <1>0, <1>2, <2>1 DEF InitCreate, ContextAt
<1>3. CASE ExitCall(t)
  BY <1>0, <1>3 DEF ExitCall, MayExit, Return, Goto, ContextAt, SafeSoFar
<1>4. CASE ExitDestroy(t)
  <2>1. pc[t] = "exit" /\ g_libusb_context \in live /\ open_devices = 0
    BY <1>4 DEF ExitDestroy, ContextAt
  <2>2. pc'[t] = "exit_store" /\ live' = {}
        /\ UNCHANGED <<g_libusb_context, nullCloses>>
        /\ crashed' = IF OpenHandles(g_libusb_context) = {} THEN "no" ELSE "exit_in_use"
    BY <1>0, <1>4, <2>1 DEF ExitDestroy, Goto
  <2>3. nullCloses = 0 => OpenHandles(g_libusb_context) = {}
    BY <2>1, NothingInUse
  <2> QED
    BY <1>0, <2>2, <2>3 DEF ContextAt
<1>5. CASE ExitStore(t)
  <2>1. pc[t] = "exit_store" /\ pc'[t] = "idle" /\ live' = {} /\ g_libusb_context' = NULL
        /\ crashed' = "no"
    BY <1>0, <1>5 DEF ExitStore, Return, Goto, ContextAt
  <2> QED
    BY <2>1 DEF ContextAt
<1>6. CASE \E b \in Board, h \in Handle : OpenCall(t, b, h)
  <2>1. /\ pc[t] = "idle" /\ UNCHANGED <<g_libusb_context, live, open_devices>>
        /\ crashed' \in {"no", "no_context"}
        /\ crashed' = "no_context" => g_libusb_context \notin live
    BY <1>6 DEF OpenCall
  <2>2. pc'[t] \in {"idle", "configure"}
    BY <1>0, <1>6 DEF OpenCall, Return, Goto
  <2> QED
    BY <1>0, <2>1, <2>2 DEF ContextAt
<1>7. CASE OpenInvalid(t) \/ CloseNull(t) \/ \E h \in Handle : CloseCall(t, h)
  <2>1. pc[t] = "idle" /\ pc'[t] \in {"idle", "uncount"} /\ crashed' = "no"
        /\ UNCHANGED <<g_libusb_context, live>>
    BY <1>0, <1>7 DEF OpenInvalid, CloseNull, CloseCall, Return, Goto
  <2> QED
    BY <1>0, <2>1 DEF ContextAt
<1>8. CASE Configure(t) \/ ClaimInterface(t) \/ Allocate(t)
  <2>1. pc[t] \in {"configure", "claim", "allocate"} /\ crashed' = "no"
        /\ pc'[t] \in {"claim", "allocate", "count", "idle"}
        /\ UNCHANGED <<g_libusb_context, live>>
    BY <1>0, <1>8 DEF Configure, ClaimInterface, ClaimFails, Allocate, Return, Goto
  <2> QED
    BY <1>0, <2>1 DEF ContextAt
<1>9. CASE CountLoad(t) \/ CountStore(t) \/ UncountLoad(t) \/ UncountStore(t)
  <2>1. pc[t] \in {"count", "count_store", "uncount", "uncount_store"} /\ crashed' = "no"
        /\ pc'[t] \in {"count_store", "uncount_store", "idle"}
        /\ UNCHANGED <<g_libusb_context, live>>
    BY <1>0, <1>9 DEF CountLoad, CountStore, UncountLoad, UncountStore, Return, Goto
  <2> QED
    BY <1>0, <2>1 DEF ContextAt
<1> QED
  BY <1>1, <1>2, <1>3, <1>4, <1>5, <1>6, <1>7, <1>8, <1>9 DEF Step

(* Only thread t moves.                                                    *)
LEMMA StepPc ==
  ASSUME IInv, NEW t \in Thread, Step(t)
  PROVE  \A u \in Thread \ {t} : pc'[u] = pc[u]
<1>1. \/ UNCHANGED pc
      \/ \E p \in Pc : pc' = [pc EXCEPT ![t] = p]
  BY DEF Step, InitCall, InitCreate, ExitCall, ExitDestroy, ExitStore, OpenCall, OpenInvalid,
         Configure, ClaimInterface, ClaimFails, Allocate, CountLoad, CountStore, CloseCall,
         CloseNull, UncountLoad, UncountStore, Return, Goto, Pc
<1> QED
  BY <1>1 DEF IInv, Typed

(* As long as no call has overlapped another, the count and the context    *)
(* are in order.                                                           *)
THEOREM SerialInvHolds == Spec => []SerialInv
<1>1. Init => SerialInv
  <2> SUFFICES ASSUME Init PROVE SerialInv
    OBVIOUS
  <2>1. AllDevices = {}
    BY DEF Init, AllDevices
  <2>2. IsFiniteSet(AllDevices) /\ Cardinality(AllDevices) = 0
    BY <2>1, FS_EmptySet
  <2>3. open_devices = 0 /\ nullCloses = 0 /\ live = {} /\ g_libusb_context = NULL
        /\ crashed = "no" /\ \A t \in Thread : pc[t] = "idle"
    BY DEF Init
  <2>4. LedgerAt("idle", 0) /\ \A t \in Thread : LedgerAt(pc[t], local[t].n)
    BY <2>2, <2>3 DEF LedgerAt, Adjust
  <2>5. ContextAt("idle") /\ \A t \in Thread : ContextAt(pc[t])
    BY <2>3 DEF ContextAt
  <2>6. SafeSoFar
    BY <2>2, <2>3 DEF SafeSoFar
  <2> QED
    BY <2>4, <2>5, <2>6 DEF SerialInv
<1>2. IInv /\ SerialInv /\ [Next]_vars => SerialInv'
  <2> SUFFICES ASSUME IInv, SerialInv, [Next]_vars PROVE SerialInv'
    OBVIOUS
  <2>1. CASE UNCHANGED vars
    BY <2>1 DEF vars, SerialInv, SafeSoFar, LedgerAt, ContextAt, Alone, AllDevices
  <2>2. ASSUME NEW t \in Thread, Step(t), crashed = "no", ~overlapped, Alone(t)
        PROVE  SerialInv'
    <3>1. SafeSoFar /\ LedgerAt(pc[t], local[t].n) /\ ContextAt(pc[t])
      BY <2>2 DEF SerialInv
    <3>2. LedgerAt(pc[t], local[t].n)' /\ ContextAt(pc[t])' /\ SafeSoFar'
      BY <2>2, <3>1, StepLedger, StepContext DEF SafeSoFar
    <3>3. \A u \in Thread \ {t} : pc'[u] = "idle"
      BY <2>2, StepPc DEF Alone
    <3>4. ASSUME pc'[t] = "idle"
          PROVE  ContextAt("idle")' /\ \A n : LedgerAt("idle", n)'
      BY <3>2, <3>4 DEF LedgerAt, ContextAt
    <3>5. \A u \in Thread : Alone(u)' => u = t \/ (pc'[t] = "idle" /\ pc'[u] = "idle")
      BY <3>3 DEF Alone
    <3>6. \A u \in Thread : Alone(u)' => LedgerAt(pc[u], local[u].n)' /\ ContextAt(pc[u])'
      BY <3>2, <3>4, <3>5 DEF LedgerAt, ContextAt
    <3> QED
      BY <3>2, <3>4, <3>6 DEF SerialInv
  <2> QED
    BY <2>1, <2>2 DEF Next, Crashed, SerialInv, Alone
<1> QED
  BY <1>1, <1>2, InvHolds, PTL DEF Spec

(***************************************************************************)
(* Threads that keep out of each other's calls are as safe as one thread:  *)
(* hackrf_init leaks no context, hackrf_exit destroys none in use, and     *)
(* open_devices is the number of devices.                                  *)
(***************************************************************************)
THEOREM SerialCallsAreSafeHolds == Spec => []SerialCallsAreSafe
<1>1. IInv /\ SerialInv => SerialCallsAreSafe
  <2> SUFFICES ASSUME IInv, SerialInv, ~overlapped, nullCloses = 0
               PROVE  /\ live \subseteq {g_libusb_context}
                      /\ crashed # "exit_in_use"
                      /\ crashed = "no_context" => g_libusb_context = NULL
                      /\ Quiet => open_devices = Cardinality(AllDevices)
    BY DEF SerialCallsAreSafe, AllDevices
  <2>1. SafeSoFar
    BY DEF SerialInv
  <2>2. ASSUME Quiet
        PROVE  open_devices = Cardinality(AllDevices)
    <3>1. (open_devices + 0 + 0) % UINT16 = Cardinality(AllDevices) % UINT16
      BY <2>2 DEF SerialInv, Quiet, LedgerAt, Adjust
    <3>2. Cardinality(AllDevices) \in Nat /\ Cardinality(AllDevices) < UINT16
      BY FewDevices, FS_CardinalityType
    <3>3. open_devices \in 0 .. UINT16 - 1
      BY DEF IInv, Typed
    <3> QED
      BY <3>1, <3>2, <3>3, SMT DEF UINT16
  <2> QED
    BY <2>1, <2>2 DEF SafeSoFar
<1> QED
  BY <1>1, InvHolds, SerialInvHolds, PTL

-----------------------------------------------------------------------------
(* A program with one thread.                                              *)

(* The program's only thread.                                              *)
OneThread == \E t : Thread = {t}

(* One thread has nobody to overlap with.                                  *)
LEMMA NeverOverlaps ==
  ASSUME OneThread
  PROVE  Spec => []~overlapped
<1>1. Init => ~overlapped
  BY DEF Init
<1>2. ~overlapped /\ [Next]_vars => ~overlapped'
  BY DEF OneThread, Next, Crashed, vars
<1> QED
  BY <1>1, <1>2, PTL DEF Spec

(***************************************************************************)
(* Between the calls of a single thread, open_devices + the calls of       *)
(* hackrf_close(NULL) is the number of device objects, modulo 2^16.        *)
(***************************************************************************)
THEOREM CountIsLedgerHolds ==
  ASSUME OneThread
  PROVE  Spec => []CountIsLedger
<1>1. IInv /\ SerialInv /\ ~overlapped => CountIsLedger
  <2> SUFFICES ASSUME IInv, SerialInv, ~overlapped, Quiet
               PROVE  (open_devices + nullCloses) % UINT16 = Cardinality(AllDevices) % UINT16
    BY DEF CountIsLedger, AllDevices
  <2>1. (open_devices + nullCloses + 0) % UINT16 = Cardinality(AllDevices) % UINT16
    BY DEF SerialInv, Quiet, LedgerAt, Adjust
  <2>2. open_devices + nullCloses + 0 = open_devices + nullCloses
    BY Width, LifecycleAssumption DEF IInv, Typed
  <2> QED
    BY <2>1, <2>2
<1> QED
  BY <1>1, InvHolds, SerialInvHolds, NeverOverlaps, PTL

(***************************************************************************)
(* For a single thread, hackrf_exit destroys the context of an open handle *)
(* only after a hackrf_close(NULL).                                        *)
(***************************************************************************)
THEOREM ExitRespectsCountHolds ==
  ASSUME OneThread
  PROVE  Spec => []ExitRespectsCount
<1>1. SerialInv /\ ~overlapped => ExitRespectsCount
  BY DEF SerialInv, SafeSoFar, ExitRespectsCount
<1> QED
  BY <1>1, SerialInvHolds, NeverOverlaps, PTL

=============================================================================
