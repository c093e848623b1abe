---------------------------- MODULE StreamSession ----------------------------
(***************************************************************************)
(* What the streaming calls of libhackrf promise the application about one *)
(* device, without transfers, flags or program counters.                   *)
(*                                                                         *)
(* A device is in at most one streaming session.  A session goes live when *)
(* a start succeeds, ends once (a stop, a fatal transfer error, the sample *)
(* callback's wish) and never becomes live again; its worker thread then   *)
(* quits, and only a session whose worker has quit is stopped, after which *)
(* the device may stream again.                                            *)
(***************************************************************************)
CONSTANT Device

VARIABLES
  session,   \* new, idle, live, ended or gone
  worker     \* does the session's worker thread still run?

TypeOK ==
  /\ session \in [Device -> {"new", "idle", "live", "ended", "gone"}]
  /\ worker  \in [Device -> BOOLEAN]

Init ==
  /\ session = [d \in Device |-> "new"]
  /\ worker  = [d \in Device |-> FALSE]

Move(d, from, to) ==
  /\ session[d] = from
  /\ session' = [session EXCEPT ![d] = to]

Open(d) == Move(d, "new", "idle") /\ UNCHANGED worker

Start(d) ==
  /\ Move(d, "idle", "live")
  /\ worker' = [worker EXCEPT ![d] = TRUE]

(* A transfer failed before its session's worker existed.                  *)
StartStillborn(d) ==
  /\ Move(d, "idle", "ended")
  /\ worker' = [worker EXCEPT ![d] = TRUE]

End(d) == Move(d, "live", "ended") /\ UNCHANGED worker

Quit(d) ==
  /\ session[d] = "ended"
  /\ worker' = [worker EXCEPT ![d] = FALSE]
  /\ UNCHANGED session

Stop(d) ==
  /\ ~worker[d]
  /\ Move(d, "ended", "idle")
  /\ UNCHANGED worker

Close(d) == Move(d, "idle", "gone") /\ UNCHANGED worker

(* hackrf_close goes on after both of its stops have failed.               *)
Abandon(d) ==
  /\ \E s \in {"live", "ended"} : Move(d, s, "gone")
  /\ UNCHANGED worker

Next ==
  \E d \in Device :
    \/ Open(d) \/ Start(d) \/ StartStillborn(d) \/ End(d)
    \/ Quit(d) \/ Stop(d) \/ Close(d) \/ Abandon(d)

vars == <<session, worker>>

Spec == Init /\ [][Next]_vars

=============================================================================
