--------------------------- MODULE NginxReloader ---------------------------
(***************************************************************************)
(* The debounced reloader of api/internal/service/nginx_reload.go.         *)
(*                                                                         *)
(* A caller writes configuration files, then asks for a reload.  Requests  *)
(* made within the debounce window share one timer; the timer's callback   *)
(* runs in a goroutine of its own, so that Stop may come too late for a    *)
(* callback that has already started and waits for r.mu.  Every critical   *)
(* section of r.mu is one action: none of them blocks inside.              *)
(*                                                                         *)
(* disk counts the configurations written, loaded is the one nginx runs,   *)
(* asked the newest one some request was made for.                         *)
(***************************************************************************)
EXTENDS Naturals

CONSTANTS Callers,    \* goroutines that write configuration and ask for a reload
          Timers,     \* pool of time.AfterFunc timers, a bound on live callbacks
          NoTimer,    \* r.timer == nil
          MaxWrites   \* bound on the configurations written

ASSUME TimerAssumption == NoTimer \notin Timers
ASSUME WritesAssumption == MaxWrites \in Nat

VARIABLES pending,    \* r.pending
          timer,      \* r.timer
          callback,   \* state of each timer and of the callback it starts
          pc,         \* where each caller is
          disk, loaded, asked,
          dropped     \* a reload has failed since the last request

vars == <<pending, timer, callback, pc, disk, loaded, asked, dropped>>

CallbackStates == {"idle", "armed", "fired", "reloading", "reloaded"}
CallerStates == {"idle", "written", "reloading"}

\* The type of each variable; r.timer is nil or a timer whose callback is to come.
TypeOK ==
  /\ pending \in BOOLEAN
  /\ timer \in {t \in Timers : callback[t] \in {"armed", "fired"}} \cup {NoTimer}
  /\ callback \in [Timers -> CallbackStates]
  /\ pc \in [Callers -> CallerStates]
  /\ disk \in 0..MaxWrites
  /\ loaded \in 0..MaxWrites
  /\ asked \in 0..MaxWrites
  /\ dropped \in BOOLEAN

Init ==
  /\ pending = FALSE
  /\ timer = NoTimer
  /\ callback = [t \in Timers |-> "idle"]
  /\ pc = [c \in Callers |-> "idle"]
  /\ disk = 0 /\ loaded = 0 /\ asked = 0
  /\ dropped = FALSE

-----------------------------------------------------------------------------
\* Stop prevents an armed timer from firing; a callback that has started runs on.
Stopped == [t \in Timers |-> IF t = timer /\ callback[t] = "armed" THEN "idle" ELSE callback[t]]

\* What is written may be what is there already, so that requests never run out.
WriteConfig(c) ==
  /\ pc[c] = "idle"
  /\ disk' \in {disk, disk + 1} \cap (0..MaxWrites)
  /\ pc' = [pc EXCEPT ![c] = "written"]
  /\ UNCHANGED <<pending, timer, callback, loaded, asked, dropped>>

\* RequestReload that arms a timer only when there was none.
RequestReload_NoRearm(c) ==
  /\ pc[c] = "written"
  /\ pending' = TRUE
  /\ IF timer = NoTimer
     THEN \E t \in Timers :
            /\ callback[t] = "idle"
            /\ timer' = t
            /\ callback' = [callback EXCEPT ![t] = "armed"]
     ELSE timer' = timer /\ callback' = Stopped
  /\ asked' = disk
  /\ dropped' = FALSE
  /\ pc' = [pc EXCEPT ![c] = "idle"]
  /\ UNCHANGED <<disk, loaded>>

RequestReload(c) ==
  /\ pc[c] = "written"
  /\ pending' = TRUE
  /\ \E t \in Timers :
       /\ Stopped[t] = "idle"
       /\ timer' = t
       /\ callback' = [Stopped EXCEPT ![t] = "armed"]
  /\ asked' = disk
  /\ dropped' = FALSE
  /\ pc' = [pc EXCEPT ![c] = "idle"]
  /\ UNCHANGED <<disk, loaded>>

\* Both take the pending request away from the timer and reload themselves.
TakeOver(c) ==
  /\ callback' = Stopped
  /\ timer' = NoTimer
  /\ pending' = FALSE
  /\ pc' = [pc EXCEPT ![c] = "reloading"]
  /\ UNCHANGED <<disk, loaded>>

RequestReloadImmediate(c) ==
  /\ pc[c] = "written"
  /\ TakeOver(c)
  /\ asked' = disk
  /\ dropped' = FALSE

Flush(c) ==
  /\ pc[c] = "idle"
  /\ IF pending
     THEN TakeOver(c) /\ UNCHANGED <<asked, dropped>>
     ELSE /\ callback' = Stopped
          /\ timer' = NoTimer
          /\ UNCHANGED <<pending, pc, disk, loaded, asked, dropped>>

Fire(t) ==
  /\ callback[t] = "armed"
  /\ callback' = [callback EXCEPT ![t] = "fired"]
  /\ UNCHANGED <<pending, timer, pc, disk, loaded, asked, dropped>>

\* executeReload that serves its request without clearing r.pending.
ExecuteReload_KeepsPending(t) ==
  /\ callback[t] = "fired"
  /\ IF pending
     THEN timer' = NoTimer /\ callback' = [callback EXCEPT ![t] = "reloading"]
     ELSE timer' = timer /\ callback' = [callback EXCEPT ![t] = "idle"]
  /\ UNCHANGED <<pending, pc, disk, loaded, asked, dropped>>

\* executeReload that serves its request without clearing r.timer.
ExecuteReload_KeepsTimer(t) ==
  /\ callback[t] = "fired"
  /\ pending' = FALSE
  /\ callback' = [callback EXCEPT ![t] = IF pending THEN "reloading" ELSE "idle"]
  /\ UNCHANGED <<timer, pc, disk, loaded, asked, dropped>>

\* executeReload up to its first Unlock.
ExecuteReload(t) ==
  /\ callback[t] = "fired"
  /\ IF pending
     THEN /\ pending' = FALSE
          /\ timer' = NoTimer
          /\ callback' = [callback EXCEPT ![t] = "reloading"]
     ELSE /\ callback' = [callback EXCEPT ![t] = "idle"]
          /\ UNCHANGED <<pending, timer>>
  /\ UNCHANGED <<pc, disk, loaded, asked, dropped>>

\* Manager.ReloadNginx: nginx loads what is on disk, or reports an error.
ReloadNginx ==
  /\ \/ loaded' = disk /\ dropped' = FALSE
     \/ loaded' = loaded /\ dropped' = TRUE
  /\ UNCHANGED <<pending, timer, disk, asked>>

CallbackReload(t) ==
  /\ callback[t] = "reloading"
  /\ ReloadNginx
  /\ callback' = [callback EXCEPT ![t] = IF dropped' THEN "idle" ELSE "reloaded"]
  /\ UNCHANGED pc

\* The bookkeeping after a reload that clears r.pending, as if it belonged there.
RecordReload_ClearsPending(t) ==
  /\ callback[t] = "reloaded"
  /\ callback' = [callback EXCEPT ![t] = "idle"]
  /\ pending' = FALSE
  /\ UNCHANGED <<timer, pc, disk, loaded, asked, dropped>>

\* lastReload and reloadCount, which nothing but GetStats reads.
RecordReload(t) ==
  /\ callback[t] = "reloaded"
  /\ callback' = [callback EXCEPT ![t] = "idle"]
  /\ UNCHANGED <<pending, timer, pc, disk, loaded, asked, dropped>>

CallerReload(c) ==
  /\ pc[c] = "reloading"
  /\ ReloadNginx
  /\ pc' = [pc EXCEPT ![c] = "idle"]
  /\ UNCHANGED callback

\* The process dies with its timers; start-up writes every configuration again
\* and reloads, and goes on when that fails.
Restart ==
  /\ pending' = FALSE
  /\ timer' = NoTimer
  /\ callback' = [t \in Timers |-> "idle"]
  /\ pc' = [c \in Callers |-> "idle"]
  /\ \/ loaded' = disk /\ dropped' = FALSE
     \/ loaded' = loaded /\ dropped' = TRUE
  /\ UNCHANGED <<disk, asked>>

Caller(c) ==
  \/ WriteConfig(c) \/ RequestReload(c) \/ RequestReloadImmediate(c)
  \/ Flush(c) \/ CallerReload(c)

Callback(t) == Fire(t) \/ ExecuteReload(t) \/ CallbackReload(t) \/ RecordReload(t)

Next ==
  \/ \E c \in Callers : Caller(c)
  \/ \E t \in Timers : Callback(t)
  \/ Restart

\* Timers fire and goroutines run; whether a caller asks at all is its own choice.
Fairness ==
  /\ \A t \in Timers : WF_vars(Callback(t))
  /\ \A c \in Callers : WF_vars(CallerReload(c))

Spec == Init /\ [][Next]_vars /\ Fairness

-----------------------------------------------------------------------------
Reloading ==
  \/ \E t \in Timers : callback[t] = "reloading"
  \/ \E c \in Callers : pc[c] = "reloading"

\* A pending reload always has a callback on its way (by its type the handle is one
\* that has not run): neither the late Stop nor a callback that outran it and
\* clears the newer handle can leave r.pending set with no timer to serve it, or
\* a handle to a timer that has nothing to do.
PendingHasTimer == pending <=> timer # NoTimer

\* No request is lost between the debounce window, a callback that started before
\* Stop, and a reload in flight: a configuration some request was made for is
\* loaded, about to be loaded, or its reload was tried and failed.
NoLostReload == asked > loaded => pending \/ Reloading \/ dropped

\* Every request is served once requests pause: nginx runs what was on disk when it was made,
\* unless the reload that took the request fails (a failed reload is not tried again).  Requests
\* that keep coming within the debounce window put the reload off for ever, since each one arms
\* the timer anew and nothing bounds the wait; immediate ones and flushes do not.
Rearms == \E c \in Callers : RequestReload(c)

RequestServed == []<><<Rearms>>_vars \/ ((asked > loaded) ~> (asked <= loaded \/ dropped))

=============================================================================
