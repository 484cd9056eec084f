------------------------ MODULE NginxReloader_proofs ------------------------
(* Theorems about NginxReloader, for any callers, timers and bounds. *)
EXTENDS NginxReloader, TLAPS

\* Reloads only ever load what is on disk, and requests follow their writes.
Bounded == loaded <= disk /\ asked <= disk

IInv == TypeOK /\ Bounded /\ PendingHasTimer /\ NoLostReload

LEMMA InitIInv == Init => IInv
<1> SUFFICES ASSUME Init PROVE IInv
  OBVIOUS
<1>1. TypeOK
  <2>1. 0 \in 0..MaxWrites BY WritesAssumption
  <2>2. callback \in [Timers -> CallbackStates] /\ pc \in [Callers -> CallerStates]
    BY DEF Init, CallbackStates, CallerStates
  <2> QED BY <2>1, <2>2 DEF Init, TypeOK
<1>2. Bounded BY DEF Init, Bounded
<1>3. PendingHasTimer BY DEF Init, PendingHasTimer
<1>4. NoLostReload BY DEF Init, NoLostReload
<1> QED BY <1>1, <1>2, <1>3, <1>4 DEF IInv

LEMMA TypeStep == TypeOK /\ PendingHasTimer /\ [Next]_vars => TypeOK'
<1> SUFFICES ASSUME TypeOK, PendingHasTimer, [Next]_vars PROVE TypeOK'
  OBVIOUS
<1> USE TimerAssumption, WritesAssumption
    DEF TypeOK, PendingHasTimer, CallbackStates, CallerStates
<1>1. ASSUME NEW c \in Callers, Caller(c) PROVE TypeOK'
  <2>1. CASE WriteConfig(c) BY <2>1 DEF WriteConfig
  <2>2. CASE RequestReload(c) BY <2>2 DEF RequestReload, Stopped
  <2>3. CASE RequestReloadImmediate(c)
    BY <2>3 DEF RequestReloadImmediate, TakeOver, Stopped
  <2>4. CASE Flush(c) BY <2>4 DEF Flush, TakeOver, Stopped
  <2>5. CASE CallerReload(c) BY <2>5 DEF CallerReload, ReloadNginx
  <2> QED BY <1>1, <2>1, <2>2, <2>3, <2>4, <2>5 DEF Caller
<1>2. ASSUME NEW t \in Timers, Callback(t) PROVE TypeOK'
  <2>1. CASE Fire(t) BY <2>1 DEF Fire
  <2>2. CASE ExecuteReload(t) BY <2>2 DEF ExecuteReload
  <2>3. CASE CallbackReload(t) BY <2>3 DEF CallbackReload, ReloadNginx
  <2>4. CASE RecordReload(t) BY <2>4 DEF RecordReload
  <2> QED BY <1>2, <2>1, <2>2, <2>3, <2>4 DEF Callback
<1>3. CASE Restart BY <1>3 DEF Restart
<1>4. CASE UNCHANGED vars BY <1>4 DEF vars
<1> QED BY <1>1, <1>2, <1>3, <1>4 DEF Next

LEMMA BoundedStep == TypeOK /\ Bounded /\ [Next]_vars => Bounded'
<1> SUFFICES ASSUME TypeOK, Bounded, [Next]_vars PROVE Bounded'
  OBVIOUS
<1> USE WritesAssumption DEF TypeOK, Bounded
<1>1. ASSUME NEW c \in Callers, Caller(c) PROVE Bounded'
  BY <1>1 DEF Caller, WriteConfig, RequestReload, RequestReloadImmediate, Flush, TakeOver,
              CallerReload, ReloadNginx
<1>2. ASSUME NEW t \in Timers, Callback(t) PROVE Bounded'
  BY <1>2 DEF Callback, Fire, ExecuteReload, CallbackReload, RecordReload, ReloadNginx
<1>3. CASE Restart BY <1>3 DEF Restart
<1>4. CASE UNCHANGED vars BY <1>4 DEF vars
<1> QED BY <1>1, <1>2, <1>3, <1>4 DEF Next

LEMMA PendingStep == TypeOK /\ PendingHasTimer /\ [Next]_vars => PendingHasTimer'
<1> SUFFICES ASSUME TypeOK, PendingHasTimer, [Next]_vars PROVE PendingHasTimer'
  OBVIOUS
<1> USE TimerAssumption DEF TypeOK, PendingHasTimer
<1>1. ASSUME NEW c \in Callers, Caller(c) PROVE PendingHasTimer'
  BY <1>1 DEF Caller, WriteConfig, RequestReload, RequestReloadImmediate, Flush, TakeOver,
              CallerReload, ReloadNginx
<1>2. ASSUME NEW t \in Timers, Callback(t) PROVE PendingHasTimer'
  BY <1>2 DEF Callback, Fire, ExecuteReload, CallbackReload, RecordReload, ReloadNginx
<1>3. CASE Restart BY <1>3 DEF Restart
<1>4. CASE UNCHANGED vars BY <1>4 DEF vars
<1> QED BY <1>1, <1>2, <1>3, <1>4 DEF Next

LEMMA NoLostStep == TypeOK /\ Bounded /\ NoLostReload /\ [Next]_vars => NoLostReload'
<1> SUFFICES ASSUME TypeOK, Bounded, NoLostReload, [Next]_vars PROVE NoLostReload'
  OBVIOUS
<1> USE WritesAssumption DEF TypeOK, Bounded, NoLostReload, Reloading, CallbackStates, CallerStates
<1>1. ASSUME NEW c \in Callers, Caller(c) PROVE NoLostReload'
  <2>1. CASE WriteConfig(c) BY <2>1 DEF WriteConfig
  <2>2. CASE RequestReload(c) BY <2>2 DEF RequestReload
  <2>3. CASE RequestReloadImmediate(c)
    BY <2>3 DEF RequestReloadImmediate, TakeOver
  <2>4. CASE Flush(c) BY <2>4 DEF Flush, TakeOver, Stopped
  <2>5. CASE CallerReload(c) BY <2>5 DEF CallerReload, ReloadNginx
  <2> QED BY <1>1, <2>1, <2>2, <2>3, <2>4, <2>5 DEF Caller
<1>2. ASSUME NEW t \in Timers, Callback(t) PROVE NoLostReload'
  <2>1. CASE Fire(t) BY <2>1 DEF Fire
  <2>2. CASE ExecuteReload(t) BY <2>2 DEF ExecuteReload
  <2>3. CASE CallbackReload(t) BY <2>3 DEF CallbackReload, ReloadNginx
  <2>4. CASE RecordReload(t) BY <2>4 DEF RecordReload
  <2> QED BY <1>2, <2>1, <2>2, <2>3, <2>4 DEF Callback
<1>3. CASE Restart BY <1>3 DEF Restart
<1>4. CASE UNCHANGED vars BY <1>4 DEF vars
<1> QED BY <1>1, <1>2, <1>3, <1>4 DEF Next

\* The conjunction of the invariants is inductive: every conjunct holds on the
\* reachable states of nginx_reload.go, whatever the number of callers.
THEOREM Invariant == Spec => []IInv
<1>1. IInv /\ [Next]_vars => IInv'
  BY TypeStep, BoundedStep, PendingStep, NoLostStep DEF IInv
<1> QED BY InitIInv, <1>1, PTL DEF Spec

\* The state of the reloader is of its type.
THEOREM TypeCorrect == Spec => []TypeOK
<1>1. IInv => TypeOK BY DEF IInv
<1> QED BY <1>1, Invariant, PTL

\* r.pending is never set without a callback that will find it.
THEOREM PendingIsTimed == Spec => []PendingHasTimer
<1>1. IInv => PendingHasTimer BY DEF IInv
<1> QED BY <1>1, Invariant, PTL

\* No request falls between Stop, the callback that outran it and a reload in flight.
THEOREM RequestsAreKept == Spec => []NoLostReload
<1>1. IInv => NoLostReload BY DEF IInv
<1> QED BY <1>1, Invariant, PTL
=============================================================================
