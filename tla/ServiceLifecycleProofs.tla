------------------------ MODULE ServiceLifecycleProofs ------------------------
(***************************************************************************)
(* Proof that StartAndServe leaves nothing behind, for any number of        *)
(* servers and endpoints and any number of failures.                        *)
(***************************************************************************)
EXTENDS ServiceLifecycle, TLAPS

Flag == {"open", "ready", "closed"}
WasReady == \E i \in DOMAIN flags : flags[i] = "ready"
Over == {"returned", "cancelled", "ended"}

TypeOK ==
  /\ run \in {"init", "ready", "returned", "cancelled", "ended"}
  /\ flags \in Seq(Flag) /\ flags # <<>>
  /\ main \in {"load", "wait", "refused", "serving", "returned"}
  /\ srv \in [Servers -> {"idle", "bind", "serve", "stop"} \cup Over]
  /\ listener \in [Servers -> [Names -> {"none", "bound", "accepting", "failed", "closed"}]]

\* The servers start together, after the service was ready, and a server whose
\* goroutine is over has closed what it opened.
ServerInv(s) ==
  /\ srv[s] # "idle" => WasReady /\ main \in {"serving", "returned"}
  /\ srv[s] = "idle" => \A e \in Names : listener[s][e] = "none"
  /\ srv[s] \in Over => \A e \in Names : listener[s][e] \in {"none", "closed"}

\* The inductive invariant of NothingLeft.
LInv ==
  /\ TypeOK
  /\ main = "wait" => waitFor \in DOMAIN flags
  /\ \A s \in Servers : ServerInv(s)
  /\ main = "returned" => run = "ended" /\ \A s \in Servers : srv[s] \in {"idle", "ended"}

\* Signal, Close and Reset keep an object that was ready ready.
LEMMA FireKeeps ==
  ASSUME flags \in Seq(Flag), flags # <<>>, NEW to \in Flag
  PROVE  /\ fire(to) \in Seq(Flag) /\ fire(to) # <<>> /\ Len(fire(to)) = Len(flags)
         /\ \A i \in DOMAIN flags : flags[i] = "ready" => fire(to)[i] = "ready"
  BY DEF fire, Flag

LEMMA ResetKeeps ==
  ASSUME flags \in Seq(Flag), flags # <<>>
  PROVE  /\ Reset \in Seq(Flag) /\ Reset # <<>> /\ DOMAIN flags \subseteq DOMAIN Reset
         /\ \A i \in DOMAIN flags : flags[i] = "ready" => Reset[i] = "ready"
  <1>1. "closed" \in Flag /\ "open" \in Flag  BY DEF Flag
  <1> DEFINE f == fire("closed")
  <1>2. /\ f \in Seq(Flag) /\ f # <<>> /\ Len(f) = Len(flags)
        /\ \A i \in DOMAIN flags : flags[i] = "ready" => f[i] = "ready"
    BY <1>1, FireKeeps
  <1> HIDE DEF f
  <1>3. Reset = Append(f, "open")  BY DEF Reset, f
  <1> QED  BY <1>1, <1>2, <1>3

LEMMA LInvInit == Init => LInv
  BY DEF Init, LInv, TypeOK, ServerInv, WasReady, Flag, Over, Names

\* One step per action; only SignalReady and RunReturns touch the ready objects.
LEMMA LInvStep == LInv /\ [Next]_vars => LInv'
  <1> SUFFICES ASSUME LInv, [Next]_vars PROVE LInv'  OBVIOUS
  <1> USE DEF LInv, ServerInv, Over
  <1>1. CASE SignalReady
    <2>1. "ready" \in Flag  BY DEF Flag
    <2>2. /\ flags' \in Seq(Flag) /\ flags' # <<>> /\ DOMAIN flags' = DOMAIN flags
          /\ WasReady => WasReady'
      BY <1>1, <2>1, FireKeeps DEF SignalReady, TypeOK, WasReady
    <2> QED  BY <1>1, <2>2 DEF SignalReady, starter, servers, TypeOK
  <1>2. CASE RunReturns
    <2>1. /\ flags' \in Seq(Flag) /\ flags' # <<>> /\ DOMAIN flags \subseteq DOMAIN flags'
          /\ WasReady => WasReady'
      BY <1>2, ResetKeeps DEF RunReturns, TypeOK, WasReady
    <2> QED  BY <1>2, <2>1 DEF RunReturns, starter, servers, TypeOK
  <1>3. CASE RunCancels \/ RunEnds
    BY <1>3 DEF RunCancels, RunEnds, record, starter, servers, TypeOK, WasReady
  <1>4. CASE LoadReady
    <2>1. Len(flags) \in DOMAIN flags  BY DEF TypeOK
    <2> QED  BY <1>4, <2>1 DEF LoadReady, service, servers, TypeOK, WasReady
  <1>5. CASE WaitForReady
    BY <1>5 DEF WaitForReady, service, servers, TypeOK, WasReady
  <1>6. CASE StartupTimeout
    BY <1>6 DEF StartupTimeout, service, servers, TypeOK, WasReady
  <1>7. CASE Return
    BY <1>7 DEF Return, service, servers, TypeOK, WasReady
  <1>8. CASE Interrupt
    BY <1>8 DEF Interrupt, service, starter, servers, TypeOK, WasReady
  <1>9. ASSUME NEW s \in Servers, Bind(s) PROVE LInv'
    BY <1>9 DEF Bind, service, starter, TypeOK, WasReady
  <1>10. ASSUME NEW s \in Servers, BindFails(s) PROVE LInv'
    BY <1>10 DEF BindFails, closed, service, starter, TypeOK, WasReady
  <1>11. ASSUME NEW s \in Servers, RegisterService(s) PROVE LInv'
    BY <1>11 DEF RegisterService, service, starter, TypeOK, WasReady
  <1>12. ASSUME NEW s \in Servers, NEW e \in Names, Accept(s, e) PROVE LInv'
    BY <1>12 DEF Accept, service, starter, TypeOK, WasReady
  <1>13. ASSUME NEW s \in Servers, NEW e \in Names, EndpointFails(s, e) PROVE LInv'
    BY <1>13 DEF EndpointFails, service, starter, TypeOK, WasReady
  <1>14. ASSUME NEW s \in Servers, Serve(s) PROVE LInv'
    BY <1>14 DEF Serve, closed, service, starter, TypeOK, WasReady
  <1>15. ASSUME NEW s \in Servers, ServeCancels(s) PROVE LInv'
    BY <1>15 DEF ServeCancels, service, starter, TypeOK, WasReady
  <1>16. ASSUME NEW s \in Servers, ServeEnds(s) PROVE LInv'
    BY <1>16 DEF ServeEnds, service, starter, TypeOK, WasReady
  <1>17. CASE UNCHANGED vars
    BY <1>17 DEF vars, service, starter, servers, TypeOK, WasReady
  <1> QED
    BY <1>1, <1>2, <1>3, <1>4, <1>5, <1>6, <1>7, <1>8, <1>9, <1>10, <1>11, <1>12, <1>13,
       <1>14, <1>15, <1>16, <1>17 DEF Next, Internal

\* Every listener is closed and the service has returned when StartAndServe returns,
\* whichever of any number of servers and endpoints failed first, and none is opened before
\* the service was ready (start_serve.go:73 and :211).
THEOREM NothingIsLeft == Spec => []NothingLeft
  <1>1. LInv => NothingLeft
    BY DEF LInv, ServerInv, NothingLeft, TypeOK, WasReady, Over
  <1> QED  BY <1>1, LInvInit, LInvStep, PTL DEF Spec
=============================================================================
