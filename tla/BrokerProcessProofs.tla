------------------------ MODULE BrokerProcessProofs ------------------------
(* In production, with any number of brokers and of faults, there is one      *)
(* control plane.                                                             *)
EXTENDS BrokerProcess, TLAPS

(* launchd starts a broker when there is none, and nobody else does: of the    *)
(* processes one runs at most, it alone can listen and have sessions, and the  *)
(* path leads to it from the moment it listens until it closes.                *)
IInv ==
    /\ TypeOK
    /\ ~auto => /\ \A b, c \in Brokers : phase[b] # "off" /\ phase[c] # "off" => b = c
                /\ \A b \in live : phase[b] \notin {"off", "new", "free", "ready"}
                /\ \A b \in Brokers : Listening(b) => path = b

\* No process runs at first.
LEMMA Initially == Init => IInv
BY DEF Init, IInv, TypeOK, Phases, Listening

\* Every step keeps the invariant.
LEMMA Preserved == IInv /\ [Next]_vars => IInv'
<1> SUFFICES ASSUME IInv, [Next]_vars PROVE IInv'
  OBVIOUS
<1> USE SocketAssumption, BoundsAssumption
<1> USE DEF IInv, TypeOK, Phases, Listening, To, Fault
<1>1. ASSUME NEW b \in Brokers, Probe(b) PROVE IInv'
  <2>1. PICK p \in {"off", "free"} : phase' = [phase EXCEPT ![b] = p]
    BY <1>1 DEF Probe
  <2>2. QED
    BY <1>1, <2>1 DEF Probe
<1>2. ASSUME NEW b \in Brokers, Unlink(b) PROVE IInv'
  BY <1>2 DEF Unlink
<1>3. ASSUME NEW b \in Brokers, Listen(b) PROVE IInv'
  <2>1. CASE path = None
    BY <1>3, <2>1 DEF Listen
  <2>2. CASE path # None
    BY <1>3, <2>2 DEF Listen
  <2>3. QED
    BY <2>1, <2>2
<1>4. ASSUME NEW b \in Brokers, Chmod(b) PROVE IInv'
  BY <1>4 DEF Chmod
<1>5. ASSUME NEW b \in Brokers, Shutdown(b) PROVE IInv'
  BY <1>5 DEF Shutdown
<1>6. ASSUME NEW b \in Brokers, UnlinkAgain(b) PROVE IInv'
  BY <1>6 DEF UnlinkAgain
<1>7. ASSUME NEW b \in Brokers, Terminate(b) PROVE IInv'
  BY <1>7 DEF Terminate
<1>8. ASSUME NEW b \in Brokers, Crash(b) PROVE IInv'
  BY <1>8 DEF Crash
<1>9. ASSUME NEW b \in Brokers, ControlEnds(b) PROVE IInv'
  BY <1>9 DEF ControlEnds
<1>10. CASE FindBroker
  BY <1>10 DEF FindBroker, Answered, Unanswered, Launch
<1>11. CASE WaitForBroker
  BY <1>11 DEF WaitForBroker, Answered, Unanswered
<1>12. CASE BrokerWatch
  BY <1>12 DEF BrokerWatch, Answered, Unanswered
<1>13. CASE StartControl
  BY <1>13 DEF StartControl, Reachable
<1>14. CASE WebEnds
  BY <1>14 DEF WebEnds
<1>15. CASE LaunchBroker
  BY <1>15 DEF LaunchBroker, Launch
<1>16. CASE LaunchWeb
  BY <1>16 DEF LaunchWeb
<1>17. CASE UNCHANGED vars
  BY <1>17 DEF vars
<1>18. QED
  BY <1>1, <1>2, <1>3, <1>4, <1>5, <1>6, <1>7, <1>8, <1>9, <1>10, <1>11, <1>12, <1>13,
     <1>14, <1>15, <1>16, <1>17 DEF Next, BrokerStep, WebStep

\* Every reachable state satisfies it.
LEMMA Invariant == Spec => []IInv
BY Initially, Preserved, PTL DEF Spec

(* The variables keep their types (src/start.js, src/broker.js).               *)
THEOREM TypeCorrect == Spec => []TypeOK
<1>1. IInv => TypeOK
  BY DEF IInv
<1>2. QED
  BY Invariant, <1>1, PTL

(* However often launchd and the web process start again, in production at     *)
(* most one broker has a control session, and a broker that listens is the one *)
(* that the socket leads to: the web process waits for a broker and starts     *)
(* none (src/start.js:28).                                                     *)
THEOREM OneControlPlaneHolds == Spec => []OneControlPlane
<1>1. IInv => OneControlPlane
  BY DEF IInv, TypeOK, OneControlPlane
<1>2. QED
  BY Invariant, <1>1, PTL
=============================================================================
