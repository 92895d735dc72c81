--------------------------- MODULE BrokerProcess ---------------------------
(* The two processes of the control plane and the socket between them: how a  *)
(* broker starts and closes (src/broker.js, src/broker-rpc.js), how the web   *)
(* process finds it, waits for it and gives up (src/start.js), and launchd,   *)
(* which starts both again.  Outside production the web process starts a      *)
(* broker of its own (FIRM_BROKER_AUTOSTART).                                 *)
EXTENDS Integers

CONSTANTS
    Brokers,     \* broker processes there may be at a time
    None,        \* the socket path does not exist
    Stale,       \* it exists, and nobody listens
    MaxFaults    \* bound on deaths, signals and late answers

ASSUME SocketAssumption == None \notin Brokers /\ Stale \notin Brokers
ASSUME BoundsAssumption == MaxFaults \in Nat

VARIABLES
    auto,        \* brokerAutoStart
    phase,       \* of a broker process
    path,        \* the socket: None, Stale, or the broker that listens behind it
    live,        \* brokers that have a control session
    web,         \* the web process
    misses,      \* brokerFailures
    faults

vars == <<auto, phase, path, live, web, misses, faults>>

\* A broker probes, unlinks the path, builds its session manager, listens and
\* changes the mode of the path; a signal makes it close.
Phases == {"off", "new", "free", "ready", "bound", "serving", "adrift", "closing", "closed"}

TypeOK ==
    /\ auto \in BOOLEAN
    /\ phase \in [Brokers -> Phases]
    /\ path \in Brokers \union {None, Stale}
    /\ live \subseteq Brokers
    /\ web \in {"off", "new", "waiting", "serving"}
    /\ misses \in 0..2
    /\ faults \in Nat

Init ==
    /\ auto \in BOOLEAN
    /\ phase = [b \in Brokers |-> "off"]
    /\ path = None /\ live = {} /\ web = "off" /\ misses = 0 /\ faults = 0

Fault == faults < MaxFaults /\ faults' = faults + 1

Listening(b) == phase[b] \in {"bound", "serving", "adrift"}
Reachable == path \in Brokers /\ Listening(path)
To(b, p) == phase' = [phase EXCEPT ![b] = p]

\* A new process.  Its number is a matter of form: it takes the first free one.
Launch == \E b \in Brokers : phase[b] = "off" /\ To(b, "new")

-----------------------------------------------------------------------------
(* startBroker, main                                                          *)

Probe(b) ==
    /\ phase[b] = "new"
    /\ To(b, IF Reachable THEN "off" ELSE "free")
    /\ UNCHANGED <<auto, path, live, web, misses, faults>>

\* Variant: a path that a crash has left is kept.
KeepStale(b) ==
    /\ phase[b] = "free"
    /\ To(b, "ready")
    /\ UNCHANGED <<auto, path, live, web, misses, faults>>

\* Whoever the path leads to by now.
Unlink(b) ==
    /\ phase[b] = "free"
    /\ To(b, "ready") /\ path' = None
    /\ UNCHANGED <<auto, live, web, misses, faults>>

\* listen: EADDRINUSE when there is a path.
Listen(b) ==
    /\ phase[b] = "ready"
    /\ IF path = None THEN To(b, "bound") /\ path' = b
                      ELSE To(b, "off") /\ UNCHANGED path
    /\ UNCHANGED <<auto, live, web, misses, faults>>

\* chmod: without a path main fails, and the process that listens stays.
Chmod(b) ==
    /\ phase[b] = "bound"
    /\ To(b, IF path = None THEN "adrift" ELSE "serving")
    /\ UNCHANGED <<auto, path, live, web, misses, faults>>

\* SIGTERM, SIGINT: close.  Closing the server takes the path away, and so does
\* the step after it, whoever it leads to.
Shutdown(b) ==
    /\ phase[b] = "serving" /\ Fault
    /\ To(b, "closing") /\ path' = None
    /\ UNCHANGED <<auto, live, web, misses>>

UnlinkAgain(b) ==
    /\ phase[b] = "closing"
    /\ To(b, "closed") /\ path' = None
    /\ UNCHANGED <<auto, live, web, misses, faults>>

Terminate(b) ==
    /\ phase[b] = "closed"
    /\ To(b, "off") /\ live' = live \ {b}
    /\ UNCHANGED <<auto, path, web, misses, faults>>

\* The terminals of a broker that dies hang up.
Crash(b) ==
    /\ phase[b] # "off" /\ Fault
    /\ To(b, "off") /\ live' = live \ {b}
    /\ path' = IF path = b THEN Stale ELSE path
    /\ UNCHANGED <<auto, web, misses>>

-----------------------------------------------------------------------------
(* start.js                                                                   *)

Answered == Reachable /\ UNCHANGED faults
\* Nobody listens, or the answer is late.
Unanswered == IF Reachable THEN Fault ELSE UNCHANGED faults
Free == \E b \in Brokers : phase[b] = "off"

\* Variant: a broker is started whatever the setting.
AlwaysSpawn ==
    /\ web = "new"
    /\ \/ Answered /\ web' = "serving" /\ UNCHANGED phase
       \/ /\ Unanswered /\ web' = "waiting"
          /\ IF Free THEN Launch ELSE UNCHANGED phase
    /\ UNCHANGED <<auto, path, live, misses>>

\* The first question: without an answer the web process waits for a broker, which
\* it starts itself if it may (bound: and there is a free number).
FindBroker ==
    /\ web = "new"
    /\ \/ Answered /\ web' = "serving" /\ UNCHANGED phase
       \/ /\ Unanswered /\ web' = "waiting"
          /\ IF auto /\ Free THEN Launch ELSE UNCHANGED phase
    /\ UNCHANGED <<auto, path, live, misses>>

\* waitForBroker: one of 200 questions is answered, or the process ends.
WaitForBroker ==
    /\ web = "waiting"
    /\ \/ Answered /\ web' = "serving"
       \/ Unanswered /\ web' \in {"waiting", "off"}
    /\ UNCHANGED <<auto, phase, path, live, misses>>

\* brokerWatch: three questions in a row without an answer, and the process ends.
BrokerWatch ==
    /\ web = "serving"
    /\ \/ Answered /\ misses' = 0 /\ UNCHANGED web
       \/ /\ Unanswered
          /\ IF misses = 2 THEN web' = "off" /\ misses' = 0
                           ELSE misses' = misses + 1 /\ UNCHANGED web
    /\ UNCHANGED <<auto, phase, path, live>>

\* The engine keeps a control session in the broker that it reaches.  A second one
\* in the same broker is excluded elsewhere (BrokerSessions, OneActive).
StartControl ==
    /\ web = "serving" /\ Reachable /\ path \notin live
    /\ live' = live \union {path}
    /\ UNCHANGED <<auto, phase, path, web, misses, faults>>

ControlEnds(b) ==
    /\ b \in live
    /\ live' = live \ {b}
    /\ UNCHANGED <<auto, phase, path, web, misses, faults>>

\* SIGTERM, or a crash; the sessions are the broker's.
WebEnds ==
    /\ web # "off" /\ Fault
    /\ web' = "off" /\ misses' = 0
    /\ UNCHANGED <<auto, phase, path, live>>

-----------------------------------------------------------------------------
(* launchd starts each of its two processes when it has ended (KeepAlive); in *)
(* development a person starts the web process.                               *)

LaunchBroker ==
    /\ ~auto /\ \A b \in Brokers : phase[b] = "off"
    /\ Launch
    /\ UNCHANGED <<auto, path, live, web, misses, faults>>

LaunchWeb ==
    /\ web = "off" /\ web' = "new"
    /\ UNCHANGED <<auto, phase, path, live, misses, faults>>

-----------------------------------------------------------------------------
BrokerStep(b) == \/ Probe(b) \/ Unlink(b) \/ Listen(b) \/ Chmod(b)
                 \/ UnlinkAgain(b) \/ Terminate(b)
WebStep == FindBroker \/ WaitForBroker \/ BrokerWatch

Next ==
    \/ \E b \in Brokers : BrokerStep(b) \/ Shutdown(b) \/ Crash(b) \/ ControlEnds(b)
    \/ WebStep \/ StartControl \/ WebEnds
    \/ LaunchBroker \/ LaunchWeb

Spec == Init /\ [][Next]_vars

(* Both processes run, and are started again.                                 *)
Fairness == /\ \A b \in Brokers : WF_vars(BrokerStep(b))
            /\ WF_vars(WebStep) /\ WF_vars(LaunchBroker) /\ WF_vars(LaunchWeb)

FairSpec == Spec /\ Fairness

-----------------------------------------------------------------------------
(* Properties.                                                                *)

\* In production there are never two brokers with a control session, and a broker
\* that serves is the one that the socket leads to (src/start.js:28).
OneControlPlane ==
    ~auto => /\ \A b, c \in live : b = c
             /\ \A b \in Brokers : Listening(b) => path = b

\* After the last fault the web process comes to serve with a broker that it
\* reaches, and stays so.
ControlPlaneRecovers == <>[](web = "serving" /\ Reachable)
=============================================================================
