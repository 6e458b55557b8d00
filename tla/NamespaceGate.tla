---------------------------- MODULE NamespaceGate ----------------------------
(***************************************************************************)
(* The namespace-liveness check every claim create passes before it        *)
(* reserves capacity (internal/access/namespace.go).  A claim bound into a *)
(* namespace that is terminating or gone is never collected, so the check  *)
(* refuses those two states.  It asks the project's control plane, keeps   *)
(* Live answers for LiveTTL, keeps "this project has a control plane" for  *)
(* ServingTTL, and fails open: a lookup without an answer admits.          *)
(*                                                                         *)
(* A lookup takes three steps, so that time may pass and namespaces may    *)
(* change between them: the request is sent (State), the control plane     *)
(* answers from its state at that moment (the Answer actions), and the     *)
(* server reads the answer (Received).  One project is modelled; the       *)
(* caches are keyed by project, so two projects share nothing but the      *)
(* bound on the live cache.                                                *)
(***************************************************************************)
EXTENDS Integers, FiniteSets

CONSTANTS
    Requests,        \* concurrent claim creates
    Namespaces,      \* namespaces of the project
    LiveTTL,         \* liveTTL, in ticks
    ServingTTL,      \* servingTTL, in ticks
    MaxLiveEntries,  \* maxLiveEntries
    MaxLatency,      \* bound: ticks one lookup may take
    MaxTime          \* bound: length of a behaviour in ticks

ASSUME GateAssumption ==
    /\ LiveTTL \in Nat \ {0} /\ ServingTTL \in Nat \ {0}
    /\ MaxLiveEntries \in Nat \ {0}
    /\ MaxLatency \in Nat /\ MaxTime \in Nat

VARIABLES
    now,       \* the clock
    nsState,   \* what the control plane holds for each namespace
    plane,     \* whether the control-plane path answers at all
    live,      \* c.live: namespace -> when its Live answer expires
    serving,   \* c.serving of the project: when the probe's answer expires
    check,     \* the lookup of each request
    lastLive,  \* history: the last moment each namespace was active
    lastServed \* history: the last moment the control plane answered

gateVars == <<now, nsState, plane, live, serving, check, lastLive, lastServed>>

Verdicts == {"Unknown", "Live", "Terminating", "Missing"}

(* A lookup that has not begun.  "saw" is history: every state the         *)
(* namespace and the control plane were in while the lookup ran.           *)
NoCheck(ns) == [at |-> "idle", ns |-> ns, since |-> 0, answer |-> "", verdict |-> "",
                stale |-> 0, unserved |-> 0, saw |-> {}]

InFlight(r) == check[r].at \in {"get", "gotten", "probe", "probed"}

GateTypeOK ==
    /\ now \in 0..MaxTime
    /\ nsState \in [Namespaces -> {"Active", "Terminating", "Absent"}]
    /\ plane \in {"Serving", "Gone"}
    /\ DOMAIN live \subseteq Namespaces
    /\ \A ns \in DOMAIN live : live[ns] \in 0..(MaxTime + LiveTTL)
    /\ Cardinality(DOMAIN live) <= MaxLiveEntries
    /\ serving \in 0..(MaxTime + ServingTTL)
    /\ \A r \in Requests : check[r].verdict \in Verdicts \cup {""}

GateInit ==
    /\ now = 0
    /\ live = [ns \in {} |-> 0]
    /\ serving = 0
    /\ check = [r \in Requests |-> NoCheck("")]
    /\ lastLive = [ns \in Namespaces |-> 0]
    /\ lastServed = 0

-----------------------------------------------------------------------------
(* The operations of the checker.                                          *)

(* cacheLive: at the bound the expired entries go first; if none has       *)
(* expired the whole map is dropped.                                       *)
cacheLive(ns) ==
    LET fresh == {k \in DOMAIN live : now < live[k]}
        kept  == IF Cardinality(DOMAIN live) < MaxLiveEntries THEN DOMAIN live
                 ELSE IF Cardinality(fresh) < MaxLiveEntries THEN fresh
                 ELSE {}
    IN [k \in kept \cup {ns} |-> IF k = ns THEN now + LiveTTL ELSE live[k]]

(* The verdict of a lookup, with the history its properties need.          *)
Decided(c, verdict) ==
    [c EXCEPT !.at = "done", !.since = 0, !.answer = "", !.verdict = verdict,
              !.stale = IF verdict = "Live" THEN now - lastLive[c.ns] ELSE 0,
              !.unserved = IF verdict = "Missing" THEN now - lastServed ELSE 0,
              !.saw = IF verdict \in {"Terminating", "Missing"} THEN @ ELSE {}]

(* Faulty variant: a hit extends the entry, so a busy namespace is never   *)
(* looked up again.                                                        *)
Hit_Sliding(ns) == [live EXCEPT ![ns] = now + LiveTTL]

(* A hit reads the cache and leaves it as it was.                          *)
Hit(ns) == live

(* State, up to the request it sends: a caller without a project is admitted*)
(* with nobody to ask, a Live answer still valid is reused, anything else   *)
(* is asked for.                                                            *)
State(r, project, ns) ==
    LET c == [NoCheck(ns) EXCEPT !.since = now, !.saw = {nsState[ns], plane}] IN
    \/ /\ project = ""
       /\ check' = [check EXCEPT ![r] = Decided(c, "Unknown")]
       /\ live' = live
    \/ /\ project # "" /\ ns \in DOMAIN live /\ now < live[ns]
       /\ check' = [check EXCEPT ![r] = Decided(c, "Live")]
       /\ live' = Hit(ns)
    \/ /\ project # "" /\ ~(ns \in DOMAIN live /\ now < live[ns])
       /\ check' = [check EXCEPT ![r] = [c EXCEPT !.at = "get"]]
       /\ live' = live

(* The control plane answers the namespace Get: a path nobody serves and a *)
(* namespace that does not exist are the same 404.                         *)
AnswerGet(r) ==
    /\ check[r].at = "get"
    /\ \E failed \in BOOLEAN :
         check' = [check EXCEPT ![r].at = "gotten",
                     ![r].answer = IF failed THEN "Error"
                                   ELSE IF plane = "Gone" THEN "Absent"
                                   ELSE nsState[check[r].ns]]
    /\ UNCHANGED <<now, nsState, plane, live, serving, lastLive, lastServed>>

(* Faulty variant: a 404 is taken at its word.                             *)
controlPlaneServes_Assumed == TRUE

(* controlPlaneServes, its cached half.                                    *)
controlPlaneServes == now < serving

(* The server reads the answer to its Get: the rest of State, up to the    *)
(* probe a 404 needs when no earlier probe is still valid.                 *)
ReceivedGet(r) ==
    /\ check[r].at = "gotten"
    /\ LET c == check[r] IN
       /\ check' = [check EXCEPT ![r] =
            CASE c.answer = "Error" -> Decided(c, "Unknown")
              [] c.answer = "Terminating" -> Decided(c, "Terminating")
              [] c.answer = "Active" -> Decided(c, "Live")
              [] c.answer = "Absent" /\ controlPlaneServes -> Decided(c, "Missing")
              [] OTHER -> [c EXCEPT !.at = "probe"]]
       /\ live' = IF c.answer = "Active" THEN cacheLive(c.ns) ELSE live
    /\ UNCHANGED <<now, nsState, plane, serving, lastLive, lastServed>>

(* The control plane answers GET /version, or nobody does.                 *)
AnswerProbe(r) ==
    /\ check[r].at = "probe"
    /\ \E failed \in BOOLEAN :
         check' = [check EXCEPT ![r].at = "probed",
                     ![r].answer = IF failed \/ plane = "Gone" THEN "Error" ELSE "Serving"]
    /\ UNCHANGED <<now, nsState, plane, live, serving, lastLive, lastServed>>

(* The rest of controlPlaneServes, and of State after it.                  *)
ReceivedProbe(r) ==
    /\ check[r].at = "probed"
    /\ LET c == check[r] IN
       IF c.answer = "Serving"
       THEN /\ check' = [check EXCEPT ![r] = Decided(c, "Missing")]
            /\ serving' = now + ServingTTL
       ELSE /\ check' = [check EXCEPT ![r] = Decided(c, "Unknown")]
            /\ serving' = serving
    /\ UNCHANGED <<now, nsState, plane, live, lastLive, lastServed>>

(* RefuseNamespace: the two definitive answers refuse, the others admit.   *)
RefuseNamespace(verdict) == verdict \in {"Terminating", "Missing"}

-----------------------------------------------------------------------------
(* The control plane and the clock.                                        *)

(* Every lookup in flight records what it lives through.                   *)
Witness(ns, fact) ==
    [r \in Requests |-> IF InFlight(r) /\ (ns = "" \/ check[r].ns = ns)
                        THEN [check[r] EXCEPT !.saw = @ \cup {fact}] ELSE check[r]]

NamespaceStep(ns) ==
    /\ nsState' = [nsState EXCEPT ![ns] =
                     CASE @ = "Active" -> "Terminating"
                       [] @ = "Terminating" -> "Absent"
                       [] @ = "Absent" -> "Active"]
    /\ check' = Witness(ns, nsState'[ns])
    /\ lastLive' = IF nsState'[ns] = "Active" THEN [lastLive EXCEPT ![ns] = now] ELSE lastLive
    /\ UNCHANGED <<now, plane, live, serving, lastServed>>

(* A control plane is built, or removed.                                   *)
PlaneStep ==
    /\ plane' = IF plane = "Serving" THEN "Gone" ELSE "Serving"
    /\ check' = Witness("", plane')
    /\ lastServed' = IF plane' = "Serving" THEN now ELSE lastServed
    /\ UNCHANGED <<now, nsState, live, serving, lastLive>>

Tick ==
    /\ now < MaxTime
    /\ \A r \in Requests : InFlight(r) => now - check[r].since < MaxLatency
    /\ now' = now + 1
    /\ lastLive' = [ns \in Namespaces |-> IF nsState[ns] = "Active" THEN now' ELSE lastLive[ns]]
    /\ lastServed' = IF plane = "Serving" THEN now' ELSE lastServed
    /\ UNCHANGED <<nsState, plane, live, serving, check>>

LookupStep(r) == AnswerGet(r) \/ ReceivedGet(r) \/ AnswerProbe(r) \/ ReceivedProbe(r)

(* The end of the request the lookup was for.                              *)
Forget(r) ==
    /\ check[r].at = "done"
    /\ check' = [check EXCEPT ![r] = NoCheck("")]
    /\ UNCHANGED <<now, nsState, plane, live, serving, lastLive, lastServed>>

(* The check by itself: any request may ask about any namespace.           *)
Ask(r) ==
    /\ check[r].at = "idle"
    /\ \E project \in {"", "project"}, ns \in Namespaces : State(r, project, ns)
    /\ UNCHANGED <<now, nsState, plane, serving, lastLive, lastServed>>

GateStart ==
    /\ GateInit
    /\ nsState = [ns \in Namespaces |-> "Active"]
    /\ plane \in {"Serving", "Gone"}

GateNext ==
    \/ \E r \in Requests : Ask(r) \/ LookupStep(r) \/ Forget(r)
    \/ \E ns \in Namespaces : NamespaceStep(ns)
    \/ PlaneStep \/ Tick

(* What the composition does to the state of the check is a behaviour of   *)
(* this: no step of a command or of the server touches a lookup in flight  *)
(* or the two caches other than through the check's own steps.             *)
GateSpec == GateStart /\ [][GateNext]_gateVars

-----------------------------------------------------------------------------
(* A claim the check calls Live was bound for a namespace that was active  *)
(* less than LiveTTL plus one lookup ago, whatever lookups ran beside it,  *)
(* however often its cache entry was used, and however the cache was       *)
(* evicted (State, cacheLive).                                             *)
AdmittedWasLive ==
    \A r \in Requests :
        check[r].verdict = "Live" => check[r].stale < LiveTTL + MaxLatency

(* "Refusals always take a fresh lookup": a refused claim's namespace was  *)
(* in the state it is refused for while that very request ran.  The one    *)
(* exception is a 404 from a control plane that is gone but was serving    *)
(* less than ServingTTL plus one lookup ago (controlPlaneServes).          *)
RefusalIsFresh ==
    \A r \in Requests :
        LET c == check[r] IN
        /\ c.verdict = "Terminating" => "Terminating" \in c.saw
        /\ c.verdict = "Missing" =>
             \/ "Absent" \in c.saw
             \/ "Gone" \in c.saw /\ c.unserved < ServingTTL + MaxLatency
=============================================================================
