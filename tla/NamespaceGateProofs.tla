------------------------ MODULE NamespaceGateProofs ------------------------
(***************************************************************************)
(* The namespace check, for every number of requests and namespaces, every *)
(* lifetime of its two caches, every bound on the live cache and every     *)
(* latency of a lookup: how old the fact behind an admission can be, and   *)
(* what a refusal rests on.                                                *)
(***************************************************************************)
EXTENDS NamespaceGate, FiniteSetTheorems, TLAPS

Facts == {"Active", "Terminating", "Absent", "Serving", "Gone"}

Lookup == [at : {"idle", "get", "gotten", "probe", "probed", "done"},
           ns : Namespaces \cup {""}, since : Nat, answer : Facts \cup {"", "Error"},
           verdict : Verdicts \cup {""}, stale : Nat, unserved : Nat, saw : SUBSET Facts]

GateType ==
  /\ now \in Nat
  /\ nsState \in [Namespaces -> {"Active", "Terminating", "Absent"}]
  /\ plane \in {"Serving", "Gone"}
  /\ DOMAIN live \subseteq Namespaces
  /\ \A ns \in DOMAIN live : live[ns] \in Nat
  /\ serving \in Nat
  /\ lastLive \in [Namespaces -> Nat]
  /\ lastServed \in Nat
  /\ check \in [Requests -> Lookup]

\* The history variables are what they say.
Histories ==
  /\ \A ns \in Namespaces : /\ lastLive[ns] <= now
                            /\ nsState[ns] = "Active" => lastLive[ns] = now
  /\ lastServed <= now
  /\ plane = "Serving" => lastServed = now

\* A cache entry does not outlive the fact it was made from by more than its
\* lifetime and the lookup that brought it.
CachesBounded ==
  /\ \A ns \in DOMAIN live : live[ns] <= lastLive[ns] + MaxLatency + LiveTTL
  /\ serving <= lastServed + MaxLatency + ServingTTL

\* What holds of a lookup on its way, and of one that is over.
UnderWay(c) ==
  c.at \in {"get", "gotten", "probe", "probed"} =>
    /\ c.ns \in Namespaces
    /\ c.since <= now /\ now <= c.since + MaxLatency
    /\ {nsState[c.ns], plane} \subseteq c.saw
    /\ c.verdict = ""

AnswerTrue(c) ==
  /\ c.at = "gotten" => c.answer \in {"Error", "Active", "Terminating", "Absent"}
  /\ c.at = "gotten" /\ c.answer = "Active" => c.since <= lastLive[c.ns]
  /\ c.at = "gotten" /\ c.answer = "Terminating" => "Terminating" \in c.saw
  /\ c.at = "gotten" /\ c.answer = "Absent" => "Absent" \in c.saw \/ "Gone" \in c.saw
  /\ c.at \in {"probe", "probed"} => "Absent" \in c.saw \/ "Gone" \in c.saw
  /\ c.at = "probed" /\ c.answer = "Serving" => c.since <= lastServed

VerdictTrue(c) ==
  /\ c.verdict = "Live" => c.stale < LiveTTL + MaxLatency
  /\ c.verdict = "Terminating" => "Terminating" \in c.saw
  /\ c.verdict = "Missing" =>
       \/ "Absent" \in c.saw
       \/ "Gone" \in c.saw /\ c.unserved < ServingTTL + MaxLatency

LookupTrue(c) == UnderWay(c) /\ AnswerTrue(c) /\ VerdictTrue(c)

GateInv ==
  /\ GateType
  /\ Histories
  /\ CachesBounded
  /\ \A r \in Requests : LookupTrue(check[r])

-----------------------------------------------------------------------------
\* The state of a fresh check satisfies the invariant.
LEMMA GateInitInv == GateStart => GateInv
<1> SUFFICES ASSUME GateStart PROVE GateInv
  OBVIOUS
<1>1. GateType
  BY Zenon DEF GateStart, GateInit, GateType, Lookup, NoCheck, Verdicts, Facts
<1>2. /\ now = 0 /\ lastServed = 0 /\ serving = 0
      /\ DOMAIN live = {} /\ \A ns \in Namespaces : lastLive[ns] = 0
  BY Zenon DEF GateStart, GateInit
<1>3. Histories
  BY <1>2 DEF Histories
<1>4. CachesBounded
  BY <1>2, GateAssumption DEF GateAssumption, CachesBounded
<1>5. ASSUME NEW r \in Requests
      PROVE LookupTrue(check[r])
  BY Zenon DEF GateStart, GateInit, LookupTrue, UnderWay, AnswerTrue, VerdictTrue, NoCheck
<1> QED BY <1>1, <1>3, <1>4, <1>5 DEF GateInv

\* The sums of a cache hit and of a fresh answer.
LEMMA HitIsYoung ==
  ASSUME NEW t \in Nat, NEW seen \in Nat, NEW expires \in Nat, NEW ttl \in Nat,
         NEW latency \in Nat, expires <= seen + latency + ttl, t < expires
  PROVE  t - seen < ttl + latency
OBVIOUS

\* A lookup that is sent now was sent within its latency.
LEMMA SentNow ==
  ASSUME NEW t \in Nat, NEW latency \in Nat
  PROVE  t <= t /\ t <= t + latency
OBVIOUS

\* What was seen since a moment is seen since it when it is seen again.
LEMMA StillSeen ==
  ASSUME NEW since \in Nat, NEW seen \in Nat, NEW later \in Nat, since <= seen, seen <= later
  PROVE  since <= later
OBVIOUS

\* An entry stays within its lifetime when the namespace is seen again.
LEMMA BoundGrows ==
  ASSUME NEW expires \in Nat, NEW seen \in Nat, NEW later \in Nat, seen <= later,
         NEW ttl \in Nat, NEW latency \in Nat, expires <= seen + latency + ttl
  PROVE  expires <= later + latency + ttl
OBVIOUS

\* An answer that arrives within its latency is young, and so is what it
\* caches.
LEMMA AnswerIsYoung ==
  ASSUME NEW t \in Nat, NEW seen \in Nat, NEW since \in Nat, NEW ttl \in Nat \ {0},
         NEW latency \in Nat, since <= seen, t <= since + latency
  PROVE  /\ t - seen < ttl + latency
         /\ t + ttl <= seen + latency + ttl
OBVIOUS

\* A verdict ends a lookup truthfully when what it rests on holds.
LEMMA DecidedTrue ==
  ASSUME GateType, Histories, NEW c \in Lookup, c.ns \in Namespaces,
         NEW verdict \in Verdicts,
         verdict = "Live" => now - lastLive[c.ns] < LiveTTL + MaxLatency,
         verdict = "Terminating" => "Terminating" \in c.saw,
         verdict = "Missing" =>
           \/ "Absent" \in c.saw
           \/ "Gone" \in c.saw /\ now - lastServed < ServingTTL + MaxLatency
  PROVE  Decided(c, verdict) \in Lookup /\ LookupTrue(Decided(c, verdict))
<1> DEFINE d == Decided(c, verdict)
<1>0. now - lastLive[c.ns] \in Nat /\ now - lastServed \in Nat
  <2>1. now \in Nat /\ lastLive[c.ns] \in Nat /\ lastServed \in Nat
    BY DEF GateType
  <2>2. lastLive[c.ns] <= now /\ lastServed <= now
    BY DEF Histories
  <2> QED BY <2>1, <2>2
<1>1. d \in Lookup
  BY Zenon, <1>0 DEF Decided, Lookup
<1>2. /\ d.at = "done" /\ d.verdict = verdict
      /\ verdict = "Live" => d.stale = now - lastLive[c.ns]
      /\ verdict = "Missing" => d.unserved = now - lastServed
      /\ verdict \in {"Terminating", "Missing"} => d.saw = c.saw
  BY Zenon DEF Decided, Lookup
<1>3. LookupTrue(d)
  BY <1>2 DEF LookupTrue, UnderWay, AnswerTrue, VerdictTrue
<1> QED BY <1>1, <1>3

\* A step that replaces one lookup by a truthful one, and changes nothing the
\* lookups speak of, keeps all of them truthful.
LEMMA OneLookup ==
  ASSUME GateInv, UNCHANGED <<now, nsState, plane, lastLive, lastServed>>,
         NEW r \in Requests, NEW c \in Lookup, LookupTrue(c),
         check' = [check EXCEPT ![r] = c]
  PROVE  check' \in [Requests -> Lookup] /\ \A q \in Requests : LookupTrue(check[q])'
<1>1. check \in [Requests -> Lookup] /\ \A q \in Requests : LookupTrue(check[q])
  BY DEF GateInv, GateType
<1>2. check' \in [Requests -> Lookup]
  BY <1>1
<1>3. ASSUME NEW q \in Requests PROVE LookupTrue(check[q])'
  <2>1. PICK d \in Lookup : d = check'[q] /\ LookupTrue(d)
    BY <1>1
  <2>2. LookupTrue(d)'
    BY Zenon, <2>1 DEF LookupTrue, UnderWay, AnswerTrue, VerdictTrue
  <2> QED BY Zenon, <2>1, <2>2 DEF LookupTrue, UnderWay, AnswerTrue, VerdictTrue
<1> QED BY <1>2, <1>3

\* What a request asking may find keeps the invariant: a hit is young enough
\* because its entry was bounded when it was made.
LEMMA AskKeeps ==
  ASSUME GateInv, NEW r \in Requests, Ask(r)
  PROVE  GateInv'
<1>0. UNCHANGED <<now, nsState, plane, serving, lastLive, lastServed>>
  BY Zenon DEF Ask
<1>t. GateType /\ Histories /\ CachesBounded
  BY DEF GateInv
<1>1. PICK project \in {"", "project"}, ns \in Namespaces : State(r, project, ns)
  BY Zenon DEF Ask
<1> DEFINE c == [NoCheck(ns) EXCEPT !.since = now, !.saw = {nsState[ns], plane}]
<1>2. c \in Lookup /\ c.ns = ns
  BY Zenon, <1>t DEF GateType, NoCheck, Lookup, Facts, Verdicts
<1>3. live' = live
  BY Zenon, <1>1 DEF State, Hit
<1>4. \E d \in Lookup : LookupTrue(d) /\ check' = [check EXCEPT ![r] = d]
  <2>1. CASE project = ""
    <3>1. check' = [check EXCEPT ![r] = Decided(c, "Unknown")]
      BY Zenon, <1>1, <2>1 DEF State
    <3>2. Decided(c, "Unknown") \in Lookup /\ LookupTrue(Decided(c, "Unknown"))
      BY Zenon, <1>t, <1>2, DecidedTrue DEF Verdicts
    <3> QED BY Zenon, <3>1, <3>2
  <2>2. CASE project # "" /\ ns \in DOMAIN live /\ now < live[ns]
    <3>1. check' = [check EXCEPT ![r] = Decided(c, "Live")]
      BY Zenon, <1>1, <2>2 DEF State
    <3>2. now - lastLive[c.ns] < LiveTTL + MaxLatency
      <4>1. now \in Nat /\ lastLive[ns] \in Nat /\ live[ns] \in Nat
        BY Zenon, <1>t, <2>2 DEF GateType
      <4>2. live[ns] <= lastLive[ns] + MaxLatency + LiveTTL
        BY Zenon, <1>t, <2>2 DEF CachesBounded
      <4>3. LiveTTL \in Nat /\ MaxLatency \in Nat
        BY Zenon, GateAssumption DEF GateAssumption
      <4>4. now - lastLive[ns] < LiveTTL + MaxLatency
        BY Zenon, <4>1, <4>2, <4>3, <2>2, HitIsYoung
      <4> QED BY Zenon, <4>4, <1>2
    <3>3. Decided(c, "Live") \in Lookup /\ LookupTrue(Decided(c, "Live"))
      BY Zenon, <1>t, <1>2, <3>2, DecidedTrue DEF Verdicts
    <3> QED BY Zenon, <3>1, <3>3
  <2>3. CASE project # "" /\ ~(ns \in DOMAIN live /\ now < live[ns])
    <3> DEFINE d == [c EXCEPT !.at = "get"]
    <3>1. check' = [check EXCEPT ![r] = d]
      BY Zenon, <1>1, <2>3 DEF State
    <3>2. d \in Lookup
      BY Zenon, <1>2 DEF Lookup
    <3>3. /\ d.at = "get" /\ d.ns = ns /\ d.since = now /\ d.verdict = ""
          /\ d.saw = {nsState[ns], plane}
      BY Zenon DEF NoCheck
    <3>4. now <= now /\ now <= now + MaxLatency
      <4>1. now \in Nat /\ MaxLatency \in Nat
        BY Zenon, <1>t, GateAssumption DEF GateAssumption, GateType
      <4> QED BY Zenon, <4>1, SentNow
    <3>5. LookupTrue(d)
      BY Zenon, <3>3, <3>4 DEF LookupTrue, UnderWay, AnswerTrue, VerdictTrue
    <3> QED BY Zenon, <3>1, <3>2, <3>5
  <2> QED BY Zenon, <2>1, <2>2, <2>3
<1>5. check' \in [Requests -> Lookup] /\ \A q \in Requests : LookupTrue(check[q])'
  BY Zenon, <1>0, <1>4, OneLookup
<1> QED BY Zenon, <1>0, <1>t, <1>3, <1>5 DEF GateInv, GateType, Histories, CachesBounded
\* The control plane answers from its state at that moment.
LEMMA AnswerGetKeeps ==
  ASSUME GateInv, NEW r \in Requests, AnswerGet(r)
  PROVE  GateInv'
<1>0. UNCHANGED <<now, nsState, plane, live, serving, lastLive, lastServed>>
  BY DEF AnswerGet
<1>t. GateType /\ Histories /\ CachesBounded
  BY DEF GateInv
<1>c. PICK c \in Lookup : c = check[r] /\ LookupTrue(c) /\ c.at = "get"
  BY DEF GateInv, GateType, AnswerGet
<1>u. /\ c.ns \in Namespaces /\ c.since <= now /\ now <= c.since + MaxLatency
      /\ nsState[c.ns] \in c.saw /\ plane \in c.saw /\ c.verdict = ""
  BY Zenon, <1>c DEF LookupTrue, UnderWay
<1>1. PICK failed \in BOOLEAN :
        check' = [check EXCEPT ![r].at = "gotten",
                    ![r].answer = IF failed THEN "Error" ELSE IF plane = "Gone" THEN "Absent"
                                  ELSE nsState[check[r].ns]]
  BY Zenon DEF AnswerGet
<1> DEFINE answer == IF failed THEN "Error" ELSE IF plane = "Gone" THEN "Absent" ELSE nsState[c.ns]
           d == [c EXCEPT !.at = "gotten", !.answer = answer]
<1>2. check' = [check EXCEPT ![r] = d]
  BY Zenon, <1>1, <1>c, <1>t DEF GateType, Lookup
<1>3. answer \in {"Error", "Active", "Terminating", "Absent"}
  BY Zenon, <1>t, <1>u DEF GateType
<1>4. d \in Lookup
  BY Zenon, <1>3 DEF Lookup, Facts
<1>5. /\ d.at = "gotten" /\ d.ns = c.ns /\ d.since = c.since /\ d.verdict = ""
      /\ d.saw = c.saw /\ d.answer = answer
  BY Zenon, <1>u DEF Lookup
<1>6. /\ answer = "Active" => c.since <= lastLive[c.ns]
      /\ answer = "Terminating" => "Terminating" \in c.saw
      /\ answer = "Absent" => "Absent" \in c.saw \/ "Gone" \in c.saw
  <2>1. answer = "Active" => nsState[c.ns] = "Active"
    OBVIOUS
  <2>2. nsState[c.ns] = "Active" => lastLive[c.ns] = now
    BY Zenon, <1>u, <1>t DEF Histories
  <2> QED BY Zenon, <2>1, <2>2, <1>u
<1>7. LookupTrue(d)
  <2> HIDE DEF d, answer
  <2> QED BY Zenon, <1>3, <1>5, <1>6, <1>u DEF LookupTrue, UnderWay, AnswerTrue, VerdictTrue
<1>8. check' \in [Requests -> Lookup] /\ \A q \in Requests : LookupTrue(check[q])'
  BY Zenon, <1>0, <1>2, <1>4, <1>7, OneLookup
<1> QED BY <1>0, <1>t, <1>8 DEF GateInv, GateType, Histories, CachesBounded

\* The same for the probe of the control plane.
LEMMA AnswerProbeKeeps ==
  ASSUME GateInv, NEW r \in Requests, AnswerProbe(r)
  PROVE  GateInv'
<1>0. UNCHANGED <<now, nsState, plane, live, serving, lastLive, lastServed>>
  BY DEF AnswerProbe
<1>t. GateType /\ Histories /\ CachesBounded
  BY DEF GateInv
<1>c. PICK c \in Lookup : c = check[r] /\ LookupTrue(c) /\ c.at = "probe"
  BY DEF GateInv, GateType, AnswerProbe
<1>u. /\ c.ns \in Namespaces /\ c.since <= now /\ now <= c.since + MaxLatency
      /\ nsState[c.ns] \in c.saw /\ plane \in c.saw /\ c.verdict = ""
      /\ "Absent" \in c.saw \/ "Gone" \in c.saw
  BY Zenon, <1>c DEF LookupTrue, UnderWay, AnswerTrue
<1>1. PICK failed \in BOOLEAN :
        check' = [check EXCEPT ![r].at = "probed",
                    ![r].answer = IF failed \/ plane = "Gone" THEN "Error" ELSE "Serving"]
  BY Zenon DEF AnswerProbe
<1> DEFINE answer == IF failed \/ plane = "Gone" THEN "Error" ELSE "Serving"
           d == [c EXCEPT !.at = "probed", !.answer = answer]
<1>2. check' = [check EXCEPT ![r] = d]
  BY Zenon, <1>1, <1>c, <1>t DEF GateType, Lookup
<1>4. d \in Lookup
  BY Zenon DEF Lookup, Facts
<1>5. /\ d.at = "probed" /\ d.ns = c.ns /\ d.since = c.since /\ d.verdict = ""
      /\ d.saw = c.saw /\ d.answer = answer
  BY Zenon, <1>u DEF Lookup
<1>6. answer = "Serving" => c.since <= lastServed
  <2>1. answer = "Serving" => plane = "Serving"
    BY <1>t DEF GateType
  <2>2. plane = "Serving" => lastServed = now
    BY <1>t DEF Histories
  <2> QED BY Zenon, <2>1, <2>2, <1>u
<1>7. LookupTrue(d)
  <2> HIDE DEF d, answer
  <2> QED BY Zenon, <1>5, <1>6, <1>u DEF LookupTrue, UnderWay, AnswerTrue, VerdictTrue
<1>8. check' \in [Requests -> Lookup] /\ \A q \in Requests : LookupTrue(check[q])'
  BY Zenon, <1>0, <1>2, <1>4, <1>7, OneLookup
<1> QED BY <1>0, <1>t, <1>8 DEF GateInv, GateType, Histories, CachesBounded
\* The server reads the answer to its Get: a fresh answer is at most one
\* lookup old, and so is the entry the cache keeps of it.
LEMMA ReceivedGetKeeps ==
  ASSUME GateInv, NEW r \in Requests, ReceivedGet(r)
  PROVE  GateInv'
<1>0. UNCHANGED <<now, nsState, plane, serving, lastLive, lastServed>>
  BY DEF ReceivedGet
<1>t. GateType /\ Histories /\ CachesBounded
  BY DEF GateInv
<1>c. PICK c \in Lookup : c = check[r] /\ LookupTrue(c) /\ c.at = "gotten"
  BY DEF GateInv, GateType, ReceivedGet
<1>u. /\ c.ns \in Namespaces /\ c.since <= now /\ now <= c.since + MaxLatency
      /\ nsState[c.ns] \in c.saw /\ plane \in c.saw /\ c.verdict = ""
  BY Zenon, <1>c DEF LookupTrue, UnderWay
<1>a. /\ c.answer = "Active" => c.since <= lastLive[c.ns]
      /\ c.answer = "Terminating" => "Terminating" \in c.saw
      /\ c.answer = "Absent" => "Absent" \in c.saw \/ "Gone" \in c.saw
  BY <1>c DEF LookupTrue, AnswerTrue
<1>n. /\ now \in Nat /\ lastLive[c.ns] \in Nat /\ lastServed \in Nat /\ serving \in Nat
      /\ c.since \in Nat /\ LiveTTL \in Nat \ {0} /\ ServingTTL \in Nat \ {0} /\ MaxLatency \in Nat
  BY Zenon, <1>t, <1>u, GateAssumption DEF GateAssumption, GateType, Lookup
<1>y. c.answer = "Active" =>
        /\ now - lastLive[c.ns] < LiveTTL + MaxLatency
        /\ now + LiveTTL <= lastLive[c.ns] + MaxLatency + LiveTTL
  BY Zenon, <1>a, <1>n, <1>u, AnswerIsYoung
<1>v. /\ check' = [check EXCEPT ![r] =
            CASE c.answer = "Error" -> Decided(c, "Unknown")
              [] c.answer = "Terminating" -> Decided(c, "Terminating")
              [] c.answer = "Active" -> Decided(c, "Live")
              [] c.answer = "Absent" /\ controlPlaneServes -> Decided(c, "Missing")
              [] OTHER -> [c EXCEPT !.at = "probe"]]
      /\ live' = IF c.answer = "Active" THEN cacheLive(c.ns) ELSE live
  BY <1>c DEF ReceivedGet
<1>1. \E d \in Lookup : LookupTrue(d) /\ check' = [check EXCEPT ![r] = d]
  <2>1. CASE c.answer = "Error"
    <3>1. check' = [check EXCEPT ![r] = Decided(c, "Unknown")]
      BY <1>v, <2>1
    <3>2. Decided(c, "Unknown") \in Lookup /\ LookupTrue(Decided(c, "Unknown"))
      BY Zenon, <1>t, <1>u, DecidedTrue DEF Verdicts
    <3> QED BY Zenon, <3>1, <3>2
  <2>2. CASE c.answer = "Terminating"
    <3>1. check' = [check EXCEPT ![r] = Decided(c, "Terminating")]
      BY <1>v, <2>2
    <3>2. Decided(c, "Terminating") \in Lookup /\ LookupTrue(Decided(c, "Terminating"))
      BY Zenon, <1>t, <1>u, <1>a, <2>2, DecidedTrue DEF Verdicts
    <3> QED BY Zenon, <3>1, <3>2
  <2>3. CASE c.answer = "Active"
    <3>1. check' = [check EXCEPT ![r] = Decided(c, "Live")]
      BY <1>v, <2>3
    <3>2. Decided(c, "Live") \in Lookup /\ LookupTrue(Decided(c, "Live"))
      BY Zenon, <1>t, <1>u, <1>y, <2>3, DecidedTrue DEF Verdicts
    <3> QED BY Zenon, <3>1, <3>2
  <2>4. CASE c.answer = "Absent" /\ controlPlaneServes
    <3>1. check' = [check EXCEPT ![r] = Decided(c, "Missing")]
      BY <1>v, <2>4
    <3>2. now < serving /\ serving <= lastServed + MaxLatency + ServingTTL
      BY <2>4, <1>t DEF controlPlaneServes, CachesBounded
    <3>3. now - lastServed < ServingTTL + MaxLatency
      BY <3>2, <1>n, HitIsYoung
    <3>4. Decided(c, "Missing") \in Lookup /\ LookupTrue(Decided(c, "Missing"))
      BY Zenon, <1>t, <1>u, <1>a, <2>4, <3>3, DecidedTrue DEF Verdicts
    <3> QED BY Zenon, <3>1, <3>4
  <2>5. CASE c.answer = "Absent" /\ ~controlPlaneServes
    <3> DEFINE d == [c EXCEPT !.at = "probe"]
    <3>1. check' = [check EXCEPT ![r] = d]
      BY <1>v, <2>5
    <3>2. d \in Lookup
      BY Zenon DEF Lookup
    <3>3. /\ d.at = "probe" /\ d.ns = c.ns /\ d.since = c.since /\ d.verdict = ""
          /\ d.saw = c.saw
      BY Zenon, <1>u DEF Lookup
    <3>4. LookupTrue(d)
      <4> HIDE DEF d
      <4> QED BY Zenon, <3>3, <1>u, <1>a, <2>5 DEF LookupTrue, UnderWay, AnswerTrue, VerdictTrue
    <3> QED BY Zenon, <3>1, <3>2, <3>4
  <2>6. c.answer \in {"Error", "Terminating", "Active", "Absent"}
    BY <1>c DEF LookupTrue, AnswerTrue
  <2> QED BY <2>1, <2>2, <2>3, <2>4, <2>5, <2>6
<1>2. check' \in [Requests -> Lookup] /\ \A q \in Requests : LookupTrue(check[q])'
  BY Zenon, <1>0, <1>1, OneLookup
<1>3. /\ DOMAIN live' \subseteq Namespaces
      /\ \A ns \in DOMAIN live' : live'[ns] \in Nat /\ live'[ns] <= lastLive[ns] + MaxLatency + LiveTTL
  <2>1. CASE c.answer # "Active"
    BY <2>1, <1>v, <1>t DEF GateType, CachesBounded
  <2>2. CASE c.answer = "Active"
    <3>1. PICK kept : kept \subseteq DOMAIN live
                      /\ live' = [k \in kept \cup {c.ns} |-> IF k = c.ns THEN now + LiveTTL ELSE live[k]]
      BY Zenon, <2>2, <1>v DEF cacheLive
    <3>2. now + LiveTTL \in Nat
      BY <1>n
    <3> QED BY Zenon, <3>1, <3>2, <2>2, <1>y, <1>u, <1>t DEF GateType, CachesBounded
  <2> QED BY <2>1, <2>2
<1> QED BY <1>0, <1>t, <1>2, <1>3 DEF GateInv, GateType, Histories, CachesBounded
\* The server reads the answer to its probe.
LEMMA ReceivedProbeKeeps ==
  ASSUME GateInv, NEW r \in Requests, ReceivedProbe(r)
  PROVE  GateInv'
<1>0. UNCHANGED <<now, nsState, plane, live, lastLive, lastServed>>
  BY DEF ReceivedProbe
<1>t. GateType /\ Histories /\ CachesBounded
  BY DEF GateInv
<1>c. PICK c \in Lookup : c = check[r] /\ LookupTrue(c) /\ c.at = "probed"
  BY DEF GateInv, GateType, ReceivedProbe
<1>u. /\ c.ns \in Namespaces /\ now <= c.since + MaxLatency
      /\ "Absent" \in c.saw \/ "Gone" \in c.saw
      /\ c.answer = "Serving" => c.since <= lastServed
  BY Zenon, <1>c DEF LookupTrue, UnderWay, AnswerTrue
<1>n. /\ now \in Nat /\ lastServed \in Nat /\ c.since \in Nat
      /\ ServingTTL \in Nat \ {0} /\ MaxLatency \in Nat
  BY Zenon, <1>t, GateAssumption DEF GateAssumption, GateType, Lookup
<1>y. c.answer = "Serving" =>
        /\ now - lastServed < ServingTTL + MaxLatency
        /\ now + ServingTTL <= lastServed + MaxLatency + ServingTTL
  BY <1>u, <1>n, AnswerIsYoung
<1>1. /\ \E d \in Lookup : LookupTrue(d) /\ check' = [check EXCEPT ![r] = d]
      /\ serving' \in Nat /\ serving' <= lastServed + MaxLatency + ServingTTL
  <2>1. CASE c.answer = "Serving"
    <3>1. check' = [check EXCEPT ![r] = Decided(c, "Missing")] /\ serving' = now + ServingTTL
      BY <1>c, <2>1 DEF ReceivedProbe
    <3>2. Decided(c, "Missing") \in Lookup /\ LookupTrue(Decided(c, "Missing"))
      BY <1>t, <1>u, <1>y, <2>1, DecidedTrue DEF Verdicts
    <3>3. now + ServingTTL \in Nat
      BY <1>n
    <3> QED BY Zenon, <3>1, <3>2, <3>3, <1>y, <2>1
  <2>2. CASE c.answer # "Serving"
    <3>1. check' = [check EXCEPT ![r] = Decided(c, "Unknown")] /\ serving' = serving
      BY <1>c, <2>2 DEF ReceivedProbe
    <3>2. Decided(c, "Unknown") \in Lookup /\ LookupTrue(Decided(c, "Unknown"))
      BY <1>t, <1>u, DecidedTrue DEF Verdicts
    <3> QED BY Zenon, <3>1, <3>2, <1>t DEF GateType, CachesBounded
  <2> QED BY <2>1, <2>2
<1>2. check' \in [Requests -> Lookup] /\ \A q \in Requests : LookupTrue(check[q])'
  BY Zenon, <1>0, <1>1, OneLookup
<1> QED BY <1>0, <1>t, <1>1, <1>2 DEF GateInv, GateType, Histories, CachesBounded

\* A request that is over is forgotten.
LEMMA ForgetKeeps ==
  ASSUME GateInv, NEW r \in Requests, Forget(r)
  PROVE  GateInv'
<1>0. UNCHANGED <<now, nsState, plane, live, serving, lastLive, lastServed>>
  BY Zenon DEF Forget
<1>1. check' = [check EXCEPT ![r] = NoCheck("")]
  BY Zenon DEF Forget
<1>2. NoCheck("") \in Lookup
  BY DEF NoCheck, Lookup, Verdicts, Facts
<1>3. LookupTrue(NoCheck(""))
  BY DEF NoCheck, LookupTrue, UnderWay, AnswerTrue, VerdictTrue
<1>4. check' \in [Requests -> Lookup] /\ \A q \in Requests : LookupTrue(check[q])'
  BY Zenon, <1>0, <1>1, <1>2, <1>3, OneLookup
<1> QED BY <1>0, <1>4 DEF GateInv, GateType, Histories, CachesBounded

\* A change of the control plane that every lookup it concerns records, and that
\* moves the histories forward only, keeps the lookups truthful.
LEMMA WitnessKeeps ==
  ASSUME GateInv, now' = now,
         NEW ns \in Namespaces \cup {""}, NEW fact \in Facts, check' = Witness(ns, fact),
         lastLive' \in [Namespaces -> Nat], \A k \in Namespaces : lastLive[k] <= lastLive'[k],
         lastServed' \in Nat, lastServed <= lastServed',
         plane' = plane \/ (plane' = fact /\ ns = ""),
         \A k \in Namespaces : nsState'[k] = nsState[k] \/ (k = ns /\ nsState'[k] = fact)
  PROVE  check' \in [Requests -> Lookup] /\ \A q \in Requests : LookupTrue(check[q])'
<1>1. check \in [Requests -> Lookup] /\ lastLive \in [Namespaces -> Nat] /\ lastServed \in Nat
  BY Zenon DEF GateInv, GateType
<1>2. ASSUME NEW q \in Requests
      PROVE  check'[q] \in Lookup /\ LookupTrue(check[q])'
  <2> PICK c \in Lookup : c = check[q] /\ LookupTrue(c)
    BY Zenon, <1>1 DEF GateInv
  <2> DEFINE moved == c.at \in {"get", "gotten", "probe", "probed"} /\ (ns = "" \/ c.ns = ns)
             d == IF moved THEN [c EXCEPT !.saw = @ \cup {fact}] ELSE c
  <2>1. check'[q] = d
    BY Zenon DEF Witness, InFlight
  <2>2. d \in Lookup
    BY Zenon DEF Lookup
  <2>3. /\ d.at = c.at /\ d.ns = c.ns /\ d.since = c.since /\ d.answer = c.answer
        /\ d.verdict = c.verdict /\ d.stale = c.stale /\ d.unserved = c.unserved
        /\ c.saw \subseteq d.saw /\ (moved => fact \in d.saw)
    BY Zenon DEF Lookup
  <2> HIDE DEF d
  <2>4. UnderWay(d)'
    <3> SUFFICES ASSUME c.at \in {"get", "gotten", "probe", "probed"}
                 PROVE  /\ c.ns \in Namespaces
                        /\ c.since <= now /\ now <= c.since + MaxLatency
                        /\ nsState'[c.ns] \in d.saw /\ plane' \in d.saw
                        /\ c.verdict = ""
      BY Zenon, <2>3 DEF UnderWay
    <3>1. /\ c.ns \in Namespaces /\ c.since <= now /\ now <= c.since + MaxLatency
          /\ nsState[c.ns] \in d.saw /\ plane \in d.saw /\ c.verdict = ""
      BY Zenon, <2>3 DEF LookupTrue, UnderWay
    <3>2. nsState'[c.ns] \in d.saw
      BY Zenon, <2>3, <3>1
    <3>3. plane' \in d.saw
      BY Zenon, <2>3, <3>1
    <3> QED BY Zenon, <3>1, <3>2, <3>3
  <2>5. VerdictTrue(d)'
    BY Zenon, <2>3 DEF LookupTrue, VerdictTrue
  <2>6. AnswerTrue(d)'
    <3>1. c.since \in Nat
      BY Zenon DEF Lookup
    <3>2. c.at = "gotten" => c.ns \in Namespaces
      BY Zenon DEF LookupTrue, UnderWay
    <3>3. c.at = "gotten" /\ c.answer = "Active" => c.since <= lastLive'[c.ns]
      <4> SUFFICES ASSUME c.at = "gotten", c.answer = "Active" PROVE c.since <= lastLive'[c.ns]
        BY Zenon
      <4>1. c.since <= lastLive[c.ns]
        BY Zenon DEF LookupTrue, AnswerTrue
      <4>2. lastLive[c.ns] \in Nat /\ lastLive'[c.ns] \in Nat /\ lastLive[c.ns] <= lastLive'[c.ns]
        BY Zenon, <1>1, <3>2
      <4> QED BY Zenon, <3>1, <4>1, <4>2, StillSeen
    <3>4. c.at = "probed" /\ c.answer = "Serving" => c.since <= lastServed'
      <4> SUFFICES ASSUME c.at = "probed", c.answer = "Serving" PROVE c.since <= lastServed'
        BY Zenon
      <4>1. c.since <= lastServed
        BY Zenon DEF LookupTrue, AnswerTrue
      <4> QED BY Zenon, <1>1, <3>1, <4>1, StillSeen
    <3> QED BY Zenon, <2>3, <3>3, <3>4 DEF LookupTrue, AnswerTrue
  <2>7. LookupTrue(d)'
    BY Zenon, <2>4, <2>5, <2>6 DEF LookupTrue
  <2> QED BY Zenon, <2>1, <2>2, <2>7 DEF LookupTrue, UnderWay, AnswerTrue, VerdictTrue
<1>3. check' = [q \in Requests |-> check'[q]]
  BY Zenon DEF Witness
<1> QED BY Zenon, <1>2, <1>3

\* A namespace is created, begins to terminate or goes.
LEMMA NamespaceStepKeeps ==
  ASSUME GateInv, NEW ns \in Namespaces, NamespaceStep(ns)
  PROVE  GateInv'
<1>0. UNCHANGED <<now, plane, live, serving, lastServed>>
  BY DEF NamespaceStep
<1>t. GateType /\ Histories /\ CachesBounded
  BY DEF GateInv
<1>1. PICK fact \in {"Active", "Terminating", "Absent"} :
        nsState' = [nsState EXCEPT ![ns] = fact]
  BY Zenon, <1>t DEF NamespaceStep, GateType
<1>2. nsState' \in [Namespaces -> {"Active", "Terminating", "Absent"}] /\ nsState'[ns] = fact
  BY <1>1, <1>t DEF GateType
<1>3. check' = Witness(ns, fact)
  BY Zenon, <1>2 DEF NamespaceStep
<1>4. lastLive' = IF fact = "Active" THEN [lastLive EXCEPT ![ns] = now] ELSE lastLive
  BY Zenon, <1>2 DEF NamespaceStep
<1>5. now \in Nat /\ lastLive \in [Namespaces -> Nat] /\ lastServed \in Nat
  BY <1>t DEF GateType
<1>6. lastLive' \in [Namespaces -> Nat]
  BY <1>4, <1>5
<1>7. \A k \in Namespaces : lastLive[k] <= lastLive'[k] /\ lastLive'[k] <= now
  <2> TAKE k \in Namespaces
  <2>1. lastLive[k] \in Nat /\ lastLive[k] <= now /\ (lastLive'[k] = now \/ lastLive'[k] = lastLive[k])
    BY <1>4, <1>5, <1>t DEF Histories
  <2> QED BY <2>1, <1>5
<1>8. \A k \in Namespaces : nsState'[k] = "Active" => lastLive'[k] = now
  BY <1>1, <1>2, <1>4, <1>5, <1>t DEF Histories, GateType
<1>9. check' \in [Requests -> Lookup] /\ \A q \in Requests : LookupTrue(check[q])'
  <2>1. \A k \in Namespaces : nsState'[k] = nsState[k] \/ (k = ns /\ nsState'[k] = fact)
    BY <1>1, <1>t DEF GateType
  <2>2. lastServed <= lastServed'
    BY <1>0, <1>5
  <2>3. fact \in Facts
    BY DEF Facts
  <2>4. now' = now /\ plane' = plane /\ lastServed' \in Nat /\ ns \in Namespaces \cup {""}
    BY Zenon, <1>0, <1>5
  <2>5. \A k \in Namespaces : lastLive[k] <= lastLive'[k]
    BY <1>7
  <2> QED BY Zenon, <2>1, <2>2, <2>3, <2>4, <2>5, <1>3, <1>6, WitnessKeeps
<1>10. CachesBounded'
  <2>1. ASSUME NEW k \in DOMAIN live'
        PROVE live'[k] <= lastLive'[k] + MaxLatency + LiveTTL
    <3>1. /\ k \in Namespaces /\ live[k] \in Nat /\ lastLive[k] \in Nat /\ lastLive'[k] \in Nat
          /\ live[k] <= lastLive[k] + MaxLatency + LiveTTL
      BY <1>0, <1>5, <1>6, <1>t DEF GateType, CachesBounded
    <3>2. lastLive[k] <= lastLive'[k] /\ live'[k] = live[k]
      BY <1>0, <1>7, <3>1
    <3>3. LiveTTL \in Nat /\ MaxLatency \in Nat
      BY GateAssumption DEF GateAssumption
    <3>4. live[k] <= lastLive'[k] + MaxLatency + LiveTTL
      BY <3>1, <3>2, <3>3, BoundGrows
    <3> QED BY <3>2, <3>4
  <2> QED BY <2>1, <1>0, <1>t DEF CachesBounded
<1> QED BY <1>0, <1>t, <1>2, <1>6, <1>7, <1>8, <1>9, <1>10 DEF GateInv, GateType, Histories

\* A control plane is built or removed.
LEMMA PlaneStepKeeps ==
  ASSUME GateInv, PlaneStep
  PROVE  GateInv'
<1>0. UNCHANGED <<now, nsState, live, serving, lastLive>>
  BY Zenon DEF PlaneStep
<1>t. GateType /\ Histories /\ CachesBounded
  BY DEF GateInv
<1>1. plane' \in {"Serving", "Gone"} /\ check' = Witness("", plane')
  BY Zenon DEF PlaneStep
<1>2. /\ now \in Nat /\ lastServed \in Nat /\ lastServed <= now
      /\ lastLive \in [Namespaces -> Nat] /\ serving \in Nat
  BY <1>t DEF GateType, Histories
<1>3. /\ lastServed' \in Nat /\ lastServed <= lastServed' /\ lastServed' <= now
      /\ plane' = "Serving" => lastServed' = now
  <2>1. lastServed' = IF plane' = "Serving" THEN now ELSE lastServed
    BY Zenon DEF PlaneStep
  <2>2. CASE plane' = "Serving"
    BY <2>1, <2>2, <1>2
  <2>3. CASE plane' # "Serving"
    BY <2>1, <2>3, <1>2
  <2> QED BY <2>2, <2>3
<1>4. check' \in [Requests -> Lookup] /\ \A q \in Requests : LookupTrue(check[q])'
  <2>1. PICK fact \in Facts : fact = plane'
    BY Zenon, <1>1 DEF Facts
  <2>2. \A k \in Namespaces : lastLive[k] <= lastLive'[k]
    BY <1>0, <1>2
  <2>3. lastLive' \in [Namespaces -> Nat]
    BY <1>0, <1>2
  <2> QED BY Zenon, <2>1, <2>2, <2>3, <1>0, <1>1, <1>2, <1>3, WitnessKeeps
<1>5. serving' <= lastServed' + MaxLatency + ServingTTL
  <2>1. ServingTTL \in Nat /\ MaxLatency \in Nat
    BY GateAssumption DEF GateAssumption
  <2>2. serving <= lastServed + MaxLatency + ServingTTL
    BY <1>t DEF CachesBounded
  <2>3. serving <= lastServed' + MaxLatency + ServingTTL
    BY Zenon, <1>2, <1>3, <2>1, <2>2, BoundGrows
  <2> QED BY <2>3, <1>0
<1> QED BY Zenon, <1>0, <1>t, <1>1, <1>3, <1>4, <1>5 DEF GateInv, GateType, Histories, CachesBounded

\* Time passes, for a lookup on its way no more than its latency.
LEMMA TickKeeps ==
  ASSUME GateInv, Tick
  PROVE  GateInv'
<1>0. UNCHANGED <<nsState, plane, live, serving, check>> /\ now' = now + 1
  BY DEF Tick
<1>t. GateType /\ Histories /\ CachesBounded
  BY DEF GateInv
<1>n. /\ now \in Nat /\ now' \in Nat /\ now <= now' /\ lastServed \in Nat /\ lastServed <= now
      /\ lastLive \in [Namespaces -> Nat] /\ serving \in Nat
      /\ LiveTTL \in Nat /\ ServingTTL \in Nat /\ MaxLatency \in Nat
  <2>1. now \in Nat /\ lastServed \in Nat /\ lastLive \in [Namespaces -> Nat] /\ serving \in Nat
    BY <1>t DEF GateType
  <2>2. lastServed <= now
    BY <1>t DEF Histories
  <2>3. LiveTTL \in Nat /\ ServingTTL \in Nat /\ MaxLatency \in Nat
    BY GateAssumption DEF GateAssumption
  <2> QED BY <1>0, <2>1, <2>2, <2>3
<1>1. ASSUME NEW k \in Namespaces
      PROVE  /\ lastLive[k] \in Nat /\ lastLive'[k] \in Nat /\ lastLive[k] <= lastLive'[k]
             /\ lastLive'[k] <= now' /\ (nsState'[k] = "Active" => lastLive'[k] = now')
  <2>1. lastLive'[k] = IF nsState[k] = "Active" THEN now' ELSE lastLive[k]
    BY DEF Tick
  <2>2. lastLive[k] \in Nat /\ lastLive[k] <= now
    BY <1>n, <1>t DEF Histories
  <2>3. lastLive[k] <= now' /\ lastLive[k] <= lastLive[k] /\ now' <= now'
    BY <2>2, <1>n, <1>0
  <2> QED BY <2>1, <2>2, <2>3, <1>n, <1>0
<1>2. lastLive' \in [Namespaces -> Nat]
  BY <1>1 DEF Tick
<1>3. /\ lastServed' \in Nat /\ lastServed <= lastServed' /\ lastServed' <= now'
      /\ (plane' = "Serving" => lastServed' = now')
  <2>1. lastServed' = IF plane = "Serving" THEN now' ELSE lastServed
    BY DEF Tick
  <2>2. lastServed <= now' /\ lastServed <= lastServed /\ now' <= now'
    BY <1>n, <1>0
  <2> QED BY <2>1, <2>2, <1>n, <1>0
<1>4. CachesBounded'
  <2>1. ASSUME NEW k \in DOMAIN live'
        PROVE live'[k] <= lastLive'[k] + MaxLatency + LiveTTL
    <3>1. k \in Namespaces /\ live[k] \in Nat /\ live[k] <= lastLive[k] + MaxLatency + LiveTTL
      BY <1>0, <1>t DEF GateType, CachesBounded
    <3>2. live[k] <= lastLive'[k] + MaxLatency + LiveTTL
      BY <3>1, <1>1, <1>n, BoundGrows
    <3> QED BY <3>2, <1>0
  <2>2. serving <= lastServed' + MaxLatency + ServingTTL
    <3>1. serving <= lastServed + MaxLatency + ServingTTL
      BY <1>t DEF CachesBounded
    <3> QED BY Zenon, <3>1, <1>3, <1>n, BoundGrows
  <2> QED BY <2>1, <2>2, <1>0 DEF CachesBounded
<1>5. ASSUME NEW q \in Requests
      PROVE  LookupTrue(check[q])'
  <2> PICK c \in Lookup : c = check[q] /\ LookupTrue(c)
    BY <1>t DEF GateInv, GateType
  <2>1. c.since \in Nat
    BY Zenon DEF Lookup
  <2>2. c.at \in {"get", "gotten", "probe", "probed"} => c.since <= now' /\ now' <= c.since + MaxLatency
    <3> SUFFICES ASSUME c.at \in {"get", "gotten", "probe", "probed"}
                 PROVE  c.since <= now' /\ now' <= c.since + MaxLatency
      OBVIOUS
    <3>1. c.since <= now
      BY Zenon DEF LookupTrue, UnderWay
    <3>2. now - c.since < MaxLatency
      BY DEF Tick, InFlight
    <3> QED BY <3>1, <3>2, <2>1, <1>n, <1>0
  <2>3. UnderWay(c)'
    BY Zenon, <2>2, <1>0 DEF LookupTrue, UnderWay
  <2>4. VerdictTrue(c)'
    BY DEF LookupTrue, VerdictTrue
  <2>5. AnswerTrue(c)'
    <3>1. c.at = "gotten" /\ c.answer = "Active" => c.since <= lastLive'[c.ns]
      <4> SUFFICES ASSUME c.at = "gotten", c.answer = "Active" PROVE c.since <= lastLive'[c.ns]
        OBVIOUS
      <4>1. c.ns \in Namespaces /\ c.since <= lastLive[c.ns]
        BY Zenon DEF LookupTrue, UnderWay, AnswerTrue
      <4> QED BY <2>1, <4>1, <1>1, StillSeen
    <3>2. c.at = "probed" /\ c.answer = "Serving" => c.since <= lastServed'
      <4> SUFFICES ASSUME c.at = "probed", c.answer = "Serving" PROVE c.since <= lastServed'
        OBVIOUS
      <4>1. c.since <= lastServed
        BY DEF LookupTrue, AnswerTrue
      <4> QED BY <1>3, <1>n, <2>1, <4>1, StillSeen
    <3> QED BY <3>1, <3>2 DEF LookupTrue, AnswerTrue
  <2>6. check'[q] = c
    BY <1>0
  <2> QED BY Zenon, <2>3, <2>4, <2>5, <2>6 DEF LookupTrue, UnderWay, AnswerTrue, VerdictTrue
<1>6. GateType'
  BY <1>0, <1>n, <1>2, <1>3, <1>t DEF GateType
<1>7. Histories'
  BY <1>1, <1>3 DEF Histories
<1> QED BY <1>4, <1>5, <1>6, <1>7 DEF GateInv

-----------------------------------------------------------------------------
\* Every step of the check keeps the invariant, and so does a step of the
\* program that leaves the check alone.
LEMMA GateStepInv == GateInv /\ [GateNext]_gateVars => GateInv'
<1> SUFFICES ASSUME GateInv, [GateNext]_gateVars PROVE GateInv'
  OBVIOUS
<1>1. ASSUME NEW r \in Requests, Ask(r) \/ LookupStep(r) \/ Forget(r) PROVE GateInv'
  BY <1>1, AskKeeps, ForgetKeeps, AnswerGetKeeps, ReceivedGetKeeps, AnswerProbeKeeps,
     ReceivedProbeKeeps DEF LookupStep
<1>2. CASE PlaneStep \/ Tick \/ \E ns \in Namespaces : NamespaceStep(ns)
  BY <1>2, PlaneStepKeeps, TickKeeps, NamespaceStepKeeps
<1>3. CASE UNCHANGED gateVars
  BY Zenon, <1>3 DEF gateVars, GateInv, GateType, Histories, CachesBounded, LookupTrue, UnderWay,
     AnswerTrue, VerdictTrue
<1> QED BY <1>1, <1>2, <1>3 DEF GateNext

\* The inductive invariant holds in every state of the check.
THEOREM GateInvAlways == GateSpec => []GateInv
BY GateInitInv, GateStepInv, PTL DEF GateSpec

\* However the lookups of the requests interleave, and whatever the lifetimes,
\* the latency and the bound of the cache: a claim the check calls Live was
\* bound for a namespace active less than LiveTTL plus one lookup ago (State,
\* cacheLive of internal/access/namespace.go).
THEOREM LiveIsRecent == GateSpec => []AdmittedWasLive
<1>1. GateInv => AdmittedWasLive
  BY DEF GateInv, AdmittedWasLive, LookupTrue, VerdictTrue
<1> QED BY <1>1, GateInvAlways, PTL

\* A claim is refused for a state its namespace was in while that very request
\* ran, or for the 404 of a control plane that served less than ServingTTL plus
\* one lookup ago (State, controlPlaneServes).
THEOREM RefusedForCause == GateSpec => []RefusalIsFresh
<1>1. GateInv => RefusalIsFresh
  BY DEF GateInv, RefusalIsFresh, LookupTrue, VerdictTrue
<1> QED BY <1>1, GateInvAlways, PTL

-----------------------------------------------------------------------------
\* The clock, the two caches and the bound on the live one.
GateBounds ==
  /\ now <= MaxTime
  /\ \A ns \in DOMAIN live : live[ns] <= MaxTime + LiveTTL
  /\ serving <= MaxTime + ServingTTL
  /\ IsFiniteSet(DOMAIN live)
  /\ Cardinality(DOMAIN live) <= MaxLiveEntries

\* An entry more: the cache makes room before it is over its bound.
LEMMA RoomIsMade ==
  ASSUME GateType, GateBounds, NEW ns, NEW L, L = cacheLive(ns)
  PROVE  /\ \A k \in DOMAIN L : L[k] <= MaxTime + LiveTTL
         /\ IsFiniteSet(DOMAIN L)
         /\ Cardinality(DOMAIN L) <= MaxLiveEntries
<1> DEFINE fresh == { k \in DOMAIN live : now < live[k] }
           kept == IF Cardinality(DOMAIN live) < MaxLiveEntries THEN DOMAIN live
                   ELSE IF Cardinality(fresh) < MaxLiveEntries THEN fresh
                   ELSE {}
<1>1. L = [k \in kept \cup {ns} |-> IF k = ns THEN now + LiveTTL ELSE live[k]]
  BY DEF cacheLive
<1>2. kept \subseteq DOMAIN live
  OBVIOUS
<1>3. IsFiniteSet(kept)
  BY <1>2, FS_Subset DEF GateBounds
<1>4. Cardinality(kept) < MaxLiveEntries
  <2>1. Cardinality({}) = 0 /\ 0 < MaxLiveEntries
    BY FS_EmptySet, GateAssumption
  <2> QED BY <2>1
<1> HIDE DEF kept
<1>5. IsFiniteSet(kept \cup {ns}) /\ Cardinality(kept \cup {ns}) <= Cardinality(kept) + 1
  <2>1. Cardinality(kept) \in Nat
    BY Zenon, <1>3, FS_CardinalityType
  <2>2. /\ IsFiniteSet(kept \cup {ns})
        /\ Cardinality(kept \cup {ns}) = IF ns \in kept THEN Cardinality(kept) ELSE Cardinality(kept) + 1
    BY Zenon, <1>3, FS_AddElement
  <2> QED BY <2>1, <2>2
<1>6. Cardinality(kept \cup {ns}) <= MaxLiveEntries
  <2>1. Cardinality(kept) \in Nat /\ Cardinality(kept \cup {ns}) \in Nat
    BY <1>3, <1>5, FS_CardinalityType
  <2> QED BY <1>4, <1>5, <2>1, GateAssumption
<1>7. \A k \in DOMAIN L : L[k] <= MaxTime + LiveTTL
  <2>1. now + LiveTTL <= MaxTime + LiveTTL
    BY GateAssumption DEF GateType, GateBounds
  <2> QED BY <1>1, <1>2, <2>1 DEF GateBounds
<1>8. DOMAIN L = kept \cup {ns}
  BY <1>1
<1> QED BY <1>5, <1>6, <1>7, <1>8

\* What a request reads, asks or forgets keeps the caches within their bounds.
LEMMA LookupBounds ==
  ASSUME GateType, GateBounds, NEW r \in Requests, Ask(r) \/ LookupStep(r) \/ Forget(r)
  PROVE  GateBounds'
<1>1. now' = now
  BY Zenon DEF Ask, LookupStep, AnswerGet, ReceivedGet, AnswerProbe, ReceivedProbe, Forget
<1>2. live' = live \/ \E ns : live' = cacheLive(ns)
  BY Zenon DEF Ask, State, Hit, LookupStep, AnswerGet, ReceivedGet, AnswerProbe, ReceivedProbe, Forget
<1>3. serving' = serving \/ serving' = now + ServingTTL
  BY Zenon DEF Ask, LookupStep, AnswerGet, ReceivedGet, AnswerProbe, ReceivedProbe, Forget
<1>4. serving' <= MaxTime + ServingTTL
  BY <1>3, GateAssumption DEF GateType, GateBounds
<1>5. CASE live' = live
  BY <1>1, <1>4, <1>5 DEF GateBounds
<1>6. CASE \E ns : live' = cacheLive(ns)
  <2>1. PICK L, ns : L = live' /\ L = cacheLive(ns)
    BY <1>6
  <2>2. /\ \A k \in DOMAIN L : L[k] <= MaxTime + LiveTTL
        /\ IsFiniteSet(DOMAIN L)
        /\ Cardinality(DOMAIN L) <= MaxLiveEntries
    BY <2>1, RoomIsMade
  <2> QED BY <1>1, <1>4, <2>1, <2>2 DEF GateBounds
<1> QED BY <1>2, <1>5, <1>6

\* Every step keeps the bounds.
LEMMA StepBounds == GateInv /\ GateBounds /\ [GateNext]_gateVars => GateBounds'
<1> SUFFICES ASSUME GateInv, GateBounds, [GateNext]_gateVars PROVE GateBounds'
  OBVIOUS
<1>0. GateType
  BY DEF GateInv
<1>1. CASE \E r \in Requests : Ask(r) \/ LookupStep(r) \/ Forget(r)
  BY <1>0, <1>1, LookupBounds
<1>2. CASE PlaneStep \/ \E ns \in Namespaces : NamespaceStep(ns)
  <2>1. UNCHANGED <<now, live, serving>>
    BY Zenon, <1>2 DEF PlaneStep, NamespaceStep
  <2> QED BY <2>1 DEF GateBounds
<1>3. CASE Tick
  <2>1. now < MaxTime /\ now' = now + 1 /\ UNCHANGED <<live, serving>>
    BY <1>3 DEF Tick
  <2>2. now' <= MaxTime
    BY <1>0, <2>1, GateAssumption DEF GateType
  <2> QED BY <2>1, <2>2 DEF GateBounds
<1>4. CASE UNCHANGED gateVars
  BY <1>4 DEF gateVars, GateBounds
<1> QED BY <1>1, <1>2, <1>3, <1>4 DEF GateNext

\* The clock, the expiry of every entry and the number of entries stay within
\* their bounds, and every lookup that is over has one of the four verdicts:
\* cacheLive never leaves more than maxLiveEntries namespaces in its map.
THEOREM GateTypeCorrect == GateSpec => []GateTypeOK
<1>1. GateStart => GateBounds
  <2> SUFFICES ASSUME GateStart PROVE GateBounds
    OBVIOUS
  <2>1. now = 0 /\ DOMAIN live = {} /\ serving = 0
    BY Zenon DEF GateStart, GateInit
  <2> QED BY <2>1, FS_EmptySet, GateAssumption DEF GateBounds
<1>2. GateInv /\ GateBounds => GateTypeOK
  <2> SUFFICES ASSUME GateInv, GateBounds PROVE GateTypeOK
    OBVIOUS
  <2>1. /\ now \in Nat /\ now <= MaxTime
        /\ serving \in Nat /\ serving <= MaxTime + ServingTTL
        /\ \A ns \in DOMAIN live : live[ns] \in Nat /\ live[ns] <= MaxTime + LiveTTL
        /\ Cardinality(DOMAIN live) <= MaxLiveEntries
    BY DEF GateInv, GateType, GateBounds
  <2>2. /\ now \in 0 .. MaxTime /\ serving \in 0 .. (MaxTime + ServingTTL)
        /\ \A ns \in DOMAIN live : live[ns] \in 0 .. (MaxTime + LiveTTL)
    BY <2>1, GateAssumption
  <2>3. \A r \in Requests : check[r].verdict \in Verdicts \cup {""}
    BY Zenon DEF GateInv, GateType, Lookup
  <2> QED BY Zenon, <2>1, <2>2, <2>3 DEF GateInv, GateType, GateTypeOK
<1> QED BY <1>1, <1>2, StepBounds, GateInvAlways, PTL DEF GateSpec
=============================================================================
