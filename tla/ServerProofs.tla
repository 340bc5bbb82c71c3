---------------------------- MODULE ServerProofs ----------------------------
(* What is proved of Server, for any number of replicas, requests and       *)
(* faults and any thresholds.                                               *)
EXTENDS Server, TLAPS

(* A container that has been restarted starts its count of probes again.    *)
ProbeCount == \A r \in Replicas : phase[r] # "down" => probes[r] < Unlive

Sound == TypeOK /\ ProbeCount

(* Whatever nginx may hold against a replica comes from a fault there: its  *)
(* count, a worker that is no more, a port that is closed.                  *)
BlamedReplicas ==
  deployment = "compose" => \A r \in Replicas :
    /\ fails[r] > 0 => r \in hurt
    /\ worker[r] \in {"failed", "dead"} => r \in hurt
    /\ open /\ phase[r] # "serving" => r \in hurt

(* So does every request that was broken off or has been sent on: it has    *)
(* been refused or left behind only by replicas that had one.               *)
BlamedRequests ==
  deployment = "compose" => \A q \in Requests :
    /\ where[q] \in Replicas /\ stage[q] = "broken" => where[q] \in hurt
    /\ where[q] \in {"new", "error"} => tried[q] \subseteq hurt
    /\ where[q] \in Replicas => tried[q] \subseteq hurt \cup {where[q]}
    /\ where[q] \notin Replicas => stage[q] = "idle"

Blame == BlamedReplicas /\ BlamedRequests /\ MaskedFailure

IInv == Sound /\ Blame

----------------------------------------------------------------------------
(* Types                                                                    *)

LEMMA InitSound == Init => Sound
<1> SUFFICES ASSUME Init PROVE Sound  OBVIOUS
<1>1. /\ phase \in [Replicas -> {"down", "loading", "waiting", "serving"}]
      /\ worker \in [Replicas -> {"none", "starting", "up", "failed", "dead"}]
      /\ queue \in [Replicas -> Seq(Requests)]
      /\ running \in [Replicas -> SUBSET Requests]
  BY DEF Init
<1>2. /\ probes \in [Replicas -> 0..Unlive]
      /\ fails \in [Replicas -> 0..MaxFails]
      /\ faults \in 0..MaxFaults
  BY ServerAssumption DEF Init
<1>3. /\ where \in [Requests -> Replicas \cup {"new", "answered", "error"}]
      /\ stage \in [Requests -> {"idle", "backlog", "waiting", "broken"}]
      /\ tried \in [Requests -> SUBSET Replicas]
  BY DEF Init
<1> QED  BY <1>1, <1>2, <1>3 DEF Init, Sound, TypeOK, ProbeCount

(* A container that exits has typed state, whatever ended it.               *)
LEMMA ExitTyped ==
  ASSUME TypeOK, NEW r \in Replicas, Exit(r)
  PROVE  /\ phase' \in [Replicas -> {"down", "loading", "waiting", "serving"}]
         /\ worker' \in [Replicas -> {"none", "starting", "up", "failed",
                                  "dead"}]
         /\ queue' \in [Replicas -> Seq(Requests)]
         /\ running' \in [Replicas -> SUBSET Requests]
         /\ stage' \in [Requests -> {"idle", "backlog", "waiting", "broken"}]
BY DEF Exit, TypeOK

LEMMA NextSound == Sound /\ [Next]_vars => Sound'
<1> SUFFICES ASSUME Sound, [Next]_vars PROVE Sound'  OBVIOUS
<1> USE DEF Sound
<1>1. ASSUME NEW r \in Replicas, Boot(r) PROVE Sound'
  <2>1. TypeOK'
    BY <1>1, ServerAssumption DEF Boot, NoFault, TypeOK, proxy, outside
  <2>2. ProbeCount'
    BY <1>1, ServerAssumption
    DEF Boot, NoFault, ProbeCount, TypeOK, proxy, outside
  <2> QED  BY <2>1, <2>2
<1>2. ASSUME NEW r \in Replicas, LoadFails(r) PROVE Sound'
  <2>1. TypeOK'
    BY <1>2, ServerAssumption DEF LoadFails, Fault, Exit, TypeOK, outside
  <2>2. ProbeCount'
    BY <1>2, ServerAssumption
    DEF LoadFails, Fault, Exit, ProbeCount, TypeOK, outside
  <2> QED  BY <2>1, <2>2
<1>3. ASSUME NEW r \in Replicas, Loaded(r) PROVE Sound'
  <2>1. TypeOK'
    BY <1>3, ServerAssumption DEF Loaded, NoFault, TypeOK, proxy, outside
  <2>2. ProbeCount'
    BY <1>3, ServerAssumption
    DEF Loaded, NoFault, ProbeCount, TypeOK, proxy, outside
  <2> QED  BY <2>1, <2>2
<1>4. ASSUME NEW r \in Replicas, WarmUp(r) PROVE Sound'
  <2>1. TypeOK'
    <3>1. worker' \in [Replicas -> {"none", "starting", "up", "failed",
                                    "dead"}]
      BY <1>4 DEF WarmUp, TypeOK
    <3>2. faults' \in 0..MaxFaults /\ hurt' \subseteq Replicas
      BY <1>4, ServerAssumption DEF WarmUp, NoFault, Fault, TypeOK
    <3> QED  BY <1>4, <3>1, <3>2 DEF WarmUp, TypeOK, proxy, outside
  <2>2. ProbeCount'
    BY <1>4, ServerAssumption
    DEF WarmUp, NoFault, Fault, ProbeCount, TypeOK, proxy, outside
  <2> QED  BY <2>1, <2>2
<1>5. ASSUME NEW r \in Replicas, StartUpReturns(r) PROVE Sound'
  <2>1. TypeOK'
    <3>1. CASE Exit(r)
      BY <1>5, <3>1, ExitTyped
      DEF StartUpReturns, Exit, NoFault, TypeOK, proxy, outside
    <3>2. CASE ~Exit(r)
      BY <1>5, <3>2 DEF StartUpReturns, NoFault, TypeOK, proxy, outside
    <3> QED  BY <3>1, <3>2
  <2>2. ProbeCount'
    BY <1>5, ServerAssumption
    DEF StartUpReturns, Exit, NoFault, ProbeCount, TypeOK, proxy, outside
  <2> QED  BY <2>1, <2>2
<1>6. ASSUME NEW r \in Replicas, WorkerDies(r) PROVE Sound'
  <2>1. TypeOK'
    BY <1>6, ServerAssumption DEF WorkerDies, Fault, TypeOK, proxy, outside
  <2>2. ProbeCount'
    BY <1>6, ServerAssumption
    DEF WorkerDies, Fault, ProbeCount, TypeOK, proxy, outside
  <2> QED  BY <2>1, <2>2
<1>7. ASSUME NEW r \in Replicas, Crash(r) PROVE Sound'
  <2>1. TypeOK'
    BY <1>7, ServerAssumption DEF Crash, Fault, Exit, TypeOK, outside
  <2>2. ProbeCount'
    BY <1>7, ServerAssumption
    DEF Crash, Fault, Exit, ProbeCount, TypeOK, outside
  <2> QED  BY <2>1, <2>2
<1>8. ASSUME NEW r \in Replicas, Probe(r) PROVE Sound'
  <2>1. TypeOK'
    <3>1. probes' \in [Replicas -> 0..Unlive]
      <4>1. probes[r] \in Nat /\ probes[r] < Unlive
        BY <1>8, ServerAssumption DEF Probe, ProbeCount, TypeOK
      <4>2. 0 \in 0..Unlive /\ probes[r] + 1 \in 0..Unlive
        BY <4>1, ServerAssumption
      <4> QED  BY <1>8, <4>2 DEF Probe, TypeOK
    <3>2. CASE Exit(r)
      BY <1>8, <3>1, <3>2, ExitTyped
      DEF Probe, NoFault, TypeOK, proxy, outside
    <3>3. CASE UNCHANGED <<process, proxy>>
      BY <1>8, <3>1, <3>3 DEF Probe, NoFault, TypeOK, process, proxy, outside
    <3> QED  BY <1>8, <3>2, <3>3 DEF Probe
  <2>2. ProbeCount'
    BY <1>8, ServerAssumption
    DEF Probe, Exit, NoFault, ProbeCount, TypeOK, process, proxy, outside
  <2> QED  BY <2>1, <2>2
<1>9. ASSUME NEW r \in Replicas, Readmit(r) PROVE Sound'
  <2>1. TypeOK'
    BY <1>9, ServerAssumption DEF Readmit, NoFault, TypeOK, process, outside
  <2>2. ProbeCount'
    BY <1>9, ServerAssumption
    DEF Readmit, NoFault, ProbeCount, TypeOK, process, outside
  <2> QED  BY <2>1, <2>2
<1>10. ASSUME NEW r \in Replicas, Forward(r) PROVE Sound'
  <2>1. TypeOK'
    BY <1>10, ServerAssumption DEF Forward, NoFault, TypeOK, proxy, outside
  <2>2. ProbeCount'
    BY <1>10, ServerAssumption
    DEF Forward, NoFault, ProbeCount, TypeOK, proxy, outside
  <2> QED  BY <2>1, <2>2
<1>11. ASSUME NEW r \in Replicas, Answer(r) PROVE Sound'
  <2>1. TypeOK'
    BY <1>11, ServerAssumption DEF Answer, NoFault, TypeOK, outside
  <2>2. ProbeCount'
    BY <1>11, ServerAssumption
    DEF Answer, NoFault, ProbeCount, TypeOK, outside
  <2> QED  BY <2>1, <2>2
<1>12. ASSUME OpenProxy PROVE Sound'
  <2>1. TypeOK'
    BY <1>12, ServerAssumption
    DEF OpenProxy, NoFault, TypeOK, process, outside
  <2>2. ProbeCount'
    BY <1>12, ServerAssumption
    DEF OpenProxy, NoFault, ProbeCount, TypeOK, process, outside
  <2> QED  BY <2>1, <2>2
<1>13. ASSUME NEW q \in Requests, NEW r \in Replicas, Send(q, r)
       PROVE  Sound'
  <2>1. TypeOK'
    BY <1>13, ServerAssumption DEF Send, NoFault, TypeOK, process, outside
  <2>2. ProbeCount'
    BY <1>13, ServerAssumption
    DEF Send, NoFault, ProbeCount, TypeOK, process, outside
  <2> QED  BY <2>1, <2>2
<1>14. ASSUME NEW q \in Requests, UpstreamFails(q) PROVE Sound'
  <2>1. TypeOK'
    BY <1>14, ServerAssumption
    DEF UpstreamFails, NoFault, TypeOK, process, outside
  <2>2. ProbeCount'
    BY <1>14, ServerAssumption
    DEF UpstreamFails, NoFault, ProbeCount, TypeOK, process, outside
  <2> QED  BY <2>1, <2>2
<1>15. ASSUME NEW q \in Requests, NoUpstream(q) PROVE Sound'
  <2>1. TypeOK'
    BY <1>15, ServerAssumption
    DEF NoUpstream, NoFault, TypeOK, process, outside
  <2>2. ProbeCount'
    BY <1>15, ServerAssumption
    DEF NoUpstream, NoFault, ProbeCount, TypeOK, process, outside
  <2> QED  BY <2>1, <2>2
<1>16. ASSUME NEW q \in Requests, TimesOut(q) PROVE Sound'
  <2>1. TypeOK'
    BY <1>16, ServerAssumption DEF TimesOut, Fault, TypeOK, process, outside
  <2>2. ProbeCount'
    BY <1>16, ServerAssumption
    DEF TimesOut, Fault, ProbeCount, TypeOK, process, outside
  <2> QED  BY <2>1, <2>2
<1>17. ASSUME NEW q \in Requests, Accept(q) PROVE Sound'
  <2>1. TypeOK'
    BY <1>17, ServerAssumption DEF Accept, NoFault, TypeOK, outside
  <2>2. ProbeCount'
    BY <1>17, ServerAssumption
    DEF Accept, NoFault, ProbeCount, TypeOK, outside
  <2> QED  BY <2>1, <2>2
<1>18. ASSUME NEW q \in Requests, PollFindsWorkerGone(q) PROVE Sound'
  <2>1. TypeOK'
    BY <1>18, ServerAssumption
    DEF PollFindsWorkerGone, NoFault, TypeOK, process, outside
  <2>2. ProbeCount'
    BY <1>18, ServerAssumption
    DEF PollFindsWorkerGone, NoFault, ProbeCount, TypeOK, process, outside
  <2> QED  BY <2>1, <2>2
<1>19. CASE UNCHANGED vars
  BY <1>19 DEF vars, process, proxy, outside, TypeOK, ProbeCount
<1> QED
  BY <1>1, <1>2, <1>3, <1>4, <1>5, <1>6, <1>7, <1>8, <1>9, <1>10, <1>11,
     <1>12, <1>13, <1>14, <1>15, <1>16, <1>17, <1>18, <1>19
  DEF Next

----------------------------------------------------------------------------
(* Blame                                                                    *)

LEMMA InitBlame == Init => Blame
BY  DEF Init, Blame, BlamedReplicas, BlamedRequests, MaskedFailure

LEMMA NextBlame == Sound /\ Blame /\ [Next]_vars => Blame'
<1> SUFFICES ASSUME Sound /\ Blame, [Next]_vars PROVE Blame'
  OBVIOUS
<1> USE DEF Sound, Blame
<1>1. ASSUME NEW r \in Replicas, Boot(r) PROVE Blame'
  <2>1. BlamedReplicas'
    BY <1>1
    DEF Boot, NoFault, BlamedReplicas, BlamedRequests, TypeOK, proxy, outside
  <2>2. BlamedRequests'
    BY <1>1
    DEF Boot, NoFault, BlamedReplicas, BlamedRequests, TypeOK, proxy, outside
  <2>3. MaskedFailure'
    BY <1>1 DEF Boot, NoFault, MaskedFailure, TypeOK, proxy, outside
  <2> QED  BY <2>1, <2>2, <2>3 DEF Blame
<1>2. ASSUME NEW r \in Replicas, LoadFails(r) PROVE Blame'
  <2>1. BlamedReplicas'
    BY <1>2
    DEF LoadFails, Fault, Exit, BlamedReplicas, BlamedRequests, TypeOK,
        outside
  <2>2. BlamedRequests'
    BY <1>2
    DEF LoadFails, Fault, Exit, BlamedReplicas, BlamedRequests, TypeOK,
        outside
  <2>3. MaskedFailure'
    BY <1>2 DEF LoadFails, Fault, Exit, MaskedFailure, TypeOK, outside
  <2> QED  BY <2>1, <2>2, <2>3 DEF Blame
<1>3. ASSUME NEW r \in Replicas, Loaded(r) PROVE Blame'
  <2>1. BlamedReplicas'
    BY <1>3
    DEF Loaded, NoFault, BlamedReplicas, BlamedRequests, TypeOK, proxy,
        outside
  <2>2. BlamedRequests'
    BY <1>3
    DEF Loaded, NoFault, BlamedReplicas, BlamedRequests, TypeOK, proxy,
        outside
  <2>3. MaskedFailure'
    BY <1>3 DEF Loaded, NoFault, MaskedFailure, TypeOK, proxy, outside
  <2> QED  BY <2>1, <2>2, <2>3 DEF Blame
<1>4. ASSUME NEW r \in Replicas, WarmUp(r) PROVE Blame'
  <2>1. BlamedReplicas'
    BY <1>4
    DEF WarmUp, NoFault, Fault, BlamedReplicas, BlamedRequests, TypeOK, proxy,
        outside
  <2>2. BlamedRequests'
    BY <1>4
    DEF WarmUp, NoFault, Fault, BlamedReplicas, BlamedRequests, TypeOK, proxy,
        outside
  <2>3. MaskedFailure'
    <3>1. /\ UNCHANGED <<where, deployment>> /\ hurt \subseteq hurt'
          /\ hurt' \subseteq Replicas
      BY <1>4 DEF WarmUp, NoFault, Fault, TypeOK, proxy, outside
    <3> QED  BY <3>1 DEF MaskedFailure
  <2> QED  BY <2>1, <2>2, <2>3 DEF Blame
<1>5. ASSUME NEW r \in Replicas, StartUpReturns(r) PROVE Blame'
  <2>1. BlamedReplicas'
    BY <1>5
    DEF StartUpReturns, ReadySet, Exit, NoFault, BlamedReplicas,
        BlamedRequests, TypeOK, proxy, outside
  <2>2. BlamedRequests'
    BY <1>5
    DEF StartUpReturns, ReadySet, Exit, NoFault, BlamedReplicas,
        BlamedRequests, TypeOK, proxy, outside
  <2>3. MaskedFailure'
    BY <1>5
    DEF StartUpReturns, ReadySet, Exit, NoFault, MaskedFailure, TypeOK, proxy,
        outside
  <2> QED  BY <2>1, <2>2, <2>3 DEF Blame
<1>6. ASSUME NEW r \in Replicas, WorkerDies(r) PROVE Blame'
  <2>1. BlamedReplicas'
    BY <1>6
    DEF WorkerDies, Fault, BlamedReplicas, BlamedRequests, TypeOK, proxy,
        outside
  <2>2. BlamedRequests'
    BY <1>6
    DEF WorkerDies, Fault, BlamedReplicas, BlamedRequests, TypeOK, proxy,
        outside
  <2>3. MaskedFailure'
    BY <1>6 DEF WorkerDies, Fault, MaskedFailure, TypeOK, proxy, outside
  <2> QED  BY <2>1, <2>2, <2>3 DEF Blame
<1>7. ASSUME NEW r \in Replicas, Crash(r) PROVE Blame'
  <2>1. BlamedReplicas'
    BY <1>7
    DEF Crash, Fault, Exit, BlamedReplicas, BlamedRequests, TypeOK, outside
  <2>2. BlamedRequests'
    BY <1>7
    DEF Crash, Fault, Exit, BlamedReplicas, BlamedRequests, TypeOK, outside
  <2>3. MaskedFailure'
    BY <1>7 DEF Crash, Fault, Exit, MaskedFailure, TypeOK, outside
  <2> QED  BY <2>1, <2>2, <2>3 DEF Blame
<1>8. ASSUME NEW r \in Replicas, Probe(r) PROVE Blame'
  <2>1. BlamedReplicas'
    BY <1>8
    DEF Probe, Exit, NoFault, BlamedReplicas, BlamedRequests, TypeOK, process,
        proxy, outside
  <2>2. BlamedRequests'
    BY <1>8
    DEF Probe, Exit, NoFault, BlamedReplicas, BlamedRequests, TypeOK, process,
        proxy, outside
  <2>3. MaskedFailure'
    BY <1>8
    DEF Probe, Exit, NoFault, MaskedFailure, TypeOK, process, proxy, outside
  <2> QED  BY <2>1, <2>2, <2>3 DEF Blame
<1>9. ASSUME NEW r \in Replicas, Readmit(r) PROVE Blame'
  <2>1. BlamedReplicas'
    BY <1>9
    DEF Readmit, NoFault, BlamedReplicas, BlamedRequests, TypeOK, process,
        outside
  <2>2. BlamedRequests'
    BY <1>9
    DEF Readmit, NoFault, BlamedReplicas, BlamedRequests, TypeOK, process,
        outside
  <2>3. MaskedFailure'
    BY <1>9 DEF Readmit, NoFault, MaskedFailure, TypeOK, process, outside
  <2> QED  BY <2>1, <2>2, <2>3 DEF Blame
<1>10. ASSUME NEW r \in Replicas, Forward(r) PROVE Blame'
  <2>1. BlamedReplicas'
    BY <1>10
    DEF Forward, NoFault, BlamedReplicas, BlamedRequests, TypeOK, proxy,
        outside
  <2>2. BlamedRequests'
    BY <1>10
    DEF Forward, NoFault, BlamedReplicas, BlamedRequests, TypeOK, proxy,
        outside
  <2>3. MaskedFailure'
    BY <1>10 DEF Forward, NoFault, MaskedFailure, TypeOK, proxy, outside
  <2> QED  BY <2>1, <2>2, <2>3 DEF Blame
<1>11. ASSUME NEW r \in Replicas, Answer(r) PROVE Blame'
  <2>1. BlamedReplicas'
    <3>1. UNCHANGED fails \/ fails' = [fails EXCEPT ![r] = 0]
      BY <1>11 DEF Answer
    <3>2. UNCHANGED <<worker, phase, open, hurt, deployment>>
      BY <1>11 DEF Answer, NoFault, outside
    <3>3. \A s \in Replicas : fails'[s] > 0 => fails[s] > 0
      <4>1. fails \in [Replicas -> 0..MaxFails]  BY DEF TypeOK
      <4>2. CASE fails' = [fails EXCEPT ![r] = 0]
        <5> TAKE s \in Replicas
        <5>1. fails'[s] = IF s = r THEN 0 ELSE fails[s]  BY <4>1, <4>2
        <5> QED  BY <5>1
      <4> QED  BY <3>1, <4>2
    <3> QED  BY <3>2, <3>3 DEF BlamedReplicas
  <2>2. BlamedRequests'
    BY <1>11, ServerAssumption
    DEF Answer, NoFault, BlamedReplicas, BlamedRequests, TypeOK, process,
        proxy, outside
  <2>3. MaskedFailure'
    BY <1>11 DEF Answer, NoFault, MaskedFailure, TypeOK, outside
  <2> QED  BY <2>1, <2>2, <2>3 DEF Blame
<1>12. ASSUME OpenProxy PROVE Blame'
  <2>1. BlamedReplicas'
    BY <1>12
    DEF OpenProxy, Healthy, NoFault, BlamedReplicas, BlamedRequests, TypeOK,
        process, outside
  <2>2. BlamedRequests'
    BY <1>12
    DEF OpenProxy, Healthy, NoFault, BlamedReplicas, BlamedRequests, TypeOK,
        process, outside
  <2>3. MaskedFailure'
    BY <1>12
    DEF OpenProxy, Healthy, NoFault, MaskedFailure, TypeOK, process, outside
  <2> QED  BY <2>1, <2>2, <2>3 DEF Blame
<1>13. ASSUME NEW q \in Requests, NEW r \in Replicas, Send(q, r)
       PROVE  Blame'
  <2>1. BlamedReplicas'
    BY <1>13
    DEF Send, LeastConn, Untried, InRotation, NoFault, BlamedReplicas,
        BlamedRequests, TypeOK, process, outside
  <2>2. BlamedRequests'
    BY <1>13, ServerAssumption
    DEF Send, LeastConn, Untried, InRotation, NoFault, BlamedReplicas,
        BlamedRequests, TypeOK, process, proxy, outside
  <2>3. MaskedFailure'
    BY <1>13, ServerAssumption
    DEF Send, LeastConn, Untried, InRotation, NoFault, MaskedFailure, TypeOK,
        process, proxy, outside
  <2> QED  BY <2>1, <2>2, <2>3 DEF Blame
<1>14. ASSUME NEW q \in Requests, UpstreamFails(q) PROVE Blame'
  <2>1. BlamedReplicas'
    BY <1>14
    DEF UpstreamFails, Retries, NoFault, BlamedReplicas, BlamedRequests,
        TypeOK, process, outside
  <2>2. BlamedRequests'
    BY <1>14
    DEF UpstreamFails, Retries, NoFault, BlamedReplicas, BlamedRequests,
        TypeOK, process, outside
  <2>3. MaskedFailure'
    BY <1>14
    DEF UpstreamFails, Retries, NoFault, MaskedFailure, TypeOK, process,
        outside
  <2> QED  BY <2>1, <2>2, <2>3 DEF Blame
<1>15. ASSUME NEW q \in Requests, NoUpstream(q) PROVE Blame'
  <2>1. BlamedReplicas'
    BY <1>15
    DEF NoUpstream, Untried, InRotation, NoFault, BlamedReplicas,
        BlamedRequests, TypeOK, process, outside
  <2>2. BlamedRequests'
    BY <1>15, ServerAssumption
    DEF NoUpstream, Untried, InRotation, NoFault, BlamedReplicas,
        BlamedRequests, TypeOK, process, proxy, outside
  <2>3. MaskedFailure'
    <3>1. CASE deployment = "compose"
      <4>1. Replicas \subseteq tried[q] \cup {r \in Replicas : fails[r] > 0}
        BY <1>15, <3>1, ServerAssumption
        DEF NoUpstream, Untried, InRotation, TypeOK
      <4>2. hurt = Replicas
        BY <1>15, <3>1, <4>1
        DEF NoUpstream, BlamedReplicas, BlamedRequests, TypeOK
      <4> QED  BY <1>15, <4>2 DEF NoUpstream, NoFault, MaskedFailure, outside
    <3>2. CASE deployment # "compose"
      BY <1>15, <3>2 DEF NoUpstream, MaskedFailure, outside
    <3> QED  BY <3>1, <3>2
  <2> QED  BY <2>1, <2>2, <2>3 DEF Blame
<1>16. ASSUME NEW q \in Requests, TimesOut(q) PROVE Blame'
  <2>1. BlamedReplicas'
    BY <1>16
    DEF TimesOut, Healthy, Fault, BlamedReplicas, BlamedRequests, TypeOK,
        process, outside
  <2>2. BlamedRequests'
    BY <1>16
    DEF TimesOut, Healthy, Fault, BlamedReplicas, BlamedRequests, TypeOK,
        process, outside
  <2>3. MaskedFailure'
    BY <1>16
    DEF TimesOut, Healthy, Fault, MaskedFailure, TypeOK, process, outside
  <2> QED  BY <2>1, <2>2, <2>3 DEF Blame
<1>17. ASSUME NEW q \in Requests, Accept(q) PROVE Blame'
  <2>1. BlamedReplicas'
    BY <1>17
    DEF Accept, NoFault, BlamedReplicas, BlamedRequests, TypeOK, outside
  <2>2. BlamedRequests'
    BY <1>17
    DEF Accept, NoFault, BlamedReplicas, BlamedRequests, TypeOK, outside
  <2>3. MaskedFailure'
    BY <1>17 DEF Accept, NoFault, MaskedFailure, TypeOK, outside
  <2> QED  BY <2>1, <2>2, <2>3 DEF Blame
<1>18. ASSUME NEW q \in Requests, PollFindsWorkerGone(q) PROVE Blame'
  <2>1. BlamedReplicas'
    BY <1>18
    DEF PollFindsWorkerGone, WorkerGone, NoFault, BlamedReplicas,
        BlamedRequests, TypeOK, process, outside
  <2>2. BlamedRequests'
    BY <1>18
    DEF PollFindsWorkerGone, WorkerGone, NoFault, BlamedReplicas,
        BlamedRequests, TypeOK, process, outside
  <2>3. MaskedFailure'
    BY <1>18
    DEF PollFindsWorkerGone, WorkerGone, NoFault, MaskedFailure, TypeOK,
        process, outside
  <2> QED  BY <2>1, <2>2, <2>3 DEF Blame
<1>19. CASE UNCHANGED vars
  BY <1>19
  DEF vars, process, proxy, outside, BlamedReplicas, BlamedRequests,
      MaskedFailure
<1> QED
  BY <1>1, <1>2, <1>3, <1>4, <1>5, <1>6, <1>7, <1>8, <1>9, <1>10, <1>11,
     <1>12, <1>13, <1>14, <1>15, <1>16, <1>17, <1>18, <1>19
  DEF Next

----------------------------------------------------------------------------
(* The theorems                                                             *)

LEMMA Invariant == Spec => []IInv
<1>1. Init => IInv  BY InitSound, InitBlame DEF IInv
<1>2. IInv /\ [Next]_vars => IInv'  BY NextSound, NextBlame DEF IInv
<1> QED  BY <1>1, <1>2, PTL DEF Spec

(* Type correctness; in particular a container is restarted at its probes'  *)
(* threshold and never runs past it.                                        *)
THEOREM ServerTypeCorrect == Spec => []TypeOK
<1>1. IInv => TypeOK  BY DEF IInv, Sound
<1> QED  BY <1>1, Invariant, PTL

(* With any number of replicas nginx hides every fault until each of them   *)
(* has had one.                                                             *)
THEOREM FailureMasked == Spec => []MaskedFailure
<1>1. IInv => MaskedFailure  BY DEF IInv, Blame
<1> QED  BY <1>1, Invariant, PTL
=============================================================================
