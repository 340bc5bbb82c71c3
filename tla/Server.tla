------------------------------- MODULE Server -------------------------------
(* Containers of one image behind a proxy: how each starts up, dies and is  *)
(* replaced, and what becomes of a request sent meanwhile.  src/server/     *)
(* engine.py, app.py and batching.py inside a container;                    *)
(* docker-compose.replicas.yml with nginx-replicas.conf, or                 *)
(* k8s/jina-on-prem.yaml, around them.                                      *)
(*                                                                          *)
(* Inside a container the rows of a request are one job for the model; how  *)
(* jobs share forwards is module Batcher.                                   *)
EXTENDS Naturals, Sequences, FiniteSets

CONSTANTS Replicas, Requests,
          Verbs,       \* what the image may answer: "embed", "rerank", ...
          Deployments, \* "compose" (nginx in front) or "kubernetes"
          Pool,        \* handlers that run at a time in a container
          MaxFails,    \* max_fails of an nginx upstream
          Unready,     \* probes failed before a pod gets no more requests,
          Unlive,      \* and before it is restarted
          MaxFaults    \* bound: faults outside the program in a behaviour

ASSUME ServerAssumption ==
  /\ IsFiniteSet(Replicas) /\ IsFiniteSet(Requests)
  /\ Pool \in Nat \ {0} /\ MaxFails \in Nat \ {0} /\ MaxFaults \in Nat
  /\ Unready \in Nat \ {0} /\ Unlive \in Nat \ {0} /\ Unready <= Unlive
  /\ Deployments \subseteq {"compose", "kubernetes"}
  /\ Replicas \cap {"new", "answered", "error"} = {}

VARIABLES verb, deployment,
          phase,    \* the process: down, loading, waiting for its worker, serving
          worker,   \* its model worker: none, starting, up, failed, dead
          queue,    \* the jobs waiting for its model
          running,  \* the job the model is at, a set of at most one
          probes,   \* health probes failed in a row
          fails,    \* nginx's count of failures of the upstream
          open,     \* nginx has started
          where,    \* a request: new, at a replica, answered or error
          stage,    \* what its handler is doing there
          tried,    \* the replicas nginx has sent it to
          hurt,     \* replicas that had a fault, or were given up on
          faults

process == <<phase, worker, queue, running>>
proxy   == <<fails, open, where, stage, tried>>
outside == <<verb, deployment>>
vars    == <<process, proxy, outside, probes, hurt, faults>>

----------------------------------------------------------------------------
(* What others see of a container *)

Embedding == verb = "embed"

(* is_ready: loaded, and still able to answer.  Before start-up has ended   *)
(* the port is closed, and a probe fails like one that got a 503.           *)
Healthy(r) == phase[r] = "serving" /\ (Embedding => worker[r] = "up")

At(r)      == {q \in Requests : where[q] = r}
Handlers(r) == {q \in At(r) : stage[q] = "waiting"}
Jobs(r)    == running[r] \cup {queue[r][i] : i \in DOMAIN queue[r]}

(* A container that exits takes its jobs and its connections with it.       *)
Exit(r) ==
  /\ phase' = [phase EXCEPT ![r] = "down"]
  /\ worker' = [worker EXCEPT ![r] = "none"]
  /\ queue' = [queue EXCEPT ![r] = <<>>]
  /\ running' = [running EXCEPT ![r] = {}]
  /\ stage' = [q \in Requests |-> IF where[q] = r THEN "broken" ELSE stage[q]]

Fault(r) ==
  /\ faults < MaxFaults
  /\ faults' = faults + 1 /\ hurt' = hurt \cup {r}

NoFault == UNCHANGED <<hurt, faults>>

----------------------------------------------------------------------------
(* Start-up: app.startup, engine.load, Batcher.__init__ *)

(* Both deployments start a container whose process has ended.              *)
Boot(r) ==
  /\ phase[r] = "down"
  /\ phase' = [phase EXCEPT ![r] = "loading"]
  /\ probes' = [probes EXCEPT ![r] = 0]
  /\ NoFault /\ UNCHANGED <<worker, queue, running, proxy, outside>>

(* The weights do not load: the exception leaves the start-up handler and   *)
(* ends the process.                                                        *)
LoadFails(r) ==
  /\ phase[r] = "loading"
  /\ Fault(r) /\ Exit(r)
  /\ UNCHANGED <<probes, fails, open, where, tried, outside>>

(* Only an embedding image has a worker, and the event loop blocks until    *)
(* that worker has set _ready.                                              *)
Loaded(r) ==
  /\ phase[r] = "loading"
  /\ phase' = [phase EXCEPT ![r] = IF Embedding THEN "waiting" ELSE "serving"]
  /\ worker' = [worker EXCEPT ![r] = IF Embedding THEN "starting" ELSE "none"]
  /\ NoFault
  /\ UNCHANGED <<queue, running, probes, proxy, outside>>

(* The warm-up returns, or raises something not even its handler of every   *)
(* Exception stops.  Either way _ready is set last.                         *)
WarmUp(r) ==
  /\ worker[r] = "starting"
  /\ \/ worker' = [worker EXCEPT ![r] = "up"] /\ NoFault
     \/ worker' = [worker EXCEPT ![r] = "failed"] /\ Fault(r)
  /\ UNCHANGED <<phase, queue, running, probes, proxy, outside>>

ReadySet_OnSuccess(r) == worker[r] \in {"up", "dead"}
ReadySet(r) == worker[r] \in {"up", "failed", "dead"}

(* The event loop wakes up and serves, or raises what start-up raised.      *)
StartUpReturns(r) ==
  /\ phase[r] = "waiting" /\ ReadySet(r)
  /\ IF worker[r] = "failed"
     THEN Exit(r) /\ UNCHANGED <<fails, open, where, tried>>
     ELSE /\ phase' = [phase EXCEPT ![r] = "serving"]
          /\ UNCHANGED <<worker, queue, running, proxy>>
  /\ NoFault /\ UNCHANGED <<probes, outside>>

----------------------------------------------------------------------------
(* Faults and probes *)

(* The worker thread ends while the process goes on; its queue stays.       *)
WorkerDies(r) ==
  /\ worker[r] = "up" /\ Fault(r)
  /\ worker' = [worker EXCEPT ![r] = "dead"]
  /\ running' = [running EXCEPT ![r] = {}]
  /\ UNCHANGED <<phase, queue, probes, proxy, outside>>

Crash(r) ==
  /\ phase[r] = "serving" /\ Fault(r) /\ Exit(r)
  /\ UNCHANGED <<probes, fails, open, where, tried, outside>>

(* Kubernetes restarts a container that fails its liveness probe.  Compose  *)
(* only marks it, which nothing reads once nginx has started.  The initial  *)
(* delay of the probes is taken to cover start-up.                          *)
Probe(r) ==
  /\ deployment = "kubernetes" /\ phase[r] = "serving"
  /\ probes' = [probes EXCEPT ![r] = IF Healthy(r) THEN 0 ELSE @ + 1]
  /\ IF probes'[r] = Unlive
     THEN Exit(r) /\ UNCHANGED <<fails, open, where, tried>>
     ELSE UNCHANGED <<process, proxy>>
  /\ NoFault /\ UNCHANGED outside

----------------------------------------------------------------------------
(* The proxy *)

(* nginx waits until every replica has been healthy.                        *)
OpenProxy ==
  /\ ~open /\ \A r \in Replicas : Healthy(r)
  /\ open' = TRUE
  /\ NoFault
  /\ UNCHANGED <<process, fails, where, stage, tried, probes, outside>>

InRotation(r) == IF deployment = "compose" THEN fails[r] < MaxFails
                                           ELSE probes[r] < Unready
Untried(q) == {r \in Replicas \ tried[q] : InRotation(r)}

(* The replica with the fewest requests in flight.                          *)
LeastConn(q) ==
  {r \in Untried(q) : \A s \in Untried(q) :
                        Cardinality(At(r)) <= Cardinality(At(s))}

(* A connection to a closed port fails at once.                             *)
Send(q, r) ==
  /\ open /\ where[q] = "new" /\ r \in LeastConn(q)
  /\ where' = [where EXCEPT ![q] = r]
  /\ tried' = [tried EXCEPT ![q] = @ \cup {r}]
  /\ stage' = [stage EXCEPT ![q] =
                 IF phase[r] = "serving" THEN "backlog" ELSE "broken"]
  /\ NoFault /\ UNCHANGED <<process, fails, open, probes, outside>>

(* proxy_next_upstream error timeout http_503 non_idempotent: each upstream *)
(* gets a request once.  A Service does not try another pod.                *)
Retries_ErrorsOnly(r) == deployment = "compose" /\ phase[r] # "serving"
Retries(r) == deployment = "compose"

UpstreamFails(q) ==
  LET r == where[q]
  IN  /\ r \in Replicas /\ stage[q] = "broken"
      /\ fails' = [fails EXCEPT ![r] = IF @ < MaxFails THEN @ + 1 ELSE @]
      /\ where' = [where EXCEPT ![q] = IF Retries(r) THEN "new" ELSE "error"]
      /\ stage' = [stage EXCEPT ![q] = "idle"]
      /\ NoFault /\ UNCHANGED <<process, open, tried, probes, outside>>

NoUpstream(q) ==
  /\ open /\ where[q] = "new" /\ Untried(q) = {}
  /\ where' = [where EXCEPT ![q] = "error"]
  /\ NoFault /\ UNCHANGED <<process, fails, open, stage, tried, probes, outside>>

(* fail_timeout passes.                                                     *)
Readmit(r) ==
  /\ fails[r] > 0
  /\ fails' = [fails EXCEPT ![r] = 0]
  /\ NoFault
  /\ UNCHANGED <<process, open, where, stage, tried, probes, outside>>

(* proxy_read_timeout passes.  The handler, and the job, are left behind.   *)
TimesOut(q) ==
  LET r == where[q]
  IN  /\ r \in Replicas /\ stage[q] \in {"backlog", "waiting"}
      /\ deployment = "compose" /\ Healthy(r)
      /\ Fault(r)
      /\ stage' = [stage EXCEPT ![q] = "broken"]
      /\ UNCHANGED <<process, fails, open, where, tried, probes, outside>>

----------------------------------------------------------------------------
(* A handler on its threadpool thread *)

(* submit: every poll looks whether there is still a worker, and answers    *)
(* 503 when there is none.  _require_embed let the request in: the family   *)
(* is loaded for as long as the process lives.                              *)
WorkerGone_Unready(r) == phase[r] # "serving"
WorkerGone(r) == Embedding /\ worker[r] = "dead"

(* A handler keeps its thread until its job has ended or its poll finds no  *)
(* worker, also after nginx has closed the connection it answers.           *)
Threads(r) == Handlers(r) \cup (IF WorkerGone(r) THEN {} ELSE Jobs(r))

(* The rows go to the queue, and the handler waits for them.                *)
Accept(q) ==
  LET r == where[q]
  IN  /\ r \in Replicas /\ stage[q] = "backlog"
      /\ Cardinality(Threads(r)) < Pool
      /\ stage' = [stage EXCEPT ![q] = "waiting"]
      /\ queue' = [queue EXCEPT ![r] = Append(@, q)]
      /\ NoFault
      /\ UNCHANGED <<phase, worker, running, fails, open, where, tried, probes,
                     outside>>

(* One thread in the model at a time: the worker for an embedding image,    *)
(* whoever holds _MODEL_LOCK for the others.                                *)
Forward(r) ==
  /\ phase[r] = "serving" /\ (Embedding => worker[r] = "up")
  /\ running[r] = {} /\ queue[r] # <<>>
  /\ running' = [running EXCEPT ![r] = {Head(queue[r])}]
  /\ queue' = [queue EXCEPT ![r] = Tail(@)]
  /\ NoFault
  /\ UNCHANGED <<phase, worker, probes, proxy, outside>>

(* The rows come back; nobody is told of a job its caller gave up on.  An   *)
(* answer makes nginx forget the failures of its upstream, if they are old  *)
(* enough.                                                                  *)
Answer(r) ==
  /\ running[r] # {}
  /\ running' = [running EXCEPT ![r] = {}]
  /\ LET heard == {q \in running[r] : where[q] = r /\ stage[q] = "waiting"}
     IN  /\ where' = [q \in Requests |-> IF q \in heard THEN "answered"
                                                        ELSE where[q]]
         /\ stage' = [q \in Requests |-> IF q \in heard THEN "idle" ELSE stage[q]]
         /\ \/ UNCHANGED fails
            \/ heard # {} /\ fails' = [fails EXCEPT ![r] = 0]
  /\ NoFault
  /\ UNCHANGED <<phase, worker, queue, open, tried, probes,
                 outside>>

(* That poll: the 503 goes back.                                            *)
PollFindsWorkerGone(q) ==
  /\ where[q] \in Replicas /\ stage[q] = "waiting" /\ WorkerGone(where[q])
  /\ stage' = [stage EXCEPT ![q] = "broken"]
  /\ NoFault /\ UNCHANGED <<process, fails, open, where, tried, probes, outside>>

----------------------------------------------------------------------------
Init ==
  /\ verb \in Verbs /\ deployment \in Deployments
  /\ phase = [r \in Replicas |-> "down"]
  /\ worker = [r \in Replicas |-> "none"]
  /\ queue = [r \in Replicas |-> <<>>]
  /\ running = [r \in Replicas |-> {}]
  /\ probes = [r \in Replicas |-> 0]
  /\ fails = [r \in Replicas |-> 0]
  /\ open = FALSE
  /\ where = [q \in Requests |-> "new"]
  /\ stage = [q \in Requests |-> "idle"]
  /\ tried = [q \in Requests |-> {}]
  /\ hurt = {} /\ faults = 0

StartUp(r) == Boot(r) \/ Loaded(r) \/ StartUpReturns(r)
Model(r)   == Forward(r) \/ Answer(r)
Handler(q) == Accept(q) \/ PollFindsWorkerGone(q)
Routing(q) == (\E r \in Replicas : Send(q, r)) \/ UpstreamFails(q) \/ NoUpstream(q)

Next ==
  \/ \E r \in Replicas :
       \/ Boot(r) \/ LoadFails(r) \/ Loaded(r) \/ WarmUp(r) \/ StartUpReturns(r)
       \/ WorkerDies(r) \/ Crash(r) \/ Probe(r) \/ Readmit(r)
       \/ Forward(r) \/ Answer(r)
  \/ OpenProxy
  \/ \E q \in Requests :
       \/ \E r \in Replicas : Send(q, r)
       \/ UpstreamFails(q) \/ NoUpstream(q) \/ TimesOut(q)
       \/ Accept(q) \/ PollFindsWorkerGone(q)

(* A process that is not stuck gets on; a probe is sent on its period; a    *)
(* forward ends.  Nothing outside the program has to happen.                *)
Fairness ==
  /\ WF_vars(OpenProxy)
  /\ \A r \in Replicas : /\ WF_vars(StartUp(r)) /\ WF_vars(WarmUp(r))
                         /\ WF_vars(Probe(r)) /\ WF_vars(Model(r))
  /\ \A q \in Requests : WF_vars(Handler(q)) /\ WF_vars(Routing(q))

Spec == Init /\ [][Next]_vars /\ Fairness

----------------------------------------------------------------------------
(* What the deployment promises *)

(* TypeOK: the shape of the state.                                          *)
TypeOK ==
  /\ verb \in Verbs /\ deployment \in Deployments
  /\ phase \in [Replicas -> {"down", "loading", "waiting", "serving"}]
  /\ worker \in [Replicas -> {"none", "starting", "up", "failed", "dead"}]
  /\ queue \in [Replicas -> Seq(Requests)]
  /\ running \in [Replicas -> SUBSET Requests]
  /\ probes \in [Replicas -> 0..Unlive] /\ fails \in [Replicas -> 0..MaxFails]
  /\ open \in BOOLEAN
  /\ where \in [Requests -> Replicas \cup {"new", "answered", "error"}]
  /\ stage \in [Requests -> {"idle", "backlog", "waiting", "broken"}]
  /\ tried \in [Requests -> SUBSET Replicas]
  /\ hurt \subseteq Replicas /\ faults \in 0..MaxFaults

(* MaskedFailure: behind nginx a client sees an error only when every       *)
(* replica has had a fault of its own or has been given up on: as long as   *)
(* one replica has always been well, the retry on 503, on a broken          *)
(* connection and on a timeout hides the death of the others.               *)
MaskedFailure ==
  \A q \in Requests :
    deployment = "compose" /\ where[q] = "error" => hurt = Replicas

(* EveryRequestEnds: once the proxy is up every request is answered or gets *)
(* an error, although the worker it waits for may be gone, its container    *)
(* restarted, or its job left in a queue nobody reads.                      *)
EveryRequestEnds ==
  \A q \in Requests : open ~> (where[q] \in {"answered", "error"})

(* BackInService: start-up never stays blocked on its worker, whatever the  *)
(* warm-up did, and under Kubernetes a container that cannot answer, its    *)
(* worker gone while its port still answers, is healthy again in the end.   *)
BackInService ==
  \A r \in Replicas :
    /\ phase[r] = "waiting" ~> phase[r] # "waiting"
    /\ (deployment = "kubernetes" /\ ~Healthy(r)) ~> Healthy(r)
=============================================================================
