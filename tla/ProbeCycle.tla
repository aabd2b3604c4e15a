----------------------------- MODULE ProbeCycle -----------------------------
(***************************************************************************)
(* The synthetic wake probe (probe.py, routes/probe.py) against the life   *)
(* of the daemon it exercises (server.py, the accept half of pipeline.py). *)
(* A probe process reads the evidence file, posts one delivery with a      *)
(* fresh id at the daemon's front door, then reads the file again and      *)
(* again for its outcome.  The daemon is the file's only writer: it        *)
(* accepts the delivery or not, queues it, runs one wake per agent at a    *)
(* time, records the outcome and the pending count in its document, and    *)
(* flushes the document to the file.  It stops with a drain, or is killed, *)
(* and boots from the file.                                                *)
(*                                                                         *)
(* Probes of an agent may overlap: one whose deadline has passed leaves    *)
(* its delivery in the queue, and nothing keeps a second from being fired. *)
(* Abstracted: the steps within a flush (EvidenceStore has them: here the  *)
(* file is replaced or not), the lanes (WakeScheduler: here a queue per    *)
(* agent), the gates of the slow half (WakePipeline: here its outcomes).   *)
(* The deduped counter is left out, a fresh id is never a duplicate, and   *)
(* so are the sinks' counters, which no probe reads: their flushes are in. *)
(*                                                                         *)
(* A definition whose comment begins with "Fault:" is a plausible mistake  *)
(* in the definition that follows it.                                      *)
(***************************************************************************)
EXTENDS Integers, Sequences

CONSTANTS
  Agents,
  Probes,      \* probe runs; a run's name is also the delivery id it mints
  Real,        \* a delivery of any other route
  None,
  Setups,      \* how the box may be configured at a boot, among AllSetups
  Polls,       \* readings of the file that fit before the deadline
  MayFail,     \* whether a flush may fail
  MaxReal,     \* bound: deliveries of other routes
  MaxBoots     \* bound: boots

\* The probe can be answered; its route is not enabled; the daemon holds another
\* secret than the one the run signs with; the agent is not registered.  (Without a
\* secret for the route the daemon does not boot.)
AllSetups == {"armed", "no_route", "other_secret", "unregistered"}

ASSUME ProbeAssumption ==
  /\ Setups \subseteq AllSetups /\ MayFail \in BOOLEAN
  /\ Real \notin Probes /\ None \notin Probes
  /\ None \notin {"proven", "failed", "no_answer", "refused", "queued"}
  /\ Polls \in Nat \ {0} /\ MaxReal \in Nat /\ MaxBoots \in Nat

VARIABLES
  daemon,   \* where the server's lifespan is
  setup,    \* the configuration it booted with, None while it is down
  queue,    \* per agent: its pending deliveries, the first one in flight
  doc,      \* the evidence document in the daemon's memory: per agent, its row (while
            \* the daemon is down, the file's)
  disk,     \* the evidence file, likewise
  runs,     \* the probe processes
  reals,    \* deliveries of other routes so far
  boots,    \* boots so far
  fate,     \* history: what became of each probe's delivery
  shown,    \* history: the probes whose recorded outcome is in the file
  mixed,    \* history: the probes during whose run another's outcome came to the file
  stop      \* history: how this boot has gone, for what its end promises

server  == <<daemon, setup, boots>>
history == <<fate, shown, mixed, stop>>
vars    == <<server, queue, doc, disk, runs, reals, history>>

\* What an agent's row holds: the wakes of every route, then those of the probe's route,
\* then the pending count.
Rows == [anyOk : Nat, anyFailed : Nat,
         lastOk : Probes \cup {None}, failed : Nat, reason : {None, "failed", "no_answer"},
         refused : Nat, queued : Nat]

NoRow == [anyOk |-> 0, anyFailed |-> 0, lastOk |-> None, failed |-> 0, reason |-> None,
          refused |-> 0, queued |-> 0]

\* The outcomes of a probe's wake the daemon records: its agent answered, its agent
\* failed, the far side could not complete the proof, a gate refused it.
Recorded == {"proven", "failed", "no_answer", "refused"}

\* Verdicts of a run: an outcome, the deadline, the accept half's refusals, no daemon.
Verdicts == Recorded \cup {"timeout", "unserved", "bad_signature", "not_accepted",
                           "unreachable", None}

\* What the file says of agent a.
Proof(a) == disk[a]

NewRun(a) == [stage |-> "inject", agent |-> a, before |-> Proof(a), polls |-> 0,
              verdict |-> None]

Idle == [stage |-> "new", agent |-> None, before |-> NoRow, polls |-> 0, verdict |-> None]

Ended(r, v) == [r EXCEPT !.stage = "done", !.verdict = v, !.before = NoRow, !.polls = 0]

Serving == daemon \in {"up", "draining"}

-----------------------------------------------------------------------------
(* The evidence: recording changes the document, then flushes it.          *)

\* What a flush that replaces the file with d shows, f being the deliveries' fates.
Published(f) == {q \in Probes : f[q] \in Recorded}

\* The document becomes d, of which the deliveries' fates are f.
Record(d, f) ==
  /\ doc' = d
  /\ fate' = f
  /\ \/ /\ disk' = d
        /\ shown' = shown \cup Published(f)
        /\ mixed' = mixed \cup
             {p \in Probes : /\ runs[p].stage \in {"inject", "wait"}
                             /\ \E q \in Published(f) \ (shown \cup {p}) :
                                  runs[q].agent = runs[p].agent}
        /\ UNCHANGED stop
     \/ /\ MayFail
        /\ stop' = "unwritten"
        /\ UNCHANGED <<disk, shown, mixed>>

\* record_wake_ok, record_wake_failed, record_wake_refused of a probe's wake.
Outcome(r, p, o) ==
  CASE o = "proven"  -> [r EXCEPT !.anyOk = @ + 1, !.lastOk = p]
    [] o = "refused" -> [r EXCEPT !.refused = @ + 1]
    [] OTHER         -> [r EXCEPT !.anyFailed = @ + 1, !.failed = @ + 1, !.reason = o]

\* The outcomes of another route's wake, in the agent's row.
OtherOutcomes(r) == {r, [r EXCEPT !.anyOk = @ + 1], [r EXCEPT !.anyFailed = @ + 1]}

-----------------------------------------------------------------------------
(* The daemon.                                                             *)

\* The process starts: the store is built from the file, and zeroes the counts of the
\* scheduler that ended with the last process; the lifespan warms the routes.
Boot(s) ==
  /\ daemon = "down" /\ boots < MaxBoots
  /\ LET fresh == [a \in Agents |-> [disk[a] EXCEPT !.queued = 0]]
     IN  /\ doc' = fresh
         /\ \/ disk' = fresh /\ stop' = "none"
            \/ MayFail /\ disk # fresh /\ disk' = disk /\ stop' = "unwritten"
  /\ daemon' = "starting" /\ setup' = s /\ boots' = boots + 1
  /\ UNCHANGED <<queue, runs, reals, fate, shown, mixed>>

\* The self-test is recorded and the routes are warm: connections are accepted.
Up ==
  /\ daemon = "starting"
  /\ daemon' = "up"
  /\ Record(doc, fate)
  /\ UNCHANGED <<setup, boots, queue, runs, reals>>

\* A stop: uvicorn accepts no more connections, the lifespan drains.
Drain ==
  /\ daemon = "up"
  /\ daemon' = "draining"
  /\ UNCHANGED <<setup, boots, queue, doc, disk, runs, reals, history>>

\* An outcome recorded in a memory that has ended is lost with a pending delivery.
AtTheEnd(f) == [p \in Probes |->
  IF f[p] = "queued" \/ (f[p] \in Recorded /\ p \notin shown) THEN "lost" ELSE f[p]]

\* Fault: the drain waits for the wakes, not for the observer's reports of them.
DrainedUnreported == \A a \in Agents : queue[a] = <<>>

\* wait_idle: no wake pends, none runs, and every depth has been reported.
Drained == \A a \in Agents : queue[a] = <<>> /\ doc[a].queued = 0

\* The drain returns, the pool is closed, the process exits.
Shutdown ==
  /\ daemon = "draining" /\ Drained
  /\ daemon' = "down"
  /\ stop' = IF stop = "none" THEN "clean" ELSE stop
  /\ setup' = None /\ doc' = disk
  /\ fate' = AtTheEnd(fate)
  /\ UNCHANGED <<boots, queue, disk, runs, reals, shown, mixed>>

\* SIGKILL, an OOM kill or a crash, at any instant.
Kill ==
  /\ daemon # "down"
  /\ daemon' = "down"
  /\ stop' = "killed"
  /\ queue' = [a \in Agents |-> <<>>]
  /\ setup' = None /\ doc' = disk
  /\ fate' = AtTheEnd(fate)
  /\ UNCHANGED <<boots, disk, runs, reals, shown, mixed>>

\* A delivery of another route for a registered agent.
RealArrive(a) ==
  /\ daemon = "up" /\ setup # "unregistered" /\ reals < MaxReal
  /\ reals' = reals + 1
  /\ queue' = [queue EXCEPT ![a] = Append(@, Real)]
  /\ Record(doc, fate)
  /\ UNCHANGED <<server, runs>>

\* The wake of another route's delivery ends, its outcome recorded or not.
RealEnds(a) ==
  /\ Serving /\ queue[a] # <<>> /\ Head(queue[a]) = Real
  /\ queue' = [queue EXCEPT ![a] = Tail(@)]
  /\ \/ \E r \in OtherOutcomes(doc[a]) : Record([doc EXCEPT ![a] = r], fate)
     \/ UNCHANGED <<doc, disk, history>>
  /\ UNCHANGED <<server, runs, reals>>

\* A probe's wake ends, after its one attempt or at a gate, with outcome o.
ProbeEnds(a, o) ==
  /\ Serving /\ queue[a] # <<>> /\ Head(queue[a]) # Real
  /\ queue' = [queue EXCEPT ![a] = Tail(@)]
  /\ LET p == Head(queue[a])
     IN  Record([doc EXCEPT ![a] = Outcome(@, p, o)], [fate EXCEPT ![p] = o])
  /\ UNCHANGED <<server, runs, reals>>

\* A probe's wake is stopped by a signal, or raises: nothing is recorded.
ProbeStops(a) ==
  /\ Serving /\ queue[a] # <<>> /\ Head(queue[a]) # Real
  /\ queue' = [queue EXCEPT ![a] = Tail(@)]
  /\ fate' = [fate EXCEPT ![Head(queue[a])] = "silent"]
  /\ UNCHANGED <<server, doc, disk, runs, reals, shown, mixed, stop>>

\* The scheduler's observer reports the agent's depth; an unchanged one is not written.
ReportDepth(a) ==
  /\ Serving /\ doc[a].queued # Len(queue[a])
  /\ Record([doc EXCEPT ![a].queued = Len(queue[a])], fate)
  /\ UNCHANGED <<server, queue, runs, reals>>

-----------------------------------------------------------------------------
(* The probe.                                                              *)

\* The run reads the evidence of its agent before it fires.
Start(p, a) ==
  /\ runs[p].stage = "new"
  /\ runs' = [runs EXCEPT ![p] = NewRun(a)]
  /\ UNCHANGED <<server, queue, doc, disk, reals, history>>

\* The post finds no listener: the run ends without a verdict on the edge.
InjectRefused(p) ==
  /\ runs[p].stage = "inject" /\ daemon # "up"
  /\ runs' = [runs EXCEPT ![p] = Ended(@, "unreachable")]
  /\ UNCHANGED <<server, queue, doc, disk, reals, history>>

\* The box's configuration, as the accept half meets it: the registry holds the route,
\* the signature is the route's, the recipient is a registered agent.
Served   == setup # "no_route"
Verified == setup # "other_secret"
Resolved == setup # "unregistered"

\* The delivery of run p as the route's event.
Normalize(p) == [id |-> p, recipient |-> runs[p].agent]

Status == CASE ~Served   -> 404
            [] ~Verified -> 401
            [] ~Resolved -> 200
            [] OTHER     -> 202

\* What the run makes of a status other than 202.
InjectionVerdict == CASE Status = 404 -> "unserved"
                      [] Status = 401 -> "bad_signature"
                      [] OTHER        -> "not_accepted"

\* The accept half, and the wake it spawns.  The sink's counters are flushed twice, here
\* once.
Accept(p) ==
  LET e == Normalize(p)
      wakes == Served /\ Verified /\ Resolved
  IN  /\ queue' = IF wakes THEN [queue EXCEPT ![e.recipient] = Append(@, e.id)] ELSE queue
      /\ \/ ~Served /\ UNCHANGED <<doc, disk, history>>
         \/ Served /\ Record(doc, IF wakes THEN [fate EXCEPT ![e.id] = "queued"] ELSE fate)

\* The daemon answers: a run it said 202 to waits for its outcome.
Inject(p) ==
  /\ runs[p].stage = "inject" /\ daemon = "up"
  /\ Accept(p)
  /\ runs' = [runs EXCEPT ![p] = IF Status = 202 THEN [@ EXCEPT !.stage = "wait"]
                                                   ELSE Ended(@, InjectionVerdict)]
  /\ UNCHANGED <<server, reals>>

\* The answer does not come, its connection broken or its 30 seconds over.
InjectUnanswered(p) ==
  /\ runs[p].stage = "inject" /\ daemon = "up"
  /\ Accept(p)
  /\ runs' = [runs EXCEPT ![p] = Ended(@, "unreachable")]
  /\ UNCHANGED <<server, reals>>

\* Fault: any wake of the agent since is taken for the probe's.
ReadOutcomeByCount(p, b, r) ==
  IF      r.anyOk # b.anyOk     THEN "proven"
  ELSE IF r.failed # b.failed   THEN r.reason
  ELSE IF r.refused # b.refused THEN "refused" ELSE None

\* Fault: the agent's failures are read, not its failures over the probe's route.
ReadOutcomeOfAgent(p, b, r) ==
  IF      r.lastOk = p              THEN "proven"
  ELSE IF r.anyFailed # b.anyFailed THEN "failed"
  ELSE IF r.refused # b.refused     THEN "refused" ELSE None

\* What a reading r of the row shows to run p, whose first one was b.
ReadOutcome(p, b, r) ==
  IF      r.lastOk = p          THEN "proven"
  ELSE IF r.failed # b.failed   THEN r.reason
  ELSE IF r.refused # b.refused THEN "refused" ELSE None

\* Fault: the deadline is tested with a strict comparison.
PastDeadlineLate(r) == r.polls > Polls

\* The reading after polls others is at or past the deadline.
PastDeadline(r) == r.polls >= Polls

\* One turn of _await_outcome: a reading, its outcome, then the deadline.
Poll(p) ==
  /\ runs[p].stage = "wait"
  /\ LET r == runs[p]
         o == ReadOutcome(p, r.before, Proof(r.agent))
     IN  runs' = [runs EXCEPT ![p] =
           IF      o # None        THEN Ended(r, o)
           ELSE IF PastDeadline(r) THEN Ended(r, "timeout")
           ELSE [r EXCEPT !.polls = @ + 1]]
  /\ UNCHANGED <<server, queue, doc, disk, reals, history>>

-----------------------------------------------------------------------------
Init ==
  /\ daemon = "down" /\ setup = None /\ boots = 0 /\ reals = 0
  /\ queue = [a \in Agents |-> <<>>]
  /\ doc = [a \in Agents |-> NoRow] /\ disk = doc
  /\ runs = [p \in Probes |-> Idle]
  /\ fate = [p \in Probes |-> None]
  /\ shown = {} /\ mixed = {} /\ stop = "none"

Process(p) ==
  \/ \E a \in Agents : Start(p, a)
  \/ InjectRefused(p) \/ Inject(p) \/ InjectUnanswered(p) \/ Poll(p)

Daemon ==
  \/ \E s \in Setups : Boot(s)
  \/ Up \/ Drain \/ Shutdown \/ Kill
  \/ \E a \in Agents : \/ RealArrive(a) \/ RealEnds(a) \/ ProbeStops(a) \/ ReportDepth(a)
                       \/ \E o \in Recorded : ProbeEnds(a, o)

Next == Daemon \/ \E p \in Probes : Process(p)

Spec == Init /\ [][Next]_vars

-----------------------------------------------------------------------------
(* Properties.                                                             *)

TypeOK ==
  /\ daemon \in {"down", "starting", "up", "draining"}
  /\ setup \in Setups \cup {None} /\ boots \in 0..MaxBoots /\ reals \in 0..MaxReal
  /\ \A a \in Agents : \A i \in DOMAIN queue[a] : queue[a][i] \in Probes \cup {Real}
  /\ doc \in [Agents -> Rows] /\ disk \in [Agents -> Rows]
  /\ runs \in [Probes -> [stage : {"new", "inject", "wait", "done"},
                          agent : Agents \cup {None}, before : Rows, polls : 0..Polls,
                          verdict : Verdicts]]
  /\ fate \in [Probes -> Recorded \cup {"queued", "silent", "lost", None}]
  /\ shown \subseteq Probes /\ mixed \subseteq Probes
  /\ stop \in {"none", "unwritten", "clean", "killed"}

\* A run that reports proven was itself answered: its own delivery woke its own agent,
\* whatever other wakes, probes, restarts and lost writes fell into its window
\* (_await_outcome: "a probe that accepted somebody else's proof would be worse than no
\* probe at all").
ProvenIsOwn == \A p \in Probes : runs[p].verdict = "proven" => fate[p] = "proven"

\* Unless another probe of the agent is reported during the run, a run ends with what the
\* file says of its own delivery at that reading, and at the deadline only when the file
\* says nothing: no other route's traffic, restart or lost write reaches the verdict.
VerdictIsTheFiles ==
  [][\A p \in Probes \ mixed :
       (runs[p].stage = "wait" /\ runs'[p].stage = "done") =>
         runs'[p].verdict = IF p \in shown THEN fate[p] ELSE "timeout"]_vars

\* A stop that drained and whose writes all succeeded leaves nothing behind: no delivery
\* it acknowledged is unaccounted for, every outcome is in the file a later reading finds,
\* and the file says that nothing pends (the NOC's idle gate reads it).
SettledStop ==
  (daemon = "down" /\ stop = "clean") =>
    /\ \A a \in Agents : queue[a] = <<>> /\ disk[a].queued = 0
    /\ \A p \in Probes : fate[p] # "queued" /\ (fate[p] \in Recorded => p \in shown)

\* "The per-agent lock serialises this agent's wakes, and the counters are scoped to the
\* probe route, so nothing else can be moving them" (_await_outcome): a run that reports
\* that its wake failed has seen its own wake fail.
CounterIsOwn == \A p \in Probes : runs[p].verdict = "failed" => fate[p] = "failed"

=============================================================================
