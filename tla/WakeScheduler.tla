--------------------------- MODULE WakeScheduler ---------------------------
(***************************************************************************)
(* The wake scheduler (scheduler.py): per-agent FIFO queues, a round-robin *)
(* queue of ready agents, at most one wake in flight per agent and at most *)
(* Lanes over all agents, dispatched onto a pool of Lanes worker threads.  *)
(* Every change of an agent's pending count is told to an observer (the    *)
(* evidence store) outside the scheduler's lock, in ticket order, and a    *)
(* drain waits for those notifications too.                                *)
(*                                                                         *)
(* One action is one critical section of the condition lock _cv, or one    *)
(* step a thread takes outside it.  The threads are the event loop, which  *)
(* submits (one call at a time: submit is synchronous on the loop), the    *)
(* worker threads, and the thread that waits in wait_idle.                 *)
(*                                                                         *)
(* A definition whose comment begins with "Fault:" is a plausible mistake  *)
(* in the definition that follows it; no specification uses it, it is there *)
(* to show which property notices.                                         *)
(***************************************************************************)
EXTENDS Naturals, Sequences, FiniteSets

CONSTANTS
  Agents,    \* harness keys
  JobIds,    \* names the wakes of one agent apart
  MaxSubmits,\* bound: how many wakes are submitted in a behaviour
  Lanes,     \* the configured number of lanes
  MayDrain,  \* whether behaviours call wait_idle
  MayRaise,  \* whether the observer may raise
  NoJob,     \* an agent that is not in flight has no job
  Hung       \* agents whose wakes need not ever end (fairness only)

Jobs == Agents \X JobIds

ASSUME SchedulerAssumption ==
  /\ Lanes \in Nat \ {0}
  /\ IsFiniteSet(Agents)
  /\ MaxSubmits \in Nat
  /\ MayDrain \in BOOLEAN /\ MayRaise \in BOOLEAN
  /\ NoJob \notin Jobs
  /\ Hung \subseteq Agents

VARIABLES
  queues,      \* _queues: per agent, the jobs not dispatched yet (<<>>: no entry)
  ready,       \* _ready: agents with work that are not in flight
  inflight,    \* _inflight: agents that occupy a lane
  saturated,   \* _saturated: the edge detector of the capacity log line
  job,         \* the job handed to the executor for an agent in flight
  pool,        \* the executor's work queue: agents dispatched, no thread yet
  running,     \* agents whose job a worker thread executes
  notes,       \* calls of _deliver_queue_change that have not returned
  asleep,      \* those that wait on _cv for their turn
  notifySeq,   \* _notify_seq, 0 for an agent with no entry
  notifyTurn,  \* _notify_turn, 0 for an agent with no entry
  notifying,   \* _notifying
  published,   \* per agent, the pending count the observer recorded last
  missed,      \* agents whose latest notification the observer raised on
  drain,       \* the thread inside wait_idle
  submitted,   \* history: jobs submitted
  finished,    \* history: jobs whose run returned
  passes       \* history: passes[a][b], dispatches of b while a waits in ready

schedVars == <<queues, ready, inflight, saturated, job, pool, running>>
notifyVars == <<notes, asleep, notifySeq, notifyTurn, notifying>>
vars == <<schedVars, notifyVars, published, missed, drain, submitted, finished, passes>>

-----------------------------------------------------------------------------
(* Notifications: who delivers one, and how far the call has come.         *)

Stages == {"wait", "observe", "told"}

Notes == [key : Agents, ticket : Nat, pending : Nat,
          by : {"loop", "lane"}, stage : Stages]

DrainStates == {"none", "check", "asleep", "returned"}

Elements(s) == {s[i] : i \in 1..Len(s)}

\* _pending_locked: what is still owed to the agent.
Pending(a) == Len(queues[a]) + (IF a \in inflight THEN 1 ELSE 0)

\* Fault: one thread less than there are lanes.
BusyThreadsSpare == 1 + Cardinality(running) + Cardinality({n \in notes : n.by = "lane"})

\* Worker threads in use: one per executing wake, and one per finished wake
\* whose notification is still being delivered (the lane is free, the thread
\* is not).
BusyThreads == Cardinality(running) + Cardinality({n \in notes : n.by = "lane"})

\* Fault: the drain's waiter is left out of the notification.
NotifyTurnsOnly ==
  /\ asleep' = {}
  /\ UNCHANGED drain

\* notify_all on _cv: every sleeper will look at its predicate again.
NotifyAll ==
  /\ asleep' = {}
  /\ drain' = IF drain = "asleep" THEN "check" ELSE drain

\* Fault: the slot is taken without being counted in _notifying.
ClaimUncounted(a, thread) ==
  /\ notes' = notes \cup {[key |-> a, ticket |-> notifySeq[a], pending |-> Pending(a)',
                            by |-> thread, stage |-> "wait"]}
  /\ notifySeq' = [notifySeq EXCEPT ![a] = @ + 1]
  /\ UNCHANGED <<notifyTurn, notifying>>

\* Fault: the count is read before the change it is to report.
ClaimStale(a, thread) ==
  /\ notes' = notes \cup {[key |-> a, ticket |-> notifySeq[a], pending |-> Pending(a),
                            by |-> thread, stage |-> "wait"]}
  /\ notifySeq' = [notifySeq EXCEPT ![a] = @ + 1]
  /\ notifying' = notifying + 1
  /\ UNCHANGED notifyTurn

\* _claim_notification_locked, in the critical section that read the count.
Claim(a, thread) ==
  /\ notes' = notes \cup {[key |-> a, ticket |-> notifySeq[a], pending |-> Pending(a)',
                            by |-> thread, stage |-> "wait"]}
  /\ notifySeq' = [notifySeq EXCEPT ![a] = @ + 1]
  /\ notifying' = notifying + 1
  /\ UNCHANGED notifyTurn

-----------------------------------------------------------------------------
(* Dispatch.                                                               *)

\* Fault: a job jumps its agent's queue.
EnqueueFirst(qs, j) == [qs EXCEPT ![j[1]] = <<j>> \o @]

\* A job joins the end of its agent's queue.
Enqueue(qs, j) == [qs EXCEPT ![j[1]] = Append(@, j)]

\* Fault: membership is not tested.
EnterTwice(rdy, a) == Append(rdy, a)

\* Fault: the agent joins at the front.
EnterFirst(rdy, a) == IF a \in Elements(rdy) THEN rdy ELSE <<a>> \o rdy

\* The agent joins the back of the ready queue unless it is already there.
Enter(rdy, a) == IF a \in Elements(rdy) THEN rdy ELSE Append(rdy, a)

\* An agent that finished and has more work becomes ready again.
Reenter(a) == IF queues[a] # <<>> THEN Enter(ready, a) ELSE ready

\* Fault: off by one, a lane too many.
TakeOneMore(rdy, inf) ==
  LET free == IF Cardinality(inf) <= Lanes THEN Lanes + 1 - Cardinality(inf) ELSE 0
  IN  IF free < Len(rdy) THEN free ELSE Len(rdy)

\* How many ready agents the free lanes take.
Take(rdy, inf) ==
  LET free == IF Cardinality(inf) < Lanes THEN Lanes - Cardinality(inf) ELSE 0
  IN  IF free < Len(rdy) THEN free ELSE Len(rdy)

\* _note_saturation_locked.
NoteSaturation ==
  saturated' = (Cardinality(inflight') >= Lanes /\ ready' # <<>>)

\* _pump_locked over the queues qs, the ready queue rdy and the lanes inf: one
\* job of each of the first ready agents goes to the executor.
PumpLocked(qs, rdy, inf) ==
  LET n == Take(rdy, inf)
      picked == SubSeq(rdy, 1, n)
      p == Elements(picked)
  IN  /\ ready' = SubSeq(rdy, n + 1, Len(rdy))
      /\ inflight' = inf \cup p
      /\ job' = [a \in Agents |-> IF a \in p THEN Head(qs[a])
                                  ELSE IF a \in inf THEN job[a] ELSE NoJob]
      /\ queues' = [a \in Agents |-> IF a \in p THEN Tail(qs[a]) ELSE qs[a]]
      /\ pool' = pool \o picked
      /\ passes' = [a \in Agents |-> [b \in Agents |->
                      IF a \in Elements(ready')
                      THEN passes[a][b] + (IF b \in p THEN 1 ELSE 0)
                      ELSE 0]]
      /\ NoteSaturation

-----------------------------------------------------------------------------
(* The event loop.                                                         *)

\* submit, up to the release of _cv; the call goes on as a notification.
Submit(j) ==
  LET a == j[1] IN
  /\ j \notin submitted
  /\ Cardinality(submitted) < MaxSubmits
  /\ \A n \in notes : n.by # "loop"
  /\ PumpLocked(Enqueue(queues, j),
                IF a \in inflight THEN ready ELSE Enter(ready, a),
                inflight)
  /\ Claim(a, "loop")
  /\ submitted' = submitted \cup {j}
  /\ UNCHANGED <<running, asleep, published, missed, drain, finished>>

-----------------------------------------------------------------------------
(* The worker threads.                                                     *)

\* The executor gives the oldest dispatched job to an idle thread.
StartJob ==
  /\ pool # <<>>
  /\ BusyThreads < Lanes
  /\ running' = running \cup {Head(pool)}
  /\ pool' = Tail(pool)
  /\ UNCHANGED <<queues, ready, inflight, saturated, job, notifyVars,
                 published, missed, drain, submitted, finished, passes>>

\* _run_job's finally: the run has returned or raised, the lane is freed, the
\* agent re-enters at the back if it has more work, the lanes are pumped.
RunJobFinally(a) ==
  /\ a \in running
  /\ running' = running \ {a}
  /\ finished' = finished \cup {job[a]}
  /\ PumpLocked(queues, Reenter(a), inflight \ {a})
  /\ Claim(a, "lane")
  /\ NotifyAll
  /\ UNCHANGED <<published, missed, submitted>>

-----------------------------------------------------------------------------
(* _deliver_queue_change, by whichever thread holds the ticket.            *)

ReplaceNote(n, stage) == notes' = (notes \ {n}) \cup {[n EXCEPT !.stage = stage]}

\* wait_for evaluates its predicate under the lock: go on, or sleep.
CheckTurn(n) ==
  /\ n \in notes
  /\ n.stage = "wait"
  /\ n \notin asleep
  /\ \/ /\ notifyTurn[n.key] = n.ticket
        /\ ReplaceNote(n, "observe")
        /\ UNCHANGED asleep
     \/ /\ notifyTurn[n.key] # n.ticket
        /\ asleep' = asleep \cup {n}
        /\ UNCHANGED notes
  /\ UNCHANGED <<schedVars, notifySeq, notifyTurn, notifying,
                 published, missed, drain, submitted, finished, passes>>

\* _notify_queue_change: the observer records the count, or raises and the
\* error is swallowed.
NotifyQueueChange(n) ==
  /\ n \in notes
  /\ n.stage = "observe"
  /\ ReplaceNote(n, "told")
  /\ \/ /\ published' = [published EXCEPT ![n.key] = n.pending]
        /\ missed' = missed \ {n.key}
     \/ /\ MayRaise
        /\ missed' = missed \cup {n.key}
        /\ UNCHANGED published
  /\ UNCHANGED <<schedVars, asleep, notifySeq, notifyTurn, notifying,
                 drain, submitted, finished, passes>>

\* Fault: the pair of counters is never dropped.
SettleLeaks(n) ==
  /\ n \in notes
  /\ n.stage = "told"
  /\ notifyTurn' = [notifyTurn EXCEPT ![n.key] = n.ticket + 1]
  /\ notifying' = notifying - 1
  /\ notes' = notes \ {n}
  /\ NotifyAll
  /\ UNCHANGED <<notifySeq, schedVars, published, missed, submitted, finished, passes>>

\* The finally of _deliver_queue_change: the next ticket's turn, or the pair is
\* dropped when nothing else is outstanding.
Settle(n) ==
  LET a == n.key
      last == n.ticket + 1 = notifySeq[a]
  IN
  /\ n \in notes
  /\ n.stage = "told"
  /\ notifySeq' = IF last THEN [notifySeq EXCEPT ![a] = 0] ELSE notifySeq
  /\ notifyTurn' = [notifyTurn EXCEPT ![a] = IF last THEN 0 ELSE n.ticket + 1]
  /\ notifying' = notifying - 1
  /\ notes' = notes \ {n}
  /\ NotifyAll
  /\ UNCHANGED <<schedVars, published, missed, submitted, finished, passes>>

-----------------------------------------------------------------------------
(* The drain.                                                              *)

\* Fault: deliveries under way do not count.
IdleTooEarly == inflight = {} /\ ready = <<>>

\* _idle_locked.
IdleLocked == inflight = {} /\ ready = <<>> /\ notifying = 0

\* wait_idle is called, on shutdown, and may be called again.
CallWaitIdle ==
  /\ MayDrain
  /\ drain \in {"none", "returned"}
  /\ drain' = "check"
  /\ UNCHANGED <<schedVars, notifyVars, published, missed, submitted, finished, passes>>

\* wait_for looks at the idle predicate: return, or sleep.
WaitIdle ==
  /\ drain = "check"
  /\ drain' = IF IdleLocked THEN "returned" ELSE "asleep"
  /\ UNCHANGED <<schedVars, notifyVars, published, missed, submitted, finished, passes>>

-----------------------------------------------------------------------------

Init ==
  /\ queues = [a \in Agents |-> <<>>]
  /\ ready = <<>>
  /\ inflight = {}
  /\ saturated = FALSE
  /\ job = [a \in Agents |-> NoJob]
  /\ pool = <<>>
  /\ running = {}
  /\ notes = {}
  /\ asleep = {}
  /\ notifySeq = [a \in Agents |-> 0]
  /\ notifyTurn = [a \in Agents |-> 0]
  /\ notifying = 0
  /\ published = [a \in Agents |-> 0]
  /\ missed = {}
  /\ drain = "none"
  /\ submitted = {}
  /\ finished = {}
  /\ passes = [a \in Agents |-> [b \in Agents |-> 0]]

Deliver(a) ==
  \E n \in notes : n.key = a /\ (CheckTurn(n) \/ NotifyQueueChange(n) \/ Settle(n))

Next ==
  \/ \E j \in Jobs : Submit(j)
  \/ StartJob
  \/ \E a \in Agents : RunJobFinally(a) \/ Deliver(a)
  \/ CallWaitIdle
  \/ WaitIdle

Spec == Init /\ [][Next]_vars

\* Threads that are not blocked go on.  A wake of an agent outside Hung ends;
\* nothing makes a wake start, a submission arrive or a drain be called.
Fairness ==
  /\ WF_vars(StartJob)
  /\ WF_vars(WaitIdle)
  /\ \A a \in Agents : WF_vars(Deliver(a))
  /\ \A a \in Agents \ Hung : WF_vars(RunJobFinally(a))

FairSpec == Spec /\ Fairness

-----------------------------------------------------------------------------
(* Properties.                                                             *)

TypeOK ==
  /\ queues \in [Agents -> Seq(Jobs)]
  /\ ready \in Seq(Agents)
  /\ inflight \subseteq Agents
  /\ saturated \in BOOLEAN
  /\ job \in [Agents -> Jobs \cup {NoJob}]
  /\ pool \in Seq(Agents)
  /\ running \subseteq Agents
  /\ notes \subseteq Notes
  /\ asleep \subseteq notes
  /\ notifySeq \in [Agents -> Nat]
  /\ notifyTurn \in [Agents -> Nat]
  /\ notifying \in Nat
  /\ published \in [Agents -> Nat]
  /\ missed \subseteq Agents
  /\ drain \in DrainStates
  /\ submitted \subseteq Jobs
  /\ finished \subseteq Jobs
  /\ passes \in [Agents -> [Agents -> Nat]]

\* A lane is one agent's one wake: the agents in flight are exactly those whose
\* job the executor holds or a thread runs, each once, and never more than Lanes.
\* (_pump_locked, _run_job: "single-in-flight-per-agent", lanes as the ceiling.)
OneWakePerLane ==
  /\ Cardinality(inflight) <= Lanes
  /\ inflight = running \cup Elements(pool)
  /\ running \cap Elements(pool) = {}
  /\ \A i, j \in 1..Len(pool) : pool[i] = pool[j] => i = j
  /\ \A a \in Agents : a \in inflight <=> job[a] # NoJob

\* No wake can be lost from sight of the dispatcher: an agent with queued work
\* waits in ready (once) or is in flight, never both, and nobody waits while a
\* lane is free.  _idle_locked leaves _queues out of its test because of this.
NoStrandedWork ==
  /\ \A a \in Agents : queues[a] # <<>> => a \in Elements(ready) \cup inflight
  /\ \A a \in Elements(ready) : queues[a] # <<>> /\ a \notin inflight
  /\ \A i, j \in 1..Len(ready) : ready[i] = ready[j] => i = j
  /\ ready # <<>> => Cardinality(inflight) = Lanes

\* Once an agent's notifications are all delivered, what the observer holds is
\* the agent's pending count now: no "phantom" queued wake is left behind by two
\* deliveries that overtook each other, whatever threads made them.
ObserverUpToDate ==
  \A a \in Agents :
    (\A n \in notes : n.key # a) => a \in missed \/ published[a] = Pending(a)

\* Deliveries of one agent happen one at a time and the counters leave no residue:
\* its outstanding tickets are those from notifyTurn up to notifySeq, each held
\* once, only the first may be inside the observer and never sleeps through its
\* turn, and an agent with nothing outstanding has no counter left.
DeliveryLine ==
  /\ notifying = Cardinality(notes)
  /\ \A n \in notes : notifyTurn[n.key] <= n.ticket /\ n.ticket < notifySeq[n.key]
  /\ \A a \in Agents :
       /\ \A t \in notifyTurn[a]..(notifySeq[a] - 1) :
            \E n \in notes : n.key = a /\ n.ticket = t
       /\ (\A n \in notes : n.key # a) => notifySeq[a] = 0 /\ notifyTurn[a] = 0
  /\ \A n \in notes : n.stage \in {"observe", "told"} => n.ticket = notifyTurn[n.key]
  /\ \A n, m \in notes : n.key = m.key /\ n.ticket = m.ticket => n = m
  /\ \A n \in asleep : n.stage = "wait" /\ n.ticket # notifyTurn[n.key]

\* Round robin: while an agent waits for a lane, no other agent is dispatched
\* twice; a busy agent's backlog never goes ahead of a waiting peer.
BoundedOvertaking ==
  \A a \in Elements(ready) : \A b \in Agents : passes[a][b] <= 1

\* wait_idle returns only when the work submitted so far has run and the observer
\* was told so: a drain that returns has left no torn view.
DrainedMeansSettled ==
  [][drain' = "returned" /\ drain # "returned" =>
       /\ finished = submitted
       /\ \A a \in Agents : a \in missed \/ published[a] = 0]_drain

\* Every wake submitted for an agent whose wakes end is run, even while fewer than
\* Lanes other agents are stuck in a wake that never ends.
EveryWakeRuns ==
  \A j \in Jobs : j[1] \notin Hung => (j \in submitted ~> j \in finished)

\* A drain that is called returns, no wakeup of its condition is lost, unless a
\* wake that never ends holds a lane (wait_idle then waits for it, by design).
DrainReturns ==
  drain = "check" ~> (drain = "returned" \/ inflight \cap Hung # {})

\* The refinement: a wake the executor has not given a thread is still waiting.
Streams == INSTANCE AgentStreams WITH
  waiting <- [a \in Agents |-> IF a \in Elements(pool) THEN <<job[a]>> \o queues[a]
                                                      ELSE queues[a]],
  current <- [a \in Agents |-> IF a \in running THEN job[a] ELSE NoJob]

ImplementsStreams == Streams!Spec

=============================================================================
