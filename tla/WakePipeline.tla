---------------------------- MODULE WakePipeline ----------------------------
(***************************************************************************)
(* The slow half of the pipeline (pipeline.py, execute and _wake): what    *)
(* happens to a delivery once the scheduler dispatches it.  It composes    *)
(* the delivery deduper (dedup.py), the wake coverage (coalesce.py), the   *)
(* NOC wake-lock (wakelock.py), the bounded retry (concurrency.py) and the *)
(* wake evidence (evidence.py) in the order the code visits them.          *)
(*                                                                         *)
(* The scheduler is used through what it promises (AgentStreams): every    *)
(* agent has one ordered queue and executes one delivery at a time.  The   *)
(* breaker is used through its answer: admitted or not.  Outside src/ are  *)
(* the sources, whose events happen at a moment and whose webhooks arrive  *)
(* later, in any order and more than once; the wake itself, which ends     *)
(* with success, an error, a stop signal or an unexpected exception; and   *)
(* the NOC, which locks an agent, looks for a running wake, and converges. *)
(*                                                                         *)
(* A definition whose comment begins with "Fault:" is a plausible mistake  *)
(* in the definition that follows it.                                      *)
(***************************************************************************)
EXTENDS Integers, Sequences, FiniteSets, SequencesExt

CONSTANTS
  Agents,
  Ids,            \* delivery ids; a delivery is one id to one agent
  Streams,        \* timelines, issues
  Kinds,          \* what arrives: a subset of AllKinds
  WakeAttempts,   \* Pipeline.wake_attempts
  Ttl,            \* DeliveryDeduper's ttl, 0 turns it off
  GcInterval,     \* dedup's _GC_INTERVAL
  Capacity,       \* WakeCoverage's capacity
  LockTtl,        \* how long a NOC lock is valid
  MayGarble,      \* whether a lock file may be unparseable or unreadable
  TicksPerSecond, \* clock ticks in a second: sources stamp whole seconds
  None,           \* no event, nothing executing, no mark
  MaxTime,        \* bound: the clock stops here
  MaxArrivals,    \* bound: webhooks, duplicates included
  MaxLocks        \* bound: lock files the NOC writes

\* github stamps events and rechecks them; the platform stamps them; a payload
\* without a usable timestamp is undated; a probe is synthetic and undated.
AllKinds == {"github", "platform", "undated", "probe"}

ASSUME PipelineAssumption ==
  /\ Kinds \subseteq AllKinds /\ IsFiniteSet(Agents) /\ None \notin Nat
  /\ WakeAttempts \in Nat \ {0} /\ Ttl \in Nat /\ GcInterval \in Nat \ {0}
  /\ Capacity \in Nat \ {0} /\ LockTtl \in Nat \ {0} /\ MayGarble \in BOOLEAN
  /\ TicksPerSecond \in Nat \ {0}
  /\ MaxTime \in Nat /\ MaxArrivals \in Nat /\ MaxLocks \in Nat

Deliveries == Ids \X Agents

VARIABLES
  now,        \* the clock
  event,      \* per delivery: the event it reports, or None before it happens
  queue,      \* per agent: deliveries waiting to be executed
  arrivals,   \* webhooks so far
  exec,       \* per agent: the execution under way, or None
  seenAt,     \* DeliveryDeduper._seen: key -> mark time, or None
  marks,      \* DeliveryDeduper._marks_since_gc
  coverage,   \* WakeCoverage._streams, least recently recorded first
  lock,       \* per agent: the lock file, [file, until]
  noc,        \* per agent: what the NOC is doing with it
  locks,      \* lock files written so far
  ev,         \* per agent: AgentWakeEvidence's counters
  fates       \* history, per agent: how each executed delivery ended

env == <<now, event, queue, arrivals>>
nocVars == <<lock, noc, locks>>
gates == <<seenAt, marks, coverage>>
vars == <<env, exec, gates, nocVars, ev, fates>>

-----------------------------------------------------------------------------
(* Events and their keys.                                                  *)

\* The source stamps whole seconds, truncated.
Occurred(d) == (event[d].at \div TicksPerSecond) * TicksPerSecond

Stamped(d) == event[d].kind \in {"github", "platform"}

\* Fault: the delivery id alone, whatever the recipient (#312).
DedupKeyIdOnly(d) == <<d[1], CHOOSE a \in Agents : TRUE>>

\* Event.dedup_key.
DedupKey(d) == d

\* WakeCoverage's key.
CoverageKey(d) == <<d[2], event[d].stream>>

Steps == {"covering", "recheck", "lock", "breaker", "launch", "run"}

\* An execution: of which delivery, how far, which attempt, when deduper.seen was
\* asked, when the last attempt launched (last_started_at), and whether the NOC's
\* lock has been held, or no lock in force, ever since (history).
Executions ==
  [d : Deliveries, step : Steps, attempt : Nat, asked : Nat, started : Nat,
   frozen : BOOLEAN, free : BOOLEAN]

Done == {"ok", "stopped"}
Launched == Done \cup {"failed", "crashed"}
Hows == Launched \cup {"deduped", "coalesced", "dropped", "locked", "tripped"}

Fates == [d : Deliveries, how : Hows, asked : Nat, started : Nat, at : Nat]

Counters == {"ok", "failed", "refused", "deduped"}

-----------------------------------------------------------------------------
(* The deduper and the coverage.                                           *)

\* What seen answers.
Fresh(key) == seenAt[key] # None /\ Ttl > 0 /\ now - seenAt[key] < Ttl

\* Fault: off by one.
SweepOverdue == marks + 1 > GcInterval

SweepDue == marks + 1 >= GcInterval

\* mark, with the sweep that is due every GcInterval marks.
Mark(key) ==
  LET marked == [seenAt EXCEPT ![key] = now] IN
  IF Ttl = 0 THEN UNCHANGED <<seenAt, marks>>
  ELSE IF ~SweepDue THEN seenAt' = marked /\ marks' = marks + 1
  ELSE /\ seenAt' = [k \in Deliveries |->
                       IF marked[k] # None /\ marked[k] <= now - Ttl THEN None ELSE marked[k]]
       /\ marks' = 0

EntryOf(key) == {i \in DOMAIN coverage : coverage[i].key = key}

\* The entry of the stream that has to be kept because it started later.
KnownLater(key, started) == {i \in EntryOf(key) : coverage[i].started > started}

\* The other streams, in their order.
Others(key) ==
  IF EntryOf(key) = {} THEN coverage
  ELSE RemoveAt(coverage, CHOOSE i \in EntryOf(key) : TRUE)

\* record: the later of two starts is kept, the stream becomes the most recent one,
\* the least recent ones are evicted over the capacity.
Record(d, started) ==
  LET key == CoverageKey(d)
      later == KnownLater(key, started)
      entry == IF later = {} THEN [key |-> key, started |-> started]
                             ELSE coverage[CHOOSE i \in later : TRUE]
      moved == Append(Others(key), entry)
      excess == IF Len(moved) > Capacity THEN Len(moved) - Capacity ELSE 0
  IN  IF Stamped(d) THEN coverage' = SubSeq(moved, excess + 1, Len(moved))
                    ELSE UNCHANGED coverage

\* Fault: an event of the stream is covered whenever a wake of it succeeded.
CoveredAnyTime(d) == Stamped(d) /\ EntryOf(CoverageKey(d)) # {}

\* covering: a recorded wake of the stream started strictly after the event.
Covered(d) ==
  Stamped(d) /\ \E i \in EntryOf(CoverageKey(d)) : Occurred(d) < coverage[i].started

-----------------------------------------------------------------------------
(* The wake-lock.                                                          *)

NoFile == [file |-> "absent", until |-> 0]

Held(a) == lock[a].file = "valid" /\ now < lock[a].until

\* A lock that is to be obeyed: a valid one, or one nobody can parse.
InForce(a) == Held(a) \/ lock[a].file = "garbled"

\* Fault: the expiry of a lock is not looked at.
RefusesExpired(a) == lock[a].file \in {"valid", "garbled"}

\* WakeLockGuard.inspect: HELD and UNPARSEABLE refuse; ABSENT, STALE and UNREADABLE
\* let the wake through.
Refuses(a) == Held(a) \/ lock[a].file = "garbled"

-----------------------------------------------------------------------------
(* How an execution ends.                                                  *)

Count(a, counter) == ev' = [ev EXCEPT ![a][counter] = @ + 1]

\* The execution of a's delivery ends; the agent's lock is released.
End(a, x, how) ==
  /\ exec' = [exec EXCEPT ![a] = None]
  /\ fates' = [fates EXCEPT ![a] = Append(@,
       [d |-> x.d, how |-> how, asked |-> x.asked, started |-> x.started, at |-> now])]

Goto(a, step) ==
  /\ exec' = [exec EXCEPT ![a].step = step]
  /\ UNCHANGED <<ev, fates>>

At(a, step) == exec[a] # None /\ exec[a].step = step

-----------------------------------------------------------------------------
(* The sources.                                                            *)

Tick ==
  /\ now < MaxTime
  /\ now' = now + 1
  /\ exec' = [a \in Agents |->
       IF exec[a] # None /\ lock[a].file = "valid" /\ now + 1 >= lock[a].until
       THEN [exec[a] EXCEPT !.frozen = FALSE] ELSE exec[a]]
  /\ UNCHANGED <<event, queue, arrivals, gates, nocVars, ev, fates>>

\* Something happens at a source, now.
Happen(d, s, k) ==
  /\ event[d] = None
  /\ event' = [event EXCEPT ![d] = [stream |-> s, at |-> now, kind |-> k]]
  /\ UNCHANGED <<now, queue, arrivals, exec, gates, nocVars, ev, fates>>

\* A webhook about it arrives, is accepted and joins its agent's queue.
Arrive(d) ==
  /\ event[d] # None
  /\ arrivals < MaxArrivals
  /\ arrivals' = arrivals + 1
  /\ queue' = [queue EXCEPT ![d[2]] = Append(@, d)]
  /\ UNCHANGED <<now, event, exec, gates, nocVars, ev, fates>>

-----------------------------------------------------------------------------
(* execute.                                                                *)

\* A delivery is dispatched; dedup is the first gate.  An expired entry is
\* reclaimed on the way.
DedupGate(a) ==
  /\ exec[a] = None
  /\ queue[a] # <<>>
  /\ LET d == Head(queue[a])
         x == [d |-> d, step |-> "covering", attempt |-> 1, asked |-> now, started |-> 0,
               frozen |-> Held(a), free |-> ~InForce(a)]
     IN  IF Fresh(DedupKey(d))
         THEN End(a, x, "deduped") /\ Count(a, "deduped") /\ UNCHANGED seenAt
         ELSE /\ exec' = [exec EXCEPT ![a] = x]
              /\ seenAt' = [seenAt EXCEPT ![DedupKey(d)] = None]
              /\ UNCHANGED <<ev, fates>>
  /\ queue' = [queue EXCEPT ![a] = Tail(@)]
  /\ UNCHANGED <<now, event, arrivals, marks, coverage, nocVars>>

CoverageGate(a) ==
  /\ At(a, "covering")
  /\ IF Covered(exec[a].d)
     THEN End(a, exec[a], "coalesced") /\ Count(a, "deduped")
     ELSE Goto(a, "recheck")
  /\ UNCHANGED <<env, gates, nocVars>>

\* Only github rechecks; its answer is the route's.
RecheckGate(a) ==
  /\ At(a, "recheck")
  /\ \/ Goto(a, "lock")
     \/ event[exec[a].d].kind = "github" /\ End(a, exec[a], "dropped") /\ UNCHANGED ev
  /\ UNCHANGED <<env, gates, nocVars>>

LockGate(a) ==
  /\ At(a, "lock")
  /\ IF Refuses(a)
     THEN End(a, exec[a], "locked") /\ Count(a, "refused")
     ELSE Goto(a, "breaker")
  /\ UNCHANGED <<env, gates, nocVars>>

BreakerGate(a) ==
  /\ At(a, "breaker")
  /\ \/ Goto(a, "launch")
     \/ End(a, exec[a], "tripped") /\ Count(a, "refused")
  /\ UNCHANGED <<env, gates, nocVars>>

-----------------------------------------------------------------------------
(* _wake.                                                                  *)

Attempts(d) == IF event[d].kind = "probe" THEN 1 ELSE WakeAttempts

\* Fault: the attempts are not counted.
NextAttemptForever(x) == [x EXCEPT !.step = "launch"]

NextAttempt(x) == [x EXCEPT !.step = "launch", !.attempt = @ + 1]

\* attempt(): the start is noted and the wake launched.
Launch(a) ==
  /\ At(a, "launch")
  /\ exec' = [exec EXCEPT ![a].step = "run", ![a].started = now]
  /\ UNCHANGED <<env, gates, nocVars, ev, fates>>

\* Exit 0: evidence, then coverage, then the caller's mark.
WakeOk(a) ==
  LET x == exec[a] IN
  /\ At(a, "run")
  /\ Count(a, "ok")
  /\ Record(x.d, x.started)
  /\ Mark(DedupKey(x.d))
  /\ End(a, x, "ok")
  /\ UNCHANGED <<env, nocVars>>

\* Fault: a stop is not remembered, its delivery may be dispatched again.
StopForgotten(a) ==
  LET x == exec[a] IN
  /\ At(a, "run")
  /\ End(a, x, "stopped")
  /\ UNCHANGED <<env, nocVars, gates, ev>>

\* WakeStopped: never retried, covers and marks like a success, no evidence.
WakeStop(a) ==
  LET x == exec[a] IN
  /\ At(a, "run")
  /\ Record(x.d, x.started)
  /\ Mark(DedupKey(x.d))
  /\ End(a, x, "stopped")
  /\ UNCHANGED <<env, nocVars, ev>>

\* WakeError: a retry while attempts are left, else failure evidence; neither
\* marks nor covers.
WakeFail(a) ==
  LET x == exec[a] IN
  /\ At(a, "run")
  /\ IF x.attempt >= Attempts(x.d)
     THEN End(a, x, "failed") /\ Count(a, "failed")
     ELSE exec' = [exec EXCEPT ![a] = NextAttempt(x)] /\ UNCHANGED <<ev, fates>>
  /\ UNCHANGED <<env, gates, nocVars>>

\* Any other exception: execute's last resort records the stage and nothing else.
WakeCrash(a) ==
  /\ At(a, "run")
  /\ End(a, exec[a], "crashed")
  /\ UNCHANGED <<env, gates, nocVars, ev>>

-----------------------------------------------------------------------------
(* The NOC.                                                                *)

\* A lock file is written; it can be read as a lock unless it is damaged.
LockAgent(a) ==
  /\ noc[a] = "away"
  /\ locks < MaxLocks
  /\ locks' = locks + 1
  /\ noc' = [noc EXCEPT ![a] = "locked"]
  /\ \E file \in {"valid"} \cup (IF MayGarble THEN {"garbled", "unreadable"} ELSE {}) :
       /\ lock' = [lock EXCEPT ![a] = [file |-> file, until |-> now + LockTtl]]
       /\ exec' = IF exec[a] = None THEN exec
                  ELSE IF file = "unreadable" THEN [exec EXCEPT ![a].frozen = FALSE]
                  ELSE [exec EXCEPT ![a].free = FALSE]
  /\ UNCHANGED <<env, gates, ev, fates>>

\* Its pgrep finds no wake of the agent running: it converges.
Converge(a) ==
  /\ noc[a] = "locked"
  /\ ~At(a, "run")
  /\ noc' = [noc EXCEPT ![a] = "converging"]
  /\ UNCHANGED <<env, exec, gates, lock, locks, ev, fates>>

\* The lock is removed, or the NOC dies and its lock is left to expire.
Unlock(a) ==
  /\ noc[a] # "away"
  /\ noc' = [noc EXCEPT ![a] = "away"]
  /\ \/ /\ lock' = [lock EXCEPT ![a] = NoFile]
        /\ exec' = IF exec[a] = None THEN exec ELSE [exec EXCEPT ![a].frozen = FALSE]
     \/ UNCHANGED <<lock, exec>>
  /\ UNCHANGED <<env, gates, locks, ev, fates>>

-----------------------------------------------------------------------------

Init ==
  /\ now = 0
  /\ event = [d \in Deliveries |-> None]
  /\ queue = [a \in Agents |-> <<>>]
  /\ arrivals = 0
  /\ exec = [a \in Agents |-> None]
  /\ seenAt = [d \in Deliveries |-> None]
  /\ marks = 0
  /\ coverage = <<>>
  /\ lock = [a \in Agents |-> NoFile]
  /\ noc = [a \in Agents |-> "away"]
  /\ locks = 0
  /\ ev = [a \in Agents |-> [c \in Counters |-> 0]]
  /\ fates = [a \in Agents |-> <<>>]

\* A worker thread goes on with a's delivery, up to the launch of a wake.
Step(a) ==
  \/ DedupGate(a) \/ CoverageGate(a) \/ RecheckGate(a) \/ LockGate(a)
  \/ BreakerGate(a) \/ Launch(a)

\* The wake under way ends, one way or another.
WakeEnds(a) == WakeOk(a) \/ WakeStop(a) \/ WakeFail(a) \/ WakeCrash(a)

Next ==
  \/ Tick
  \/ \E d \in Deliveries : \E s \in Streams : \E k \in Kinds : Happen(d, s, k)
  \/ \E d \in Deliveries : Arrive(d)
  \/ \E a \in Agents : Step(a) \/ WakeEnds(a)
  \/ \E a \in Agents : LockAgent(a) \/ Converge(a) \/ Unlock(a)

Spec == Init /\ [][Next]_vars

\* Threads go on and wakes end; no source and no operator owes anything.
FairSpec == Spec /\ \A a \in Agents : WF_vars(Step(a)) /\ WF_vars(WakeEnds(a))

-----------------------------------------------------------------------------
(* Properties.                                                             *)

TypeOK ==
  /\ now \in Nat
  /\ event \in [Deliveries -> [stream : Streams, at : Nat, kind : Kinds] \cup {None}]
  /\ queue \in [Agents -> Seq(Deliveries)]
  /\ arrivals \in Nat
  /\ exec \in [Agents -> Executions \cup {None}]
  /\ \A a \in Agents : exec[a] # None => exec[a].attempt \in 1..Attempts(exec[a].d)
  /\ seenAt \in [Deliveries -> Nat \cup {None}]
  /\ marks \in 0..(GcInterval - 1)
  /\ coverage \in Seq([key : Agents \X Streams, started : Nat])
  /\ Len(coverage) <= Capacity
  /\ \A i, j \in DOMAIN coverage : coverage[i].key = coverage[j].key => i = j
  /\ lock \in [Agents -> [file : {"absent", "valid", "garbled", "unreadable"}, until : Nat]]
  /\ noc \in [Agents -> {"away", "locked", "converging"}]
  /\ locks \in Nat
  /\ ev \in [Agents -> [Counters -> Nat]]
  /\ fates \in [Agents -> Seq(Fates)]

\* No lost wake: a delivery that launches nothing was taken care of.  One that was
\* coalesced has a session of the same agent on the same stream, ended before, that
\* succeeded or was stopped, and the event happened before that session had run for a
\* second.  One that was collapsed as a duplicate is the same delivery, to the same
\* agent, as one that was woken for or stopped within the time to live.
SkippedWasDone ==
  \A a \in Agents : \A i \in DOMAIN fates[a] :
    LET skipped == fates[a][i]
        before == {fates[a][j] : j \in {k \in 1..(i - 1) : fates[a][k].how \in Done}}
    IN  /\ skipped.how = "coalesced" =>
             \E done \in before :
               /\ event[done.d].stream = event[skipped.d].stream
               /\ event[skipped.d].at < done.started + TicksPerSecond
        /\ skipped.how = "deduped" =>
             \E done \in before : done.d = skipped.d /\ skipped.asked - done.at < Ttl

\* The streams recorded from the end of one session to the start of another, other than
\* the one's own: enough of them evict it from the coverage.
RecordedSince(done, started) ==
  {CoverageKey(f.d) : f \in {g \in UNION {ToSet(fates[a]) : a \in Agents} :
                               g.how \in Done /\ Stamped(g.d) /\ g.at \in done.at..started}}
    \ {CoverageKey(done.d)}

\* No needless session.  A delivery that is done, woken or stopped, is not launched again
\* within the time to live, however often it is redelivered ("A stop is a stop").  And at
\* most one follow-up: once a session of a stream is done, no stamped event that was there
\* when it started launches another, unless as many other streams as the coverage has room
\* for were recorded in between.
NoNeedlessSession ==
  \A a \in Agents : \A j \in DOMAIN fates[a] : \A i \in 1..(j - 1) :
    LET done == fates[a][i]
        next == fates[a][j]
    IN  done.how \in Done /\ next.how \in Launched =>
          /\ done.d = next.d => next.asked - done.at >= Ttl
          /\ Stamped(done.d) /\ Stamped(next.d)
                /\ event[done.d].stream = event[next.d].stream
                /\ Cardinality(RecordedSince(done, next.started)) < Capacity
             => Occurred(next.d) >= done.started

\* A delivery dispatched while the NOC's valid lock is held does not launch as long
\* as that lock stays held; and none is refused for a lock unless one was in force at
\* some moment since its dispatch: an agent is not frozen by a lock that has expired,
\* was removed, or cannot be read.
LockObeyed ==
  [][\A a \in Agents :
       /\ At(a, "run")' => ~exec'[a].frozen
       /\ \A i \in DOMAIN fates'[a] \ DOMAIN fates[a] :
            fates'[a][i].how = "locked" => ~exec[a].free]_vars

\* Whatever goes wrong with a wake, the agent's stream goes on: its queue drains.
StreamNeverStuck == \A a \in Agents : []<>(queue[a] = <<>> /\ exec[a] = None)

\* coalesce.py says "Every error truncation introduces errs towards *not* covering:
\* an extra wake, the old behaviour, never a lost one": then the session had started
\* no earlier than the event it is said to have read.
CoveredPrecedesLaunch ==
  \A a \in Agents : \A i \in DOMAIN fates[a] :
    fates[a][i].how = "coalesced" =>
      \E j \in 1..(i - 1) :
        /\ fates[a][j].how \in Done
        /\ event[fates[a][j].d].stream = event[fates[a][i].d].stream
        /\ event[fates[a][i].d].at <= fates[a][j].started

\* wakelock.py says of the check-then-act race that "a wake landing on a
\* half-installed venv" is: "This closes it with an explicit wake-lock".
NoWakeDuringConverge ==
  \A a \in Agents : noc[a] = "converging" /\ Held(a) => ~At(a, "run")

=============================================================================
