------------------------- MODULE WakePipelineProofs -------------------------
(***************************************************************************)
(* Theorems of the pipeline's slow half, for every number of agents,       *)
(* deliveries, streams, attempts, webhooks and locks, and every time to    *)
(* live, capacity and clock: type correctness, that no wake is lost, that  *)
(* no session is needless, and that a lock is obeyed.                      *)
(***************************************************************************)
EXTENDS WakePipeline, SequenceFacts, FiniteSetTheorems

-----------------------------------------------------------------------------
(* The inductive invariant.                                                *)

\* The executions of a's deliveries that succeeded or were stopped.
Successes(a) == {f \in ToSet(fates[a]) : f.how \in Done}

\* Those of them that recorded the stream key.
Recorders(key) == {f \in Successes(key[1]) : Stamped(f.d) /\ CoverageKey(f.d) = key}

\* Only deliveries of an agent are queued, executed and remembered for it, about an event
\* that happened, at moments that have passed.
QueueOwned ==
  \A a \in Agents : \A i \in DOMAIN queue[a] : queue[a][i][2] = a /\ event[queue[a][i]] # None

ExecOwned ==
  \A a \in Agents : exec[a] # None =>
    /\ exec[a].d[2] = a /\ event[exec[a].d] # None
    /\ exec[a].asked <= now /\ exec[a].started <= now

FatesOwned ==
  \A a \in Agents : \A f \in ToSet(fates[a]) :
    /\ f.d[2] = a /\ event[f.d] # None
    /\ f.at <= now /\ f.started <= now

\* A mark is a success's; a success is marked until its time to live is over; and what is
\* being executed was asked about when it was over for every earlier success.
MarksEarned ==
  \A d \in Deliveries : seenAt[d] # None =>
    \E f \in Successes(d[2]) : f.d = d /\ f.at = seenAt[d]

SuccessesMarked ==
  \A a \in Agents : \A f \in Successes(a) :
    \/ seenAt[f.d] # None /\ f.at <= seenAt[f.d]
    \/ now - f.at >= Ttl

AskedLate ==
  \A a \in Agents : exec[a] # None =>
    \A f \in Successes(a) : f.d = exec[a].d => exec[a].asked - f.at >= Ttl

\* An entry of the coverage is a success's start; the entries are in the order of the
\* last successes of their streams; and a success is covered by an entry until enough
\* other streams were recorded.
CoverageEarned ==
  \A i \in DOMAIN coverage :
    \E f \in Recorders(coverage[i].key) : f.started = coverage[i].started

CoverageInOrder ==
  \A p, q \in DOMAIN coverage : p < q =>
    \A f \in Recorders(coverage[p].key) : \E g \in Recorders(coverage[q].key) : f.at <= g.at

Evicted(f, t) == Cardinality(RecordedSince(f, t)) >= Capacity

SuccessesCovered ==
  \A a \in Agents : \A f \in Successes(a) : Stamped(f.d) =>
    \/ \E i \in EntryOf(CoverageKey(f.d)) : coverage[i].started >= f.started
    \/ Evicted(f, now)

\* An execution past the coverage gate is of an event no earlier than the start of each
\* session of its stream that was not evicted before the launch.
Passed(a) ==
  exec[a] # None /\ exec[a].step # "covering" /\ Stamped(exec[a].d) =>
    \A f \in Recorders(CoverageKey(exec[a].d)) :
      \/ Occurred(exec[a].d) >= f.started
      \/ Evicted(f, IF exec[a].step = "run" THEN exec[a].started ELSE now)

PassedCoverage == \A a \in Agents : Passed(a)

\* While the lock an execution met at its dispatch stays held, the lock gate refuses it.
FrozenRefused ==
  \A a \in Agents : exec[a] # None /\ exec[a].frozen =>
    Refuses(a) /\ exec[a].step \in {"covering", "recheck", "lock"}

\* As long as no lock was in force since the dispatch of an execution, none is now.
FreeLetThrough == \A a \in Agents : exec[a] # None /\ exec[a].free => ~Refuses(a)

Owned == QueueOwned /\ ExecOwned /\ FatesOwned

IInv ==
  /\ TypeOK
  /\ Owned
  /\ MarksEarned /\ SuccessesMarked /\ AskedLate
  /\ CoverageEarned /\ CoverageInOrder /\ SuccessesCovered /\ PassedCoverage
  /\ SkippedWasDone /\ NoNeedlessSession

-----------------------------------------------------------------------------
(* What each step does to the parts of the state the invariant is about.   *)

\* The execution goes on as it was, but for its knowledge of the lock.
SameExec(x, y) ==
  y # None =>
    /\ x # None
    /\ y.d = x.d /\ y.step = x.step /\ y.asked = x.asked /\ y.started = x.started

\* Time passes, an event happens, a webhook arrives, the NOC acts.
Waits ==
  /\ now <= now'
  /\ \A d \in Deliveries : event[d] # None => event'[d] = event[d]
  /\ \A b \in Agents : SameExec(exec[b], exec'[b])
  /\ UNCHANGED <<seenAt, coverage, fates>>

\* a's delivery passes a gate, launches or is to be retried.
Moves(a) ==
  /\ exec[a] # None
  /\ exec'[a].d = exec[a].d /\ exec'[a].asked = exec[a].asked
  /\ exec[a].step = "covering" => ~Covered(exec[a].d) /\ exec'[a].step = "recheck"
  /\ exec'[a].step # "covering"
  /\ \/ exec'[a].step # "run" /\ exec'[a].started = exec[a].started
     \/ exec'[a].step = "run" /\ exec[a].step # "run" /\ exec'[a].started = now
  /\ \A b \in Agents : b # a => exec'[b] = exec[b]
  /\ UNCHANGED <<now, event, seenAt, coverage, fates>>

\* A delivery of a's queue is dispatched and was not done within the time to live.
Begins(a) ==
  /\ exec'[a].d \in Deliveries /\ exec'[a].d[2] = a /\ event[exec'[a].d] # None
  /\ exec'[a].step = "covering" /\ exec'[a].asked = now /\ exec'[a].started = 0
  /\ ~Fresh(exec'[a].d)
  /\ seenAt' = [seenAt EXCEPT ![exec'[a].d] = None]
  /\ \A b \in Agents : b # a => exec'[b] = exec[b]
  /\ UNCHANGED <<now, event, coverage, fates>>

\* a's execution x ends without being done.
Skips(a, x, how) ==
  /\ x \in Executions /\ how \in Hows \ Done
  /\ x.d[2] = a /\ event[x.d] # None /\ x.asked <= now /\ x.started <= now
  /\ how = "deduped" => Fresh(x.d) /\ x.asked = now
  /\ how = "coalesced" => Covered(x.d)
  /\ how \in Launched => exec[a] # None /\ x = exec[a] /\ x.step = "run"
  /\ End(a, x, how)
  /\ UNCHANGED <<now, event, seenAt, coverage>>

\* a's wake succeeds or is stopped.
Completes(a, how) ==
  /\ how \in Done
  /\ exec[a] # None /\ exec[a].step = "run"
  /\ Record(exec[a].d, exec[a].started)
  /\ Mark(exec[a].d)
  /\ End(a, exec[a], how)
  /\ UNCHANGED <<now, event>>

-----------------------------------------------------------------------------

\* Every step of the pipeline is one of five: it waits, moves an execution on, begins one,
\* skips one (the gates of execute, the failures of _wake), or completes one.
LEMMA StepShape ==
  ASSUME PipelineAssumption, TypeOK, Owned, Next
  PROVE  \/ Waits
         \/ \E a \in Agents : Moves(a)
         \/ \E a \in Agents : Begins(a)
         \/ \E a \in Agents : \E x \in Executions : \E how \in Hows : Skips(a, x, how)
         \/ \E a \in Agents : \E how \in Done : Completes(a, how)
<1> USE DEF vars, env, nocVars, gates
<1>1. CASE Tick
  <2>1. \A b \in Agents : SameExec(exec[b], exec'[b])
    BY <1>1 DEF Tick, TypeOK, Executions, SameExec
  <2> QED
    BY <1>1, <2>1 DEF Tick, TypeOK, Waits
<1>2. ASSUME NEW d \in Deliveries, NEW s \in Streams, NEW k \in Kinds, Happen(d, s, k)
      PROVE  Waits
  BY <1>2 DEF Happen, TypeOK, Waits, SameExec
<1>3. ASSUME NEW d \in Deliveries, Arrive(d)
      PROVE  Waits
  BY <1>3 DEF Arrive, TypeOK, Waits, SameExec
<1>4. ASSUME NEW a \in Agents, LockAgent(a) \/ Converge(a) \/ Unlock(a)
      PROVE  Waits
  <2>1. \/ exec' = exec
        \/ exec[a] # None /\ exec' = [exec EXCEPT ![a].frozen = FALSE]
        \/ exec[a] # None /\ exec' = [exec EXCEPT ![a].free = FALSE]
    <3>1. CASE LockAgent(a)
      <4>1. PICK file \in {"valid", "garbled", "unreadable"} :
               exec' = IF exec[a] = None THEN exec
                       ELSE IF file = "unreadable" THEN [exec EXCEPT ![a].frozen = FALSE]
                       ELSE [exec EXCEPT ![a].free = FALSE]
        BY <3>1 DEF LockAgent
      <4> QED
        BY <4>1, Zenon
    <3>2. CASE Converge(a)
      BY <3>2 DEF Converge
    <3>3. CASE Unlock(a)
      BY <3>3 DEF Unlock
    <3> QED
      BY <1>4, <3>1, <3>2, <3>3
  <2>2. \A b \in Agents : SameExec(exec[b], exec'[b])
    <3>1. exec \in [Agents -> Executions \cup {None}]
      BY DEF TypeOK
    <3>2. CASE exec' = exec
      BY <3>2 DEF SameExec
    <3>3. CASE exec[a] # None /\ exec' = [exec EXCEPT ![a].frozen = FALSE]
      <4>1. exec[a] \in Executions /\ exec'[a] = [exec[a] EXCEPT !.frozen = FALSE]
        BY <3>1, <3>3
      <4>2. \A b \in Agents : b # a => exec'[b] = exec[b]
        BY <3>1, <3>3
      <4>3. SameExec(exec[a], exec'[a])
        BY <3>3, <4>1 DEF SameExec, Executions
      <4> QED
        BY <4>2, <4>3 DEF SameExec
    <3>4. CASE exec[a] # None /\ exec' = [exec EXCEPT ![a].free = FALSE]
      <4>1. exec[a] \in Executions /\ exec'[a] = [exec[a] EXCEPT !.free = FALSE]
        BY <3>1, <3>4
      <4>2. \A b \in Agents : b # a => exec'[b] = exec[b]
        BY <3>1, <3>4
      <4>3. SameExec(exec[a], exec'[a])
        BY <3>4, <4>1 DEF SameExec, Executions
      <4> QED
        BY <4>2, <4>3 DEF SameExec
    <3> QED
      BY <2>1, <3>2, <3>3, <3>4
  <2>3. UNCHANGED <<now, event, seenAt, coverage, fates>>
    BY <1>4 DEF LockAgent, Converge, Unlock
  <2> QED
    BY <2>2, <2>3 DEF TypeOK, Waits
<1>5. ASSUME NEW a \in Agents, DedupGate(a)
      PROVE  Begins(a) \/ \E x \in Executions : \E how \in Hows : Skips(a, x, how)
  <2> DEFINE d == Head(queue[a])
             x == [d |-> d, step |-> "covering", attempt |-> 1, asked |-> now, started |-> 0,
                   frozen |-> Held(a), free |-> ~InForce(a)]
  <2>1. d \in Deliveries /\ d[2] = a /\ event[d] # None
    <3>1. queue[a] \in Seq(Deliveries) /\ queue[a] # <<>>
      BY <1>5 DEF DedupGate, TypeOK
    <3>2. 1 \in DOMAIN queue[a] /\ d = queue[a][1] /\ d \in Deliveries
      BY <3>1
    <3> QED
      BY <3>2 DEF Owned, QueueOwned
  <2>2. x \in Executions
    BY <2>1 DEF Executions, Steps, Held, TypeOK
  <2>3. x.d = d /\ x.step = "covering" /\ x.asked = now /\ x.started = 0
    OBVIOUS
  <2>4. /\ exec[a] = None
        /\ IF Fresh(DedupKey(d))
           THEN End(a, x, "deduped") /\ Count(a, "deduped") /\ UNCHANGED seenAt
           ELSE /\ exec' = [exec EXCEPT ![a] = x]
                /\ seenAt' = [seenAt EXCEPT ![DedupKey(d)] = None]
                /\ UNCHANGED <<ev, fates>>
        /\ UNCHANGED <<now, event, coverage>>
    BY <1>5 DEF DedupGate
  <2> HIDE DEF x, d
  <2>5. CASE Fresh(d)
    <3>1. End(a, x, "deduped") /\ UNCHANGED seenAt
      BY <2>4, <2>5 DEF DedupKey
    <3>2. Skips(a, x, "deduped")
      BY <2>1, <2>2, <2>3, <2>4, <2>5, <3>1 DEF Skips, Hows, Launched, Done, TypeOK
    <3> QED
      BY <2>2, <3>2 DEF Hows
  <2>6. CASE ~Fresh(d)
    <3>1. exec' = [exec EXCEPT ![a] = x] /\ seenAt' = [seenAt EXCEPT ![d] = None] /\ fates' = fates
      BY <2>4, <2>6 DEF DedupKey
    <3>2. exec'[a] = x /\ \A b \in Agents : b # a => exec'[b] = exec[b]
      BY <3>1 DEF TypeOK
    <3> QED
      BY <2>1, <2>3, <2>4, <2>6, <3>1, <3>2 DEF Begins
  <2> QED
    BY <2>5, <2>6
<1>6. ASSUME NEW a \in Agents, CoverageGate(a)
      PROVE  Moves(a) \/ \E x \in Executions : \E how \in Hows : Skips(a, x, how)
  <2>1. exec[a] # None /\ exec[a].step = "covering" /\ exec[a] \in Executions
    BY <1>6 DEF CoverageGate, At, TypeOK
  <2>2. UNCHANGED <<now, event, seenAt, coverage>>
    BY <1>6 DEF CoverageGate
  <2>3. CASE Covered(exec[a].d)
    <3>1. End(a, exec[a], "coalesced")
      BY <1>6, <2>3 DEF CoverageGate
    <3>2. Skips(a, exec[a], "coalesced")
      BY <2>1, <2>2, <2>3, <3>1 DEF Skips, Hows, Launched, Done, Owned, ExecOwned
    <3> QED
      BY <2>1, <3>2 DEF Hows
  <2>4. CASE ~Covered(exec[a].d)
    <3>1. Goto(a, "recheck")
      BY <1>6, <2>4 DEF CoverageGate
    <3> QED
      BY <2>1, <2>2, <2>4, <3>1 DEF Goto, Moves, TypeOK, Executions
  <2> QED
    BY <2>3, <2>4
<1>7. ASSUME NEW a \in Agents, RecheckGate(a) \/ LockGate(a) \/ BreakerGate(a)
      PROVE  Moves(a) \/ \E x \in Executions : \E how \in Hows : Skips(a, x, how)
  <2>1. /\ exec[a] # None /\ exec[a].step \in {"recheck", "lock", "breaker"}
        /\ exec[a] \in Executions
    BY <1>7 DEF RecheckGate, LockGate, BreakerGate, At, TypeOK
  <2>2. UNCHANGED <<now, event, seenAt, coverage>>
    BY <1>7 DEF RecheckGate, LockGate, BreakerGate
  <2>3. \/ \E step \in {"lock", "breaker", "launch"} : Goto(a, step)
        \/ \E how \in {"dropped", "locked", "tripped"} : End(a, exec[a], how)
    BY <1>7 DEF RecheckGate, LockGate, BreakerGate
  <2>4. ASSUME NEW step \in {"lock", "breaker", "launch"}, Goto(a, step)
        PROVE  Moves(a)
    BY <2>1, <2>2, <2>4 DEF Goto, Moves, TypeOK, Executions
  <2>5. ASSUME NEW how \in {"dropped", "locked", "tripped"}, End(a, exec[a], how)
        PROVE  Skips(a, exec[a], how) /\ how \in Hows
    BY <2>1, <2>2, <2>5 DEF Skips, Hows, Launched, Done, Owned, ExecOwned
  <2> QED
    BY <2>1, <2>3, <2>4, <2>5
<1>8. ASSUME NEW a \in Agents, Launch(a)
      PROVE  Moves(a)
  BY <1>8 DEF Launch, At, Moves, TypeOK, Executions
<1>9. ASSUME NEW a \in Agents, WakeOk(a) \/ WakeStop(a)
      PROVE  \E how \in Done : Completes(a, how)
  <2>1. CASE WakeOk(a)
    <3>1. Completes(a, "ok")
      BY <2>1 DEF WakeOk, Completes, At, Done, DedupKey
    <3> QED
      BY <3>1 DEF Done
  <2>2. CASE WakeStop(a)
    <3>1. Completes(a, "stopped")
      BY <2>2 DEF WakeStop, Completes, At, Done, DedupKey
    <3> QED
      BY <3>1 DEF Done
  <2> QED
    BY <1>9, <2>1, <2>2
<1>10. ASSUME NEW a \in Agents, WakeFail(a) \/ WakeCrash(a)
       PROVE  Moves(a) \/ \E x \in Executions : \E how \in Hows : Skips(a, x, how)
  <2>1. /\ exec[a] # None /\ exec[a].step = "run" /\ exec[a] \in Executions
        /\ UNCHANGED <<now, event, seenAt, coverage>>
    BY <1>10 DEF WakeFail, WakeCrash, At, TypeOK
  <2>2. \/ \E how \in {"failed", "crashed"} : End(a, exec[a], how)
        \/ exec' = [exec EXCEPT ![a] = NextAttempt(exec[a])] /\ fates' = fates
    BY <1>10 DEF WakeFail, WakeCrash
  <2>3. ASSUME NEW how \in {"failed", "crashed"}, End(a, exec[a], how)
        PROVE  Skips(a, exec[a], how) /\ how \in Hows
    BY <2>1, <2>3 DEF Skips, Hows, Launched, Done, Owned, ExecOwned
  <2>4. ASSUME exec' = [exec EXCEPT ![a] = NextAttempt(exec[a])], fates' = fates
        PROVE  Moves(a)
    BY <2>1, <2>4 DEF NextAttempt, Moves, TypeOK, Executions
  <2> QED
    BY <2>1, <2>2, <2>3, <2>4
<1> QED
  BY <1>1, <1>2, <1>3, <1>4, <1>5, <1>6, <1>7, <1>8, <1>9, <1>10 DEF Next, Step, WakeEnds

-----------------------------------------------------------------------------
(* The coverage.                                                           *)

Entries == [key : Agents \X Streams, started : Nat]

\* The other streams of the coverage: h says where each of them was.
LEMMA OthersShape ==
  ASSUME TypeOK, NEW key
  PROVE  /\ Others(key) \in Seq(Entries)
         /\ Len(Others(key)) <= Len(coverage)
         /\ (EntryOf(key) # {} => Len(Others(key)) = Len(coverage) - 1)
         /\ \E h \in [1..Len(Others(key)) -> DOMAIN coverage] :
              /\ \A p \in 1..Len(Others(key)) :
                   Others(key)[p] = coverage[h[p]] /\ coverage[h[p]].key # key
              /\ \A p, q \in 1..Len(Others(key)) : p < q => h[p] < h[q]
              /\ \A i \in DOMAIN coverage : coverage[i].key # key =>
                   \E p \in 1..Len(Others(key)) : h[p] = i
<1>1. coverage \in Seq(Entries) /\ Len(coverage) \in Nat /\ DOMAIN coverage = 1..Len(coverage)
  BY DEF TypeOK, Entries
<1>2. \A i, j \in DOMAIN coverage : coverage[i].key = coverage[j].key => i = j
  BY DEF TypeOK
<1>3. CASE EntryOf(key) = {}
  <2> DEFINE h == [p \in 1..Len(coverage) |-> p]
  <2>1. Others(key) = coverage
    BY <1>3 DEF Others
  <2>2. h \in [1..Len(coverage) -> DOMAIN coverage] /\ \A p \in 1..Len(coverage) : h[p] = p
    BY <1>1
  <2>3. \A i \in DOMAIN coverage : coverage[i].key # key
    BY <1>3 DEF EntryOf
  <2> HIDE DEF h
  <2> QED
    BY <1>1, <1>3, <2>1, <2>2, <2>3
<1>4. CASE EntryOf(key) # {}
  <2>1. PICK r \in EntryOf(key) : r = CHOOSE i \in EntryOf(key) : TRUE
    BY <1>4
  <2>2. r \in 1..Len(coverage) /\ coverage[r].key = key
    BY <1>1 DEF EntryOf
  <2>3. \A i \in DOMAIN coverage : coverage[i].key = key <=> i = r
    BY <1>1, <1>2, <2>2
  <2> DEFINE o == RemoveAt(coverage, r)
             h == [p \in 1..(Len(coverage) - 1) |-> IF p < r THEN p ELSE p + 1]
  <2>4. Others(key) = o
    BY <1>4, <2>1 DEF Others
  <2>5. /\ o \in Seq(Entries) /\ Len(o) = Len(coverage) - 1
        /\ \A p \in 1..(Len(coverage) - 1) : o[p] = IF p < r THEN coverage[p] ELSE coverage[p + 1]
    BY <1>1, <2>2, RemovedAt
  <2> HIDE DEF o
  <2>6. \A p \in 1..(Len(coverage) - 1) :
          /\ h[p] = (IF p < r THEN p ELSE p + 1)
          /\ h[p] \in 1..Len(coverage) /\ h[p] # r
    BY <1>1, <2>2
  <2>7. h \in [1..(Len(coverage) - 1) -> DOMAIN coverage]
    BY <1>1, <2>2
  <2>8. \A i \in 1..Len(coverage) : i # r => \E p \in 1..(Len(coverage) - 1) : h[p] = i
    <3> TAKE i \in 1..Len(coverage)
    <3> HAVE i # r
    <3>1. CASE i < r
      <4>1. i \in 1..(Len(coverage) - 1)
        BY <1>1, <2>2, <3>1
      <4> QED
        BY <2>6, <3>1, <4>1
    <3>2. CASE i > r
      <4>1. i - 1 \in 1..(Len(coverage) - 1) /\ ~(i - 1 < r) /\ (i - 1) + 1 = i
        BY <1>1, <2>2, <3>2
      <4> QED
        BY <2>6, <4>1
    <3> QED
      BY <1>1, <2>2, <3>1, <3>2
  <2> HIDE DEF h
  <2>9. \A p \in 1..(Len(coverage) - 1) : o[p] = coverage[h[p]] /\ coverage[h[p]].key # key
    BY <1>1, <2>3, <2>5, <2>6
  <2>10. \A p, q \in 1..(Len(coverage) - 1) : p < q => h[p] < h[q]
    BY <1>1, <2>2, <2>6
  <2>11. \A i \in DOMAIN coverage : coverage[i].key # key =>
           \E p \in 1..(Len(coverage) - 1) : h[p] = i
    BY <1>1, <2>3, <2>8
  <2>12. o \in Seq(Entries) /\ Len(o) <= Len(coverage) /\ Len(o) = Len(coverage) - 1
    BY <1>1, <2>5
  <2>13. \E g \in [1..Len(o) -> DOMAIN coverage] :
           /\ \A p \in 1..Len(o) : o[p] = coverage[g[p]] /\ coverage[g[p]].key # key
           /\ \A p, q \in 1..Len(o) : p < q => g[p] < g[q]
           /\ \A i \in DOMAIN coverage : coverage[i].key # key => \E p \in 1..Len(o) : g[p] = i
    <3>1. h \in [1..Len(o) -> DOMAIN coverage]
      BY <2>7, <2>12
    <3> WITNESS h \in [1..Len(o) -> DOMAIN coverage]
    <3> QED
      BY <2>9, <2>10, <2>11, <2>12
  <2> QED
    BY <2>4, <2>12, <2>13
<1> QED
  BY <1>3, <1>4

\* What recording a stream does to the coverage.  The stream is its last entry, with the
\* later of the two starts; the entries before it are old ones of other streams, in their
\* order (h); and an old one that is no longer there was the least recent of a full
\* coverage.
LEMMA RecordShape ==
  ASSUME PipelineAssumption, TypeOK, NEW d \in Deliveries, event[d] # None,
         NEW started \in Nat, Stamped(d), Record(d, started)
  PROVE  LET key == CoverageKey(d)
             n == Len(coverage')
         IN  /\ coverage' \in Seq(Entries) /\ n \in 1..Capacity
             /\ coverage'[n].key = key
             /\ coverage'[n].started >= started
             /\ \A i \in EntryOf(key) : coverage'[n].started >= coverage[i].started
             /\ \/ coverage'[n].started = started
                \/ \E i \in EntryOf(key) : coverage'[n] = coverage[i]
             /\ \E h \in [1..(n - 1) -> DOMAIN coverage] :
                  /\ \A p \in 1..(n - 1) :
                       coverage'[p] = coverage[h[p]] /\ coverage[h[p]].key # key
                  /\ \A p, q \in 1..(n - 1) : p < q => h[p] < h[q]
                  /\ \A i \in DOMAIN coverage : coverage[i].key # key =>
                       \/ \E p \in 1..(n - 1) : h[p] = i
                       \/ n = Capacity /\ \A p \in 1..(n - 1) : i < h[p]
<1> DEFINE key == CoverageKey(d)
           later == KnownLater(key, started)
           entry == IF later = {} THEN [key |-> key, started |-> started]
                                  ELSE coverage[CHOOSE i \in later : TRUE]
           o == Others(key)
           x == IF Len(o) = Capacity THEN 1 ELSE 0
           m == Append(o, entry)
           n == Len(o) + 1 - x
<1>1. /\ coverage \in Seq(Entries) /\ Len(coverage) \in Nat /\ Len(coverage) <= Capacity
      /\ DOMAIN coverage = 1..Len(coverage) /\ Capacity \in Nat \ {0}
      /\ \A i, j \in DOMAIN coverage : coverage[i].key = coverage[j].key => i = j
  BY DEF TypeOK, Entries, PipelineAssumption
<1>2. key \in Agents \X Streams
  BY DEF TypeOK, CoverageKey, Deliveries
<1>3. /\ entry \in Entries /\ entry.key = key
      /\ entry.started >= started
      /\ \A i \in EntryOf(key) : entry.started >= coverage[i].started
      /\ entry.started = started \/ \E i \in EntryOf(key) : entry = coverage[i]
  <2>1. CASE later = {}
    <3>1. entry = [key |-> key, started |-> started]
      BY <2>1
    <3>2. \A i \in EntryOf(key) : coverage[i] \in Entries /\ ~(coverage[i].started > started)
      BY <1>1, <2>1 DEF KnownLater, EntryOf
    <3>3. \A i \in EntryOf(key) : coverage[i].started \in Nat /\ started >= coverage[i].started
      BY <3>2 DEF Entries
    <3> HIDE DEF entry, key
    <3> QED
      BY <1>2, <3>1, <3>3 DEF Entries
  <2>2. CASE later # {}
    <3>1. PICK i \in later : entry = coverage[i]
      BY <2>2
    <3>2. /\ i \in EntryOf(key) /\ i \in DOMAIN coverage
          /\ coverage[i].key = key /\ coverage[i].started > started
      BY DEF KnownLater, EntryOf
    <3>3. coverage[i] \in Entries
      BY <1>1, <3>2
    <3>4. \A j \in EntryOf(key) : j = i
      BY <1>1, <3>2 DEF EntryOf
    <3>5. coverage[i].started \in Nat
      BY <3>3 DEF Entries
    <3> HIDE DEF entry, key
    <3> QED
      BY <3>1, <3>2, <3>3, <3>4, <3>5
  <2> QED
    BY <2>1, <2>2
<1>4. /\ o \in Seq(Entries) /\ Len(o) <= Len(coverage)
      /\ \E h \in [1..Len(o) -> DOMAIN coverage] :
           /\ \A p \in 1..Len(o) : o[p] = coverage[h[p]] /\ coverage[h[p]].key # key
           /\ \A p, q \in 1..Len(o) : p < q => h[p] < h[q]
           /\ \A i \in DOMAIN coverage : coverage[i].key # key => \E p \in 1..Len(o) : h[p] = i
  BY OthersShape
<1>5. /\ Len(o) \in Nat /\ Len(o) <= Capacity /\ x \in {0, 1} /\ x <= Len(o)
      /\ n \in 1..Capacity /\ (x = 1 => n = Capacity)
      /\ x = (IF Len(o) + 1 > Capacity THEN Len(o) + 1 - Capacity ELSE 0)
  <2>1. Len(o) \in Nat
    BY <1>4
  <2> HIDE DEF o
  <2>2. CASE Len(o) = Capacity
    BY <1>1, <1>4, <2>1, <2>2
  <2>3. CASE Len(o) < Capacity
    BY <1>1, <1>4, <2>1, <2>3
  <2> QED
    BY <1>1, <1>4, <2>1, <2>2, <2>3
<1>6. coverage' = SubSeq(m, x + 1, Len(m))
  <2>1. Len(m) = Len(o) + 1
    BY <1>3, <1>4, AppendProperties
  <2>2. coverage' = SubSeq(m, (IF Len(m) > Capacity THEN Len(m) - Capacity ELSE 0) + 1, Len(m))
    BY DEF Record
  <2> HIDE DEF m, o, x, n
  <2> QED
    BY <1>5, <2>1, <2>2
<1> HIDE DEF o, entry, x, key
<1>7. /\ coverage' \in Seq(Entries) /\ Len(coverage') = n
      /\ coverage'[n] = entry
      /\ \A p \in 1..(n - 1) : coverage'[p] = o[p + x]
  <2>0. entry \in Entries /\ o \in Seq(Entries) /\ x \in {0, 1} /\ x <= Len(o)
    BY <1>3, <1>4, <1>5
  <2>1. /\ SubSeq(m, x + 1, Len(m)) \in Seq(Entries) /\ Len(SubSeq(m, x + 1, Len(m))) = n
        /\ SubSeq(m, x + 1, Len(m))[n] = entry
        /\ \A p \in 1..(n - 1) : SubSeq(m, x + 1, Len(m))[p] = o[p + x]
    BY <2>0, AddedWithin
  <2> QED
    BY <1>6, <2>1, Zenon
<1>8. n = Len(o) + 1 - x /\ n \in Nat /\ x \in Nat /\ Len(o) \in Nat
  BY <1>5
<1> HIDE DEF m, n
<1>9. \E h \in [1..(n - 1) -> DOMAIN coverage] :
        /\ \A p \in 1..(n - 1) : coverage'[p] = coverage[h[p]] /\ coverage[h[p]].key # key
        /\ \A p, q \in 1..(n - 1) : p < q => h[p] < h[q]
        /\ \A i \in DOMAIN coverage : coverage[i].key # key =>
             \/ \E p \in 1..(n - 1) : h[p] = i
             \/ n = Capacity /\ \A p \in 1..(n - 1) : i < h[p]
  <2>1. PICK g \in [1..Len(o) -> DOMAIN coverage] :
          /\ \A p \in 1..Len(o) : o[p] = coverage[g[p]] /\ coverage[g[p]].key # key
          /\ \A p, q \in 1..Len(o) : p < q => g[p] < g[q]
          /\ \A i \in DOMAIN coverage : coverage[i].key # key => \E p \in 1..Len(o) : g[p] = i
    BY <1>4
  <2> DEFINE h == [p \in 1..(n - 1) |-> g[p + x]]
  <2>2. \A p \in 1..(n - 1) : p + x \in 1..Len(o) /\ p \in Nat /\ p + x > x
    BY <1>8
  <2>3. h \in [1..(n - 1) -> DOMAIN coverage] /\ \A p \in 1..(n - 1) : h[p] = g[p + x]
    BY <2>2
  <2> HIDE DEF h
  <2>4. \A p \in 1..(n - 1) : coverage'[p] = coverage[h[p]] /\ coverage[h[p]].key # key
    BY <1>7, <2>1, <2>2, <2>3
  <2>5. \A p, q \in 1..(n - 1) : p < q => h[p] < h[q]
    <3> TAKE p, q \in 1..(n - 1)
    <3> HAVE p < q
    <3>1. p + x \in 1..Len(o) /\ q + x \in 1..Len(o) /\ p + x < q + x
      BY <1>8, <2>2
    <3> QED
      BY <2>1, <2>3, <3>1
  <2>6. ASSUME NEW i \in DOMAIN coverage, coverage[i].key # key
        PROVE  \/ \E p \in 1..(n - 1) : h[p] = i
               \/ n = Capacity /\ \A p \in 1..(n - 1) : i < h[p]
    <3>1. PICK p \in 1..Len(o) : g[p] = i
      BY <2>1, <2>6
    <3>2. CASE p > x
      <4>1. p - x \in 1..(n - 1) /\ (p - x) + x = p
        BY <1>5, <1>8, <3>2
      <4> QED
        BY <2>3, <3>1, <4>1
    <3>3. CASE p <= x
      <4>1. x = 1 /\ p = 1 /\ n = Capacity
        BY <1>5, <1>8, <3>3
      <4>2. \A q \in 1..(n - 1) : q + x \in 1..Len(o) /\ p < q + x
        BY <2>2, <4>1
      <4>3. \A q \in 1..(n - 1) : i < h[q]
        BY <2>1, <2>3, <3>1, <4>2
      <4> QED
        BY <4>1, <4>3
    <3> QED
      BY <1>8, <3>2, <3>3
  <2> QED
    BY <2>3, <2>4, <2>5, <2>6
<1>10. /\ coverage' \in Seq(Entries) /\ n \in 1..Capacity
       /\ coverage'[n].key = key
       /\ coverage'[n].started >= started
       /\ \A i \in EntryOf(key) : coverage'[n].started >= coverage[i].started
       /\ \/ coverage'[n].started = started
          \/ \E i \in EntryOf(key) : coverage'[n] = coverage[i]
  BY <1>3, <1>5, <1>7
<1> QED
  BY <1>7, <1>9, <1>10, Zenon DEF key

-----------------------------------------------------------------------------
(* Type correctness.                                                       *)

\* Ending an execution keeps the executions and the fates well typed.
LEMMA EndType ==
  ASSUME TypeOK, NEW a \in Agents, NEW x \in Executions, NEW how \in Hows, End(a, x, how)
  PROVE  /\ exec' \in [Agents -> Executions \cup {None}]
         /\ \A b \in Agents : exec'[b] # None => exec'[b] = exec[b]
         /\ fates' \in [Agents -> Seq(Fates)]
<1> DEFINE fate == [d |-> x.d, how |-> how, asked |-> x.asked, started |-> x.started, at |-> now]
<1>1. fate \in Fates
  BY DEF Fates, Executions, TypeOK
<1>2. fates[a] \in Seq(Fates) /\ fates \in [Agents -> Seq(Fates)]
  BY DEF TypeOK
<1>3. Append(fates[a], fate) \in Seq(Fates)
  BY <1>1, <1>2
<1>4. fates' = [fates EXCEPT ![a] = Append(fates[a], fate)] /\ exec' = [exec EXCEPT ![a] = None]
  BY DEF End
<1> HIDE DEF fate
<1>5. fates' \in [Agents -> Seq(Fates)]
  BY <1>2, <1>3, <1>4
<1> QED
  BY <1>4, <1>5 DEF TypeOK

\* Counting evidence keeps the counters well typed.
LEMMA CountType ==
  ASSUME TypeOK, NEW a \in Agents, NEW counter \in Counters, Count(a, counter)
  PROVE  ev' \in [Agents -> [Counters -> Nat]]
<1>1. ev[a] \in [Counters -> Nat] /\ ev \in [Agents -> [Counters -> Nat]]
  BY DEF TypeOK
<1>2. [ev[a] EXCEPT ![counter] = @ + 1] \in [Counters -> Nat]
  BY <1>1
<1> QED
  BY <1>1, <1>2 DEF Count

\* Marking a key sets it to now, and leaves every other mark or sweeps it once its time to
\* live is over.
LEMMA MarkShape ==
  ASSUME PipelineAssumption, TypeOK, NEW key \in Deliveries, Mark(key)
  PROVE  /\ seenAt' \in [Deliveries -> Nat \cup {None}]
         /\ marks' \in 0..(GcInterval - 1)
         /\ Ttl # 0 => seenAt'[key] = now
         /\ \A k \in Deliveries :
              \/ seenAt'[k] = seenAt[k]
              \/ k = key /\ seenAt'[k] = now
              \/ seenAt'[k] = None /\ seenAt[k] \in Nat /\ now - seenAt[k] >= Ttl
<1> DEFINE marked == [seenAt EXCEPT ![key] = now]
<1>1. /\ Ttl \in Nat /\ now \in Nat /\ None \notin Nat /\ GcInterval \in Nat \ {0}
      /\ seenAt \in [Deliveries -> Nat \cup {None}] /\ marks \in 0..(GcInterval - 1)
  BY DEF PipelineAssumption, TypeOK
<1>2. /\ marked \in [Deliveries -> Nat \cup {None}]
      /\ marked[key] = now /\ \A k \in Deliveries : k # key => marked[k] = seenAt[k]
  BY <1>1
<1> HIDE DEF marked
<1>3. CASE Ttl = 0
  BY <1>1, <1>3 DEF Mark
<1>4. CASE Ttl # 0 /\ ~SweepDue
  <2>1. seenAt' = marked /\ marks' = marks + 1
    BY <1>4 DEF Mark, marked
  <2>2. marks' \in 0..(GcInterval - 1)
    BY <1>1, <1>4, <2>1 DEF SweepDue
  <2> QED
    BY <1>2, <2>1, <2>2
<1>5. CASE Ttl # 0 /\ SweepDue
  <2>1. /\ seenAt' = [k \in Deliveries |->
                       IF marked[k] # None /\ marked[k] <= now - Ttl THEN None ELSE marked[k]]
        /\ marks' = 0
    BY <1>5 DEF Mark, marked
  <2>2. seenAt' \in [Deliveries -> Nat \cup {None}] /\ marks' \in 0..(GcInterval - 1)
    BY <1>1, <1>2, <2>1
  <2>3. seenAt'[key] = now
    BY <1>1, <1>2, <1>5, <2>1
  <2>4. ASSUME NEW k \in Deliveries, k # key
        PROVE  \/ seenAt'[k] = seenAt[k]
               \/ seenAt'[k] = None /\ seenAt[k] \in Nat /\ now - seenAt[k] >= Ttl
    BY <1>1, <1>2, <2>1, <2>4
  <2> QED
    BY <2>2, <2>3, <2>4
<1> QED
  BY <1>3, <1>4, <1>5

\* Recording keeps the coverage well typed.
LEMMA RecordType ==
  ASSUME PipelineAssumption, TypeOK, NEW d \in Deliveries, event[d] # None,
         NEW started \in Nat, Record(d, started)
  PROVE  /\ coverage' \in Seq(Entries) /\ Len(coverage') <= Capacity
         /\ \A i, j \in DOMAIN coverage' : coverage'[i].key = coverage'[j].key => i = j
<1>1. CASE ~Stamped(d)
  BY <1>1 DEF Record, TypeOK, Entries
<1>2. CASE Stamped(d)
  <2> DEFINE n == Len(coverage')
  <2>1. coverage' \in Seq(Entries) /\ n \in 1..Capacity /\ coverage'[n].key = CoverageKey(d)
    BY <1>2, RecordShape
  <2>2. PICK h \in [1..(n - 1) -> DOMAIN coverage] :
          /\ \A p \in 1..(n - 1) :
               coverage'[p] = coverage[h[p]] /\ coverage[h[p]].key # CoverageKey(d)
          /\ \A p, q \in 1..(n - 1) : p < q => h[p] < h[q]
    BY <1>2, RecordShape
  <2>3. DOMAIN coverage' = 1..n /\ n \in Nat /\ n <= Capacity
    BY <2>1 DEF PipelineAssumption
  <2>4. \A p \in 1..(n - 1) : h[p] \in DOMAIN coverage /\ h[p] \in Nat
    <3>1. DOMAIN coverage = 1..Len(coverage)
      BY DEF TypeOK
    <3> QED
      BY <3>1
  <2>5. \A i, j \in DOMAIN coverage : coverage[i].key = coverage[j].key => i = j
    BY DEF TypeOK
  <2> HIDE DEF n
  <2>6. ASSUME NEW i \in 1..n, NEW j \in 1..n, coverage'[i].key = coverage'[j].key
        PROVE  i = j
    <3>1. CASE i = n \/ j = n
      <4>1. i \in 1..(n - 1) \/ i = n
        BY <2>3
      <4>2. j \in 1..(n - 1) \/ j = n
        BY <2>3
      <4> QED
        BY <2>1, <2>2, <2>6, <3>1, <4>1, <4>2
    <3>2. CASE i # n /\ j # n
      <4>1. i \in 1..(n - 1) /\ j \in 1..(n - 1)
        BY <2>3, <3>2
      <4>2. h[i] = h[j]
        BY <2>2, <2>4, <2>5, <2>6, <4>1
      <4>3. ~(i < j) /\ ~(j < i)
        BY <2>2, <2>4, <4>1, <4>2
      <4> QED
        BY <4>1, <4>3
    <3> QED
      BY <3>1, <3>2
  <2> QED
    BY <2>1, <2>3, <2>6 DEF n
<1> QED
  BY <1>1, <1>2

\* What an execution becomes is an execution of the same delivery.
LEMMA ExecutionUpdates ==
  ASSUME NEW x \in Executions, NEW t \in Nat
  PROVE  /\ /\ [x EXCEPT !.frozen = FALSE] \in Executions
            /\ [x EXCEPT !.frozen = FALSE].attempt = x.attempt
            /\ [x EXCEPT !.frozen = FALSE].d = x.d
         /\ /\ [x EXCEPT !.free = FALSE] \in Executions
            /\ [x EXCEPT !.free = FALSE].attempt = x.attempt
            /\ [x EXCEPT !.free = FALSE].d = x.d
         /\ /\ [x EXCEPT !.step = "run", !.started = t] \in Executions
            /\ [x EXCEPT !.step = "run", !.started = t].attempt = x.attempt
            /\ [x EXCEPT !.step = "run", !.started = t].d = x.d
         /\ /\ NextAttempt(x) \in Executions
            /\ NextAttempt(x).attempt = x.attempt + 1
            /\ NextAttempt(x).d = x.d
<1>1. "run" \in Steps /\ "launch" \in Steps
  BY DEF Steps
<1>2. [x EXCEPT !.frozen = FALSE] \in Executions /\ [x EXCEPT !.free = FALSE] \in Executions
  BY DEF Executions
<1>3. /\ [x EXCEPT !.frozen = FALSE].attempt = x.attempt /\ [x EXCEPT !.frozen = FALSE].d = x.d
      /\ [x EXCEPT !.free = FALSE].attempt = x.attempt /\ [x EXCEPT !.free = FALSE].d = x.d
  BY DEF Executions
<1>4. [x EXCEPT !.step = "run", !.started = t] \in Executions
  BY <1>1 DEF Executions
<1>5. /\ [x EXCEPT !.step = "run", !.started = t].attempt = x.attempt
      /\ [x EXCEPT !.step = "run", !.started = t].d = x.d
  BY DEF Executions
<1>6. x.attempt + 1 \in Nat
  BY DEF Executions
<1>7. ASSUME NEW n \in Nat
      PROVE  /\ [x EXCEPT !.step = "launch", !.attempt = n] \in Executions
             /\ [x EXCEPT !.step = "launch", !.attempt = n].attempt = n
             /\ [x EXCEPT !.step = "launch", !.attempt = n].d = x.d
  <2>1. [x EXCEPT !.step = "launch", !.attempt = n] \in Executions
    BY <1>1 DEF Executions
  <2>2. /\ [x EXCEPT !.step = "launch", !.attempt = n].attempt = n
        /\ [x EXCEPT !.step = "launch", !.attempt = n].d = x.d
    BY DEF Executions
  <2> QED
    BY <2>1, <2>2
<1> QED
  BY <1>2, <1>3, <1>4, <1>5, <1>6, <1>7 DEF NextAttempt

\* Every step keeps the types: _wake's attempts bounded, dedup's marks below the sweep, the
\* coverage within its capacity.
LEMMA TypeStep ==
  ASSUME PipelineAssumption, TypeOK, Owned, Next
  PROVE  TypeOK'
<1> USE DEF vars, env, nocVars, gates
<1>0. /\ exec \in [Agents -> Executions \cup {None}]
      /\ \A a \in Agents : exec[a] # None =>
           /\ exec[a].attempt \in 1..Attempts(exec[a].d) /\ event[exec[a].d] # None
           /\ exec[a].d \in Deliveries /\ exec[a].d[2] = a /\ exec[a] \in Executions
      /\ now \in Nat /\ WakeAttempts \in Nat \ {0}
  BY DEF TypeOK, Owned, ExecOwned, Executions, PipelineAssumption
<1>1. CASE Tick
  <2>1. /\ now' \in Nat /\ UNCHANGED <<event, queue, arrivals, gates, nocVars, ev, fates>>
        /\ exec' = [a \in Agents |->
             IF exec[a] # None /\ lock[a].file = "valid" /\ now + 1 >= lock[a].until
             THEN [exec[a] EXCEPT !.frozen = FALSE] ELSE exec[a]]
    BY <1>0, <1>1 DEF Tick
  <2>2. \A a \in Agents : exec[a] # None =>
          /\ [exec[a] EXCEPT !.frozen = FALSE] \in Executions
          /\ [exec[a] EXCEPT !.frozen = FALSE].attempt = exec[a].attempt
          /\ [exec[a] EXCEPT !.frozen = FALSE].d = exec[a].d
    BY <1>0, ExecutionUpdates
  <2>3. \A a \in Agents :
          /\ exec'[a] \in Executions \cup {None}
          /\ exec'[a] # None => exec[a] # None /\ exec'[a].attempt = exec[a].attempt
                                /\ exec'[a].d = exec[a].d
    BY <1>0, <2>1, <2>2
  <2>4. /\ exec' \in [Agents -> Executions \cup {None}]
        /\ \A a \in Agents : exec'[a] # None => exec'[a].attempt \in 1..Attempts(exec'[a].d)
    BY <1>0, <2>1, <2>3
  <2> QED
    BY <2>1, <2>4 DEF TypeOK, Attempts
<1>2. ASSUME NEW d \in Deliveries, NEW s \in Streams, NEW k \in Kinds, Happen(d, s, k)
      PROVE  TypeOK'
  <2>1. /\ event[d] = None /\ event' = [event EXCEPT ![d] = [stream |-> s, at |-> now, kind |-> k]]
        /\ UNCHANGED <<now, queue, arrivals, exec, gates, nocVars, ev, fates>>
    BY <1>2 DEF Happen
  <2>2. event' \in [Deliveries -> [stream : Streams, at : Nat, kind : Kinds] \cup {None}]
    BY <2>1 DEF TypeOK
  <2>3. \A a \in Agents : exec[a] # None => event'[exec[a].d] = event[exec[a].d]
    BY <1>0, <2>1 DEF TypeOK
  <2>4. \A a \in Agents : (exec[a] # None => exec[a].attempt \in 1..Attempts(exec[a].d))'
    BY <1>0, <2>1, <2>3 DEF Attempts
  <2> QED
    BY <2>1, <2>2, <2>4 DEF TypeOK
<1>3. ASSUME NEW d \in Deliveries, Arrive(d)
      PROVE  TypeOK'
  <2>1. d[2] \in Agents /\ queue[d[2]] \in Seq(Deliveries)
    BY DEF TypeOK, Deliveries
  <2>2. Append(queue[d[2]], d) \in Seq(Deliveries)
    BY <2>1
  <2>3. queue' \in [Agents -> Seq(Deliveries)]
    BY <1>3, <2>1, <2>2 DEF Arrive, TypeOK
  <2> QED
    BY <1>3, <2>3 DEF Arrive, TypeOK, Attempts
<1>4. ASSUME NEW a \in Agents, LockAgent(a) \/ Converge(a) \/ Unlock(a)
      PROVE  TypeOK'
  <2>1. /\ exec' \in [Agents -> Executions \cup {None}]
        /\ \A b \in Agents : exec'[b] # None =>
             /\ exec[b] # None /\ exec'[b].attempt = exec[b].attempt /\ exec'[b].d = exec[b].d
    <3>1. exec[a] # None => /\ [exec[a] EXCEPT !.frozen = FALSE] \in Executions
                            /\ [exec[a] EXCEPT !.frozen = FALSE].attempt = exec[a].attempt
                            /\ [exec[a] EXCEPT !.frozen = FALSE].d = exec[a].d
                            /\ [exec[a] EXCEPT !.free = FALSE] \in Executions
                            /\ [exec[a] EXCEPT !.free = FALSE].attempt = exec[a].attempt
                            /\ [exec[a] EXCEPT !.free = FALSE].d = exec[a].d
      BY <1>0, ExecutionUpdates
    <3>2. \/ exec' = exec
          \/ exec[a] # None /\ exec' = [exec EXCEPT ![a] = [exec[a] EXCEPT !.frozen = FALSE]]
          \/ exec[a] # None /\ exec' = [exec EXCEPT ![a] = [exec[a] EXCEPT !.free = FALSE]]
      BY <1>4 DEF LockAgent, Converge, Unlock
    <3> QED
      BY <1>0, <3>1, <3>2
  <2>2. \A b \in Agents : exec'[b] # None => exec'[b].attempt \in 1..Attempts(exec'[b].d)
    BY <1>0, <2>1
  <2>3. UNCHANGED <<env, gates, ev, fates>>
    BY <1>4 DEF LockAgent, Converge, Unlock
  <2>4. /\ lock' \in [Agents -> [file : {"absent", "valid", "garbled", "unreadable"}, until : Nat]]
        /\ noc' \in [Agents -> {"away", "locked", "converging"}] /\ locks' \in Nat
    <3> DEFINE Files == [file : {"absent", "valid", "garbled", "unreadable"}, until : Nat]
    <3>0. lock \in [Agents -> Files] /\ noc \in [Agents -> {"away", "locked", "converging"}]
          /\ locks \in Nat
      BY DEF TypeOK
    <3>1. CASE LockAgent(a)
      <4>1. now + LockTtl \in Nat
        BY <1>0 DEF PipelineAssumption
      <4>2. PICK file \in {"valid", "garbled", "unreadable"} :
              lock' = [lock EXCEPT ![a] = [file |-> file, until |-> now + LockTtl]]
        BY <3>1 DEF LockAgent
      <4>3. [file |-> file, until |-> now + LockTtl] \in Files
        BY <4>1
      <4>4. noc' = [noc EXCEPT ![a] = "locked"] /\ locks' = locks + 1
        BY <3>1 DEF LockAgent
      <4> HIDE DEF Files
      <4>5. lock' \in [Agents -> Files]
        BY <3>0, <4>2, <4>3
      <4>6. noc' \in [Agents -> {"away", "locked", "converging"}] /\ locks' \in Nat
        BY <3>0, <4>4
      <4> QED
        BY <4>5, <4>6 DEF Files
    <3>2. CASE Converge(a)
      BY <3>0, <3>2 DEF Converge
    <3>3. CASE Unlock(a)
      <4>1. NoFile \in Files
        BY DEF NoFile
      <4>2. lock' = lock \/ lock' = [lock EXCEPT ![a] = NoFile]
        BY <3>3 DEF Unlock
      <4>3. noc' = [noc EXCEPT ![a] = "away"] /\ locks' = locks
        BY <3>3 DEF Unlock
      <4> HIDE DEF Files
      <4>4. lock' \in [Agents -> Files]
        BY <3>0, <4>1, <4>2
      <4> QED
        BY <3>0, <4>3, <4>4 DEF Files
    <3> QED
      BY <1>4, <3>1, <3>2, <3>3
  <2> QED
    BY <2>1, <2>2, <2>3, <2>4 DEF TypeOK, Attempts
<1>5. ASSUME NEW a \in Agents, DedupGate(a)
      PROVE  TypeOK'
  <2> DEFINE d == Head(queue[a])
             x == [d |-> d, step |-> "covering", attempt |-> 1, asked |-> now, started |-> 0,
                   frozen |-> Held(a), free |-> ~InForce(a)]
  <2>1. /\ exec[a] = None /\ queue[a] \in Seq(Deliveries) /\ queue[a] # <<>>
        /\ IF Fresh(DedupKey(d))
           THEN End(a, x, "deduped") /\ Count(a, "deduped") /\ UNCHANGED seenAt
           ELSE /\ exec' = [exec EXCEPT ![a] = x]
                /\ seenAt' = [seenAt EXCEPT ![DedupKey(d)] = None]
                /\ UNCHANGED <<ev, fates>>
        /\ queue' = [queue EXCEPT ![a] = Tail(@)]
        /\ UNCHANGED <<now, event, arrivals, marks, coverage, nocVars>>
    BY <1>5 DEF DedupGate, TypeOK
  <2>2. d \in Deliveries /\ Tail(queue[a]) \in Seq(Deliveries)
    BY <2>1, HeadTailProperties
  <2>3. x \in Executions /\ x.attempt = 1
    BY <1>0, <2>2 DEF Executions, Steps, Held, InForce
  <2>4. queue' \in [Agents -> Seq(Deliveries)]
    BY <2>1, <2>2 DEF TypeOK
  <2>5. 1 \in 1..Attempts(x.d)
    BY <1>0 DEF Attempts
  <2> HIDE DEF x, d
  <2>6. /\ exec' \in [Agents -> Executions \cup {None}]
        /\ \A b \in Agents : exec'[b] # None => exec'[b].attempt \in 1..Attempts(exec'[b].d)
        /\ seenAt' \in [Deliveries -> Nat \cup {None}]
        /\ ev' \in [Agents -> [Counters -> Nat]] /\ fates' \in [Agents -> Seq(Fates)]
    <3>1. CASE Fresh(DedupKey(d))
      <4>1. End(a, x, "deduped") /\ Count(a, "deduped") /\ seenAt' = seenAt
        BY <2>1, <3>1
      <4>2. "deduped" \in Hows /\ "deduped" \in Counters
        BY DEF Hows, Counters
      <4> QED
        BY <1>0, <2>3, <4>1, <4>2, EndType, CountType DEF TypeOK
    <3>2. CASE ~Fresh(DedupKey(d))
      <4>1. /\ exec' = [exec EXCEPT ![a] = x] /\ seenAt' = [seenAt EXCEPT ![DedupKey(d)] = None]
            /\ ev' = ev /\ fates' = fates
        BY <2>1, <3>2
      <4>2. \A b \in Agents : exec'[b] = IF b = a THEN x ELSE exec[b]
        BY <1>0, <4>1
      <4> QED
        BY <1>0, <2>3, <2>5, <4>1, <4>2 DEF TypeOK
    <3> QED
      BY <3>1, <3>2
  <2> QED
    BY <2>1, <2>4, <2>6 DEF TypeOK, Attempts
\* The gates after it and the ends that neither mark nor cover.
<1>6. ASSUME NEW a \in Agents, exec[a] # None, UNCHANGED <<env, gates, nocVars>>,
             ev' \in [Agents -> [Counters -> Nat]],
             \/ \E how \in Hows : End(a, exec[a], how)
             \/ \E x \in Executions : /\ exec' = [exec EXCEPT ![a] = x] /\ fates' = fates
                                      /\ x.attempt \in 1..Attempts(x.d)
      PROVE  TypeOK'
  <2> DEFINE Kept == /\ exec' \in [Agents -> Executions \cup {None}]
                     /\ \A b \in Agents :
                          exec'[b] # None => exec'[b].attempt \in 1..Attempts(exec'[b].d)
                     /\ fates' \in [Agents -> Seq(Fates)]
  <2>1. Kept
    <3>1. ASSUME NEW how \in Hows, End(a, exec[a], how)
          PROVE  Kept
      BY <1>0, <1>6, <3>1, EndType
    <3>2. ASSUME NEW x \in Executions, exec' = [exec EXCEPT ![a] = x], fates' = fates,
                 x.attempt \in 1..Attempts(x.d)
          PROVE  Kept
      <4>1. \A b \in Agents : exec'[b] = IF b = a THEN x ELSE exec[b]
        BY <1>0, <3>2
      <4> QED
        BY <1>0, <3>2, <4>1 DEF TypeOK
    <3> QED
      BY <1>6, <3>1, <3>2
  <2> QED
    BY <1>6, <2>1 DEF TypeOK, Attempts
<1>7. ASSUME NEW a \in Agents, Goto(a, "recheck") \/ Goto(a, "lock") \/ Goto(a, "breaker")
             \/ Goto(a, "launch"), exec[a] # None
      PROVE  /\ ev' \in [Agents -> [Counters -> Nat]]
             /\ \E x \in Executions : /\ exec' = [exec EXCEPT ![a] = x] /\ fates' = fates
                                      /\ x.attempt \in 1..Attempts(x.d)
  <2>1. PICK step \in Steps : Goto(a, step)
    BY <1>7 DEF Steps
  <2> DEFINE x == [exec[a] EXCEPT !.step = step]
  <2>2. x \in Executions /\ x.attempt = exec[a].attempt /\ x.d = exec[a].d
    BY <1>0, <1>7 DEF Executions
  <2>3. exec' = [exec EXCEPT ![a] = x] /\ ev' = ev /\ fates' = fates
    BY <2>1 DEF Goto
  <2> HIDE DEF x
  <2> QED
    BY <1>0, <1>7, <2>2, <2>3 DEF TypeOK
<1>8. ASSUME NEW a \in Agents, CoverageGate(a) \/ RecheckGate(a) \/ LockGate(a) \/ BreakerGate(a)
      PROVE  TypeOK'
  <2>1. exec[a] # None /\ UNCHANGED <<env, gates, nocVars>>
    BY <1>8 DEF CoverageGate, RecheckGate, LockGate, BreakerGate, At
  <2>2. \/ Goto(a, "recheck") \/ Goto(a, "lock") \/ Goto(a, "breaker") \/ Goto(a, "launch")
        \/ \E how \in {"coalesced", "dropped", "locked", "tripped"} :
             /\ End(a, exec[a], how)
             /\ ev' = ev \/ Count(a, "deduped") \/ Count(a, "refused")
    BY <1>8 DEF CoverageGate, RecheckGate, LockGate, BreakerGate
  <2>3. CASE Goto(a, "recheck") \/ Goto(a, "lock") \/ Goto(a, "breaker") \/ Goto(a, "launch")
    BY <1>6, <1>7, <2>1, <2>3
  <2>4. ASSUME NEW how \in {"coalesced", "dropped", "locked", "tripped"}, End(a, exec[a], how),
               ev' = ev \/ Count(a, "deduped") \/ Count(a, "refused")
        PROVE  TypeOK'
    <3>1. how \in Hows /\ "deduped" \in Counters /\ "refused" \in Counters
      BY DEF Hows, Counters
    <3>2. ev' \in [Agents -> [Counters -> Nat]]
      BY <2>4, <3>1, CountType DEF TypeOK
    <3> QED
      BY <1>6, <2>1, <2>4, <3>1, <3>2
  <2> QED
    BY <2>2, <2>3, <2>4
<1>9. ASSUME NEW a \in Agents, Launch(a)
      PROVE  TypeOK'
  <2> DEFINE x == [exec[a] EXCEPT !.step = "run", !.started = now]
  <2>1. exec[a] # None /\ UNCHANGED <<env, gates, nocVars, ev, fates>>
    BY <1>9 DEF Launch, At
  <2>2. x \in Executions /\ x.attempt = exec[a].attempt /\ x.d = exec[a].d
    BY <1>0, <2>1, ExecutionUpdates
  <2>3. exec' = [exec EXCEPT ![a] = x]
    BY <1>0, <1>9 DEF Launch
  <2> HIDE DEF x
  <2>4. ev' \in [Agents -> [Counters -> Nat]] /\ x.attempt \in 1..Attempts(x.d)
    BY <1>0, <2>1, <2>2 DEF TypeOK
  <2> QED
    BY <1>6, <2>1, <2>2, <2>3, <2>4
<1>10. ASSUME NEW a \in Agents, WakeFail(a) \/ WakeCrash(a)
       PROVE  TypeOK'
  <2>1. exec[a] # None /\ UNCHANGED <<env, gates, nocVars>>
    BY <1>10 DEF WakeFail, WakeCrash, At
  <2>2. \/ \E how \in {"failed", "crashed"} :
             End(a, exec[a], how) /\ (ev' = ev \/ Count(a, "failed"))
        \/ /\ exec' = [exec EXCEPT ![a] = NextAttempt(exec[a])] /\ ev' = ev /\ fates' = fates
           /\ ~(exec[a].attempt >= Attempts(exec[a].d))
    BY <1>10 DEF WakeFail, WakeCrash
  <2>3. ASSUME NEW how \in {"failed", "crashed"}, End(a, exec[a], how),
               ev' = ev \/ Count(a, "failed")
        PROVE  TypeOK'
    <3>1. how \in Hows /\ "failed" \in Counters
      BY DEF Hows, Launched, Counters
    <3>2. ev' \in [Agents -> [Counters -> Nat]]
      BY <2>3, <3>1, CountType DEF TypeOK
    <3> QED
      BY <1>6, <2>1, <2>3, <3>1, <3>2
  <2>4. CASE /\ exec' = [exec EXCEPT ![a] = NextAttempt(exec[a])] /\ ev' = ev /\ fates' = fates
             /\ ~(exec[a].attempt >= Attempts(exec[a].d))
    <3> DEFINE x == NextAttempt(exec[a])
    <3>1. x \in Executions /\ x.attempt = exec[a].attempt + 1 /\ x.d = exec[a].d
      BY <1>0, <2>1, ExecutionUpdates
    <3> HIDE DEF x
    <3>2. exec' = [exec EXCEPT ![a] = x] /\ fates' = fates /\ ev' \in [Agents -> [Counters -> Nat]]
      BY <2>4 DEF x, TypeOK
    <3>3. Attempts(x.d) \in Nat
      BY <1>0 DEF Attempts
    <3>4. x.attempt \in 1..Attempts(x.d)
      BY <1>0, <2>1, <2>4, <3>1, <3>3
    <3> QED
      BY <1>6, <2>1, <3>1, <3>2, <3>4
  <2> QED
    BY <2>2, <2>3, <2>4
<1>11. ASSUME NEW a \in Agents, WakeOk(a) \/ WakeStop(a)
       PROVE  TypeOK'
  <2>1. /\ exec[a] # None /\ exec[a] \in Executions /\ UNCHANGED <<env, nocVars>>
        /\ exec[a].d \in Deliveries /\ event[exec[a].d] # None /\ exec[a].started \in Nat
    BY <1>0, <1>11 DEF WakeOk, WakeStop, At, Executions
  <2>2. /\ Record(exec[a].d, exec[a].started) /\ Mark(exec[a].d)
        /\ End(a, exec[a], "ok") \/ End(a, exec[a], "stopped")
        /\ Count(a, "ok") \/ ev' = ev
    BY <1>11 DEF WakeOk, WakeStop, DedupKey
  <2>3. "ok" \in Hows /\ "stopped" \in Hows /\ "ok" \in Counters
    BY DEF Hows, Launched, Done, Counters
  <2>4. /\ exec' \in [Agents -> Executions \cup {None}]
        /\ \A b \in Agents : exec'[b] # None => exec'[b] = exec[b]
        /\ fates' \in [Agents -> Seq(Fates)]
    BY <2>1, <2>2, <2>3, EndType
  <2>5. /\ coverage' \in Seq(Entries) /\ Len(coverage') <= Capacity
        /\ \A i, j \in DOMAIN coverage' : coverage'[i].key = coverage'[j].key => i = j
    BY <2>1, <2>2, RecordType
  <2>6. seenAt' \in [Deliveries -> Nat \cup {None}] /\ marks' \in 0..(GcInterval - 1)
    BY <2>1, <2>2, MarkShape
  <2>7. ev' \in [Agents -> [Counters -> Nat]]
    BY <2>2, <2>3, CountType DEF TypeOK
  <2>8. \A b \in Agents : exec'[b] # None => exec'[b].attempt \in 1..Attempts(exec'[b].d)
    BY <1>0, <2>4
  <2> QED
    BY <2>1, <2>4, <2>5, <2>6, <2>7, <2>8 DEF TypeOK, Attempts, Entries
<1> QED
  BY <1>1, <1>2, <1>3, <1>4, <1>5, <1>8, <1>9, <1>10, <1>11 DEF Next, Step, WakeEnds

-----------------------------------------------------------------------------
(* The history.                                                            *)

Fate(x, how) ==
  [d |-> x.d, how |-> how, asked |-> x.asked, started |-> x.started, at |-> now]

\* How the history of an agent can be read.
LEMMA FatesIndexed ==
  ASSUME TypeOK, NEW a \in Agents
  PROVE  /\ fates[a] \in Seq(Fates) /\ Len(fates[a]) \in Nat
         /\ DOMAIN fates[a] = 1..Len(fates[a])
         /\ \A i \in DOMAIN fates[a] : fates[a][i] \in Fates /\ fates[a][i] \in ToSet(fates[a])
         /\ \A f \in ToSet(fates[a]) : f \in Fates /\ \E i \in DOMAIN fates[a] : f = fates[a][i]
<1>1. fates[a] \in Seq(Fates)
  BY DEF TypeOK
<1>2. Len(fates[a]) \in Nat /\ DOMAIN fates[a] = 1..Len(fates[a])
  BY <1>1
<1>3. \A i \in DOMAIN fates[a] : fates[a][i] \in Fates
  BY <1>1, <1>2
<1> QED
  BY <1>1, <1>2, <1>3 DEF ToSet

\* Ending an execution adds its fate at the end of its agent's history.
LEMMA EndHistory ==
  ASSUME TypeOK, NEW a \in Agents, NEW x \in Executions, NEW how \in Hows, End(a, x, how)
  PROVE  /\ Fate(x, how) \in Fates
         /\ \A b \in Agents : b # a => fates'[b] = fates[b]
         /\ \A b \in Agents : b # a => exec'[b] = exec[b]
         /\ exec'[a] = None
         /\ DOMAIN fates'[a] = 1..(Len(fates[a]) + 1)
         /\ \A i \in 1..Len(fates[a]) : fates'[a][i] = fates[a][i]
         /\ fates'[a][Len(fates[a]) + 1] = Fate(x, how)
         /\ ToSet(fates'[a]) = ToSet(fates[a]) \cup {Fate(x, how)}
<1>1. Fate(x, how) \in Fates
  BY DEF Fates, Executions, TypeOK, Fate
<1>2. /\ fates[a] \in Seq(Fates) /\ fates \in [Agents -> Seq(Fates)]
      /\ exec \in [Agents -> Executions \cup {None}]
  BY DEF TypeOK
<1>3. /\ fates' = [fates EXCEPT ![a] = Append(fates[a], Fate(x, how))]
      /\ exec' = [exec EXCEPT ![a] = None]
  BY DEF End, Fate
<1>4. fates'[a] = Append(fates[a], Fate(x, how))
  BY <1>2, <1>3
<1>5. /\ Len(fates[a]) \in Nat /\ DOMAIN fates[a] = 1..Len(fates[a])
      /\ DOMAIN fates'[a] = 1..(Len(fates[a]) + 1)
      /\ \A i \in 1..Len(fates[a]) : fates'[a][i] = fates[a][i]
      /\ fates'[a][Len(fates[a]) + 1] = Fate(x, how)
  BY <1>1, <1>2, <1>4, AppendProperties
<1>6. ToSet(fates'[a]) = ToSet(fates[a]) \cup {Fate(x, how)}
  <2>1. ASSUME NEW f \in ToSet(fates'[a])
        PROVE  f \in ToSet(fates[a]) \cup {Fate(x, how)}
    <3>1. PICK i \in 1..(Len(fates[a]) + 1) : f = fates'[a][i]
      BY <1>5 DEF ToSet
    <3>2. i \in 1..Len(fates[a]) \/ i = Len(fates[a]) + 1
      BY <1>5
    <3> QED
      BY <1>5, <3>1, <3>2 DEF ToSet
  <2>2. ASSUME NEW f \in ToSet(fates[a])
        PROVE  f \in ToSet(fates'[a])
    <3>1. PICK i \in 1..Len(fates[a]) : f = fates[a][i]
      BY <1>5 DEF ToSet
    <3>2. i \in 1..(Len(fates[a]) + 1)
      BY <1>5
    <3> QED
      BY <1>5, <3>1, <3>2 DEF ToSet
  <2>3. Len(fates[a]) + 1 \in 1..(Len(fates[a]) + 1)
    BY <1>5
  <2>4. Fate(x, how) \in ToSet(fates'[a])
    BY <1>5, <2>3 DEF ToSet
  <2> QED
    BY <2>1, <2>2, <2>4
<1>7. /\ \A b \in Agents : b # a => fates'[b] = fates[b]
      /\ \A b \in Agents : b # a => exec'[b] = exec[b]
      /\ exec'[a] = None
  BY <1>2, <1>3
<1> QED
  BY <1>1, <1>5, <1>6, <1>7

\* What was remembered stays remembered, of events that stay as they happened.
Grows ==
  /\ now <= now'
  /\ \A d \in Deliveries : event[d] # None => event'[d] = event[d]
  /\ \A b \in Agents : ToSet(fates[b]) \subseteq ToSet(fates'[b])

\* No step of execute forgets how an execution ended or changes an event that happened.
LEMMA AlwaysGrows ==
  ASSUME PipelineAssumption, TypeOK, Owned, Next
  PROVE  Grows
<1>1. now <= now
  BY DEF TypeOK
<1>2. CASE Waits
  BY <1>2 DEF Waits, Grows
<1>3. ASSUME NEW a \in Agents, Moves(a) \/ Begins(a)
      PROVE  Grows
  BY <1>1, <1>3 DEF Moves, Begins, Grows
<1>4. ASSUME NEW a \in Agents, NEW x \in Executions, NEW how \in Hows, Skips(a, x, how)
      PROVE  Grows
  BY <1>1, <1>4, EndHistory DEF Skips, Grows
<1>5. ASSUME NEW a \in Agents, NEW how \in Done, Completes(a, how)
      PROVE  Grows
  <2>1. exec[a] \in Executions /\ how \in Hows
    BY <1>5 DEF Completes, TypeOK, Hows, Launched
  <2> QED
    BY <1>1, <1>5, <2>1, EndHistory DEF Completes, Grows
<1> QED
  BY <1>2, <1>3, <1>4, <1>5, StepShape

\* A fate of an event that happened keeps its stream and its stamp.
LEMMA EventsKept ==
  ASSUME Grows, NEW d \in Deliveries, event[d] # None
  PROVE  /\ event'[d] = event[d] /\ event'[d] # None
         /\ Stamped(d)' <=> Stamped(d)
         /\ CoverageKey(d)' = CoverageKey(d)
         /\ Occurred(d)' = Occurred(d)
  BY DEF Grows, Stamped, CoverageKey, Occurred

-----------------------------------------------------------------------------
(* Eviction.                                                               *)

\* WakeCoverage.record was called for finitely many streams since a session.
LEMMA RecordedFinite ==
  ASSUME PipelineAssumption, TypeOK', NEW f, NEW t
  PROVE  IsFiniteSet(RecordedSince(f, t)')
<1> DEFINE histories == {ToSet(fates'[a]) : a \in Agents}
           recorded == {g \in UNION histories :
                          g.how \in Done /\ Stamped(g.d)' /\ g.at \in f.at..t}
           keys == {CoverageKey(g.d)' : g \in recorded}
<1>1. \A a \in Agents : IsFiniteSet(ToSet(fates'[a]))
  <2> TAKE a \in Agents
  <2>1. Len(fates'[a]) \in Nat /\ DOMAIN fates'[a] = 1..Len(fates'[a])
    <3>1. fates'[a] \in Seq(Fates)
      BY DEF TypeOK
    <3> QED
      BY <3>1
  <2>2. IsFiniteSet(1..Len(fates'[a]))
    BY <2>1, FS_Interval
  <2> DEFINE read == [i \in 1..Len(fates'[a]) |-> fates'[a][i]]
  <2>3. read \in Surjection(1..Len(fates'[a]), ToSet(fates'[a]))
    BY <2>1 DEF Surjection, ToSet
  <2> HIDE DEF read
  <2> QED
    BY <2>2, <2>3, FS_Surjection
<1>2. IsFiniteSet(histories)
  <2> DEFINE history == [a \in Agents |-> ToSet(fates'[a])]
  <2>1. history \in Surjection(Agents, histories)
    BY DEF Surjection
  <2> HIDE DEF history, histories
  <2> QED
    BY <2>1, FS_Surjection DEF PipelineAssumption
<1>3. IsFiniteSet(UNION histories)
  <2>1. \A h \in histories : IsFiniteSet(h)
    BY <1>1
  <2> HIDE DEF histories
  <2> QED
    BY <1>2, <2>1, FS_UNION
<1>4. IsFiniteSet(recorded)
  <2> HIDE DEF histories
  <2>1. recorded \in SUBSET (UNION histories)
    OBVIOUS
  <2> HIDE DEF recorded
  <2> QED
    BY <1>3, <2>1, FS_Subset
<1>5. IsFiniteSet(keys)
  <2> HIDE DEF recorded
  <2> DEFINE key == [g \in recorded |-> CoverageKey(g.d)']
  <2>1. key \in Surjection(recorded, keys)
    BY DEF Surjection
  <2> HIDE DEF key, keys
  <2> QED
    BY <1>4, <2>1, FS_Surjection
<1>6. RecordedSince(f, t)' \in SUBSET keys
  BY DEF RecordedSince
<1> HIDE DEF keys
<1> QED
  BY <1>5, <1>6, FS_Subset

\* The streams recorded since a session are recorded since it still, then and later.
LEMMA RecordedGrows ==
  ASSUME PipelineAssumption, TypeOK, TypeOK', FatesOwned, Grows,
         NEW f \in Fates, event[f.d] # None, NEW t \in Nat, NEW u \in Nat, t <= u
  PROVE  /\ Cardinality(RecordedSince(f, t)) <= Cardinality(RecordedSince(f, u)')
         /\ Cardinality(RecordedSince(f, t)) \in Nat /\ Cardinality(RecordedSince(f, u)') \in Nat
<1>1. RecordedSince(f, t) \in SUBSET RecordedSince(f, u)'
  <2> SUFFICES ASSUME NEW key \in RecordedSince(f, t)
               PROVE  key \in RecordedSince(f, u)'
    OBVIOUS
  <2>0. PICK a \in Agents : \E g \in ToSet(fates[a]) :
          /\ g.how \in Done /\ Stamped(g.d) /\ g.at \in f.at..t
          /\ key = CoverageKey(g.d) /\ key # CoverageKey(f.d)
    BY DEF RecordedSince
  <2>1. PICK g \in ToSet(fates[a]) :
          /\ g.how \in Done /\ Stamped(g.d) /\ g.at \in f.at..t
          /\ key = CoverageKey(g.d) /\ key # CoverageKey(f.d)
    BY <2>0
  <2>2. f.d \in Deliveries /\ g \in Fates /\ g.d \in Deliveries /\ f.at \in Nat
    BY <2>1, FatesIndexed DEF Fates
  <2>3. event[g.d] # None
    BY <2>1 DEF FatesOwned
  <2>4. Stamped(g.d)' /\ CoverageKey(g.d)' = key /\ CoverageKey(f.d)' # key
    BY <2>1, <2>2, <2>3, EventsKept
  <2>5. g \in ToSet(fates'[a]) /\ g.at \in f.at..u
    BY <2>1, <2>2 DEF Grows
  <2> QED
    BY <2>1, <2>4, <2>5 DEF RecordedSince
<1>2. IsFiniteSet(RecordedSince(f, u)')
  BY RecordedFinite
<1> QED
  BY <1>1, <1>2, FS_Subset, FS_CardinalityType

\* What was evicted stays evicted, then and later.
LEMMA EvictedStays ==
  ASSUME PipelineAssumption, TypeOK, TypeOK', FatesOwned, Grows,
         NEW f \in Fates, event[f.d] # None, NEW t \in Nat, NEW u \in Nat, t <= u,
         Evicted(f, t)
  PROVE  Evicted(f, u)'
<1>1. /\ Cardinality(RecordedSince(f, t)) <= Cardinality(RecordedSince(f, u)')
      /\ Cardinality(RecordedSince(f, t)) \in Nat /\ Cardinality(RecordedSince(f, u)') \in Nat
  BY RecordedGrows
<1> QED
  BY <1>1 DEF Evicted, PipelineAssumption

-----------------------------------------------------------------------------
(* Each part of the invariant is kept by every step.                       *)

\* What execute is given stays a delivery of its agent, about an event that happened.
LEMMA QueueStep ==
  ASSUME PipelineAssumption, TypeOK, Owned, Next
  PROVE  QueueOwned'
<1> USE DEF vars, env, nocVars, gates
<1>1. Grows
  BY AlwaysGrows
<1>2. \A b \in Agents : queue[b] \in Seq(Deliveries)
  BY DEF TypeOK
<1>3. ASSUME NEW b \in Agents, queue'[b] = queue[b]
      PROVE  \A i \in DOMAIN queue'[b] : queue'[b][i][2] = b /\ event'[queue'[b][i]] # None
  <2> SUFFICES ASSUME NEW i \in DOMAIN queue[b]
               PROVE  queue[b][i][2] = b /\ event'[queue[b][i]] # None
    BY <1>3
  <2>1. queue[b][i] \in Deliveries /\ queue[b][i][2] = b /\ event[queue[b][i]] # None
    BY <1>2 DEF Owned, QueueOwned
  <2> QED
    BY <1>1, <2>1, EventsKept
<1>4. CASE queue' = queue
  BY <1>3, <1>4 DEF QueueOwned
<1>5. ASSUME NEW d \in Deliveries, Arrive(d)
      PROVE  QueueOwned'
  <2>1. /\ d[2] \in Agents /\ event[d] # None /\ event' = event
        /\ queue' = [queue EXCEPT ![d[2]] = Append(queue[d[2]], d)]
    BY <1>5 DEF Arrive, Deliveries
  <2>2. \A b \in Agents : b # d[2] => queue'[b] = queue[b]
    BY <2>1 DEF TypeOK
  <2>3. queue'[d[2]] = Append(queue[d[2]], d)
    BY <2>1 DEF TypeOK
  <2>4. ASSUME NEW i \in DOMAIN queue'[d[2]]
        PROVE  queue'[d[2]][i][2] = d[2] /\ event'[queue'[d[2]][i]] # None
    <3>1. /\ Len(queue[d[2]]) \in Nat /\ DOMAIN queue[d[2]] = 1..Len(queue[d[2]])
          /\ DOMAIN queue'[d[2]] = 1..(Len(queue[d[2]]) + 1)
          /\ \A j \in 1..Len(queue[d[2]]) : queue'[d[2]][j] = queue[d[2]][j]
          /\ queue'[d[2]][Len(queue[d[2]]) + 1] = d
      <4>1. queue[d[2]] \in Seq(Deliveries)
        BY <1>2, <2>1
      <4> QED
        BY <2>3, <4>1, AppendProperties
    <3>2. i \in 1..Len(queue[d[2]]) \/ i = Len(queue[d[2]]) + 1
      BY <3>1
    <3> QED
      BY <2>1, <3>1, <3>2 DEF Owned, QueueOwned
  <2> QED
    BY <1>3, <2>2, <2>4 DEF QueueOwned
<1>6. ASSUME NEW a \in Agents, DedupGate(a)
      PROVE  QueueOwned'
  <2>1. /\ queue[a] # <<>> /\ queue' = [queue EXCEPT ![a] = Tail(queue[a])] /\ event' = event
    BY <1>6 DEF DedupGate
  <2>2. \A b \in Agents : b # a => queue'[b] = queue[b]
    BY <2>1 DEF TypeOK
  <2>3. queue'[a] = Tail(queue[a])
    BY <2>1 DEF TypeOK
  <2>4. ASSUME NEW i \in DOMAIN queue'[a]
        PROVE  queue'[a][i][2] = a /\ event'[queue'[a][i]] # None
    <3>1. /\ DOMAIN queue'[a] = 1..(Len(queue[a]) - 1) /\ DOMAIN queue[a] = 1..Len(queue[a])
          /\ Len(queue[a]) \in Nat
          /\ \A j \in 1..(Len(queue[a]) - 1) : queue'[a][j] = queue[a][j + 1]
      <4>1. queue[a] \in Seq(Deliveries) /\ Len(queue[a]) \in Nat
        BY <1>2
      <4>2. /\ Tail(queue[a]) \in Seq(Deliveries) /\ Len(Tail(queue[a])) = Len(queue[a]) - 1
            /\ \A j \in 1..Len(Tail(queue[a])) : Tail(queue[a])[j] = queue[a][j + 1]
        BY <2>1, <4>1, HeadTailProperties
      <4>3. DOMAIN Tail(queue[a]) = 1..Len(Tail(queue[a])) /\ DOMAIN queue[a] = 1..Len(queue[a])
        BY <4>1, <4>2
      <4> QED
        BY <2>3, <4>1, <4>2, <4>3
    <3>2. i + 1 \in DOMAIN queue[a] /\ queue'[a][i] = queue[a][i + 1]
      BY <3>1
    <3> QED
      BY <2>1, <3>2 DEF Owned, QueueOwned
  <2> QED
    BY <1>3, <2>2, <2>4 DEF QueueOwned
<1>7. queue' = queue \/ (\E d \in Deliveries : Arrive(d)) \/ (\E a \in Agents : DedupGate(a))
  BY DEF Next, Step, WakeEnds, Tick, Happen, CoverageGate, RecheckGate, LockGate, BreakerGate,
         Launch, WakeOk, WakeStop, WakeFail, WakeCrash, LockAgent, Converge, Unlock
<1> QED
  BY <1>4, <1>5, <1>6, <1>7

\* What execute is given, executes and has executed stays of its agent and its moment.
LEMMA OwnedStep ==
  ASSUME PipelineAssumption, TypeOK, Owned, Next
  PROVE  Owned'
<1>1. Grows /\ now \in Nat /\ now' \in Nat /\ TypeOK'
  BY AlwaysGrows, TypeStep DEF TypeOK
<1>2. \A a \in Agents : exec[a] # None =>
        /\ exec[a] \in Executions /\ exec[a].d \in Deliveries /\ exec[a].d[2] = a
        /\ exec[a].asked \in Nat /\ exec[a].started \in Nat
        /\ event[exec[a].d] # None /\ event'[exec[a].d] # None
        /\ exec[a].asked <= now' /\ exec[a].started <= now'
  <2> TAKE a \in Agents
  <2> HAVE exec[a] # None
  <2>1. /\ exec[a] \in Executions /\ exec[a].d \in Deliveries
        /\ exec[a].asked \in Nat /\ exec[a].started \in Nat
    BY DEF TypeOK, Executions
  <2>2. /\ exec[a].d[2] = a /\ event[exec[a].d] # None
        /\ exec[a].asked <= now /\ exec[a].started <= now
    BY DEF Owned, ExecOwned
  <2> QED
    BY <1>1, <2>1, <2>2, EventsKept DEF Grows
<1>3. ASSUME NEW a \in Agents, NEW f \in ToSet(fates[a])
      PROVE  f.d[2] = a /\ event'[f.d] # None /\ f.at <= now' /\ f.started <= now'
  <2>1. f \in Fates /\ f.d \in Deliveries /\ f.at \in Nat /\ f.started \in Nat
    BY FatesIndexed DEF Fates
  <2>2. f.d[2] = a /\ event[f.d] # None /\ f.at <= now /\ f.started <= now
    BY DEF Owned, FatesOwned
  <2> QED
    BY <1>1, <2>1, <2>2, EventsKept DEF Grows
<1>4. CASE Waits
  <2>1. FatesOwned'
    BY <1>3, <1>4 DEF FatesOwned, Waits
  <2>2. ExecOwned'
    BY <1>2, <1>4 DEF ExecOwned, Waits, SameExec
  <2> QED
    BY <2>1, <2>2, QueueStep DEF Owned
<1>5. ASSUME NEW a \in Agents, Moves(a) \/ Begins(a)
      PROVE  Owned'
  <2>1. FatesOwned'
    BY <1>3, <1>5 DEF FatesOwned, Moves, Begins
  <2>2. \A b \in Agents : b # a => exec'[b] = exec[b]
    BY <1>5 DEF Moves, Begins
  <2>3. exec'[a] # None =>
          /\ exec'[a].d[2] = a /\ event'[exec'[a].d] # None
          /\ exec'[a].asked <= now' /\ exec'[a].started <= now'
    BY <1>1, <1>2, <1>5 DEF Moves, Begins
  <2>4. ExecOwned'
    BY <1>2, <2>2, <2>3 DEF ExecOwned
  <2> QED
    BY <2>1, <2>4, QueueStep DEF Owned
<1>6. ASSUME NEW a \in Agents, NEW x \in Executions, NEW how \in Hows, End(a, x, how),
             x.d[2] = a, event[x.d] # None, x.started <= now, now' = now
      PROVE  Owned'
  <2>1. /\ \A b \in Agents : b # a => fates'[b] = fates[b] /\ exec'[b] = exec[b]
        /\ exec'[a] = None
        /\ ToSet(fates'[a]) = ToSet(fates[a]) \cup {Fate(x, how)}
    BY <1>6, EndHistory
  <2>2. ExecOwned'
    BY <1>2, <2>1 DEF ExecOwned
  <2>3. x.d \in Deliveries /\ event'[x.d] # None
    BY <1>1, <1>6, EventsKept DEF Executions
  <2>4. \A f \in ToSet(fates'[a]) :
          f.d[2] = a /\ event'[f.d] # None /\ f.at <= now' /\ f.started <= now'
    BY <1>1, <1>3, <1>6, <2>1, <2>3 DEF Fate
  <2>5. FatesOwned'
    BY <1>3, <2>1, <2>4 DEF FatesOwned
  <2> QED
    BY <2>2, <2>5, QueueStep DEF Owned
<1>7. ASSUME NEW a \in Agents, NEW x \in Executions, NEW how \in Hows, Skips(a, x, how)
      PROVE  Owned'
  BY <1>6, <1>7 DEF Skips
<1>8. ASSUME NEW a \in Agents, NEW how \in Done, Completes(a, how)
      PROVE  Owned'
  <2>1. /\ exec[a] \in Executions /\ how \in Hows /\ exec[a].d[2] = a /\ event[exec[a].d] # None
        /\ exec[a].started <= now /\ now' = now /\ End(a, exec[a], how)
    BY <1>2, <1>8 DEF Completes, Hows, Launched, Owned, ExecOwned
  <2> QED
    BY <1>6, <2>1
<1> QED
  BY <1>4, <1>5, <1>7, <1>8, StepShape

\* The successes of an agent change when a wake of it succeeds or is stopped only.
LEMMA SuccessesKept ==
  ASSUME TypeOK, NEW a \in Agents, NEW x \in Executions, NEW how \in Hows, End(a, x, how)
  PROVE  /\ how \notin Done => \A b \in Agents : Successes(b)' = Successes(b)
         /\ how \in Done => /\ \A b \in Agents : b # a => Successes(b)' = Successes(b)
                            /\ Successes(a)' = Successes(a) \cup {Fate(x, how)}
<1>1. /\ \A b \in Agents : b # a => fates'[b] = fates[b]
      /\ ToSet(fates'[a]) = ToSet(fates[a]) \cup {Fate(x, how)}
  BY EndHistory
<1>2. Fate(x, how).how = how
  BY DEF Fate
<1> QED
  BY <1>1, <1>2 DEF Successes

\* What _wake completed is in its agent's history.
LEMMA SuccessesOwned ==
  ASSUME TypeOK, FatesOwned, NEW a \in Agents, NEW f \in Successes(a)
  PROVE  /\ f \in ToSet(fates[a]) /\ f \in Fates /\ f.how \in Done
         /\ f.d \in Deliveries /\ f.d[2] = a /\ event[f.d] # None
         /\ f.at \in Nat /\ f.started \in Nat /\ f.asked \in Nat
         /\ f.at <= now /\ f.started <= now
<1>1. f \in ToSet(fates[a]) /\ f \in Fates /\ f.how \in Done
  BY FatesIndexed DEF Successes
<1> QED
  BY <1>1 DEF FatesOwned, Fates

Marks == MarksEarned /\ SuccessesMarked /\ AskedLate

\* Every step, DeliveryDeduper's sweep and reclaim included, keeps the marks and what was
\* done in step.
LEMMA MarksStep ==
  ASSUME PipelineAssumption, TypeOK, Owned, Marks, Next
  PROVE  Marks'
<1>1. Grows /\ now \in Nat /\ now' \in Nat /\ now <= now' /\ Ttl \in Nat /\ None \notin Nat
  BY AlwaysGrows, TypeStep DEF TypeOK, Grows, PipelineAssumption
<1>2. ASSUME NEW a \in Agents, NEW f \in Successes(a)
      PROVE  f.d \in Deliveries /\ f.d[2] = a /\ f.at \in Nat /\ f.at <= now
  BY SuccessesOwned DEF Owned
<1>3. \A d \in Deliveries : d[2] \in Agents /\ seenAt[d] \in Nat \cup {None}
  BY DEF TypeOK, Deliveries
<1>4. \A a \in Agents : exec[a] # None => exec[a].d \in Deliveries /\ exec[a].asked \in Nat
  BY DEF TypeOK, Executions
\* Nothing is done: the marks of what was are kept or their time to live is over.
<1>5. ASSUME \A a \in Agents : Successes(a)' = Successes(a),
             \A d \in Deliveries :
               \/ seenAt'[d] = seenAt[d]
               \/ seenAt'[d] = None /\ (seenAt[d] # None => now - seenAt[d] >= Ttl)
      PROVE  MarksEarned' /\ SuccessesMarked'
  <2>1. MarksEarned'
    BY <1>3, <1>5 DEF MarksEarned, Marks
  <2>2. ASSUME NEW a \in Agents, NEW f \in Successes(a)
        PROVE  \/ seenAt'[f.d] # None /\ f.at <= seenAt'[f.d]
               \/ now' - f.at >= Ttl
    <3>1. f.d \in Deliveries /\ f.at \in Nat
      BY <1>2
    <3>2. (seenAt[f.d] # None /\ f.at <= seenAt[f.d]) \/ now - f.at >= Ttl
      BY DEF Marks, SuccessesMarked
    <3>3. \/ seenAt'[f.d] = seenAt[f.d]
          \/ seenAt'[f.d] = None /\ (seenAt[f.d] # None => now - seenAt[f.d] >= Ttl)
      BY <1>5, <3>1
    <3> QED
      BY <1>1, <1>3, <3>1, <3>2, <3>3
  <2>3. SuccessesMarked'
    BY <1>5, <2>2 DEF SuccessesMarked
  <2> QED
    BY <2>1, <2>3
<1>6. CASE Waits
  <2>1. UNCHANGED <<seenAt, fates>> /\ \A a \in Agents : Successes(a)' = Successes(a)
    BY <1>6 DEF Waits, Successes
  <2>2. MarksEarned' /\ SuccessesMarked'
    BY <1>5, <2>1
  <2>3. AskedLate'
    BY <1>6, <2>1 DEF Waits, SameExec, AskedLate, Marks
  <2> QED
    BY <2>2, <2>3 DEF Marks
<1>7. ASSUME NEW a \in Agents, Moves(a)
      PROVE  Marks'
  <2>1. UNCHANGED <<seenAt, fates>> /\ \A b \in Agents : Successes(b)' = Successes(b)
    BY <1>7 DEF Moves, Successes
  <2>2. MarksEarned' /\ SuccessesMarked'
    BY <1>5, <2>1
  <2>3. AskedLate'
    BY <1>7, <2>1 DEF Moves, AskedLate, Marks
  <2> QED
    BY <2>2, <2>3 DEF Marks
<1>8. ASSUME NEW a \in Agents, Begins(a)
      PROVE  Marks'
  <2> DEFINE d == exec'[a].d
  <2>1. /\ UNCHANGED <<now, fates>> /\ \A b \in Agents : Successes(b)' = Successes(b)
        /\ seenAt' = [seenAt EXCEPT ![d] = None] /\ ~Fresh(d)
        /\ \A b \in Agents : b # a => exec'[b] = exec[b]
        /\ exec'[a].asked = now /\ d \in Deliveries
    BY <1>8 DEF Begins, Successes
  <2> HIDE DEF d
  <2>2. seenAt[d] # None => (Ttl > 0 => now - seenAt[d] >= Ttl)
    BY <1>1, <1>3, <2>1 DEF Fresh
  <2>3. \A k \in Deliveries :
          \/ seenAt'[k] = seenAt[k]
          \/ seenAt'[k] = None /\ (seenAt[k] # None => now - seenAt[k] >= Ttl)
    <3> TAKE k \in Deliveries
    <3>1. CASE k # d
      BY <2>1, <3>1 DEF TypeOK
    <3>2. CASE k = d
      <4>1. seenAt'[k] = None
        BY <2>1, <3>2 DEF TypeOK
      <4>2. Ttl = 0 /\ seenAt[k] # None => now - seenAt[k] >= Ttl
        <5> SUFFICES ASSUME Ttl = 0, seenAt[k] # None
                     PROVE  now - seenAt[k] >= Ttl
          OBVIOUS
        <5>1. PICK f \in Successes(k[2]) : f.at = seenAt[k]
          BY DEF Marks, MarksEarned
        <5> QED
          BY <1>1, <1>2, <1>3, <5>1
      <4> QED
        BY <1>1, <2>2, <3>2, <4>1, <4>2
    <3> QED
      BY <3>1, <3>2
  <2>4. MarksEarned' /\ SuccessesMarked'
    BY <1>5, <2>1, <2>3
  <2>5. \A f \in Successes(a) : f.d = d => now - f.at >= Ttl
    <3> TAKE f \in Successes(a)
    <3> HAVE f.d = d
    <3>1. f.d \in Deliveries /\ f.at \in Nat /\ f.at <= now
      BY <1>2
    <3>2. (seenAt[f.d] # None /\ f.at <= seenAt[f.d]) \/ now - f.at >= Ttl
      BY DEF Marks, SuccessesMarked
    <3>3. seenAt[f.d] # None => (Ttl > 0 => now - seenAt[f.d] >= Ttl) /\ seenAt[f.d] \in Nat
      BY <1>3, <2>2, <3>1
    <3> QED
      BY <1>1, <3>1, <3>2, <3>3
  <2>6. AskedLate'
    BY <2>1, <2>5 DEF AskedLate, Marks, d
  <2> QED
    BY <2>4, <2>6 DEF Marks
<1>9. ASSUME NEW a \in Agents, NEW x \in Executions, NEW how \in Hows, Skips(a, x, how)
      PROVE  Marks'
  <2>1. /\ \A b \in Agents : Successes(b)' = Successes(b)
        /\ UNCHANGED <<now, seenAt>>
    BY <1>9, SuccessesKept DEF Skips
  <2>2. exec'[a] = None /\ \A b \in Agents : b # a => exec'[b] = exec[b]
    BY <1>9, EndHistory DEF Skips
  <2>3. MarksEarned' /\ SuccessesMarked'
    BY <1>5, <2>1
  <2>4. AskedLate'
    BY <2>1, <2>2 DEF AskedLate, Marks
  <2> QED
    BY <2>3, <2>4 DEF Marks
<1>10. ASSUME NEW a \in Agents, NEW how \in Done, Completes(a, how)
       PROVE  Marks'
  <2> DEFINE x == exec[a]
             done == Fate(x, how)
  <2>1. /\ x \in Executions /\ how \in Hows /\ x.d \in Deliveries /\ x.d[2] = a
        /\ End(a, x, how) /\ Mark(x.d) /\ UNCHANGED <<now, event>>
    BY <1>4, <1>10 DEF Completes, Hows, Launched, Owned, ExecOwned, TypeOK
  <2>2. /\ \A b \in Agents : b # a => Successes(b)' = Successes(b)
        /\ Successes(a)' = Successes(a) \cup {done}
    BY <2>1, SuccessesKept
  <2>3. exec'[a] = None /\ \A b \in Agents : b # a => exec'[b] = exec[b]
    BY <2>1, EndHistory
  <2>4. done.d = x.d /\ done.at = now
    BY DEF Fate
  <2>5. /\ seenAt' \in [Deliveries -> Nat \cup {None}]
        /\ Ttl # 0 => seenAt'[x.d] = now
        /\ \A k \in Deliveries :
             \/ seenAt'[k] = seenAt[k]
             \/ k = x.d /\ seenAt'[k] = now
             \/ seenAt'[k] = None /\ seenAt[k] \in Nat /\ now - seenAt[k] >= Ttl
    BY <2>1, MarkShape
  <2> HIDE DEF x, done
  <2>6. MarksEarned'
    <3> SUFFICES ASSUME NEW d \in Deliveries, seenAt'[d] # None
                 PROVE  \E f \in Successes(d[2])' : f.d = d /\ f.at = seenAt'[d]
      BY DEF MarksEarned
    <3>1. CASE d = x.d /\ seenAt'[d] = now
      BY <2>1, <2>2, <2>4, <3>1
    <3>2. CASE seenAt'[d] = seenAt[d]
      <4>1. PICK f \in Successes(d[2]) : f.d = d /\ f.at = seenAt[d]
        BY <3>2 DEF Marks, MarksEarned
      <4>2. f \in Successes(d[2])'
        BY <1>3, <2>2, <4>1
      <4> QED
        BY <3>2, <4>1, <4>2
    <3> QED
      BY <2>5, <3>1, <3>2
  <2>7. SuccessesMarked'
    <3> SUFFICES ASSUME NEW b \in Agents, NEW f \in Successes(b)'
                 PROVE  \/ seenAt'[f.d] # None /\ f.at <= seenAt'[f.d]
                        \/ now - f.at >= Ttl
      BY <2>1 DEF SuccessesMarked
    <3>1. CASE f = done
      BY <1>1, <2>4, <2>5, <3>1
    <3>2. CASE f \in Successes(b)
      <4>1. f.d \in Deliveries /\ f.at \in Nat /\ f.at <= now
        BY <1>2, <3>2
      <4>2. (seenAt[f.d] # None /\ f.at <= seenAt[f.d]) \/ now - f.at >= Ttl
        BY <3>2 DEF Marks, SuccessesMarked
      <4>3. \/ seenAt'[f.d] = seenAt[f.d]
            \/ seenAt'[f.d] = now
            \/ seenAt[f.d] \in Nat /\ now - seenAt[f.d] >= Ttl
        BY <2>5, <4>1
      <4> QED
        BY <1>1, <1>3, <4>1, <4>2, <4>3
    <3> QED
      BY <2>2, <3>1, <3>2
  <2>8. AskedLate'
    BY <2>2, <2>3 DEF AskedLate, Marks
  <2> QED
    BY <2>6, <2>7, <2>8 DEF Marks
<1> QED
  BY <1>6, <1>7, <1>8, <1>9, <1>10, StepShape

\* What WakeCoverage.record evicted by some moment is evicted now, and after the step.
LEMMA EvictedNow ==
  ASSUME PipelineAssumption, TypeOK, TypeOK', FatesOwned, Grows,
         NEW f \in Fates, event[f.d] # None, NEW t \in Nat, t <= now, Evicted(f, t)
  PROVE  Evicted(f, now)'
<1>1. PICK u \in Nat : u = now'
  BY DEF TypeOK
<1>2. t <= u
  BY <1>1 DEF Grows, TypeOK
<1>3. Evicted(f, u)'
  BY <1>2, EvictedStays
<1> QED
  BY <1>1, <1>3 DEF Evicted, RecordedSince

\* The executions that recorded a stream are those they were, when no other was done.
LEMMA RecordersKept ==
  ASSUME TypeOK, FatesOwned, Grows, NEW key, key[1] \in Agents
  PROVE  /\ Recorders(key) \subseteq Recorders(key)'
         /\ Successes(key[1])' = Successes(key[1]) => Recorders(key)' = Recorders(key)
<1>1. \A f \in Successes(key[1]) :
        (Stamped(f.d)' <=> Stamped(f.d)) /\ CoverageKey(f.d)' = CoverageKey(f.d)
  BY SuccessesOwned, EventsKept
<1>2. Successes(key[1]) \subseteq Successes(key[1])'
  BY DEF Successes, Grows
<1> QED
  BY <1>1, <1>2 DEF Recorders

\* Who recorded a stream did so for it.
LEMMA RecordersOwned ==
  ASSUME TypeOK, FatesOwned, NEW key, key[1] \in Agents, NEW f \in Recorders(key)
  PROVE  /\ f \in Successes(key[1]) /\ f \in Fates /\ f.d \in Deliveries /\ event[f.d] # None
         /\ Stamped(f.d) /\ CoverageKey(f.d) = key /\ f.d[2] = key[1]
         /\ f.at \in Nat /\ f.started \in Nat /\ f.at <= now /\ f.started <= now
<1>1. f \in Successes(key[1]) /\ Stamped(f.d) /\ CoverageKey(f.d) = key
  BY DEF Recorders
<1> QED
  BY <1>1, SuccessesOwned

\* A success that is stamped recorded a stream.
LEMMA SuccessRecorded ==
  ASSUME TypeOK, FatesOwned, NEW a \in Agents, NEW f \in Successes(a), Stamped(f.d)
  PROVE  /\ CoverageKey(f.d) \in Agents \X Streams /\ CoverageKey(f.d)[1] = a
         /\ f \in Recorders(CoverageKey(f.d))
<1>1. f.d \in Deliveries /\ f.d[2] = a /\ event[f.d] # None
  BY SuccessesOwned
<1>2. event[f.d].stream \in Streams
  BY <1>1 DEF TypeOK
<1>3. CoverageKey(f.d) = <<a, event[f.d].stream>>
  BY <1>1 DEF CoverageKey
<1> QED
  BY <1>2, <1>3 DEF Recorders

\* How the coverage can be read.
LEMMA CoverageIndexed ==
  ASSUME TypeOK
  PROVE  /\ coverage \in Seq(Entries) /\ Len(coverage) \in Nat
         /\ DOMAIN coverage = 1..Len(coverage)
         /\ \A i \in DOMAIN coverage :
              /\ coverage[i] \in Entries /\ coverage[i].started \in Nat
              /\ coverage[i].key \in Agents \X Streams /\ coverage[i].key[1] \in Agents
<1>1. coverage \in Seq(Entries)
  BY DEF TypeOK, Entries
<1>2. \A i \in DOMAIN coverage : coverage[i] \in Entries
  BY <1>1
<1> QED
  BY <1>1, <1>2 DEF Entries

Covers == CoverageEarned /\ CoverageInOrder /\ SuccessesCovered

\* The coverage stays as it is, and what is done did not record a stream.
LEMMA CoversQuiet ==
  ASSUME PipelineAssumption, TypeOK, TypeOK', Owned, Grows, Covers, coverage' = coverage,
         \A key \in Agents \X Streams : Recorders(key)' = Recorders(key),
         \A a \in Agents : \A f \in Successes(a)' : Stamped(f.d)' => f \in Successes(a)
  PROVE  Covers'
<1>0. now \in Nat /\ now <= now /\ FatesOwned
  BY DEF TypeOK, Owned
<1>1. \A i \in DOMAIN coverage : coverage[i].key \in Agents \X Streams
  BY CoverageIndexed
<1>2. CoverageEarned'
  BY <1>1 DEF Covers, CoverageEarned
<1>3. CoverageInOrder'
  <2> SUFFICES ASSUME NEW p \in DOMAIN coverage, NEW q \in DOMAIN coverage, p < q,
                      NEW f \in Recorders(coverage[p].key)'
               PROVE  \E g \in Recorders(coverage[q].key)' : f.at <= g.at
    BY DEF CoverageInOrder
  <2>1. /\ Recorders(coverage[p].key)' = Recorders(coverage[p].key)
        /\ Recorders(coverage[q].key)' = Recorders(coverage[q].key)
    BY <1>1
  <2> QED
    BY <2>1 DEF Covers, CoverageInOrder
<1>4. ASSUME NEW a \in Agents, NEW f \in Successes(a)', Stamped(f.d)'
      PROVE  (\/ \E i \in EntryOf(CoverageKey(f.d)) : coverage[i].started >= f.started
              \/ Evicted(f, now))'
  <2>1. f \in Successes(a) /\ f \in Fates /\ f.d \in Deliveries /\ event[f.d] # None
    BY <1>4, SuccessesOwned DEF Owned
  <2>2. Stamped(f.d) /\ CoverageKey(f.d)' = CoverageKey(f.d)
    BY <1>4, <2>1, EventsKept
  <2>3. CASE \E i \in EntryOf(CoverageKey(f.d)) : coverage[i].started >= f.started
    BY <2>2, <2>3 DEF EntryOf
  <2>4. CASE Evicted(f, now)
    BY <1>0, <2>1, <2>4, EvictedNow
  <2> QED
    BY <2>1, <2>2, <2>3, <2>4 DEF Covers, SuccessesCovered
<1> QED
  BY <1>2, <1>3, <1>4 DEF Covers, SuccessesCovered

\* A coverage full of streams recorded since a session evicts its own.
LEMMA FullEvicts ==
  ASSUME PipelineAssumption, TypeOK', NEW f, Len(coverage') = Capacity,
         \A j \in 1..Capacity : coverage'[j].key \in RecordedSince(f, now)'
  PROVE  Evicted(f, now)'
<1>1. PICK t : t = now'
  OBVIOUS
<1>2. RecordedSince(f, now)' = RecordedSince(f, t)'
  BY <1>1 DEF RecordedSince
<1>3. IsFiniteSet(RecordedSince(f, now)')
  BY <1>2, RecordedFinite
<1> DEFINE key == [j \in 1..Capacity |-> coverage'[j].key]
<1>4. Capacity \in Nat /\ DOMAIN coverage' = 1..Capacity
  BY DEF PipelineAssumption, TypeOK
<1>5. \A i, j \in 1..Capacity : coverage'[i].key = coverage'[j].key => i = j
  BY <1>4 DEF TypeOK
<1>6. key \in Injection(1..Capacity, RecordedSince(f, now)')
  <2> DEFINE S == RecordedSince(f, now)'
  <2>1. key \in [1..Capacity -> S]
    OBVIOUS
  <2>2. \A i, j \in 1..Capacity : key[i] = key[j] => i = j
    BY <1>5
  <2> HIDE DEF key, S
  <2>3. IsInjective(key)
    BY <2>1, <2>2 DEF IsInjective
  <2>4. key \in Injection(1..Capacity, S)
    BY <2>1, <2>3 DEF Injection
  <2> QED
    BY <2>4 DEF S
<1> HIDE DEF key
<1>7. Cardinality(1..Capacity) <= Cardinality(RecordedSince(f, now)')
  BY <1>3, <1>6, FS_Injection
<1>8. Cardinality(1..Capacity) = Capacity
  BY <1>4, FS_Interval
<1>9. Cardinality(RecordedSince(f, now)') \in Nat
  BY <1>3, FS_CardinalityType
<1> QED
  BY <1>4, <1>7, <1>8, <1>9 DEF Evicted

\* WakeCoverage.record keeps the coverage in step with what was done: the stream comes
\* last, a later start is kept, and what it evicts had enough streams recorded since.
LEMMA CoversRecorded ==
  ASSUME PipelineAssumption, TypeOK, TypeOK', Owned, Owned', Grows, Covers,
         NEW a \in Agents, NEW how \in Done, Completes(a, how),
         NEW x, x = exec[a], Stamped(x.d),
         NEW key, key = CoverageKey(x.d), NEW done, done = Fate(x, how)
  PROVE  Covers'
<1>0. PICK n : n = Len(coverage')
  OBVIOUS
<1>1. /\ x \in Executions /\ how \in Hows /\ x.d \in Deliveries /\ x.d[2] = a
      /\ event[x.d] # None /\ x.started \in Nat
      /\ Record(x.d, x.started) /\ End(a, x, how) /\ now' = now /\ event' = event
      /\ now \in Nat /\ FatesOwned
  BY DEF Completes, Hows, Launched, Owned, ExecOwned, TypeOK, Executions
<1>2. key \in Agents \X Streams /\ key[1] = a
  BY <1>1 DEF CoverageKey, TypeOK
<1>3. /\ done.d = x.d /\ done.at = now /\ done.started = x.started /\ done.how = how
      /\ done \in ToSet(fates'[a])
      /\ Successes(a)' = Successes(a) \cup {done}
      /\ \A b \in Agents : b # a => Successes(b)' = Successes(b)
  BY <1>1, EndHistory, SuccessesKept DEF Fate
<1>4. \A d : (Stamped(d)' <=> Stamped(d)) /\ CoverageKey(d)' = CoverageKey(d)
  BY <1>1 DEF Stamped, CoverageKey
<1>5. /\ Recorders(key)' = Recorders(key) \cup {done}
      /\ \A k \in Agents \X Streams : k # key => Recorders(k)' = Recorders(k)
  <2>1. Recorders(key)' = Recorders(key) \cup {done}
    BY <1>2, <1>3, <1>4 DEF Recorders
  <2>2. ASSUME NEW k \in Agents \X Streams, k # key
        PROVE  Recorders(k)' = Recorders(k)
    <3>1. k[1] \in Agents
      OBVIOUS
    <3>2. Successes(k[1])' = Successes(k[1]) \/ Successes(k[1])' = Successes(k[1]) \cup {done}
      BY <1>3, <3>1
    <3> QED
      BY <1>3, <1>4, <2>2, <3>2 DEF Recorders
  <2> QED
    BY <2>1, <2>2
<1>6. /\ coverage' \in Seq(Entries) /\ n \in 1..Capacity /\ coverage'[n].key = key
      /\ coverage'[n].started >= x.started
      /\ \A i \in EntryOf(key) : coverage'[n].started >= coverage[i].started
      /\ \/ coverage'[n].started = x.started
         \/ \E i \in EntryOf(key) : coverage'[n] = coverage[i]
  BY <1>0, <1>1, RecordShape
<1>7. PICK h \in [1..(n - 1) -> DOMAIN coverage] :
        /\ \A p \in 1..(n - 1) : coverage'[p] = coverage[h[p]] /\ coverage[h[p]].key # key
        /\ \A p, q \in 1..(n - 1) : p < q => h[p] < h[q]
        /\ \A i \in DOMAIN coverage : coverage[i].key # key =>
             \/ \E p \in 1..(n - 1) : h[p] = i
             \/ n = Capacity /\ \A p \in 1..(n - 1) : i < h[p]
  BY <1>0, <1>1, RecordShape
<1>8. n \in Nat /\ n >= 1 /\ DOMAIN coverage' = 1..n
  BY <1>0, <1>6 DEF PipelineAssumption
<1>9. \A p \in 1..n : p = n \/ p \in 1..(n - 1)
  BY <1>8
<1>10. /\ Recorders(coverage[n].key)' = Recorders(key) \cup {done}
       /\ \A p \in 1..(n - 1) :
            /\ h[p] \in DOMAIN coverage
            /\ coverage[h[p]].key \in Agents \X Streams /\ coverage[h[p]].key # key
            /\ Recorders(coverage[p].key)' = Recorders(coverage[h[p]].key)
  <2>1. Recorders(coverage[n].key)' = Recorders(key) \cup {done}
    BY <1>5, <1>6
  <2>2. ASSUME NEW p \in 1..(n - 1)
        PROVE  /\ h[p] \in DOMAIN coverage
               /\ coverage[h[p]].key \in Agents \X Streams /\ coverage[h[p]].key # key
               /\ Recorders(coverage[p].key)' = Recorders(coverage[h[p]].key)
    <3>1. /\ h[p] \in DOMAIN coverage /\ coverage'[p] = coverage[h[p]]
          /\ coverage[h[p]].key \in Agents \X Streams /\ coverage[h[p]].key # key
      BY <1>7, CoverageIndexed
    <3> QED
      BY <1>5, <3>1
  <2> QED
    BY <2>1, <2>2
<1>11. CoverageEarned'
  <2> SUFFICES ASSUME NEW p \in 1..n
               PROVE  \E f \in Recorders(coverage[p].key)' : f.started = coverage'[p].started
    BY <1>8 DEF CoverageEarned
  <2>1. CASE p = n
    <3>1. CASE coverage'[n].started = x.started
      BY <1>3, <1>10, <2>1, <3>1
    <3>2. ASSUME NEW i \in EntryOf(key), coverage'[n] = coverage[i]
          PROVE  \E f \in Recorders(key) : f.started = coverage'[n].started
      BY <3>2 DEF EntryOf, Covers, CoverageEarned
    <3> QED
      BY <1>6, <1>10, <2>1, <3>1, <3>2
  <2>2. CASE p \in 1..(n - 1)
    <3>1. \E f \in Recorders(coverage[h[p]].key) : f.started = coverage[h[p]].started
      BY <1>10, <2>2 DEF Covers, CoverageEarned
    <3> QED
      BY <1>7, <1>10, <2>2, <3>1
  <2> QED
    BY <1>9, <2>1, <2>2
<1>12. CoverageInOrder'
  <2> SUFFICES ASSUME NEW p \in 1..n, NEW q \in 1..n, p < q,
                      NEW f \in Recorders(coverage[p].key)'
               PROVE  \E g \in Recorders(coverage[q].key)' : f.at <= g.at
    BY <1>8 DEF CoverageInOrder
  <2>1. p \in 1..(n - 1) /\ f \in Recorders(coverage[h[p]].key)
    <3>1. p \in 1..(n - 1)
      BY <1>8
    <3> QED
      BY <1>10, <3>1
  <2>2. f.at <= now
    <3>1. coverage[h[p]].key[1] \in Agents
      BY <1>10, <2>1, CoverageIndexed
    <3> QED
      BY <1>1, <2>1, <3>1, RecordersOwned
  <2>3. CASE q = n
    BY <1>3, <1>10, <2>2, <2>3
  <2>4. CASE q \in 1..(n - 1)
    <3>1. h[p] < h[q] /\ h[p] \in DOMAIN coverage /\ h[q] \in DOMAIN coverage
      BY <1>7, <1>10, <2>1, <2>4
    <3>2. \E g \in Recorders(coverage[h[q]].key) : f.at <= g.at
      BY <2>1, <3>1 DEF Covers, CoverageInOrder
    <3> QED
      BY <1>10, <2>4, <3>2
  <2> QED
    BY <1>9, <2>3, <2>4
<1>13. SuccessesCovered'
  <2> SUFFICES ASSUME NEW b \in Agents, NEW f \in Successes(b)', Stamped(f.d)',
                      NEW k, k = CoverageKey(f.d)'
               PROVE  \/ \E p \in 1..n : coverage'[p].key = k /\ coverage'[p].started >= f.started
                      \/ Evicted(f, now)'
    BY <1>8 DEF SuccessesCovered, EntryOf
  <2>1. n \in 1..n
    BY <1>8
  <2>2. CASE f = done
    <3>1. k = key
      BY <1>3, <1>4, <2>2
    <3> QED
      BY <1>3, <1>6, <2>1, <2>2, <3>1
  <2>3. CASE f \in Successes(b)
    <3>1. /\ f \in Fates /\ event[f.d] # None /\ f.at \in Nat /\ f.at <= now /\ f.started \in Nat
          /\ Stamped(f.d) /\ k = CoverageKey(f.d)
      BY <1>1, <1>4, <2>3, SuccessesOwned
    <3>2. k \in Agents \X Streams /\ k[1] = b /\ f \in Recorders(k)
      BY <1>1, <2>3, <3>1, SuccessRecorded
    <3>3. CASE Evicted(f, now)
      <4>1. now <= now
        BY <1>1
      <4> QED
        BY <1>1, <3>1, <3>3, <4>1, EvictedNow
    <3>4. ASSUME NEW i \in EntryOf(k), coverage[i].started >= f.started, k = key
          PROVE  coverage'[n].started >= f.started
      <4>1. coverage'[n].started >= coverage[i].started /\ coverage[i].started \in Nat
        BY <1>6, <3>4, CoverageIndexed DEF EntryOf
      <4>2. coverage'[n].started \in Nat
        <5>1. coverage'[n] \in Entries
          BY <1>6, <1>8, <2>1
        <5> QED
          BY <5>1 DEF Entries
      <4> QED
        BY <3>1, <3>4, <4>1, <4>2
    <3>5. ASSUME NEW i \in EntryOf(k), coverage[i].started >= f.started, k # key,
                 NEW p \in 1..(n - 1), h[p] = i
          PROVE  p \in 1..n /\ coverage'[p].key = k /\ coverage'[p].started >= f.started
      <4>1. coverage'[p] = coverage[i] /\ p \in 1..n
        BY <1>7, <1>8, <3>5
      <4> QED
        BY <3>5, <4>1 DEF EntryOf
    <3>6. ASSUME NEW i \in EntryOf(k), k # key, n = Capacity, \A p \in 1..(n - 1) : i < h[p]
          PROVE  Evicted(f, now)'
      <4> SUFFICES ASSUME NEW j \in 1..n
                   PROVE  coverage'[j].key \in RecordedSince(f, now)'
        BY <1>0, <3>6, FullEvicts
      <4>1. ASSUME NEW c \in Agents, NEW g \in ToSet(fates'[c]), g.how \in Done, Stamped(g.d)',
                   g.at \in f.at..now, CoverageKey(g.d)' # k
            PROVE  CoverageKey(g.d)' \in RecordedSince(f, now)'
        BY <1>1, <1>4, <3>1, <4>1 DEF RecordedSince
      <4>2. CASE j = n
        <5>1. done.at \in f.at..now /\ done.how \in Done /\ Stamped(done.d)'
          BY <1>1, <1>3, <1>4, <3>1
        <5>2. CoverageKey(done.d)' = key
          BY <1>3, <1>4
        <5> QED
          BY <1>3, <1>6, <3>6, <4>1, <4>2, <5>1, <5>2
      <4>3. CASE j \in 1..(n - 1)
        <5>1. /\ coverage'[j] = coverage[h[j]] /\ h[j] \in DOMAIN coverage /\ i \in DOMAIN coverage
              /\ i < h[j] /\ coverage[i].key = k
          BY <1>7, <1>10, <3>6, <4>3 DEF EntryOf
        <5>2. PICK g \in Recorders(coverage[h[j]].key) : f.at <= g.at
          BY <3>2, <5>1 DEF Covers, CoverageInOrder
        <5> DEFINE c == coverage[h[j]].key[1]
        <5>3. /\ c \in Agents /\ g \in Successes(c) /\ Stamped(g.d) /\ g.at \in Nat /\ g.at <= now
              /\ CoverageKey(g.d) = coverage[h[j]].key
          BY <1>1, <5>1, <5>2, CoverageIndexed, RecordersOwned
        <5>4. g.how \in Done /\ g \in ToSet(fates'[c])
          BY <5>3 DEF Successes, Grows
        <5>5. coverage[h[j]].key # k
          <6>1. i # h[j]
            BY <5>1, CoverageIndexed
          <6> QED
            BY <5>1, <6>1 DEF TypeOK
        <5>6. g.at \in f.at..now
          BY <1>1, <3>1, <5>2, <5>3
        <5> QED
          BY <1>4, <4>1, <5>1, <5>3, <5>4, <5>5, <5>6
      <4> QED
        BY <1>9, <4>2, <4>3
    <3>7. ASSUME NEW i \in EntryOf(k), coverage[i].started >= f.started
          PROVE  \/ \E p \in 1..n : coverage'[p].key = k /\ coverage'[p].started >= f.started
                 \/ Evicted(f, now)'
      <4>1. CASE k = key
        BY <1>6, <2>1, <3>4, <3>7, <4>1
      <4>2. CASE k # key
        <5>1. \/ \E p \in 1..(n - 1) : h[p] = i
              \/ n = Capacity /\ \A p \in 1..(n - 1) : i < h[p]
          BY <1>7, <4>2 DEF EntryOf
        <5> QED
          BY <3>5, <3>6, <3>7, <4>2, <5>1
      <4> QED
        BY <4>1, <4>2
    <3> QED
      BY <2>3, <3>1, <3>3, <3>7 DEF Covers, SuccessesCovered
  <2> QED
    BY <1>3, <2>2, <2>3
<1> QED
  BY <1>11, <1>12, <1>13 DEF Covers

\* No step breaks the coverage's relation to what was done.
LEMMA CoversStep ==
  ASSUME PipelineAssumption, TypeOK, Owned, Covers, Next
  PROVE  Covers'
<1>1. TypeOK' /\ Owned' /\ Grows /\ FatesOwned
  BY TypeStep, OwnedStep, AlwaysGrows DEF Owned
<1>2. ASSUME coverage' = coverage,
             \A b \in Agents : \A f \in Successes(b)' : Stamped(f.d)' => f \in Successes(b)
      PROVE  Covers'
  <2>1. ASSUME NEW key \in Agents \X Streams
        PROVE  Recorders(key)' = Recorders(key)
    <3>1. key[1] \in Agents
      OBVIOUS
    <3>2. Recorders(key) \subseteq Recorders(key)'
      BY <1>1, <3>1, RecordersKept
    <3>3. ASSUME NEW f \in Recorders(key)'
          PROVE  f \in Recorders(key)
      <4>1. f \in Successes(key[1])' /\ Stamped(f.d)' /\ CoverageKey(f.d)' = key
        BY <3>3 DEF Recorders
      <4>2. f \in Successes(key[1]) /\ f.d \in Deliveries /\ event[f.d] # None
        BY <1>1, <1>2, <3>1, <4>1, SuccessesOwned
      <4>3. Stamped(f.d) /\ CoverageKey(f.d) = key
        BY <1>1, <4>1, <4>2, EventsKept
      <4> QED
        BY <4>2, <4>3 DEF Recorders
    <3> QED
      BY <3>2, <3>3
  <2> QED
    BY <1>1, <1>2, <2>1, CoversQuiet
<1>3. ASSUME coverage' = coverage, fates' = fates
      PROVE  Covers'
  <2>1. \A b \in Agents : Successes(b)' = Successes(b)
    BY <1>3 DEF Successes
  <2> QED
    BY <1>2, <1>3, <2>1
<1>4. CASE Waits
  BY <1>3, <1>4 DEF Waits
<1>5. ASSUME NEW a \in Agents, Moves(a) \/ Begins(a)
      PROVE  Covers'
  BY <1>3, <1>5 DEF Moves, Begins
<1>6. ASSUME NEW a \in Agents, NEW x \in Executions, NEW how \in Hows, Skips(a, x, how)
      PROVE  Covers'
  <2>1. coverage' = coverage /\ \A b \in Agents : Successes(b)' = Successes(b)
    BY <1>6, SuccessesKept DEF Skips
  <2> QED
    BY <1>2, <2>1
<1>7. ASSUME NEW a \in Agents, NEW how \in Done, Completes(a, how)
      PROVE  Covers'
  <2>1. CASE Stamped(exec[a].d)
    BY <1>1, <1>7, <2>1, CoversRecorded
  <2>2. CASE ~Stamped(exec[a].d)
    <3>1. /\ exec[a] \in Executions /\ how \in Hows /\ End(a, exec[a], how)
          /\ Record(exec[a].d, exec[a].started) /\ event' = event
      BY <1>7 DEF Completes, TypeOK, Hows, Launched
    <3>2. coverage' = coverage
      BY <2>2, <3>1 DEF Record
    <3>3. /\ \A b \in Agents : b # a => Successes(b)' = Successes(b)
          /\ Successes(a)' = Successes(a) \cup {Fate(exec[a], how)}
      BY <1>7, <3>1, SuccessesKept
    <3>4. Fate(exec[a], how).d = exec[a].d
      BY DEF Fate
    <3>5. ASSUME NEW b \in Agents, NEW f \in Successes(b)', Stamped(f.d)'
          PROVE  f \in Successes(b)
      <4>1. Stamped(f.d)
        BY <3>1, <3>5 DEF Stamped
      <4>2. f # Fate(exec[a], how)
        BY <2>2, <3>4, <4>1
      <4> QED
        BY <3>3, <3>5, <4>2
    <3> QED
      BY <1>2, <3>2, <3>5
  <2> QED
    BY <2>1, <2>2
<1> QED
  BY <1>4, <1>5, <1>6, <1>7, StepShape

-----------------------------------------------------------------------------
(* Past the coverage gate.                                                 *)

\* Until when the sessions an execution may have missed are evicted: its launch.
LaunchBy(a) == IF exec[a].step = "run" THEN exec[a].started ELSE now

\* An execution past the coverage gate stays so, however late it launches.
LEMMA PassedOn ==
  ASSUME PipelineAssumption, TypeOK, TypeOK', Owned, Owned', Grows,
         NEW a \in Agents, Passed(a),
         exec[a] # None, exec[a].step # "covering", exec'[a] # None => exec'[a].d = exec[a].d,
         Successes(a)' = Successes(a),
         exec'[a] # None => LaunchBy(a) <= LaunchBy(a)'
  PROVE  Passed(a)'
<1> SUFFICES ASSUME exec'[a] # None, Stamped(exec[a].d)', NEW d, d = exec[a].d,
                    NEW f \in Recorders(CoverageKey(d))',
                    NEW u, u = LaunchBy(a)', NEW t, t = LaunchBy(a)
             PROVE  Occurred(d)' >= f.started \/ Evicted(f, u)'
  BY DEF Passed, LaunchBy, Evicted, RecordedSince
<1>1. /\ FatesOwned /\ exec[a] \in Executions /\ d \in Deliveries
      /\ d[2] = a /\ event[d] # None
  BY DEF TypeOK, Executions, Owned, ExecOwned
<1>2. /\ CoverageKey(d)' = CoverageKey(d) /\ Stamped(d) /\ Occurred(d)' = Occurred(d)
      /\ CoverageKey(d)[1] = a
  BY <1>1, EventsKept DEF CoverageKey
<1>3. f \in Recorders(CoverageKey(d))
  <2>1. Recorders(CoverageKey(d))' = Recorders(CoverageKey(d))
    <3>1. PICK key : key = CoverageKey(d)
      OBVIOUS
    <3>2. Recorders(key)' = Recorders(key)
      BY <1>1, <1>2, <3>1, RecordersKept
    <3> QED
      BY <1>2, <3>1, <3>2 DEF Recorders
  <2> QED
    BY <2>1
<1>4. Occurred(d) >= f.started \/ Evicted(f, t)
  BY <1>2, <1>3 DEF Passed, LaunchBy
<1>5. f \in Fates /\ event[f.d] # None
  BY <1>1, <1>2, <1>3, RecordersOwned
<1>6. t \in Nat /\ u \in Nat /\ t <= u
  <2>1. now \in Nat /\ now' \in Nat /\ exec[a].started \in Nat
    BY <1>1 DEF TypeOK, Executions
  <2>2. exec'[a].started \in Nat
    BY DEF TypeOK, Executions
  <2> QED
    BY <2>1, <2>2 DEF LaunchBy
<1> QED
  BY <1>1, <1>2, <1>4, <1>5, <1>6, EvictedStays

\* No step makes an execution past the coverage gate one that a session of its stream
\* should have covered.
LEMMA PassedStep ==
  ASSUME PipelineAssumption, TypeOK, Owned, SuccessesCovered, PassedCoverage, Next
  PROVE  PassedCoverage'
<1>1. /\ TypeOK' /\ Owned' /\ Grows /\ FatesOwned
      /\ now \in Nat /\ now' \in Nat /\ now <= now /\ now <= now'
  <2>1. TypeOK' /\ Owned' /\ Grows
    BY TypeStep, OwnedStep, AlwaysGrows
  <2> QED
    BY <2>1 DEF Owned, TypeOK, Grows
<1>2. ASSUME NEW b \in Agents, SameExec(exec[b], exec'[b]), Successes(b)' = Successes(b)
      PROVE  Passed(b)'
  <2>1. CASE exec'[b] = None \/ exec'[b].step = "covering"
    BY <2>1 DEF Passed
  <2>2. CASE exec'[b] # None /\ exec'[b].step # "covering"
    <3>1. /\ exec[b] # None /\ exec[b].step # "covering" /\ exec'[b].d = exec[b].d
          /\ exec'[b].step = exec[b].step /\ exec'[b].started = exec[b].started
      BY <1>2, <2>2 DEF SameExec
    <3>2. exec[b].started \in Nat
      BY <3>1 DEF TypeOK, Executions
    <3>3. LaunchBy(b) <= LaunchBy(b)'
      BY <1>1, <3>1, <3>2 DEF LaunchBy
    <3> QED
      BY <1>1, <1>2, <3>1, <3>3, PassedOn DEF PassedCoverage
  <2> QED
    BY <2>1, <2>2
<1>3. \A b \in Agents : exec'[b] = exec[b] => SameExec(exec[b], exec'[b])
  BY DEF SameExec
<1>4. CASE Waits
  <2>1. \A b \in Agents : SameExec(exec[b], exec'[b]) /\ Successes(b)' = Successes(b)
    BY <1>4 DEF Waits, Successes
  <2> QED
    BY <1>2, <2>1 DEF PassedCoverage
<1>5. ASSUME NEW a \in Agents, Moves(a)
      PROVE  PassedCoverage'
  <2>1. /\ \A b \in Agents : Successes(b)' = Successes(b)
        /\ \A b \in Agents : b # a => exec'[b] = exec[b]
        /\ exec[a] # None /\ exec'[a].d = exec[a].d /\ exec[a] \in Executions
        /\ exec[a].started \in Nat /\ now' = now
    BY <1>5 DEF Moves, Successes, TypeOK, Executions
  <2>2. CASE exec[a].step = "covering"
    <3> SUFFICES ASSUME NEW d, d = exec[a].d, exec'[a].step = "recheck", ~Covered(d),
                        Stamped(d)', NEW key, key = CoverageKey(d)',
                        NEW f \in Recorders(key)'
                 PROVE  Occurred(d)' >= f.started \/ Evicted(f, now)'
      <4>1. exec'[a].step = "recheck" /\ ~Covered(exec[a].d)
        BY <1>5, <2>2 DEF Moves
      <4>2. Passed(a)'
        BY <2>1, <4>1 DEF Passed
      <4> QED
        BY <1>2, <1>3, <2>1, <4>2 DEF PassedCoverage
    <3>1. d \in Deliveries /\ d[2] = a /\ event[d] # None
      BY <2>1 DEF Executions, Owned, ExecOwned
    <3>2. CoverageKey(d) = key /\ Stamped(d) /\ Occurred(d)' = Occurred(d) /\ key[1] = a
      BY <1>1, <3>1, EventsKept DEF CoverageKey
    <3>3. f \in Recorders(key)
      BY <1>1, <2>1, <3>2, RecordersKept
    <3>4. /\ f \in Successes(a) /\ f \in Fates /\ event[f.d] # None /\ f.started \in Nat
          /\ Stamped(f.d) /\ CoverageKey(f.d) = key
      BY <1>1, <3>2, <3>3, RecordersOwned
    <3>5. CASE Evicted(f, now)
      BY <1>1, <3>4, <3>5, EvictedNow
    <3>6. ASSUME NEW i \in EntryOf(key), coverage[i].started >= f.started
          PROVE  Occurred(d) >= f.started
      <4>1. ~(Occurred(d) < coverage[i].started)
        BY <3>2, <3>6 DEF Covered
      <4>2. coverage[i].started \in Nat
        BY <3>6, CoverageIndexed DEF EntryOf
      <4>3. Occurred(d) \in Int
        <5>1. event[d].at \in Nat /\ TicksPerSecond \in Nat \ {0}
          BY <3>1 DEF TypeOK, PipelineAssumption
        <5> QED
          BY <5>1 DEF Occurred
      <4> QED
        BY <3>4, <3>6, <4>1, <4>2, <4>3
    <3> QED
      BY <3>2, <3>4, <3>5, <3>6 DEF SuccessesCovered
  <2>3. CASE exec[a].step # "covering"
    <3>1. exec[a].started <= now
      BY <2>1 DEF Owned, ExecOwned
    <3>2. LaunchBy(a) <= LaunchBy(a)'
      BY <1>1, <1>5, <2>1, <3>1 DEF LaunchBy, Moves
    <3>3. Passed(a)'
      BY <1>1, <2>1, <2>3, <3>2, PassedOn DEF PassedCoverage
    <3> QED
      BY <1>2, <1>3, <2>1, <3>3 DEF PassedCoverage
  <2> QED
    BY <2>2, <2>3
<1>6. ASSUME NEW a \in Agents, Begins(a)
      PROVE  PassedCoverage'
  <2>1. /\ \A b \in Agents : Successes(b)' = Successes(b)
        /\ \A b \in Agents : b # a => exec'[b] = exec[b]
        /\ exec'[a].step = "covering"
    BY <1>6 DEF Begins, Successes
  <2>2. Passed(a)'
    BY <2>1 DEF Passed
  <2> QED
    BY <1>2, <1>3, <2>1, <2>2 DEF PassedCoverage
<1>7. ASSUME NEW a \in Agents, NEW x \in Executions, NEW how \in Hows, End(a, x, how)
      PROVE  PassedCoverage'
  <2>1. /\ \A b \in Agents : b # a => Successes(b)' = Successes(b) /\ exec'[b] = exec[b]
        /\ exec'[a] = None
    BY <1>7, EndHistory, SuccessesKept
  <2>2. Passed(a)'
    BY <2>1 DEF Passed
  <2> QED
    BY <1>2, <1>3, <2>1, <2>2 DEF PassedCoverage
<1>8. ASSUME NEW a \in Agents, NEW how \in Done, Completes(a, how)
      PROVE  PassedCoverage'
  BY <1>7, <1>8 DEF Completes, TypeOK, Hows, Launched
<1> QED
  BY <1>4, <1>5, <1>6, <1>7, <1>8, StepShape DEF Skips

-----------------------------------------------------------------------------
(* What the history says.                                                  *)

\* a's execution x ends, for good or not.
Ends(a, x, how) ==
  /\ x \in Executions /\ how \in Hows /\ End(a, x, how)
  /\ x.d \in Deliveries /\ x.d[2] = a /\ event[x.d] # None
  /\ how = "deduped" => Fresh(x.d) /\ x.asked = now
  /\ how = "coalesced" => Covered(x.d)
  /\ how \in Launched => exec[a] # None /\ x = exec[a] /\ x.step = "run"

\* A step adds to the history of an agent the end of its execution, or nothing.
LEMMA HistoryStep ==
  ASSUME PipelineAssumption, TypeOK, Owned, Next, NEW a \in Agents
  PROVE  fates'[a] = fates[a] \/ \E x \in Executions : \E how \in Hows : Ends(a, x, how)
<1>1. CASE Waits
  BY <1>1 DEF Waits
<1>2. ASSUME NEW b \in Agents, Moves(b) \/ Begins(b)
      PROVE  fates'[a] = fates[a]
  BY <1>2 DEF Moves, Begins
<1>3. ASSUME NEW b \in Agents, NEW x \in Executions, NEW how \in Hows, Skips(b, x, how)
      PROVE  IF a = b THEN Ends(a, x, how) ELSE fates'[a] = fates[a]
  BY <1>3, EndHistory DEF Skips, Ends, Executions
<1>4. ASSUME NEW b \in Agents, NEW how \in Done, Completes(b, how)
      PROVE  /\ exec[b] \in Executions /\ how \in Hows
             /\ IF a = b THEN Ends(a, exec[b], how) ELSE fates'[a] = fates[a]
  <2>1. /\ exec[b] \in Executions /\ exec[b].d \in Deliveries /\ exec[b].d[2] = b
        /\ event[exec[b].d] # None /\ how \in Hows /\ how # "deduped" /\ how # "coalesced"
        /\ exec[b] # None /\ exec[b].step = "run" /\ End(b, exec[b], how)
    BY <1>4 DEF Completes, TypeOK, Executions, Owned, ExecOwned, Hows, Launched, Done
  <2> QED
    BY <2>1, EndHistory DEF Ends
<1> QED
  BY <1>1, <1>2, <1>3, <1>4, StepShape

\* The successes of an agent are in its history.
LEMMA SuccessIndexed ==
  ASSUME TypeOK, NEW a \in Agents, NEW f \in Successes(a)
  PROVE  \E i \in 1..Len(fates[a]) : fates[a][i] = f /\ f.how \in Done
BY FatesIndexed DEF Successes

\* The moment of an event is less than a second after its stamp.
LEMMA StampTruncates ==
  ASSUME PipelineAssumption, TypeOK, NEW d \in Deliveries, event[d] # None
  PROVE  /\ Occurred(d) \in Nat /\ event[d].at \in Nat
         /\ Occurred(d) <= event[d].at /\ event[d].at < Occurred(d) + TicksPerSecond
<1>1. event[d].at \in Nat /\ TicksPerSecond \in Nat \ {0}
  BY DEF TypeOK, PipelineAssumption
<1>2. ASSUME NEW t \in Nat, NEW n \in Nat \ {0}
      PROVE  (t \div n) * n \in Nat /\ (t \div n) * n <= t /\ t < (t \div n) * n + n
  OBVIOUS
<1> QED
  BY <1>1, <1>2 DEF Occurred

\* A delivery that launches nothing was taken care of by then.
LEMMA SkippedStep ==
  ASSUME PipelineAssumption, TypeOK, Owned, Marks, CoverageEarned, SkippedWasDone, Next
  PROVE  SkippedWasDone'
<1> SUFFICES ASSUME NEW a \in Agents, NEW i \in DOMAIN fates'[a], NEW s, s = fates'[a][i]
             PROVE  \/ s.how \notin {"coalesced", "deduped"}
                    \/ \E j \in 1..(i - 1) :
                         /\ fates'[a][j].how \in Done
                         /\ s.how = "coalesced" =>
                              /\ event'[fates'[a][j].d].stream = event'[s.d].stream
                              /\ event'[s.d].at < fates'[a][j].started + TicksPerSecond
                         /\ s.how = "deduped" =>
                              fates'[a][j].d = s.d /\ s.asked - fates'[a][j].at < Ttl
  BY DEF SkippedWasDone
<1>1. Grows /\ FatesOwned /\ now \in Nat
  BY AlwaysGrows DEF Owned, TypeOK
<1>2. /\ Len(fates[a]) \in Nat /\ DOMAIN fates[a] = 1..Len(fates[a])
      /\ \A j \in 1..Len(fates[a]) :
           fates[a][j].d \in Deliveries /\ event'[fates[a][j].d] = event[fates[a][j].d]
  <2>1. /\ Len(fates[a]) \in Nat /\ DOMAIN fates[a] = 1..Len(fates[a])
        /\ \A j \in 1..Len(fates[a]) : fates[a][j] \in Fates /\ fates[a][j] \in ToSet(fates[a])
    BY FatesIndexed
  <2>2. \A j \in 1..Len(fates[a]) : fates[a][j].d \in Deliveries /\ event[fates[a][j].d] # None
    BY <1>1, <2>1 DEF Fates, FatesOwned
  <2> QED
    BY <1>1, <2>1, <2>2, EventsKept
<1> DEFINE Answers(j) ==
             /\ fates'[a][j].how \in Done
             /\ s.how = "coalesced" =>
                  /\ event'[fates'[a][j].d].stream = event'[s.d].stream
                  /\ event'[s.d].at < fates'[a][j].started + TicksPerSecond
             /\ s.how = "deduped" =>
                  fates'[a][j].d = s.d /\ s.asked - fates'[a][j].at < Ttl
<1>3. ASSUME i \in 1..Len(fates[a]), \A j \in 1..Len(fates[a]) : fates'[a][j] = fates[a][j],
             s.how \in {"coalesced", "deduped"}
      PROVE  \E j \in 1..(i - 1) : Answers(j)
  <2>1. s = fates[a][i] /\ event'[s.d] = event[s.d]
    BY <1>2, <1>3
  <2>2. PICK j \in 1..(i - 1) :
          /\ fates[a][j].how \in Done
          /\ s.how = "coalesced" =>
               /\ event[fates[a][j].d].stream = event[s.d].stream
               /\ event[s.d].at < fates[a][j].started + TicksPerSecond
          /\ s.how = "deduped" => fates[a][j].d = s.d /\ s.asked - fates[a][j].at < Ttl
    <3> DEFINE before == {fates[a][k] : k \in {l \in 1..(i - 1) : fates[a][l].how \in Done}}
    <3>1. \E f \in before :
            /\ s.how = "coalesced" => /\ event[f.d].stream = event[s.d].stream
                                      /\ event[s.d].at < f.started + TicksPerSecond
            /\ s.how = "deduped" => f.d = s.d /\ s.asked - f.at < Ttl
      <4>1. /\ s.how = "coalesced" => \E f \in before :
                 event[f.d].stream = event[s.d].stream /\ event[s.d].at < f.started + TicksPerSecond
            /\ s.how = "deduped" => \E f \in before : f.d = s.d /\ s.asked - f.at < Ttl
        <5>1. i \in DOMAIN fates[a]
          BY <1>2, <1>3
        <5>2. /\ fates[a][i].how = "coalesced" => \E f \in before :
                   /\ event[f.d].stream = event[fates[a][i].d].stream
                   /\ event[fates[a][i].d].at < f.started + TicksPerSecond
              /\ fates[a][i].how = "deduped" => \E f \in before :
                   f.d = fates[a][i].d /\ fates[a][i].asked - f.at < Ttl
          BY <5>1, Zenon DEF SkippedWasDone
        <5> HIDE DEF before
        <5> QED
          BY <2>1, <5>2, Zenon
      <4> HIDE DEF before
      <4>2. CASE s.how = "coalesced"
        BY <4>1, <4>2
      <4>3. CASE s.how = "deduped"
        BY <4>1, <4>3
      <4> QED
        BY <1>3, <4>2, <4>3
    <3>2. PICK f \in before :
            /\ s.how = "coalesced" => /\ event[f.d].stream = event[s.d].stream
                                      /\ event[s.d].at < f.started + TicksPerSecond
            /\ s.how = "deduped" => f.d = s.d /\ s.asked - f.at < Ttl
      BY <3>1
    <3>3. PICK k \in 1..(i - 1) : fates[a][k].how \in Done /\ f = fates[a][k]
      OBVIOUS
    <3> QED
      BY <3>2, <3>3
  <2>3. j \in 1..Len(fates[a])
    BY <1>2, <1>3
  <2>4. /\ fates'[a][j] = fates[a][j]
        /\ event'[fates[a][j].d] = event[fates[a][j].d]
    BY <1>2, <1>3, <2>3
  <2>5. Answers(j)
    BY <2>1, <2>2, <2>4
  <2> HIDE DEF Answers
  <2> QED
    BY <2>5
<1>4. CASE fates'[a] = fates[a]
  BY <1>2, <1>3, <1>4
<1>5. ASSUME NEW x \in Executions, NEW how \in Hows, Ends(a, x, how)
      PROVE  (\E j \in 1..(i - 1) : Answers(j)) \/ s.how \notin {"coalesced", "deduped"}
  <2>1. /\ DOMAIN fates'[a] = 1..(Len(fates[a]) + 1)
        /\ \A j \in 1..Len(fates[a]) : fates'[a][j] = fates[a][j]
        /\ fates'[a][Len(fates[a]) + 1] = Fate(x, how)
    BY <1>5, EndHistory DEF Ends
  <2>2. CASE i \in 1..Len(fates[a])
    BY <1>3, <2>1, <2>2
  <2>3. CASE i = Len(fates[a]) + 1
    <3>1. s.how = how /\ s.d = x.d /\ s.asked = x.asked
      BY <2>1, <2>3 DEF Fate
    <3>2. /\ x.d \in Deliveries /\ event[x.d] # None /\ event'[x.d] = event[x.d]
          /\ x.d[2] = a
      BY <1>1, <1>5, EventsKept DEF Ends
    <3>3. ASSUME NEW f \in Successes(a),
                 how = "coalesced" => /\ event[f.d].stream = event[x.d].stream
                                      /\ event[x.d].at < f.started + TicksPerSecond,
                 how = "deduped" => f.d = x.d /\ x.asked - f.at < Ttl
          PROVE  \E j \in 1..(i - 1) : Answers(j)
      <4>1. PICK j \in 1..Len(fates[a]) : fates[a][j] = f /\ f.how \in Done
        BY SuccessIndexed
      <4>2. j \in 1..(i - 1) /\ fates'[a][j] = f
        BY <1>2, <2>1, <2>3, <4>1
      <4>3. event'[f.d] = event[f.d]
        BY <1>2, <4>1
      <4>4. Answers(j)
        BY <3>1, <3>2, <3>3, <4>1, <4>2, <4>3
      <4> QED
        BY <4>2, <4>4
    <3>4. CASE how = "coalesced"
      <4>1. Covered(x.d)
        BY <1>5, <3>4 DEF Ends
      <4>2. PICK k \in EntryOf(CoverageKey(x.d)) : Occurred(x.d) < coverage[k].started
        BY <4>1 DEF Covered
      <4>3. k \in DOMAIN coverage /\ coverage[k].key = CoverageKey(x.d)
        BY <4>2 DEF EntryOf
      <4>4. PICK f \in Recorders(CoverageKey(x.d)) : f.started = coverage[k].started
        BY <4>3 DEF CoverageEarned
      <4>5. CoverageKey(x.d) = <<a, event[x.d].stream>> /\ CoverageKey(x.d)[1] = a
        BY <3>2 DEF CoverageKey
      <4>6. f \in Successes(a) /\ CoverageKey(f.d) = CoverageKey(x.d) /\ f.started \in Nat
        BY <1>1, <4>4, <4>5, RecordersOwned
      <4>7. event[f.d].stream = event[x.d].stream
        BY <4>5, <4>6 DEF CoverageKey
      <4>8. event[x.d].at < f.started + TicksPerSecond
        <5>1. /\ Occurred(x.d) \in Nat /\ event[x.d].at \in Nat
              /\ event[x.d].at < Occurred(x.d) + TicksPerSecond /\ TicksPerSecond \in Nat
          BY <3>2, StampTruncates DEF PipelineAssumption
        <5>2. Occurred(x.d) < f.started
          BY <4>2, <4>4
        <5> QED
          BY <4>6, <5>1, <5>2
      <4> QED
        BY <3>3, <3>4, <4>6, <4>7, <4>8
    <3>5. CASE how = "deduped"
      <4>1. seenAt[x.d] # None /\ now - seenAt[x.d] < Ttl /\ x.asked = now
        BY <1>5, <3>5 DEF Ends, Fresh
      <4>2. PICK f \in Successes(a) : f.d = x.d /\ f.at = seenAt[x.d]
        BY <3>2, <4>1 DEF Marks, MarksEarned
      <4> QED
        BY <3>3, <3>5, <4>1, <4>2
    <3> QED
      BY <3>1, <3>4, <3>5
  <2> QED
    BY <1>2, <2>1, <2>2, <2>3
<1> QED
  BY <1>4, <1>5, HistoryStep

\* A delivery that launches was not done within the time to live, and reports what no
\* session of its stream could read.
LEMMA NeedlessStep ==
  ASSUME PipelineAssumption, TypeOK, Owned, Marks, PassedCoverage, NoNeedlessSession, Next
  PROVE  NoNeedlessSession'
<1> SUFFICES ASSUME NEW a \in Agents, NEW j \in DOMAIN fates'[a], NEW i \in 1..(j - 1),
                    NEW done, done = fates'[a][i], NEW next, next = fates'[a][j],
                    done.how \in Done, next.how \in Launched
             PROVE  /\ done.d = next.d => next.asked - done.at >= Ttl
                    /\ Stamped(done.d)' /\ Stamped(next.d)'
                          /\ event'[done.d].stream = event'[next.d].stream
                          /\ Cardinality(RecordedSince(done, next.started)') < Capacity
                       => Occurred(next.d)' >= done.started
  BY DEF NoNeedlessSession, RecordedSince
<1>1. Grows /\ FatesOwned /\ TypeOK'
  BY AlwaysGrows, TypeStep DEF Owned
<1>2. /\ Len(fates[a]) \in Nat /\ DOMAIN fates[a] = 1..Len(fates[a])
      /\ \A k \in 1..Len(fates[a]) : fates[a][k] \in Fates /\ fates[a][k] \in ToSet(fates[a])
  BY FatesIndexed
<1>3. ASSUME NEW f \in ToSet(fates[a]), f \in Fates
      PROVE  /\ f.d \in Deliveries /\ f.d[2] = a /\ event[f.d] # None /\ event'[f.d] = event[f.d]
             /\ (Stamped(f.d)' <=> Stamped(f.d)) /\ Occurred(f.d)' = Occurred(f.d)
  <2>1. f.d \in Deliveries /\ f.d[2] = a /\ event[f.d] # None
    BY <1>1, <1>3 DEF Fates, FatesOwned
  <2> QED
    BY <1>1, <2>1, EventsKept
<1>4. ASSUME NEW f \in ToSet(fates[a]), f \in Fates, NEW t \in Nat,
             Cardinality(RecordedSince(f, t)') < Capacity
      PROVE  Cardinality(RecordedSince(f, t)) < Capacity
  <2>1. event[f.d] # None /\ t <= t
    BY <1>3, <1>4
  <2>2. /\ Cardinality(RecordedSince(f, t)) <= Cardinality(RecordedSince(f, t)')
        /\ Cardinality(RecordedSince(f, t)) \in Nat /\ Cardinality(RecordedSince(f, t)') \in Nat
    BY <1>1, <1>4, <2>1, RecordedGrows
  <2> QED
    BY <1>4, <2>2 DEF PipelineAssumption
<1>5. ASSUME j \in 1..Len(fates[a]), \A k \in 1..Len(fates[a]) : fates'[a][k] = fates[a][k]
      PROVE  /\ done.d = next.d => next.asked - done.at >= Ttl
             /\ Stamped(done.d)' /\ Stamped(next.d)'
                   /\ event'[done.d].stream = event'[next.d].stream
                   /\ Cardinality(RecordedSince(done, next.started)') < Capacity
                => Occurred(next.d)' >= done.started
  <2>1. i \in 1..Len(fates[a])
    BY <1>2, <1>5
  <2>2. done = fates[a][i] /\ next = fates[a][j]
    BY <1>5, <2>1
  <2>3. /\ done \in ToSet(fates[a]) /\ done \in Fates /\ next \in ToSet(fates[a])
        /\ next \in Fates /\ next.started \in Nat
    BY <1>2, <1>5, <2>1, <2>2 DEF Fates
  <2>4. /\ done.d = next.d => next.asked - done.at >= Ttl
        /\ Stamped(done.d) /\ Stamped(next.d)
              /\ event[done.d].stream = event[next.d].stream
              /\ Cardinality(RecordedSince(done, next.started)) < Capacity
           => Occurred(next.d) >= done.started
    BY <1>2, <1>5, <2>2 DEF NoNeedlessSession
  <2> QED
    BY <1>3, <1>4, <2>3, <2>4
<1>6. CASE fates'[a] = fates[a]
  BY <1>2, <1>5, <1>6
<1>7. ASSUME NEW x \in Executions, NEW how \in Hows, Ends(a, x, how)
      PROVE  /\ done.d = next.d => next.asked - done.at >= Ttl
             /\ Stamped(done.d)' /\ Stamped(next.d)'
                   /\ event'[done.d].stream = event'[next.d].stream
                   /\ Cardinality(RecordedSince(done, next.started)') < Capacity
                => Occurred(next.d)' >= done.started
  <2>1. /\ DOMAIN fates'[a] = 1..(Len(fates[a]) + 1)
        /\ \A k \in 1..Len(fates[a]) : fates'[a][k] = fates[a][k]
        /\ fates'[a][Len(fates[a]) + 1] = Fate(x, how)
    BY <1>7, EndHistory DEF Ends
  <2>2. CASE j \in 1..Len(fates[a])
    BY <1>5, <2>1, <2>2
  <2>3. CASE j = Len(fates[a]) + 1
    <3>1. /\ next.how = how /\ next.d = x.d /\ next.asked = x.asked /\ next.started = x.started
          /\ x.started \in Nat /\ x.asked \in Nat
      BY <2>1, <2>3 DEF Fate, Executions
    <3>2. /\ exec[a] # None /\ exec[a] = x /\ x.step = "run" /\ x.d \in Deliveries
          /\ x.d[2] = a /\ event[x.d] # None
      BY <1>7, <3>1 DEF Ends
    <3>3. i \in 1..Len(fates[a]) /\ done = fates[a][i]
      BY <1>2, <2>1, <2>3
    <3>4. done \in ToSet(fates[a]) /\ done \in Fates /\ done \in Successes(a)
      BY <1>2, <3>3 DEF Successes
    <3>5. /\ (Stamped(x.d)' <=> Stamped(x.d)) /\ Occurred(x.d)' = Occurred(x.d)
          /\ event'[x.d] = event[x.d]
      BY <1>1, <3>2, EventsKept
    <3>6. ASSUME Stamped(done.d), Stamped(x.d), event[done.d].stream = event[x.d].stream,
                 Cardinality(RecordedSince(done, x.started)) < Capacity
          PROVE  Occurred(x.d) >= done.started
      <4>1. done \in Recorders(CoverageKey(x.d))
        BY <1>3, <3>2, <3>4, <3>6 DEF Recorders, CoverageKey
      <4>2. Occurred(x.d) >= done.started \/ Evicted(done, x.started)
        BY <3>2, <3>6, <4>1 DEF PassedCoverage, Passed
      <4>3. ~Evicted(done, x.started)
        <5>1. x.started <= x.started /\ event[done.d] # None
          BY <1>3, <3>1, <3>4
        <5>2. Cardinality(RecordedSince(done, x.started)) \in Nat
          BY <1>1, <3>1, <3>4, <5>1, RecordedGrows
        <5> QED
          BY <3>6, <5>2 DEF Evicted, PipelineAssumption
      <4> QED
        BY <4>2, <4>3
    <3>7. done.d = x.d => x.asked - done.at >= Ttl
      BY <3>2, <3>4 DEF Marks, AskedLate
    <3> QED
      BY <1>3, <1>4, <3>1, <3>4, <3>5, <3>6, <3>7
  <2> QED
    BY <1>2, <2>1, <2>2, <2>3
<1> QED
  BY <1>6, <1>7, HistoryStep

-----------------------------------------------------------------------------
(* The lock.                                                               *)

\* While the lock met at the dispatch stays held, every step leaves an execution at a gate
\* and the lock refusing it.
LEMMA FrozenStep ==
  ASSUME PipelineAssumption, TypeOK, FrozenRefused, Next
  PROVE  FrozenRefused'
<1> USE DEF vars, env, nocVars, gates
<1>1. /\ exec \in [Agents -> Executions \cup {None}] /\ now \in Nat
      /\ lock \in [Agents -> [file : {"absent", "valid", "garbled", "unreadable"}, until : Nat]]
  BY DEF TypeOK
<1> DEFINE Kept(b) == exec'[b] # None /\ exec'[b].frozen =>
             /\ Refuses(b)' /\ exec'[b].step \in {"covering", "recheck", "lock"}
<1>2. ASSUME NEW b \in Agents, exec'[b] = exec[b], lock'[b] = lock[b], now' = now
      PROVE  Kept(b)
  BY <1>2 DEF FrozenRefused, Refuses, Held
<1>3. CASE Tick
  <2> SUFFICES ASSUME NEW b \in Agents
               PROVE  Kept(b)
    BY DEF FrozenRefused
  <2>1. /\ now' = now + 1 /\ lock' = lock
        /\ exec'[b] = IF exec[b] # None /\ lock[b].file = "valid" /\ now + 1 >= lock[b].until
                      THEN [exec[b] EXCEPT !.frozen = FALSE] ELSE exec[b]
    BY <1>3 DEF Tick
  <2>2. CASE exec[b] # None /\ lock[b].file = "valid" /\ now + 1 >= lock[b].until
    <3>1. exec[b] \in Executions /\ exec'[b] = [exec[b] EXCEPT !.frozen = FALSE]
      BY <1>1, <2>1, <2>2
    <3>2. exec'[b].frozen = FALSE
      BY <3>1 DEF Executions
    <3> QED
      BY <3>2
  <2>3. CASE ~(exec[b] # None /\ lock[b].file = "valid" /\ now + 1 >= lock[b].until)
    <3>1. exec'[b] = exec[b] /\ lock[b].until \in Nat
      BY <1>1, <2>1, <2>3
    <3> QED
      BY <1>1, <2>1, <2>3, <3>1 DEF FrozenRefused, Refuses, Held
  <2> QED
    BY <2>2, <2>3
<1>4. ASSUME NEW d \in Deliveries,
             (\E s \in Streams : \E k \in Kinds : Happen(d, s, k)) \/ Arrive(d)
      PROVE  FrozenRefused'
  BY <1>2, <1>4 DEF Happen, Arrive, FrozenRefused
\* A step of a's execution, by where it leaves it.
<1>5. ASSUME NEW a \in Agents, \A b \in Agents : b # a => exec'[b] = exec[b],
             lock' = lock, now' = now, Kept(a)
      PROVE  FrozenRefused'
  <2>1. \A b \in Agents : Kept(b)
    BY <1>2, <1>5
  <2> QED
    BY <2>1 DEF FrozenRefused
<1>6. ASSUME NEW a \in Agents, NEW x, NEW how, End(a, x, how), lock' = lock, now' = now
      PROVE  FrozenRefused'
  BY <1>1, <1>5, <1>6 DEF End
<1>7. ASSUME NEW a \in Agents, exec[a] # None, NEW step, Goto(a, step), lock' = lock, now' = now,
             exec[a].frozen => Refuses(a) /\ step \in {"covering", "recheck", "lock"}
      PROVE  FrozenRefused'
  <2>1. exec[a] \in Executions /\ exec'[a] = [exec[a] EXCEPT !.step = step]
    BY <1>1, <1>7 DEF Goto
  <2>2. exec'[a].frozen = exec[a].frozen /\ exec'[a].step = step
    BY <2>1 DEF Executions
  <2>3. \A b \in Agents : b # a => exec'[b] = exec[b]
    BY <1>1, <1>7 DEF Goto
  <2>4. Refuses(a)' <=> Refuses(a)
    BY <1>7 DEF Refuses, Held
  <2> QED
    BY <1>5, <1>7, <2>2, <2>3, <2>4
<1>8. ASSUME NEW a \in Agents, DedupGate(a)
      PROVE  FrozenRefused'
  <2> DEFINE d == Head(queue[a])
             x == [d |-> d, step |-> "covering", attempt |-> 1, asked |-> now, started |-> 0,
                   frozen |-> Held(a), free |-> ~InForce(a)]
  <2>1. lock' = lock /\ now' = now
    BY <1>8 DEF DedupGate
  <2>2. End(a, x, "deduped") \/ exec' = [exec EXCEPT ![a] = x]
    BY <1>8 DEF DedupGate
  <2>3. x.frozen = Held(a) /\ x.step = "covering"
    OBVIOUS
  <2> HIDE DEF x
  <2>4. CASE exec' = [exec EXCEPT ![a] = x]
    <3>1. exec'[a] = x /\ \A b \in Agents : b # a => exec'[b] = exec[b]
      BY <1>1, <2>4
    <3>2. Kept(a)
      BY <2>1, <2>3, <3>1 DEF Refuses, Held
    <3> QED
      BY <1>5, <2>1, <3>1, <3>2
  <2> QED
    BY <1>6, <2>1, <2>2, <2>4
<1>9. ASSUME NEW a \in Agents, CoverageGate(a) \/ RecheckGate(a) \/ LockGate(a) \/ BreakerGate(a)
      PROVE  FrozenRefused'
  <2>1. /\ lock' = lock /\ now' = now /\ exec[a] # None
        /\ exec[a].frozen => Refuses(a) /\ exec[a].step \in {"covering", "recheck", "lock"}
    BY <1>9 DEF CoverageGate, RecheckGate, LockGate, BreakerGate, At, FrozenRefused
  <2>2. \/ \E how : End(a, exec[a], how)
        \/ \E step \in {"recheck", "lock"} : Goto(a, step)
        \/ exec[a].step = "lock" /\ ~Refuses(a) /\ Goto(a, "breaker")
        \/ exec[a].step = "breaker" /\ Goto(a, "launch")
    BY <1>9 DEF CoverageGate, RecheckGate, LockGate, BreakerGate, At
  <2> QED
    BY <1>6, <1>7, <2>1, <2>2
<1>10. ASSUME NEW a \in Agents, Launch(a) \/ WakeEnds(a)
       PROVE  FrozenRefused'
  <2>1. /\ lock' = lock /\ now' = now /\ exec[a] # None /\ exec[a] \in Executions
        /\ exec[a].frozen = FALSE
    BY <1>1, <1>10 DEF Launch, WakeEnds, WakeOk, WakeStop, WakeFail, WakeCrash, At,
                       FrozenRefused, Executions
  <2>2. \/ \E how : End(a, exec[a], how)
        \/ exec' = [exec EXCEPT ![a].step = "run", ![a].started = now]
        \/ exec' = [exec EXCEPT ![a] = NextAttempt(exec[a])]
    BY <1>10 DEF Launch, WakeEnds, WakeOk, WakeStop, WakeFail, WakeCrash
  <2>3. CASE \/ exec' = [exec EXCEPT ![a].step = "run", ![a].started = now]
             \/ exec' = [exec EXCEPT ![a] = NextAttempt(exec[a])]
    <3>1. \A b \in Agents : b # a => exec'[b] = exec[b]
      BY <1>1, <2>3
    <3>2. exec'[a].frozen = exec[a].frozen
      <4>1. CASE exec' = [exec EXCEPT ![a].step = "run", ![a].started = now]
        BY <1>1, <2>1, <4>1 DEF Executions
      <4>2. CASE exec' = [exec EXCEPT ![a] = NextAttempt(exec[a])]
        <5>1. exec'[a] = [exec[a] EXCEPT !.step = "launch", !.attempt = @ + 1]
          BY <1>1, <4>2 DEF NextAttempt
        <5> QED
          BY <2>1, <5>1 DEF Executions
      <4> QED
        BY <2>3, <4>1, <4>2
    <3> QED
      BY <1>5, <2>1, <3>1, <3>2
  <2> QED
    BY <1>6, <2>1, <2>2, <2>3
<1>11. ASSUME NEW a \in Agents, LockAgent(a)
       PROVE  FrozenRefused'
  <2>1. now' = now
    BY <1>11 DEF LockAgent
  <2>2. PICK file \in {"valid", "garbled", "unreadable"} :
          /\ lock' = [lock EXCEPT ![a] = [file |-> file, until |-> now + LockTtl]]
          /\ exec' = IF exec[a] = None THEN exec
                     ELSE IF file = "unreadable" THEN [exec EXCEPT ![a].frozen = FALSE]
                     ELSE [exec EXCEPT ![a].free = FALSE]
    BY <1>11 DEF LockAgent
  <2>3. /\ lock'[a].file = file /\ lock'[a].until = now + LockTtl
        /\ \A b \in Agents : b # a => lock'[b] = lock[b] /\ exec'[b] = exec[b]
    BY <1>1, <2>2
  <2>4. CASE exec[a] # None /\ file = "unreadable"
    <3>1. exec[a] \in Executions /\ exec'[a] = [exec[a] EXCEPT !.frozen = FALSE]
      BY <1>1, <2>2, <2>4
    <3>2. exec'[a].frozen = FALSE
      BY <3>1 DEF Executions
    <3> QED
      BY <1>2, <2>1, <2>3, <3>2 DEF FrozenRefused
  <2>5. CASE ~(exec[a] # None /\ file = "unreadable")
    <3>1. exec'[a] # None => /\ exec[a] # None /\ exec'[a].frozen = exec[a].frozen
                             /\ exec'[a].step = exec[a].step
      BY <1>1, <2>2, <2>5 DEF Executions
    <3>2. exec[a] # None => Refuses(a)'
      BY <1>1, <2>1, <2>3, <2>5 DEF Refuses, Held, PipelineAssumption
    <3>3. Kept(a)
      BY <3>1, <3>2 DEF FrozenRefused
    <3> QED
      BY <1>2, <2>1, <2>3, <3>3 DEF FrozenRefused
  <2> QED
    BY <2>4, <2>5
<1>12. ASSUME NEW a \in Agents, Converge(a) \/ Unlock(a)
       PROVE  FrozenRefused'
  <2>1. now' = now /\ \/ exec' = exec /\ lock' = lock
                      \/ /\ lock' = [lock EXCEPT ![a] = NoFile]
                         /\ exec' = IF exec[a] = None THEN exec
                                    ELSE [exec EXCEPT ![a].frozen = FALSE]
    BY <1>12 DEF Converge, Unlock
  <2>2. CASE exec' = exec /\ lock' = lock
    BY <1>2, <2>1, <2>2 DEF FrozenRefused
  <2>3. CASE /\ lock' = [lock EXCEPT ![a] = NoFile]
             /\ exec' = IF exec[a] = None THEN exec ELSE [exec EXCEPT ![a].frozen = FALSE]
    <3>1. \A b \in Agents : b # a => lock'[b] = lock[b] /\ exec'[b] = exec[b]
      BY <1>1, <2>3
    <3>2. exec'[a] # None => exec'[a].frozen = FALSE
      BY <1>1, <2>3 DEF Executions
    <3> QED
      BY <1>2, <2>1, <3>1, <3>2 DEF FrozenRefused
  <2> QED
    BY <2>1, <2>2, <2>3
<1> QED
  BY <1>3, <1>4, <1>8, <1>9, <1>10, <1>11, <1>12 DEF Next, Step, WakeEnds

\* While no lock has been in force since the dispatch, every step leaves it so, or is the
\* NOC's that puts one there.
LEMMA FreeStep ==
  ASSUME TypeOK, FreeLetThrough, Next
  PROVE  FreeLetThrough'
<1> USE DEF vars, env, nocVars, gates
<1>1. /\ exec \in [Agents -> Executions \cup {None}] /\ now \in Nat
      /\ lock \in [Agents -> [file : {"absent", "valid", "garbled", "unreadable"}, until : Nat]]
  BY DEF TypeOK
<1> DEFINE WasFree(b) == exec'[b] # None /\ exec'[b].free => exec[b] # None /\ exec[b].free
<1>2. ASSUME \A b \in Agents : WasFree(b) /\ (Refuses(b)' => Refuses(b))
      PROVE  FreeLetThrough'
  BY <1>2 DEF FreeLetThrough
<1>3. CASE Tick
  <2> SUFFICES ASSUME NEW b \in Agents
               PROVE  WasFree(b) /\ (Refuses(b)' => Refuses(b))
    BY <1>2
  <2>1. /\ now' = now + 1 /\ lock' = lock
        /\ exec'[b] = IF exec[b] # None /\ lock[b].file = "valid" /\ now + 1 >= lock[b].until
                      THEN [exec[b] EXCEPT !.frozen = FALSE] ELSE exec[b]
    BY <1>3 DEF Tick
  <2>2. WasFree(b)
    BY <1>1, <2>1 DEF Executions
  <2>3. lock[b].until \in Nat
    BY <1>1
  <2> QED
    BY <1>1, <2>1, <2>2, <2>3 DEF Refuses, Held
<1>4. ASSUME NEW d \in Deliveries,
             (\E s \in Streams : \E k \in Kinds : Happen(d, s, k)) \/ Arrive(d)
      PROVE  FreeLetThrough'
  BY <1>2, <1>4 DEF Happen, Arrive, Refuses, Held
\* A step of a's execution, by where it leaves it.
<1>5. ASSUME NEW a \in Agents, \A b \in Agents : b # a => exec'[b] = exec[b],
             lock' = lock, now' = now, WasFree(a)
      PROVE  FreeLetThrough'
  <2>1. \A b \in Agents : WasFree(b)
    BY <1>5
  <2> QED
    BY <1>2, <1>5, <2>1 DEF Refuses, Held
<1>6. ASSUME NEW a \in Agents, NEW x, NEW how, End(a, x, how), lock' = lock, now' = now
      PROVE  FreeLetThrough'
  BY <1>1, <1>5, <1>6 DEF End
<1>7. ASSUME NEW a \in Agents, exec[a] # None, NEW step, Goto(a, step), lock' = lock, now' = now
      PROVE  FreeLetThrough'
  <2>1. exec[a] \in Executions /\ exec'[a] = [exec[a] EXCEPT !.step = step]
    BY <1>1, <1>7 DEF Goto
  <2>2. exec'[a].free = exec[a].free
    BY <2>1 DEF Executions
  <2>3. \A b \in Agents : b # a => exec'[b] = exec[b]
    BY <1>1, <1>7 DEF Goto
  <2> QED
    BY <1>5, <1>7, <2>2, <2>3
<1>8. ASSUME NEW a \in Agents, DedupGate(a)
      PROVE  FreeLetThrough'
  <2> DEFINE d == Head(queue[a])
             x == [d |-> d, step |-> "covering", attempt |-> 1, asked |-> now, started |-> 0,
                   frozen |-> Held(a), free |-> ~InForce(a)]
  <2>1. lock' = lock /\ now' = now
    BY <1>8 DEF DedupGate
  <2>2. End(a, x, "deduped") \/ exec' = [exec EXCEPT ![a] = x]
    BY <1>8 DEF DedupGate
  <2>3. x.free = ~InForce(a)
    OBVIOUS
  <2> HIDE DEF x
  <2>4. CASE exec' = [exec EXCEPT ![a] = x]
    <3>1. exec'[a] = x /\ \A b \in Agents : b # a => exec'[b] = exec[b]
      BY <1>1, <2>4
    <3>2. \A b \in Agents : Refuses(b)' <=> Refuses(b)
      BY <2>1 DEF Refuses, Held
    <3>3. exec'[a].free => ~Refuses(a)
      BY <2>3, <3>1 DEF Refuses, InForce
    <3> QED
      BY <3>1, <3>2, <3>3 DEF FreeLetThrough
  <2> QED
    BY <1>6, <2>1, <2>2, <2>4
<1>9. ASSUME NEW a \in Agents, CoverageGate(a) \/ RecheckGate(a) \/ LockGate(a) \/ BreakerGate(a)
      PROVE  FreeLetThrough'
  <2>1. lock' = lock /\ now' = now /\ exec[a] # None
    BY <1>9 DEF CoverageGate, RecheckGate, LockGate, BreakerGate, At
  <2>2. (\E how : End(a, exec[a], how)) \/ \E step : Goto(a, step)
    BY <1>9 DEF CoverageGate, RecheckGate, LockGate, BreakerGate
  <2> QED
    BY <1>6, <1>7, <2>1, <2>2
<1>10. ASSUME NEW a \in Agents, Launch(a) \/ WakeEnds(a)
       PROVE  FreeLetThrough'
  <2>1. lock' = lock /\ now' = now /\ exec[a] # None /\ exec[a] \in Executions
    BY <1>1, <1>10 DEF Launch, WakeEnds, WakeOk, WakeStop, WakeFail, WakeCrash, At
  <2>2. \/ \E how : End(a, exec[a], how)
        \/ exec' = [exec EXCEPT ![a].step = "run", ![a].started = now]
        \/ exec' = [exec EXCEPT ![a] = NextAttempt(exec[a])]
    BY <1>10 DEF Launch, WakeEnds, WakeOk, WakeStop, WakeFail, WakeCrash
  <2>3. CASE \/ exec' = [exec EXCEPT ![a].step = "run", ![a].started = now]
             \/ exec' = [exec EXCEPT ![a] = NextAttempt(exec[a])]
    <3>1. \A b \in Agents : b # a => exec'[b] = exec[b]
      BY <1>1, <2>3
    <3>2. exec'[a].free = exec[a].free
      <4>1. CASE exec' = [exec EXCEPT ![a].step = "run", ![a].started = now]
        BY <1>1, <2>1, <4>1 DEF Executions
      <4>2. CASE exec' = [exec EXCEPT ![a] = NextAttempt(exec[a])]
        <5>1. exec'[a] = [exec[a] EXCEPT !.step = "launch", !.attempt = @ + 1]
          BY <1>1, <4>2 DEF NextAttempt
        <5> QED
          BY <2>1, <5>1 DEF Executions
      <4> QED
        BY <2>3, <4>1, <4>2
    <3> QED
      BY <1>5, <2>1, <3>1, <3>2
  <2> QED
    BY <1>6, <2>1, <2>2, <2>3
<1>11. ASSUME NEW a \in Agents, LockAgent(a)
       PROVE  FreeLetThrough'
  <2>1. PICK file \in {"valid", "garbled", "unreadable"} :
          /\ now' = now /\ lock' = [lock EXCEPT ![a] = [file |-> file, until |-> now + LockTtl]]
          /\ exec' = IF exec[a] = None THEN exec
                     ELSE IF file = "unreadable" THEN [exec EXCEPT ![a].frozen = FALSE]
                     ELSE [exec EXCEPT ![a].free = FALSE]
    BY <1>11 DEF LockAgent
  <2>2. /\ lock'[a].file = file
        /\ \A b \in Agents : b # a => lock'[b] = lock[b] /\ exec'[b] = exec[b]
    BY <1>1, <2>1
  <2>3. \A b \in Agents : b # a => (Refuses(b)' <=> Refuses(b))
    BY <2>1, <2>2 DEF Refuses, Held
  <2>4. exec'[a] # None /\ exec'[a].free => ~Refuses(a)'
    <3>1. CASE file = "unreadable"
      BY <2>2, <3>1 DEF Refuses, Held
    <3>2. CASE file # "unreadable"
      BY <1>1, <2>1, <3>2 DEF Executions
    <3> QED
      BY <3>1, <3>2
  <2> QED
    BY <2>2, <2>3, <2>4 DEF FreeLetThrough
<1>12. ASSUME NEW a \in Agents, Converge(a) \/ Unlock(a)
       PROVE  FreeLetThrough'
  <2>1. now' = now /\ \/ exec' = exec /\ lock' = lock
                      \/ /\ lock' = [lock EXCEPT ![a] = NoFile]
                         /\ exec' = IF exec[a] = None THEN exec
                                    ELSE [exec EXCEPT ![a].frozen = FALSE]
    BY <1>12 DEF Converge, Unlock
  <2>2. CASE exec' = exec /\ lock' = lock
    BY <1>2, <2>1, <2>2 DEF Refuses, Held
  <2>3. CASE /\ lock' = [lock EXCEPT ![a] = NoFile]
             /\ exec' = IF exec[a] = None THEN exec ELSE [exec EXCEPT ![a].frozen = FALSE]
    <3>1. lock'[a].file = "absent" /\ \A b \in Agents : b # a => lock'[b] = lock[b]
      BY <1>1, <2>3 DEF NoFile
    <3>2. \A b \in Agents : WasFree(b)
      BY <1>1, <2>3 DEF Executions
    <3>3. \A b \in Agents : Refuses(b)' => Refuses(b)
      BY <2>1, <3>1 DEF Refuses, Held
    <3> QED
      BY <1>2, <3>2, <3>3
  <2> QED
    BY <2>1, <2>2, <2>3
<1> QED
  BY <1>3, <1>4, <1>8, <1>9, <1>10, <1>11, <1>12 DEF Next, Step, WakeEnds

\* Only the lock gate ends an execution as locked, and only when it refuses.
LEMMA LockedWhenRefused ==
  ASSUME TypeOK, FreeLetThrough, [Next]_vars, NEW a \in Agents,
         NEW i \in DOMAIN fates'[a] \ DOMAIN fates[a], fates'[a][i].how = "locked"
  PROVE  ~exec[a].free
<1> USE DEF vars, env, nocVars, gates
<1>1. fates \in [Agents -> Seq(Fates)]
  BY DEF TypeOK
<1>2. fates'[a] # fates[a]
  OBVIOUS
<1>3. ASSUME NEW b \in Agents, NEW x, NEW how, End(b, x, how)
      PROVE  b = a /\ how = "locked"
  <2> DEFINE f == [d |-> x.d, how |-> how, asked |-> x.asked, started |-> x.started, at |-> now]
  <2>1. fates' = [fates EXCEPT ![b] = Append(@, f)]
    BY <1>3 DEF End
  <2>2. f.how = how
    OBVIOUS
  <2> HIDE DEF f
  <2>3. b = a
    BY <1>1, <1>2, <2>1
  <2>4. fates'[a] = Append(fates[a], f) /\ fates[a] \in Seq(Fates)
    BY <1>1, <2>1, <2>3
  <2>5. i = Len(fates[a]) + 1 /\ fates'[a][i] = f
    BY <2>4
  <2> QED
    BY <2>2, <2>3, <2>5
<1>4. ASSUME NEW b \in Agents, LockGate(b)
      PROVE  ~exec[a].free
  <2>1. Refuses(b) /\ exec[b] # None /\ \E x : End(b, x, "locked")
    BY <1>2, <1>4 DEF LockGate, Goto, At
  <2>2. b = a
    BY <1>3, <2>1
  <2> QED
    BY <2>1, <2>2 DEF FreeLetThrough
<1>5. ASSUME NEW b \in Agents, Step(b) \/ WakeEnds(b), ~LockGate(b)
      PROVE  FALSE
  <2>1. \/ UNCHANGED fates
        \/ \E x : \E how \in Hows \ {"locked"} : End(b, x, how)
    BY <1>5 DEF Step, WakeEnds, DedupGate, CoverageGate, RecheckGate, BreakerGate, Launch, Goto,
                WakeOk, WakeStop, WakeFail, WakeCrash, Hows, Launched, Done
  <2> QED
    BY <1>2, <1>3, <2>1
<1>6. CASE \/ Tick \/ UNCHANGED vars
           \/ \E d \in Deliveries :
                (\E s \in Streams : \E k \in Kinds : Happen(d, s, k)) \/ Arrive(d)
           \/ \E b \in Agents : LockAgent(b) \/ Converge(b) \/ Unlock(b)
  BY <1>2, <1>6 DEF Tick, Happen, Arrive, LockAgent, Converge, Unlock
<1> QED
  BY <1>4, <1>5, <1>6 DEF Next

-----------------------------------------------------------------------------
(* The theorems.                                                           *)

\* Before anything happened, the invariant holds.
LEMMA InitInvariant ==
  ASSUME PipelineAssumption, Init
  PROVE  IInv /\ FrozenRefused /\ FreeLetThrough
<1>1. TypeOK
  BY DEF Init, TypeOK, PipelineAssumption, NoFile
<1>2. \A a \in Agents : fates[a] = <<>> /\ exec[a] = None /\ queue[a] = <<>>
  BY DEF Init
<1>3. /\ DOMAIN <<>> = {} /\ ToSet(<<>>) = {}
  BY DEF ToSet
<1>4. \A a \in Agents : ToSet(fates[a]) = {} /\ Successes(a) = {}
  BY <1>2, <1>3 DEF Successes
<1>5. coverage = <<>> /\ \A d \in Deliveries : seenAt[d] = None
  BY DEF Init
<1>6. Owned
  BY <1>2, <1>3, <1>4 DEF Owned, QueueOwned, ExecOwned, FatesOwned
<1>7. MarksEarned /\ SuccessesMarked /\ AskedLate
  BY <1>2, <1>4, <1>5 DEF MarksEarned, SuccessesMarked, AskedLate
<1>8. CoverageEarned /\ CoverageInOrder /\ SuccessesCovered /\ PassedCoverage
  BY <1>2, <1>3, <1>4, <1>5 DEF CoverageEarned, CoverageInOrder, SuccessesCovered,
                                PassedCoverage, Passed
<1>9. SkippedWasDone /\ NoNeedlessSession
  BY <1>2, <1>3 DEF SkippedWasDone, NoNeedlessSession
<1>10. FrozenRefused /\ FreeLetThrough
  BY <1>2 DEF FrozenRefused, FreeLetThrough
<1> QED
  BY <1>1, <1>6, <1>7, <1>8, <1>9, <1>10 DEF IInv

\* The invariant is kept by every step.
LEMMA NextInvariant ==
  ASSUME PipelineAssumption, IInv, Next
  PROVE  IInv'
<1>1. /\ TypeOK /\ Owned /\ Marks /\ Covers /\ CoverageEarned /\ SuccessesCovered
      /\ PassedCoverage /\ SkippedWasDone /\ NoNeedlessSession
  BY DEF IInv, Marks, Covers
<1>2. TypeOK' /\ Owned' /\ Marks' /\ Covers'
  BY <1>1, TypeStep, OwnedStep, MarksStep, CoversStep
<1>3. PassedCoverage' /\ SkippedWasDone' /\ NoNeedlessSession'
  BY <1>1, PassedStep, SkippedStep, NeedlessStep
<1> QED
  BY <1>2, <1>3 DEF IInv, Marks, Covers

\* A state that stutters keeps it.
LEMMA StutterInvariant ==
  ASSUME IInv, FrozenRefused, FreeLetThrough, UNCHANGED vars
  PROVE  IInv' /\ FrozenRefused' /\ FreeLetThrough'
<1> USE DEF vars, env, nocVars, gates
<1>1. TypeOK'
  BY DEF IInv, TypeOK, Attempts
<1>2. \A a \in Agents : Successes(a)' = Successes(a)
  BY DEF Successes
<1>3. \A d : /\ (Stamped(d)' <=> Stamped(d)) /\ CoverageKey(d)' = CoverageKey(d)
             /\ Occurred(d)' = Occurred(d)
  BY DEF Stamped, CoverageKey, Occurred
<1>4. \A key : Recorders(key)' = Recorders(key) /\ EntryOf(key)' = EntryOf(key)
  BY <1>3 DEF Recorders, Successes, EntryOf
<1>5. \A f : \A t : RecordedSince(f, t)' = RecordedSince(f, t)
  BY <1>3 DEF RecordedSince
<1>6. Owned'
  BY DEF IInv, Owned, QueueOwned, ExecOwned, FatesOwned
<1>7. MarksEarned' /\ SuccessesMarked' /\ AskedLate'
  BY <1>2 DEF IInv, MarksEarned, SuccessesMarked, AskedLate, Successes
<1>8. CoverageEarned' /\ CoverageInOrder'
  BY <1>4 DEF IInv, CoverageEarned, CoverageInOrder
<1>9. SuccessesCovered' /\ PassedCoverage'
  BY <1>2, <1>3, <1>4, <1>5 DEF IInv, SuccessesCovered, PassedCoverage, Passed, Evicted
<1>10. SkippedWasDone'
  BY DEF IInv, SkippedWasDone
<1>11. NoNeedlessSession'
  BY <1>3, <1>5 DEF IInv, NoNeedlessSession
<1>12. FrozenRefused' /\ FreeLetThrough'
  BY DEF FrozenRefused, FreeLetThrough, Refuses, Held
<1> QED
  BY <1>1, <1>6, <1>7, <1>8, <1>9, <1>10, <1>11, <1>12 DEF IInv

\* Every reachable state of the pipeline's slow half satisfies the invariant.
THEOREM Invariant == Spec => [](IInv /\ FrozenRefused /\ FreeLetThrough)
<1> USE PipelineAssumption
<1> DEFINE I == IInv /\ FrozenRefused /\ FreeLetThrough
<1>1. Init => I
  BY InitInvariant
<1>2. I /\ [Next]_vars => I'
  <2>1. I /\ Next => I'
    BY NextInvariant, FrozenStep, FreeStep DEF IInv
  <2>2. I /\ UNCHANGED vars => I'
    BY StutterInvariant
  <2> QED
    BY <2>1, <2>2
<1> QED
  BY <1>1, <1>2, PTL DEF Spec

\* The executions, marks, entries, locks and counters stay of their types: the attempts
\* within Pipeline.wake_attempts, the marks within dedup's _GC_INTERVAL, the coverage
\* within its capacity and with one entry per stream.
THEOREM TypeCorrect == Spec => []TypeOK
<1>1. IInv => TypeOK
  BY DEF IInv
<1> QED
  BY <1>1, Invariant, PTL

\* What execute skips, collapsed by DeliveryDeduper.seen or by WakeCoverage.covering, was
\* done before: no wake is lost.
THEOREM NoLostWake == Spec => []SkippedWasDone
<1>1. IInv => SkippedWasDone
  BY DEF IInv
<1> QED
  BY <1>1, Invariant, PTL

\* What execute launches was not done within the time to live, and is not of an event
\* that a session of its stream, of those the capacity kept, had to read.
THEOREM NoSecondSession == Spec => []NoNeedlessSession
<1>1. IInv => NoNeedlessSession
  BY DEF IInv
<1> QED
  BY <1>1, Invariant, PTL

\* WakeLockGuard keeps a delivery dispatched under the NOC's lock from launching while
\* that lock is held, and refuses none for a lock that was not in force since.
THEOREM LockIsObeyed == Spec => LockObeyed
<1> DEFINE I == IInv /\ FrozenRefused /\ FreeLetThrough
<1>1. I /\ I' /\ [Next]_vars =>
        [\A a \in Agents :
           /\ At(a, "run")' => ~exec'[a].frozen
           /\ \A i \in DOMAIN fates'[a] \ DOMAIN fates[a] :
                fates'[a][i].how = "locked" => ~exec[a].free]_vars
  <2> SUFFICES ASSUME I, I', [Next]_vars, NEW a \in Agents
               PROVE  /\ At(a, "run")' => ~exec'[a].frozen
                      /\ \A i \in DOMAIN fates'[a] \ DOMAIN fates[a] :
                           fates'[a][i].how = "locked" => ~exec[a].free
    OBVIOUS
  <2>1. At(a, "run")' => ~exec'[a].frozen
    BY DEF FrozenRefused, At
  <2>2. ASSUME NEW i \in DOMAIN fates'[a] \ DOMAIN fates[a], fates'[a][i].how = "locked"
        PROVE  ~exec[a].free
    BY <2>2, LockedWhenRefused DEF IInv
  <2> QED
    BY <2>1, <2>2
<1>2. Spec => []I
  BY Invariant
<1> QED
  BY <1>1, <1>2, PTL DEF Spec, LockObeyed

=============================================================================
