------------------------ MODULE WakeSchedulerProofs ------------------------
(***************************************************************************)
(* What WakeScheduler keeps true for every set of agents, every number of  *)
(* lanes and every number of wakes: its type invariant, the occupation of  *)
(* the lanes, the absence of stranded work, the order of the notifications *)
(* and the currency of what the observer was told.  Then the order of its  *)
(* wakes: it implements AgentStreams, one ordered stream of wakes per      *)
(* agent; while an agent waits for a lane no other is dispatched twice;    *)
(* and a drain that returns leaves no wake unrun and no count untold.      *)
(***************************************************************************)
EXTENDS WakeScheduler, TLAPS, FiniteSetTheorems, SequenceTheorems

-----------------------------------------------------------------------------
(* Sequences as queues.                                                    *)

\* A new member of a finite set adds one to its size.
LEMMA CountOneMore ==
  ASSUME NEW S, NEW x, IsFiniteSet(S), x \notin S
  PROVE  Cardinality(S \cup {x}) = Cardinality(S) + 1
BY FS_AddElement

\* The first entry of a queue, as the pump cuts it off (popleft of _ready).
LEMMA FirstOf ==
  ASSUME NEW A, NEW r \in Seq(A), r # <<>>
  PROVE  SubSeq(r, 1, 1) = <<r[1]>>
<1>1. SubSeq(r, 1, 1) \in Seq(A) /\ Len(SubSeq(r, 1, 1)) = 1 /\ r[1] \in A
  OBVIOUS
<1>2. SubSeq(r, 1, 1)[1] = r[1]
  OBVIOUS
<1>3. <<r[1]>> \in Seq(A) /\ Len(<<r[1]>>) = 1 /\ <<r[1]>>[1] = r[1]
  BY <1>1
<1>4. \A i \in 1..Len(SubSeq(r, 1, 1)) : SubSeq(r, 1, 1)[i] = <<r[1]>>[i]
  BY <1>1, <1>2, <1>3
<1>. QED  BY <1>1, <1>3, <1>4, SeqEqual

\* An agent that joins the ready queue is in it, with the others (append of _ready).
LEMMA ElementsAppend ==
  ASSUME NEW A, NEW r \in Seq(A), NEW x \in A
  PROVE  Elements(Append(r, x)) = Elements(r) \cup {x}
BY DEF Elements

\* Taking the head out of a queue takes that agent and leaves the others (popleft).
LEMMA ElementsTail ==
  ASSUME NEW A, NEW r \in Seq(A), r # <<>>
  PROVE  /\ Elements(r) = {r[1]} \cup Elements(Tail(r))
         /\ Elements(r) \subseteq A
BY DEF Elements

\* A sequence without repetitions, as the ready queue and the pool are.
NoRepeat(s) == \A i, j \in 1..Len(s) : s[i] = s[j] => i = j

\* A queue without repetitions stays so when a newcomer joins it (submit tests for
\* membership before it appends to _ready).
LEMMA NoRepeatAppend ==
  ASSUME NEW A, NEW r \in Seq(A), NEW x \in A, NoRepeat(r), x \notin Elements(r)
  PROVE  NoRepeat(Append(r, x))
BY DEF NoRepeat, Elements

\* A queue without repetitions stays so when its head leaves, and the head is gone.
LEMMA NoRepeatTail ==
  ASSUME NEW A, NEW r \in Seq(A), r # <<>>, NoRepeat(r)
  PROVE  NoRepeat(Tail(r)) /\ r[1] \notin Elements(Tail(r))
BY DEF NoRepeat, Elements

-----------------------------------------------------------------------------
(* The pump, when at most one lane and one agent come together, as they do  *)
(* after a submission and after a wake: it dispatches nobody, or the agent  *)
(* at the head of the ready queue.                                          *)

Idles(qs, rdy, inf) ==
  /\ ready' = rdy
  /\ inflight' = inf
  /\ queues' = qs
  /\ pool' = pool
  /\ job' = [a \in Agents |-> IF a \in inf THEN job[a] ELSE NoJob]
  /\ passes' = [a \in Agents |-> [b \in Agents |->
                  IF a \in Elements(rdy) THEN passes[a][b] ELSE 0]]

Dispatches(qs, rdy, inf) ==
  /\ rdy # <<>>
  /\ ready' = Tail(rdy)
  /\ inflight' = inf \cup {rdy[1]}
  /\ queues' = [a \in Agents |-> IF a = rdy[1] THEN Tail(qs[a]) ELSE qs[a]]
  /\ pool' = Append(pool, rdy[1])
  /\ job' = [a \in Agents |-> IF a = rdy[1] THEN Head(qs[a])
                              ELSE IF a \in inf THEN job[a] ELSE NoJob]
  /\ passes' = [a \in Agents |-> [b \in Agents |->
                  IF a \in Elements(Tail(rdy))
                  THEN passes[a][b] + (IF b = rdy[1] THEN 1 ELSE 0)
                  ELSE 0]]

\* _pump_locked takes nobody, or exactly the agent at the head of the ready queue,
\* when at most one lane and one agent come together.
LEMMA PumpShape ==
  ASSUME TypeOK, NEW qs \in [Agents -> Seq(Jobs)], NEW rdy \in Seq(Agents),
         NEW inf \in SUBSET Agents, PumpLocked(qs, rdy, inf)
  PROVE  /\ Take(rdy, inf) = 0 => Idles(qs, rdy, inf)
         /\ Take(rdy, inf) = 1 /\ rdy # <<>> => Dispatches(qs, rdy, inf)
<1>1. ASSUME Take(rdy, inf) = 0
      PROVE  Idles(qs, rdy, inf)
  <2>1. SubSeq(rdy, 1, 0) = <<>> /\ Elements(<<>>) = {}
    BY DEF Elements
  <2>2. 0 + 1 = 1 /\ SubSeq(rdy, 1, Len(rdy)) = rdy /\ pool \o <<>> = pool
    BY DEF TypeOK
  <2>3. /\ ready' = rdy
        /\ inflight' = inf
        /\ pool' = pool
    BY <1>1, <2>1, <2>2 DEF PumpLocked
  <2>4. job' = [a \in Agents |-> IF a \in inf THEN job[a] ELSE NoJob]
    BY <1>1, <2>1 DEF PumpLocked
  <2>5. queues' = qs
    BY <1>1, <2>1 DEF PumpLocked
  <2>6. passes' = [a \in Agents |-> [b \in Agents |->
                     IF a \in Elements(rdy) THEN passes[a][b] ELSE 0]]
    <3>1. passes' = [a \in Agents |-> [b \in Agents |->
                       IF a \in Elements(ready')
                       THEN passes[a][b] + (IF b \in {} THEN 1 ELSE 0)
                       ELSE 0]]
      BY <1>1, <2>1 DEF PumpLocked
    <3>2. \A a, b \in Agents : passes[a][b] + (IF b \in {} THEN 1 ELSE 0) = passes[a][b]
      BY DEF TypeOK
    <3>. QED  BY <2>3, <3>1, <3>2
  <2>. QED  BY <2>3, <2>4, <2>5, <2>6 DEF Idles
<1>2. ASSUME Take(rdy, inf) = 1, rdy # <<>>
      PROVE  Dispatches(qs, rdy, inf)
  <2>1. SubSeq(rdy, 1, 1) = <<rdy[1]>> /\ Elements(<<rdy[1]>>) = {rdy[1]}
    BY <1>2, FirstOf DEF Elements
  <2>2. /\ 1 + 1 = 2
        /\ SubSeq(rdy, 2, Len(rdy)) = Tail(rdy)
        /\ pool \o <<rdy[1]>> = Append(pool, rdy[1])
    <3>1. rdy[1] \in Agents /\ pool \in Seq(Agents)
      BY <1>2 DEF TypeOK
    <3>2. pool \o <<rdy[1]>> = Append(pool, rdy[1])
      BY <3>1
    <3>3. SubSeq(rdy, 2, Len(rdy)) = Tail(rdy)
      BY <1>2
    <3>. QED  BY <3>2, <3>3
  <2>3. /\ ready' = Tail(rdy)
        /\ inflight' = inf \cup {rdy[1]}
        /\ pool' = Append(pool, rdy[1])
    BY <1>2, <2>1, <2>2 DEF PumpLocked
  <2>4. job' = [a \in Agents |-> IF a = rdy[1] THEN Head(qs[a])
                                 ELSE IF a \in inf THEN job[a] ELSE NoJob]
    BY <1>2, <2>1 DEF PumpLocked
  <2>5. queues' = [a \in Agents |-> IF a = rdy[1] THEN Tail(qs[a]) ELSE qs[a]]
    BY <1>2, <2>1 DEF PumpLocked
  <2>6. passes' = [a \in Agents |-> [b \in Agents |->
                     IF a \in Elements(Tail(rdy))
                     THEN passes[a][b] + (IF b = rdy[1] THEN 1 ELSE 0)
                     ELSE 0]]
    BY <1>2, <2>1, <2>3 DEF PumpLocked
  <2>. QED  BY <1>2, <2>3, <2>4, <2>5, <2>6 DEF Dispatches
<1>. QED  BY <1>1, <1>2

\* What a critical section establishes before it pumps: the agents of rdy have
\* work and are not in flight, nobody with work is elsewhere, the lanes inf are
\* the work the executor holds, and not both several agents and several lanes
\* are free.
Pumpable(qs, rdy, inf) ==
  /\ NoRepeat(rdy)
  /\ \A a \in Elements(rdy) : qs[a] # <<>> /\ a \notin inf
  /\ \A a \in Agents : qs[a] # <<>> => a \in Elements(rdy) \cup inf
  /\ inf = running' \cup Elements(pool)
  /\ running' \cap Elements(pool) = {}
  /\ NoRepeat(pool)
  /\ \A a \in inf : job[a] # NoJob
  /\ Cardinality(inf) <= Lanes
  /\ Len(rdy) <= 1 \/ Cardinality(inf) >= Lanes - 1

\* How c lanes in use, of l, and a ready queue of n can relate before a pump.
LEMMA LanesAndQueue ==
  ASSUME NEW c \in Nat, NEW l \in Nat \ {0}, NEW n \in Nat,
         c <= l, n <= 1 \/ c >= l - 1
  PROVE  \/ c = l
         \/ c < l /\ n = 0
         \/ c < l /\ n = 1
         \/ c = l - 1 /\ n > 1
OBVIOUS

\* The critical sections bring at most one lane and one agent together, so the pump
\* loop of _pump_locked runs at most once.
LEMMA TakeAtMostOne ==
  ASSUME NEW rdy \in Seq(Agents), NEW inf \in SUBSET Agents,
         Cardinality(inf) <= Lanes,
         Len(rdy) <= 1 \/ Cardinality(inf) >= Lanes - 1
  PROVE  \/ Take(rdy, inf) = 0 /\ (rdy = <<>> \/ Cardinality(inf) = Lanes)
         \/ /\ Take(rdy, inf) = 1 /\ rdy # <<>>
            /\ Cardinality(inf) + 1 <= Lanes
            /\ Tail(rdy) = <<>> \/ Cardinality(inf) + 1 = Lanes
<1>1. Cardinality(inf) \in Nat /\ Lanes \in Nat \ {0} /\ Len(rdy) \in Nat
  BY FS_Subset, FS_CardinalityType, SchedulerAssumption DEF SchedulerAssumption
<1>2. Len(rdy) = 0 <=> rdy = <<>>
  OBVIOUS
<1>3. ASSUME Len(rdy) = 1
      PROVE  Tail(rdy) = <<>>
  <2>1. rdy # <<>>
    BY <1>2, <1>3
  <2>2. Tail(rdy) \in Seq(Agents) /\ Len(Tail(rdy)) = 0
    BY <1>3, <2>1, HeadTailProperties
  <2>. QED  BY <2>2, EmptySeq
<1>4. CASE Cardinality(inf) = Lanes
  BY <1>1, <1>4 DEF Take
<1>5. CASE Cardinality(inf) < Lanes /\ Len(rdy) = 0
  BY <1>1, <1>2, <1>5 DEF Take
<1>6. CASE Cardinality(inf) < Lanes /\ Len(rdy) = 1
  <2>1. Lanes - Cardinality(inf) \in Nat /\ Lanes - Cardinality(inf) >= 1
    BY <1>1, <1>6
  <2>2. Take(rdy, inf) = 1
    BY <1>1, <1>6, <2>1 DEF Take
  <2>. QED  BY <1>1, <1>2, <1>3, <1>6, <2>1, <2>2
<1>7. CASE Cardinality(inf) = Lanes - 1 /\ Len(rdy) > 1
  <2>1. Take(rdy, inf) = 1
    BY <1>1, <1>7 DEF Take
  <2>. QED  BY <1>1, <1>2, <1>7, <2>1
<1>8. \/ Cardinality(inf) = Lanes
      \/ Cardinality(inf) < Lanes /\ Len(rdy) = 0
      \/ Cardinality(inf) < Lanes /\ Len(rdy) = 1
      \/ Cardinality(inf) = Lanes - 1 /\ Len(rdy) > 1
  BY <1>1, LanesAndQueue
<1>. QED  BY <1>4, <1>5, <1>6, <1>7, <1>8

\* The pump leaves the lanes and the queues in order and nobody's count changes.
LEMMA PumpKeepsOrder ==
  ASSUME TypeOK, NEW qs \in [Agents -> Seq(Jobs)], NEW rdy \in Seq(Agents),
         NEW inf \in SUBSET Agents, running' \subseteq Agents,
         Pumpable(qs, rdy, inf), PumpLocked(qs, rdy, inf)
  PROVE  /\ queues' \in [Agents -> Seq(Jobs)]
         /\ ready' \in Seq(Agents)
         /\ inflight' \subseteq Agents
         /\ saturated' \in BOOLEAN
         /\ job' \in [Agents -> Jobs \cup {NoJob}]
         /\ pool' \in Seq(Agents)
         /\ passes' \in [Agents -> [Agents -> Nat]]
         /\ OneWakePerLane'
         /\ NoStrandedWork'
         /\ \A a \in Agents : Pending(a)' = Len(qs[a]) + (IF a \in inf THEN 1 ELSE 0)
         /\ \A a \in Agents : Pending(a)' \in Nat
<1>. USE DEF Pumpable
<1>0. saturated' \in BOOLEAN
  BY DEF PumpLocked, NoteSaturation
<1>a. IsFiniteSet(inf) /\ Cardinality(inf) \in Nat /\ Lanes \in Nat
  BY FS_Subset, FS_CardinalityType, SchedulerAssumption DEF SchedulerAssumption
<1>b. \/ Take(rdy, inf) = 0 /\ (rdy = <<>> \/ Cardinality(inf) = Lanes)
      \/ /\ Take(rdy, inf) = 1 /\ rdy # <<>>
         /\ Cardinality(inf) + 1 <= Lanes
         /\ Tail(rdy) = <<>> \/ Cardinality(inf) + 1 = Lanes
  BY TakeAtMostOne
<1>1. CASE Take(rdy, inf) = 0 /\ (rdy = <<>> \/ Cardinality(inf) = Lanes)
  <2>1. Idles(qs, rdy, inf)
    BY <1>1, PumpShape
  <2>2. /\ queues' \in [Agents -> Seq(Jobs)]
        /\ ready' \in Seq(Agents)
        /\ inflight' \subseteq Agents
        /\ pool' \in Seq(Agents)
    BY <2>1 DEF Idles, TypeOK
  <2>3. job' \in [Agents -> Jobs \cup {NoJob}] /\ passes' \in [Agents -> [Agents -> Nat]]
    BY <2>1 DEF Idles, TypeOK
  <2>4. OneWakePerLane'
    BY <2>1 DEF Idles, OneWakePerLane, NoRepeat
  <2>5. NoStrandedWork'
    BY <1>1, <2>1 DEF Idles, NoStrandedWork, NoRepeat
  <2>6. \A a \in Agents : Pending(a)' = Len(qs[a]) + (IF a \in inf THEN 1 ELSE 0)
    BY <2>1 DEF Idles, Pending
  <2>7. \A a \in Agents : Pending(a)' \in Nat
    <3>1. \A a \in Agents : Len(qs[a]) \in Nat
      OBVIOUS
    <3>. QED  BY <2>6, <3>1
  <2>. HIDE DEF Pumpable
  <2>. QED  BY <1>0, <2>2, <2>3, <2>4, <2>5, <2>6, <2>7
<1>2. CASE /\ Take(rdy, inf) = 1 /\ rdy # <<>>
           /\ Cardinality(inf) + 1 <= Lanes
           /\ Tail(rdy) = <<>> \/ Cardinality(inf) + 1 = Lanes
  <2> DEFINE b == rdy[1]
  <2>1. Dispatches(qs, rdy, inf)
    BY <1>2, PumpShape
  <2>2. /\ b \in Agents /\ b \in Elements(rdy)
        /\ Elements(rdy) = {b} \cup Elements(Tail(rdy))
        /\ Tail(rdy) \in Seq(Agents)
        /\ NoRepeat(Tail(rdy)) /\ b \notin Elements(Tail(rdy))
    BY <1>2, ElementsTail, NoRepeatTail
  <2>3. qs[b] # <<>> /\ b \notin inf /\ qs[b] \in Seq(Jobs)
    BY <2>2
  <2>4. Head(qs[b]) \in Jobs /\ Tail(qs[b]) \in Seq(Jobs) /\ Len(Tail(qs[b])) = Len(qs[b]) - 1
    BY <2>3
  <2>5. pool \in Seq(Agents) /\ b \notin Elements(pool) /\ b \notin running'
    BY <2>3 DEF TypeOK
  <2>6. Elements(pool') = Elements(pool) \cup {b} /\ NoRepeat(pool') /\ pool' \in Seq(Agents)
    BY <2>1, <2>2, <2>5, ElementsAppend, NoRepeatAppend DEF Dispatches
  <2>7. Cardinality(inflight') = Cardinality(inf) + 1
    <3>1. Cardinality(inf \cup {b}) = Cardinality(inf) + 1
      <4>1. b \notin inf
        BY <2>3
      <4>. HIDE DEF b
      <4>. QED  BY <4>1, <1>a, CountOneMore, Zenon
    <3>. QED  BY <2>1, <3>1 DEF Dispatches
  <2>8. /\ queues' \in [Agents -> Seq(Jobs)]
        /\ ready' \in Seq(Agents)
        /\ inflight' \subseteq Agents
    BY <2>1, <2>2, <2>4 DEF Dispatches
  <2>9. job' \in [Agents -> Jobs \cup {NoJob}]
    BY <2>1, <2>4 DEF Dispatches, TypeOK
  <2>10. passes' \in [Agents -> [Agents -> Nat]]
    <3>1. \A a, c \in Agents : passes[a][c] + (IF c = b THEN 1 ELSE 0) \in Nat
      BY DEF TypeOK
    <3>. QED  BY <2>1, <3>1 DEF Dispatches
  <2>11. OneWakePerLane'
    <3>1. Cardinality(inflight') <= Lanes
      BY <1>2, <2>7
    <3>2. /\ inflight' = running' \cup Elements(pool')
          /\ running' \cap Elements(pool') = {}
      BY <2>1, <2>5, <2>6 DEF Dispatches
    <3>3. \A a \in Agents : a \in inflight' <=> job'[a] # NoJob
      BY <2>1, <2>4, SchedulerAssumption DEF Dispatches, SchedulerAssumption
    <3>. QED  BY <2>6, <3>1, <3>2, <3>3 DEF OneWakePerLane, NoRepeat
  <2>12. NoStrandedWork'
    <3>1. \A a \in Agents : queues'[a] # <<>> => a \in Elements(ready') \cup inflight'
      BY <2>1, <2>2 DEF Dispatches
    <3>2. \A a \in Elements(ready') : queues'[a] # <<>> /\ a \notin inflight'
      BY <2>1, <2>2, ElementsTail DEF Dispatches
    <3>3. ready' # <<>> => Cardinality(inflight') = Lanes
      BY <1>2, <2>1, <2>7 DEF Dispatches
    <3>. QED  BY <2>1, <2>2, <3>1, <3>2, <3>3 DEF Dispatches, NoStrandedWork, NoRepeat
  <2>13. \A a \in Agents : Pending(a)' = Len(qs[a]) + (IF a \in inf THEN 1 ELSE 0)
    <3>. TAKE a \in Agents
    <3>1. CASE a = b
      <4>1. Len(queues'[a]) = Len(qs[b]) - 1 /\ Len(qs[b]) \in Nat
        BY <2>1, <2>3, <2>4, <3>1 DEF Dispatches
      <4>2. a \in inflight' /\ a \notin inf
        BY <2>1, <2>3, <3>1 DEF Dispatches
      <4>. QED  BY <3>1, <4>1, <4>2 DEF Pending
    <3>2. CASE a # b
      BY <2>1, <3>2 DEF Dispatches, Pending
    <3>. QED  BY <3>1, <3>2
  <2>. QED  BY <1>0, <2>6, <2>8, <2>9, <2>10, <2>11, <2>12, <2>13
<1>3. ASSUME queues' \in [Agents -> Seq(Jobs)], NEW a \in Agents
      PROVE  Pending(a)' \in Nat
  <2>1. Len(queues'[a]) \in Nat
    BY <1>3, LenProperties
  <2>2. \A m \in Nat : m + 1 \in Nat /\ m + 0 \in Nat
    OBVIOUS
  <2>3. Len(queues'[a]) + (IF a \in inflight' THEN 1 ELSE 0) \in Nat
    BY <2>1, <2>2, Zenon
  <2>. QED  BY <2>3, Zenon DEF Pending
<1>. QED  BY <1>b, <1>1, <1>2, <1>3

-----------------------------------------------------------------------------
(* The inductive invariant.  ObserverUpToDate speaks of agents with nothing *)
(* outstanding; what makes it inductive is that the last claimed ticket     *)
(* always carries the agent's count as it is now.                           *)

LastCountCurrent ==
  \A n \in notes : n.ticket + 1 = notifySeq[n.key] =>
    IF n.stage = "told"
    THEN n.key \in missed \/ published[n.key] = Pending(n.key)
    ELSE n.pending = Pending(n.key)

DispatchInv == OneWakePerLane /\ NoStrandedWork

NotifyInv ==
  /\ IsFiniteSet(notes)
  /\ DeliveryLine
  /\ LastCountCurrent
  /\ ObserverUpToDate

IInv == TypeOK /\ DispatchInv /\ NotifyInv

NotifyTypes ==
  /\ notes \subseteq Notes
  /\ asleep \subseteq notes
  /\ notifySeq \in [Agents -> Nat]
  /\ notifyTurn \in [Agents -> Nat]
  /\ notifying \in Nat

\* Claiming a ticket in the section that changed the count keeps the line.
LEMMA ClaimKeepsLine ==
  ASSUME TypeOK, NotifyInv, NEW a \in Agents, NEW thread \in {"loop", "lane"},
         Claim(a, thread), asleep' \in {asleep, {}},
         UNCHANGED <<published, missed>>,
         Pending(a)' \in Nat,
         \A b \in Agents \ {a} : Pending(b)' = Pending(b)
  PROVE  NotifyTypes' /\ NotifyInv'
<1> DEFINE new == [key |-> a, ticket |-> notifySeq[a], pending |-> Pending(a)',
                   by |-> thread, stage |-> "wait"]
<1>1. /\ notes' = notes \cup {new}
      /\ notifySeq' = [notifySeq EXCEPT ![a] = @ + 1]
      /\ notifying' = notifying + 1
      /\ notifyTurn' = notifyTurn
  BY DEF Claim
<1>2. /\ new \in Notes /\ new.key = a /\ new.ticket = notifySeq[a]
      /\ new.pending = Pending(a)' /\ new.stage = "wait"
  BY DEF TypeOK, Notes, Stages
<1>3. \A n \in notes : n \in Notes /\ n.key \in Agents /\ n.ticket \in Nat
  BY DEF TypeOK, Notes
<1>4. /\ \A n \in notes : notifyTurn[n.key] <= n.ticket /\ n.ticket < notifySeq[n.key]
      /\ \A b \in Agents : notifySeq[b] \in Nat /\ notifyTurn[b] \in Nat
      /\ notifying \in Nat
  BY DEF NotifyInv, DeliveryLine, TypeOK
<1>. HIDE DEF new
<1>5. new \notin notes
  BY <1>2, <1>4
<1>6. /\ notifySeq'[a] = notifySeq[a] + 1
      /\ \A b \in Agents \ {a} : notifySeq'[b] = notifySeq[b]
  BY <1>1 DEF TypeOK
<1>7. NotifyTypes'
  BY <1>1, <1>2 DEF NotifyTypes, TypeOK
<1>8. IsFiniteSet(notes') /\ notifying' = Cardinality(notes')
  BY <1>1, <1>5, FS_AddElement DEF NotifyInv, DeliveryLine
<1>9. DeliveryLine'
  <2>1. \A n \in notes' : notifyTurn'[n.key] <= n.ticket /\ n.ticket < notifySeq'[n.key]
    <3>1. notifyTurn[a] <= notifySeq[a]
      <4>1. CASE \E n \in notes : n.key = a
        BY <4>1, <1>3, <1>4
      <4>2. CASE \A n \in notes : n.key # a
        BY <4>2, <1>4 DEF NotifyInv, DeliveryLine
      <4>. QED  BY <4>1, <4>2
    <3>. QED  BY <1>1, <1>2, <1>3, <1>4, <1>6, <3>1
  <2>2. ASSUME NEW b \in Agents, NEW t \in notifyTurn'[b]..(notifySeq'[b] - 1)
        PROVE  \E n \in notes' : n.key = b /\ n.ticket = t
    <3>1. CASE b = a /\ t = notifySeq[a]
      BY <1>1, <1>2, <3>1
    <3>2. CASE ~(b = a /\ t = notifySeq[a])
      <4>1. t \in notifyTurn[b]..(notifySeq[b] - 1)
        BY <1>1, <1>4, <1>6, <2>2, <3>2
      <4>. QED  BY <1>1, <4>1 DEF NotifyInv, DeliveryLine
    <3>. QED  BY <3>1, <3>2
  <2>3. ASSUME NEW b \in Agents, \A n \in notes' : n.key # b
        PROVE  notifySeq'[b] = 0 /\ notifyTurn'[b] = 0
    <3>1. b # a
      BY <1>1, <1>2, <2>3
    <3>. QED  BY <1>1, <1>6, <2>3, <3>1 DEF NotifyInv, DeliveryLine
  <2>4. \A n \in notes' : n.stage \in {"observe", "told"} => n.ticket = notifyTurn'[n.key]
    BY <1>1, <1>2 DEF NotifyInv, DeliveryLine
  <2>5. \A n, m \in notes' : n.key = m.key /\ n.ticket = m.ticket => n = m
    <3>1. \A n \in notes : n.key = a => n.ticket # notifySeq[a]
      BY <1>3, <1>4
    <3>. QED  BY <1>1, <1>2, <3>1 DEF NotifyInv, DeliveryLine
  <2>6. \A n \in asleep' : n.stage = "wait" /\ n.ticket # notifyTurn'[n.key]
    BY <1>1 DEF NotifyInv, DeliveryLine
  <2>. QED  BY <1>8, <2>1, <2>2, <2>3, <2>4, <2>5, <2>6 DEF DeliveryLine
<1>10. LastCountCurrent'
  <2>. SUFFICES ASSUME NEW n \in notes', n.ticket + 1 = notifySeq'[n.key]
                PROVE  IF n.stage = "told"
                       THEN n.key \in missed' \/ published'[n.key] = Pending(n.key)'
                       ELSE n.pending = Pending(n.key)'
    BY DEF LastCountCurrent
  <2>1. CASE n = new
    BY <1>2, <2>1
  <2>2. CASE n # new
    <3>1. n \in notes /\ n.key # a
      BY <1>1, <1>3, <1>4, <1>6, <2>2
    <3>2. /\ n.key \in Agents \ {a} /\ n.ticket + 1 = notifySeq[n.key]
          /\ Pending(n.key)' = Pending(n.key)
      BY <1>3, <1>6, <3>1
    <3>. QED  BY <3>1, <3>2 DEF NotifyInv, LastCountCurrent
  <2>. QED  BY <2>1, <2>2
<1>11. ObserverUpToDate'
  <2>. SUFFICES ASSUME NEW b \in Agents, \A n \in notes' : n.key # b
                PROVE  b \in missed' \/ published'[b] = Pending(b)'
    BY DEF ObserverUpToDate
  <2>1. b # a /\ \A n \in notes : n.key # b
    BY <1>1, <1>2
  <2>. QED  BY <2>1 DEF NotifyInv, ObserverUpToDate
<1>. QED  BY <1>7, <1>8, <1>9, <1>10, <1>11 DEF NotifyInv

-----------------------------------------------------------------------------
(* The initial states, and one lemma per action.                           *)

\* The scheduler as constructed: nothing queued, nothing in flight, no ticket.
LEMMA InitInv == Init => IInv
<1>. SUFFICES ASSUME Init PROVE IInv
  OBVIOUS
<1>0. /\ Elements(<<>>) = {} /\ Len(<<>>) = 0 /\ Cardinality({}) = 0 /\ IsFiniteSet({})
  BY FS_EmptySet DEF Elements
<1>1. TypeOK
  <2>1. /\ queues \in [Agents -> Seq(Jobs)]
        /\ ready \in Seq(Agents) /\ pool \in Seq(Agents)
        /\ job \in [Agents -> Jobs \cup {NoJob}]
    BY DEF Init
  <2>2. /\ notifySeq \in [Agents -> Nat] /\ notifyTurn \in [Agents -> Nat]
        /\ published \in [Agents -> Nat] /\ notifying \in Nat
        /\ passes \in [Agents -> [Agents -> Nat]]
    BY DEF Init
  <2>3. /\ inflight \subseteq Agents /\ running \subseteq Agents /\ missed \subseteq Agents
        /\ notes \subseteq Notes /\ asleep \subseteq notes
        /\ submitted \subseteq Jobs /\ finished \subseteq Jobs
        /\ saturated \in BOOLEAN /\ drain \in DrainStates
    BY DEF Init, DrainStates
  <2>. QED  BY <2>1, <2>2, <2>3 DEF TypeOK
<1>2. OneWakePerLane
  BY <1>0, SchedulerAssumption DEF Init, OneWakePerLane, SchedulerAssumption
<1>3. NoStrandedWork
  BY <1>0 DEF Init, NoStrandedWork
<1>4. NotifyInv
  BY <1>0 DEF Init, NotifyInv, DeliveryLine, LastCountCurrent, ObserverUpToDate, Pending
<1>. QED  BY <1>1, <1>2, <1>3, <1>4 DEF IInv, DispatchInv

\* What submit hands to the pump: the job has joined its agent's queue, and the agent the
\* ready queue, unless it is there already or occupies a lane.
LEMMA SubmitPumps ==
  ASSUME IInv, NEW j \in Jobs, NEW a \in Agents, j[1] = a, Submit(j),
         NEW qs, qs = Enqueue(queues, j),
         NEW rdy, rdy = IF a \in inflight THEN ready ELSE Enter(ready, a)
  PROVE  /\ qs \in [Agents -> Seq(Jobs)]
         /\ qs[a] = Append(queues[a], j) /\ Len(qs[a]) = Len(queues[a]) + 1
         /\ \A b \in Agents \ {a} : qs[b] = queues[b]
         /\ rdy \in Seq(Agents)
         /\ Pumpable(qs, rdy, inflight)
         /\ PumpLocked(qs, rdy, inflight)
<1>0. TypeOK /\ OneWakePerLane /\ NoStrandedWork /\ NotifyInv
  BY DEF IInv, DispatchInv
<1>1. j \in Jobs /\ j[1] = a
  OBVIOUS
<1>2. /\ PumpLocked(qs, rdy, inflight)
      /\ Claim(a, "loop")
      /\ submitted' = submitted \cup {j}
      /\ UNCHANGED <<running, asleep, published, missed, drain, finished>>
  BY <1>1 DEF Submit
<1>3. /\ qs \in [Agents -> Seq(Jobs)]
      /\ qs[a] = Append(queues[a], j) /\ qs[a] # <<>> /\ Len(qs[a]) = Len(queues[a]) + 1
      /\ \A b \in Agents \ {a} : qs[b] = queues[b]
  <2>1. queues[a] \in Seq(Jobs) /\ queues \in [Agents -> Seq(Jobs)]
    BY <1>0, <1>1 DEF TypeOK
  <2>2. qs = [queues EXCEPT ![a] = Append(queues[a], j)]
    BY <1>1 DEF Enqueue
  <2>3. Append(queues[a], j) \in Seq(Jobs) /\ Len(Append(queues[a], j)) = Len(queues[a]) + 1
    BY <1>1, <2>1
  <2>4. Append(queues[a], j) # <<>>
    <3>1. Len(queues[a]) \in Nat /\ Len(<<>>) = 0
      BY <2>1
    <3>. QED  BY <2>3, <3>1
  <2>. QED  BY <2>1, <2>2, <2>3, <2>4
<1>4. /\ rdy \in Seq(Agents)
      /\ Elements(rdy) = Elements(ready) \cup (IF a \in inflight THEN {} ELSE {a})
      /\ NoRepeat(rdy)
      /\ Len(rdy) <= 1 \/ ready # <<>>
  <2>1. ready \in Seq(Agents) /\ NoRepeat(ready)
    BY <1>0 DEF TypeOK, NoStrandedWork, NoRepeat
  <2>2. CASE a \in inflight \/ a \in Elements(ready)
    <3>1. rdy = ready
      BY <2>2 DEF Enter
    <3>2. a \notin inflight => a \in Elements(ready)
      BY <2>2
    <3>3. ready = <<>> => Len(ready) <= 1
      OBVIOUS
    <3>. QED  BY <2>1, <3>1, <3>2, <3>3
  <2>3. CASE a \notin inflight /\ a \notin Elements(ready)
    <3>1. rdy = Append(ready, a)
      BY <2>3 DEF Enter
    <3>2. rdy \in Seq(Agents) /\ Elements(rdy) = Elements(ready) \cup {a} /\ NoRepeat(rdy)
      <4>1. Append(ready, a) \in Seq(Agents)
        BY <1>1, <2>1
      <4>2. Elements(Append(ready, a)) = Elements(ready) \cup {a}
        BY <1>1, <2>1, ElementsAppend
      <4>3. NoRepeat(Append(ready, a))
        BY <1>1, <2>1, <2>3, NoRepeatAppend
      <4>. QED  BY <3>1, <4>1, <4>2, <4>3
    <3>3. ready = <<>> => Len(rdy) <= 1
      <4>1. Len(Append(ready, a)) = Len(ready) + 1
        BY <1>1, <2>1
      <4>2. Len(rdy) = Len(ready) + 1
        BY <3>1, <4>1, Zenon
      <4>3. ready = <<>> => Len(ready) = 0
        OBVIOUS
      <4>. QED  BY <4>2, <4>3
    <3>. QED  BY <2>3, <3>2, <3>3
  <2>. QED  BY <2>2, <2>3
<1>5. Pumpable(qs, rdy, inflight)
  <2>1. \A b \in Elements(rdy) : b \in Agents
    BY <1>4 DEF Elements
  <2>2. \A b \in Elements(rdy) : qs[b] # <<>> /\ b \notin inflight
    BY <1>0, <1>3, <1>4, <2>1 DEF NoStrandedWork
  <2>3. \A b \in Agents : qs[b] # <<>> => b \in Elements(rdy) \cup inflight
    BY <1>0, <1>3, <1>4 DEF NoStrandedWork
  <2>4. /\ inflight = running' \cup Elements(pool)
        /\ running' \cap Elements(pool) = {}
        /\ NoRepeat(pool)
        /\ \A b \in inflight : job[b] # NoJob
        /\ Cardinality(inflight) <= Lanes
    BY <1>0, <1>2 DEF OneWakePerLane, NoRepeat, TypeOK
  <2>5. Len(rdy) <= 1 \/ Cardinality(inflight) >= Lanes - 1
    BY <1>0, <1>4, SchedulerAssumption DEF NoStrandedWork, SchedulerAssumption
  <2>. QED  BY <1>4, <2>2, <2>3, <2>4, <2>5 DEF Pumpable
<1>. QED  BY <1>2, <1>3, <1>4, <1>5

\* submit: the agent joins the ready queue if it is not busy, the lanes are pumped,
\* the change of its count is ticketed.
LEMMA SubmitInv ==
  ASSUME IInv, NEW j \in Jobs, NEW a \in Agents, j[1] = a, Submit(j)
  PROVE  IInv'
<1> DEFINE qs == Enqueue(queues, j)
           rdy == IF a \in inflight THEN ready ELSE Enter(ready, a)
<1>0. TypeOK /\ OneWakePerLane /\ NoStrandedWork /\ NotifyInv
  BY DEF IInv, DispatchInv
<1>1. j \in Jobs /\ j[1] = a
  OBVIOUS
<1>2. /\ Claim(a, "loop")
      /\ submitted' = submitted \cup {j}
      /\ UNCHANGED <<running, asleep, published, missed, drain, finished>>
  BY <1>1 DEF Submit
<1>3. /\ qs \in [Agents -> Seq(Jobs)]
      /\ \A b \in Agents \ {a} : qs[b] = queues[b]
      /\ rdy \in Seq(Agents)
      /\ Pumpable(qs, rdy, inflight) /\ PumpLocked(qs, rdy, inflight)
  BY SubmitPumps
<1>. HIDE DEF qs, rdy
<1>6. running' \subseteq Agents /\ inflight \in SUBSET Agents
  BY <1>0, <1>2 DEF TypeOK
<1>7. /\ queues' \in [Agents -> Seq(Jobs)]
      /\ ready' \in Seq(Agents)
      /\ inflight' \subseteq Agents
      /\ saturated' \in BOOLEAN
      /\ job' \in [Agents -> Jobs \cup {NoJob}]
      /\ pool' \in Seq(Agents)
      /\ passes' \in [Agents -> [Agents -> Nat]]
      /\ OneWakePerLane'
      /\ NoStrandedWork'
      /\ \A b \in Agents : Pending(b)' = Len(qs[b]) + (IF b \in inflight THEN 1 ELSE 0)
      /\ \A b \in Agents : Pending(b)' \in Nat
  BY <1>0, <1>3, <1>6, PumpKeepsOrder
<1>8. Pending(a)' \in Nat /\ \A b \in Agents \ {a} : Pending(b)' = Pending(b)
  <2>2. Pending(a)' \in Nat
    BY <1>7
  <2>3. ASSUME NEW b \in Agents \ {a}
        PROVE  Pending(b)' = Pending(b)
    BY <1>3, <1>7 DEF Pending
  <2>. QED  BY <2>2, <2>3
<1>9. NotifyTypes' /\ NotifyInv'
  BY <1>0, <1>1, <1>2, <1>8, ClaimKeepsLine
<1>10. TypeOK'
  BY <1>0, <1>1, <1>2, <1>7, <1>9 DEF TypeOK, NotifyTypes
<1>. QED  BY <1>7, <1>9, <1>10 DEF IInv, DispatchInv

\* The executor hands a dispatched job to a thread.
LEMMA StartJobInv ==
  ASSUME IInv, StartJob
  PROVE  IInv'
<1>0. TypeOK /\ OneWakePerLane /\ NoStrandedWork /\ NotifyInv
  BY DEF IInv, DispatchInv
<1>1. /\ pool # <<>>
      /\ running' = running \cup {Head(pool)}
      /\ pool' = Tail(pool)
      /\ UNCHANGED <<queues, ready, inflight, saturated, job, notifyVars,
                     published, missed, drain, submitted, finished, passes>>
  BY DEF StartJob
<1>2. pool \in Seq(Agents) /\ NoRepeat(pool) /\ Head(pool) = pool[1] /\ pool[1] \in Agents
  BY <1>0, <1>1 DEF TypeOK, OneWakePerLane, NoRepeat
<1>3. /\ pool' \in Seq(Agents)
      /\ Elements(pool) = {pool[1]} \cup Elements(pool')
      /\ pool[1] \notin Elements(pool') /\ NoRepeat(pool')
  BY <1>1, <1>2, ElementsTail, NoRepeatTail
<1>4. TypeOK'
  BY <1>0, <1>1, <1>2, <1>3 DEF TypeOK, notifyVars
<1>5. OneWakePerLane'
  BY <1>0, <1>1, <1>2, <1>3 DEF OneWakePerLane, NoRepeat
<1>6. NoStrandedWork'
  BY <1>0, <1>1 DEF NoStrandedWork
<1>7. NotifyInv'
  BY <1>0, <1>1 DEF NotifyInv, DeliveryLine, LastCountCurrent, ObserverUpToDate, Pending,
                    notifyVars
<1>. QED  BY <1>4, <1>5, <1>6, <1>7 DEF IInv, DispatchInv

\* What the finally of _run_job hands to the pump: the agent, if it has more work, is at
\* the back of the ready queue, and its lane is free.
LEMMA RunJobPumps ==
  ASSUME IInv, NEW a \in Agents, RunJobFinally(a),
         NEW rdy, rdy = Reenter(a), NEW inf, inf = inflight \ {a}
  PROVE  /\ a \in inflight /\ a \notin Elements(pool) /\ a \notin Elements(ready)
         /\ job[a] \in Jobs
         /\ rdy \in Seq(Agents) /\ inf \in SUBSET Agents
         /\ Pumpable(queues, rdy, inf)
         /\ PumpLocked(queues, rdy, inf)
<1>0. TypeOK /\ OneWakePerLane /\ NoStrandedWork /\ NotifyInv
  BY DEF IInv, DispatchInv
<1>1. /\ a \in running
      /\ running' = running \ {a}
      /\ finished' = finished \cup {job[a]}
      /\ PumpLocked(queues, rdy, inf)
      /\ Claim(a, "lane")
      /\ asleep' = {}
      /\ drain' = IF drain = "asleep" THEN "check" ELSE drain
      /\ UNCHANGED <<published, missed, submitted>>
  BY DEF RunJobFinally, NotifyAll
<1>2. a \in inflight /\ a \notin Elements(pool) /\ a \notin Elements(ready)
  BY <1>0, <1>1 DEF OneWakePerLane, NoStrandedWork
<1>3. job[a] \in Jobs
  BY <1>0, <1>2 DEF TypeOK, OneWakePerLane
<1>4. /\ rdy \in Seq(Agents)
      /\ Elements(rdy) = Elements(ready) \cup (IF queues[a] # <<>> THEN {a} ELSE {})
      /\ NoRepeat(rdy)
      /\ Len(rdy) <= 1 \/ ready # <<>>
  <2>1. ready \in Seq(Agents) /\ NoRepeat(ready)
    BY <1>0 DEF TypeOK, NoStrandedWork, NoRepeat
  <2>2. CASE queues[a] = <<>>
    <3>1. rdy = ready
      BY <2>2 DEF Reenter
    <3>2. ready = <<>> => Len(ready) <= 1
      OBVIOUS
    <3>. QED  BY <2>1, <2>2, <3>1, <3>2
  <2>3. CASE queues[a] # <<>>
    <3>1. rdy = Append(ready, a)
      BY <1>2, <2>3 DEF Reenter, Enter
    <3>2. Append(ready, a) \in Seq(Agents) /\ Len(Append(ready, a)) = Len(ready) + 1
      BY <2>1
    <3>3. Elements(Append(ready, a)) = Elements(ready) \cup {a}
      BY <2>1, ElementsAppend
    <3>4. NoRepeat(Append(ready, a))
      BY <1>2, <2>1, NoRepeatAppend
    <3>5. ready = <<>> => Len(rdy) <= 1
      BY <3>1, <3>2
    <3>. QED  BY <2>3, <3>1, <3>2, <3>3, <3>4, <3>5
  <2>. QED  BY <2>2, <2>3
<1>5. inf \in SUBSET Agents /\ Cardinality(inf) = Cardinality(inflight) - 1
      /\ Cardinality(inflight) \in Nat
  BY <1>0, <1>2, FS_RemoveElement, FS_Subset, FS_CardinalityType, SchedulerAssumption
     DEF TypeOK, SchedulerAssumption
<1>6. Pumpable(queues, rdy, inf)
  <2>1. \A b \in Elements(rdy) : queues[b] # <<>> /\ b \notin inf
    BY <1>0, <1>4 DEF NoStrandedWork
  <2>2. \A b \in Agents : queues[b] # <<>> => b \in Elements(rdy) \cup inf
    BY <1>0, <1>4 DEF NoStrandedWork
  <2>3. /\ inf = running' \cup Elements(pool)
        /\ running' \cap Elements(pool) = {}
        /\ NoRepeat(pool)
        /\ \A b \in inf : job[b] # NoJob
    BY <1>0, <1>1, <1>2 DEF OneWakePerLane, NoRepeat, TypeOK
  <2>4. Cardinality(inf) <= Lanes
    BY <1>0, <1>5, SchedulerAssumption DEF OneWakePerLane, SchedulerAssumption
  <2>5. Len(rdy) <= 1 \/ Cardinality(inf) >= Lanes - 1
    BY <1>0, <1>4, <1>5, SchedulerAssumption DEF NoStrandedWork, SchedulerAssumption
  <2>. QED  BY <1>4, <2>1, <2>2, <2>3, <2>4, <2>5 DEF Pumpable
<1>. QED  BY <1>1, <1>2, <1>3, <1>4, <1>5, <1>6

\* The finally of _run_job: the lane is freed, the agent re-enters at the back, the
\* lanes are pumped, the change is ticketed and everyone is woken.
LEMMA RunJobInv ==
  ASSUME IInv, NEW a \in Agents, RunJobFinally(a)
  PROVE  IInv'
<1> DEFINE rdy == Reenter(a)
           inf == inflight \ {a}
<1>0. TypeOK /\ OneWakePerLane /\ NoStrandedWork /\ NotifyInv
  BY DEF IInv, DispatchInv
<1>1. /\ a \in running
      /\ running' = running \ {a}
      /\ finished' = finished \cup {job[a]}
      /\ Claim(a, "lane")
      /\ asleep' = {}
      /\ drain' = IF drain = "asleep" THEN "check" ELSE drain
      /\ UNCHANGED <<published, missed, submitted>>
  BY DEF RunJobFinally, NotifyAll
<1>2. /\ job[a] \in Jobs
      /\ rdy \in Seq(Agents) /\ inf \in SUBSET Agents
      /\ Pumpable(queues, rdy, inf) /\ PumpLocked(queues, rdy, inf)
  BY RunJobPumps
<1>7. running' \subseteq Agents /\ queues \in [Agents -> Seq(Jobs)]
  BY <1>0, <1>1 DEF TypeOK
<1>. HIDE DEF rdy, inf
<1>8. /\ queues' \in [Agents -> Seq(Jobs)]
      /\ ready' \in Seq(Agents)
      /\ inflight' \subseteq Agents
      /\ saturated' \in BOOLEAN
      /\ job' \in [Agents -> Jobs \cup {NoJob}]
      /\ pool' \in Seq(Agents)
      /\ passes' \in [Agents -> [Agents -> Nat]]
      /\ OneWakePerLane'
      /\ NoStrandedWork'
      /\ \A b \in Agents : Pending(b)' = Len(queues[b]) + (IF b \in inf THEN 1 ELSE 0)
      /\ \A b \in Agents : Pending(b)' \in Nat
  BY <1>0, <1>2, <1>7, PumpKeepsOrder
<1>9. \A b \in Agents \ {a} : Pending(b)' = Pending(b)
  BY <1>8 DEF inf, Pending
<1>10. NotifyTypes' /\ NotifyInv'
  BY <1>0, <1>1, <1>8, <1>9, ClaimKeepsLine
<1>11. drain' \in DrainStates /\ finished' \subseteq Jobs
  BY <1>0, <1>1, <1>2 DEF TypeOK, DrainStates
<1>12. TypeOK'
  BY <1>0, <1>1, <1>7, <1>8, <1>10, <1>11 DEF TypeOK, NotifyTypes
<1>. QED  BY <1>8, <1>10, <1>12 DEF IInv, DispatchInv

\* Moving one call of the line on to its next stage: it stays the same ticket.
LEMMA ReplaceKeepsLine ==
  ASSUME TypeOK, NotifyInv, NEW n \in notes, NEW stage \in Stages,
         ReplaceNote(n, stage), n \notin asleep, n.ticket = notifyTurn[n.key],
         UNCHANGED <<asleep, notifySeq, notifyTurn, notifying>>
  PROVE  LET m == [n EXCEPT !.stage = stage]
         IN  /\ m \in Notes /\ m.key = n.key /\ m.ticket = n.ticket
             /\ m.pending = n.pending /\ m.stage = stage
             /\ notes' = (notes \ {n}) \cup {m}
             /\ NotifyTypes' /\ IsFiniteSet(notes') /\ DeliveryLine'
<1> DEFINE m == [n EXCEPT !.stage = stage]
<1>1. n \in Notes /\ notes \subseteq Notes /\ IsFiniteSet(notes) /\ DeliveryLine
  BY DEF TypeOK, NotifyInv
<1>2. /\ m \in Notes /\ m.key = n.key /\ m.ticket = n.ticket
      /\ m.pending = n.pending /\ m.stage = stage
  BY <1>1 DEF Notes
<1>3. notes' = (notes \ {n}) \cup {m}
  BY DEF ReplaceNote
<1>. HIDE DEF m
<1>4. m \notin notes \ {n}
  BY <1>1, <1>2 DEF DeliveryLine
<1>5. NotifyTypes'
  BY <1>2, <1>3 DEF NotifyTypes, TypeOK
<1>6. IsFiniteSet(notes') /\ Cardinality(notes') = Cardinality(notes)
  <2>1. IsFiniteSet(notes \ {n}) /\ Cardinality(notes \ {n}) = Cardinality(notes) - 1
    BY <1>1, FS_RemoveElement
  <2>2. /\ IsFiniteSet((notes \ {n}) \cup {m})
        /\ Cardinality((notes \ {n}) \cup {m}) = Cardinality(notes \ {n}) + 1
    BY <1>4, <2>1, FS_AddElement
  <2>3. Cardinality(notes) \in Nat
    BY <1>1, FS_CardinalityType
  <2>. QED  BY <1>3, <2>1, <2>2, <2>3
<1>7. DeliveryLine'
  <2>1. \A k \in notes' : notifyTurn'[k.key] <= k.ticket /\ k.ticket < notifySeq'[k.key]
    BY <1>1, <1>2, <1>3 DEF DeliveryLine
  <2>2. ASSUME NEW b \in Agents, NEW t \in notifyTurn'[b]..(notifySeq'[b] - 1)
        PROVE  \E k \in notes' : k.key = b /\ k.ticket = t
    <3>1. PICK k \in notes : k.key = b /\ k.ticket = t
      BY <1>1, <2>2 DEF DeliveryLine
    <3>. QED  BY <1>2, <1>3, <3>1
  <2>3. ASSUME NEW b \in Agents, \A k \in notes' : k.key # b
        PROVE  notifySeq'[b] = 0 /\ notifyTurn'[b] = 0
    <3>1. \A k \in notes : k.key # b
      BY <1>2, <1>3, <2>3
    <3>. QED  BY <1>1, <3>1 DEF DeliveryLine
  <2>4. \A k \in notes' : k.stage \in {"observe", "told"} => k.ticket = notifyTurn'[k.key]
    BY <1>1, <1>2, <1>3 DEF DeliveryLine
  <2>5. \A k, l \in notes' : k.key = l.key /\ k.ticket = l.ticket => k = l
    BY <1>1, <1>2, <1>3 DEF DeliveryLine
  <2>6. \A k \in asleep' : k.stage = "wait" /\ k.ticket # notifyTurn'[k.key]
    BY <1>1 DEF DeliveryLine
  <2>7. notifying' = Cardinality(notes')
    BY <1>1, <1>6 DEF DeliveryLine
  <2>. QED  BY <2>1, <2>2, <2>3, <2>4, <2>5, <2>6, <2>7 DEF DeliveryLine
<1>. QED  BY <1>2, <1>3, <1>5, <1>6, <1>7 DEF m

\* _deliver_queue_change's wait_for: go on in turn, or sleep out of turn.
LEMMA CheckTurnInv ==
  ASSUME IInv, NEW n \in notes, CheckTurn(n)
  PROVE  IInv'
<1>0. TypeOK /\ OneWakePerLane /\ NoStrandedWork /\ NotifyInv
  BY DEF IInv, DispatchInv
<1>1. /\ n.stage = "wait" /\ n \notin asleep
      /\ UNCHANGED <<schedVars, notifySeq, notifyTurn, notifying,
                     published, missed, drain, submitted, finished, passes>>
  BY DEF CheckTurn
<1>2. OneWakePerLane' /\ NoStrandedWork' /\ \A a \in Agents : Pending(a)' = Pending(a)
  BY <1>0, <1>1 DEF OneWakePerLane, NoStrandedWork, Pending, schedVars
<1>3. CASE notifyTurn[n.key] = n.ticket
  <2> DEFINE m == [n EXCEPT !.stage = "observe"]
  <2>1. ReplaceNote(n, "observe") /\ UNCHANGED asleep
    BY <1>3 DEF CheckTurn
  <2>2. /\ m \in Notes /\ m.key = n.key /\ m.ticket = n.ticket
        /\ m.pending = n.pending /\ m.stage = "observe"
        /\ notes' = (notes \ {n}) \cup {m}
        /\ NotifyTypes' /\ IsFiniteSet(notes') /\ DeliveryLine'
    BY <1>0, <1>1, <1>3, <2>1, ReplaceKeepsLine DEF Stages
  <2>. HIDE DEF m
  <2>3. n.key \in Agents /\ \A k \in notes : k.key \in Agents
    BY <1>0 DEF TypeOK, Notes
  <2>4. LastCountCurrent'
    BY <1>0, <1>1, <1>2, <2>2, <2>3 DEF NotifyInv, LastCountCurrent
  <2>5. ObserverUpToDate'
    BY <1>0, <1>1, <1>2, <2>2 DEF NotifyInv, ObserverUpToDate
  <2>6. TypeOK'
    BY <1>0, <1>1, <2>2 DEF TypeOK, NotifyTypes, schedVars
  <2>. QED  BY <1>2, <2>2, <2>4, <2>5, <2>6 DEF IInv, DispatchInv, NotifyInv
<1>4. CASE notifyTurn[n.key] # n.ticket
  <2>1. asleep' = asleep \cup {n} /\ UNCHANGED notes
    BY <1>4 DEF CheckTurn
  <2>2. TypeOK'
    BY <1>0, <1>1, <2>1 DEF TypeOK, schedVars
  <2>3. DeliveryLine'
    BY <1>0, <1>1, <1>4, <2>1 DEF NotifyInv, DeliveryLine
  <2>4. LastCountCurrent' /\ ObserverUpToDate'
    <3>1. \A k \in notes : k.key \in Agents
      BY <1>0 DEF TypeOK, Notes
    <3>. QED  BY <1>0, <1>1, <1>2, <2>1, <3>1 DEF NotifyInv, LastCountCurrent, ObserverUpToDate
  <2>. QED  BY <1>0, <1>2, <2>1, <2>2, <2>3, <2>4 DEF IInv, DispatchInv, NotifyInv
<1>. QED  BY <1>3, <1>4

\* _notify_queue_change: the observer records the count, or raises.
LEMMA NotifyInvStep ==
  ASSUME IInv, NEW n \in notes, NotifyQueueChange(n)
  PROVE  IInv'
<1> DEFINE m == [n EXCEPT !.stage = "told"]
<1>0. TypeOK /\ OneWakePerLane /\ NoStrandedWork /\ NotifyInv
  BY DEF IInv, DispatchInv
<1>1. /\ n.stage = "observe" /\ ReplaceNote(n, "told")
      /\ \/ published' = [published EXCEPT ![n.key] = n.pending] /\ missed' = missed \ {n.key}
         \/ missed' = missed \cup {n.key} /\ UNCHANGED published
      /\ UNCHANGED <<schedVars, asleep, notifySeq, notifyTurn, notifying,
                     drain, submitted, finished, passes>>
  BY DEF NotifyQueueChange
<1>2. OneWakePerLane' /\ NoStrandedWork' /\ \A a \in Agents : Pending(a)' = Pending(a)
  BY <1>0, <1>1 DEF OneWakePerLane, NoStrandedWork, Pending, schedVars
<1>3. n \notin asleep /\ n.ticket = notifyTurn[n.key]
  BY <1>0, <1>1 DEF NotifyInv, DeliveryLine
<1>4. /\ m \in Notes /\ m.key = n.key /\ m.ticket = n.ticket
      /\ m.pending = n.pending /\ m.stage = "told"
      /\ notes' = (notes \ {n}) \cup {m}
      /\ NotifyTypes' /\ IsFiniteSet(notes') /\ DeliveryLine'
  BY <1>0, <1>1, <1>3, ReplaceKeepsLine DEF Stages
<1>. HIDE DEF m
<1>5. n.key \in Agents /\ n.pending \in Nat /\ \A k \in notes : k.key \in Agents
  BY <1>0 DEF TypeOK, Notes
<1>6. /\ published' \in [Agents -> Nat] /\ missed' \subseteq Agents
      /\ \A b \in Agents \ {n.key} : published'[b] = published[b] /\ (b \in missed <=> b \in missed')
      /\ n.key \in missed' \/ published'[n.key] = n.pending
  BY <1>0, <1>1, <1>5 DEF TypeOK
<1>7. LastCountCurrent'
  <2>. SUFFICES ASSUME NEW k \in notes', k.ticket + 1 = notifySeq'[k.key]
                PROVE  IF k.stage = "told"
                       THEN k.key \in missed' \/ published'[k.key] = Pending(k.key)'
                       ELSE k.pending = Pending(k.key)'
    BY DEF LastCountCurrent
  <2>1. CASE k = m
    <3>1. n.pending = Pending(n.key)
      BY <1>0, <1>1, <1>4, <2>1 DEF NotifyInv, LastCountCurrent
    <3>. QED  BY <1>2, <1>4, <1>5, <1>6, <2>1, <3>1
  <2>2. CASE k # m
    <3>1. k \in notes /\ k.key \in Agents /\ k # n
      BY <1>4, <1>5, <2>2
    <3>2. CASE k.key # n.key
      BY <1>0, <1>1, <1>2, <1>6, <3>1, <3>2 DEF NotifyInv, LastCountCurrent
    <3>3. CASE k.key = n.key
      <4>1. k.stage # "told"
        BY <1>0, <1>3, <3>1, <3>3 DEF NotifyInv, DeliveryLine
      <4>. QED  BY <1>0, <1>1, <1>2, <3>1, <4>1 DEF NotifyInv, LastCountCurrent
    <3>. QED  BY <3>2, <3>3
  <2>. QED  BY <2>1, <2>2
<1>8. ObserverUpToDate'
  <2>. SUFFICES ASSUME NEW b \in Agents, \A k \in notes' : k.key # b
                PROVE  b \in missed' \/ published'[b] = Pending(b)'
    BY DEF ObserverUpToDate
  <2>1. b # n.key /\ \A k \in notes : k.key # b
    BY <1>4
  <2>. QED  BY <1>0, <1>2, <1>6, <2>1 DEF NotifyInv, ObserverUpToDate
<1>9. TypeOK'
  BY <1>0, <1>1, <1>4, <1>6 DEF TypeOK, NotifyTypes, schedVars
<1>. QED  BY <1>2, <1>4, <1>7, <1>8, <1>9 DEF IInv, DispatchInv, NotifyInv

\* The finally of _deliver_queue_change: the next ticket's turn, or no counter at all.
LEMMA SettleInv ==
  ASSUME IInv, NEW n \in notes, Settle(n)
  PROVE  IInv'
<1> DEFINE a == n.key
           last == n.ticket + 1 = notifySeq[a]
<1>0. TypeOK /\ OneWakePerLane /\ NoStrandedWork /\ NotifyInv
  BY DEF IInv, DispatchInv
<1>1. /\ n.stage = "told"
      /\ notifySeq' = IF last THEN [notifySeq EXCEPT ![a] = 0] ELSE notifySeq
      /\ notifyTurn' = [notifyTurn EXCEPT ![a] = IF last THEN 0 ELSE n.ticket + 1]
      /\ notifying' = notifying - 1
      /\ notes' = notes \ {n}
      /\ asleep' = {}
      /\ drain' = IF drain = "asleep" THEN "check" ELSE drain
      /\ UNCHANGED <<schedVars, published, missed, submitted, finished, passes>>
  BY DEF Settle, NotifyAll
<1>2. OneWakePerLane' /\ NoStrandedWork' /\ \A b \in Agents : Pending(b)' = Pending(b)
  BY <1>0, <1>1 DEF OneWakePerLane, NoStrandedWork, Pending, schedVars
<1>3. /\ n.ticket = notifyTurn[a]
      /\ \A k \in notes : /\ k.key \in Agents /\ k.ticket \in Nat
                          /\ notifyTurn[k.key] <= k.ticket /\ k.ticket < notifySeq[k.key]
      /\ \A k, l \in notes : k.key = l.key /\ k.ticket = l.ticket => k = l
      /\ \A b \in Agents : notifySeq[b] \in Nat /\ notifyTurn[b] \in Nat
  BY <1>0, <1>1 DEF TypeOK, Notes, NotifyInv, DeliveryLine
<1>4. /\ a \in Agents /\ n.ticket \in Nat
      /\ notifySeq'[a] = IF last THEN 0 ELSE notifySeq[a]
      /\ notifyTurn'[a] = IF last THEN 0 ELSE n.ticket + 1
      /\ \A b \in Agents \ {a} : notifySeq'[b] = notifySeq[b] /\ notifyTurn'[b] = notifyTurn[b]
  BY <1>0, <1>1, <1>3 DEF TypeOK
<1>5. IsFiniteSet(notes') /\ notifying' = Cardinality(notes') /\ notifying' \in Nat
  <2>1. IsFiniteSet(notes) /\ notifying = Cardinality(notes)
    BY <1>0 DEF NotifyInv, DeliveryLine
  <2>2. IsFiniteSet(notes \ {n}) /\ Cardinality(notes \ {n}) = Cardinality(notes) - 1
    BY <2>1, FS_RemoveElement
  <2>. QED  BY <1>1, <2>1, <2>2, FS_CardinalityType
<1>6. TypeOK'
  <2>1. notifySeq' \in [Agents -> Nat] /\ notifyTurn' \in [Agents -> Nat]
    BY <1>0, <1>1, <1>3, <1>4 DEF TypeOK
  <2>2. drain' \in DrainStates
    BY <1>0, <1>1 DEF TypeOK, DrainStates
  <2>. QED  BY <1>0, <1>1, <1>5, <2>1, <2>2 DEF TypeOK, schedVars
<1>7. last => \A k \in notes : k.key = a => k = n
  BY <1>3, <1>4
<1>8. DeliveryLine'
  <2>1. \A k \in notes' : notifyTurn'[k.key] <= k.ticket /\ k.ticket < notifySeq'[k.key]
    BY <1>1, <1>3, <1>4, <1>7
  <2>2. ASSUME NEW b \in Agents, NEW t \in notifyTurn'[b]..(notifySeq'[b] - 1)
        PROVE  \E k \in notes' : k.key = b /\ k.ticket = t
    <3>1. CASE b = a /\ last
      BY <1>4, <2>2, <3>1
    <3>2. CASE b = a /\ ~last
      <4>1. t \in notifyTurn[b]..(notifySeq[b] - 1) /\ t # n.ticket
        BY <1>3, <1>4, <2>2, <3>2
      <4>2. PICK k \in notes : k.key = b /\ k.ticket = t
        BY <1>0, <4>1 DEF NotifyInv, DeliveryLine
      <4>. QED  BY <1>1, <4>1, <4>2
    <3>3. CASE b # a
      <4>1. t \in notifyTurn[b]..(notifySeq[b] - 1)
        BY <1>4, <2>2, <3>3
      <4>2. PICK k \in notes : k.key = b /\ k.ticket = t
        BY <1>0, <4>1 DEF NotifyInv, DeliveryLine
      <4>. QED  BY <1>1, <3>3, <4>2
    <3>. QED  BY <3>1, <3>2, <3>3
  <2>3. ASSUME NEW b \in Agents, \A k \in notes' : k.key # b
        PROVE  notifySeq'[b] = 0 /\ notifyTurn'[b] = 0
    <3>1. CASE b = a /\ last
      BY <1>4, <3>1
    <3>2. CASE b = a /\ ~last
      <4>1. n.ticket + 1 \in notifyTurn[a]..(notifySeq[a] - 1)
        BY <1>3, <1>4, <3>2
      <4>2. PICK k \in notes : k.key = a /\ k.ticket = n.ticket + 1
        BY <1>0, <1>4, <4>1 DEF NotifyInv, DeliveryLine
      <4>3. k # n
        BY <1>4, <4>2
      <4>. QED  BY <1>1, <2>3, <3>2, <4>2, <4>3
    <3>3. CASE b # a
      BY <1>0, <1>1, <1>4, <2>3, <3>3 DEF NotifyInv, DeliveryLine
    <3>. QED  BY <3>1, <3>2, <3>3
  <2>4. ASSUME NEW k \in notes', k.stage \in {"observe", "told"}
        PROVE  k.ticket = notifyTurn'[k.key]
    <3>1. k \in notes /\ k # n /\ k.ticket = notifyTurn[k.key]
      BY <1>0, <1>1, <2>4 DEF NotifyInv, DeliveryLine
    <3>2. k.key # a
      BY <1>3, <3>1
    <3>. QED  BY <1>3, <1>4, <3>1, <3>2
  <2>5. \A k, l \in notes' : k.key = l.key /\ k.ticket = l.ticket => k = l
    BY <1>1, <1>3
  <2>. QED  BY <1>1, <1>5, <2>1, <2>2, <2>3, <2>4, <2>5 DEF DeliveryLine
<1>9. LastCountCurrent'
  <2>. SUFFICES ASSUME NEW k \in notes', k.ticket + 1 = notifySeq'[k.key]
                PROVE  IF k.stage = "told"
                       THEN k.key \in missed' \/ published'[k.key] = Pending(k.key)'
                       ELSE k.pending = Pending(k.key)'
    BY DEF LastCountCurrent
  <2>1. k \in notes /\ k.key \in Agents /\ k.ticket + 1 = notifySeq[k.key]
    BY <1>1, <1>3, <1>4, <1>7
  <2>. QED  BY <1>0, <1>1, <1>2, <2>1 DEF NotifyInv, LastCountCurrent
<1>10. ObserverUpToDate'
  <2>. SUFFICES ASSUME NEW b \in Agents, \A k \in notes' : k.key # b
                PROVE  b \in missed' \/ published'[b] = Pending(b)'
    BY DEF ObserverUpToDate
  <2>1. CASE b = a
    <3>1. last
      <4>1. ASSUME ~last PROVE FALSE
        <5>1. n.ticket + 1 \in notifyTurn[a]..(notifySeq[a] - 1)
          BY <1>3, <1>4, <4>1
        <5>2. PICK k \in notes : k.key = a /\ k.ticket = n.ticket + 1
          BY <1>0, <1>4, <5>1 DEF NotifyInv, DeliveryLine
        <5>. QED  BY <1>1, <1>4, <2>1, <5>2
      <4>. QED  BY <4>1
    <3>. QED  BY <1>0, <1>1, <1>2, <1>4, <2>1, <3>1 DEF NotifyInv, LastCountCurrent
  <2>2. CASE b # a
    <3>1. \A k \in notes : k.key # b
      BY <1>1, <2>2
    <3>. QED  BY <1>0, <1>1, <1>2, <3>1 DEF NotifyInv, ObserverUpToDate
  <2>. QED  BY <2>1, <2>2
<1>. QED  BY <1>2, <1>5, <1>6, <1>8, <1>9, <1>10 DEF IInv, DispatchInv, NotifyInv

\* The steps that move at most the thread inside wait_idle.
LEMMA FrameInv ==
  ASSUME IInv, drain' \in DrainStates,
         UNCHANGED <<schedVars, notifyVars, published, missed, submitted, finished, passes>>
  PROVE  IInv'
<1>0. TypeOK /\ OneWakePerLane /\ NoStrandedWork /\ NotifyInv
  BY DEF IInv, DispatchInv
<1>1. TypeOK'
  BY <1>0 DEF TypeOK, schedVars, notifyVars
<1>2. OneWakePerLane' /\ NoStrandedWork' /\ \A a \in Agents : Pending(a)' = Pending(a)
  BY <1>0 DEF OneWakePerLane, NoStrandedWork, Pending, schedVars
<1>3. IsFiniteSet(notes') /\ DeliveryLine'
  BY <1>0 DEF NotifyInv, DeliveryLine, notifyVars
<1>4. LastCountCurrent' /\ ObserverUpToDate'
  <2>1. \A n \in notes : n.key \in Agents
    BY <1>0 DEF TypeOK, Notes
  <2>. QED  BY <1>0, <1>2, <2>1 DEF NotifyInv, LastCountCurrent, ObserverUpToDate, notifyVars
<1>. QED  BY <1>1, <1>2, <1>3, <1>4 DEF IInv, DispatchInv, NotifyInv

\* Every step keeps the invariant.
LEMMA NextInv == IInv /\ [Next]_vars => IInv'
<1>. SUFFICES ASSUME IInv, [Next]_vars PROVE IInv'
  OBVIOUS
<1>1. ASSUME NEW j \in Jobs, Submit(j) PROVE IInv'
  <2>1. j[1] \in Agents
    BY DEF Jobs
  <2>. QED  BY <1>1, <2>1, SubmitInv
<1>2. CASE StartJob
  BY <1>2, StartJobInv
<1>3. ASSUME NEW a \in Agents, RunJobFinally(a) PROVE IInv'
  BY <1>3, RunJobInv
<1>4. ASSUME NEW a \in Agents, Deliver(a) PROVE IInv'
  BY <1>4, CheckTurnInv, NotifyInvStep, SettleInv DEF Deliver
<1>5. CASE CallWaitIdle \/ WaitIdle
  BY <1>5, FrameInv DEF CallWaitIdle, WaitIdle, DrainStates
<1>6. CASE UNCHANGED vars
  <2>1. drain' \in DrainStates
    BY <1>6 DEF vars, IInv, TypeOK
  <2>. QED  BY <1>6, <2>1, FrameInv DEF vars
<1>. QED  BY <1>1, <1>2, <1>3, <1>4, <1>5, <1>6 DEF Next

-----------------------------------------------------------------------------
(* Theorems.                                                               *)

\* The invariant holds of every behaviour of the scheduler.
LEMMA InvHolds == Spec => []IInv
BY InitInv, NextInv, PTL DEF Spec

\* Every reachable state is well typed: in particular _notifying never goes below
\* zero and a ready agent always has a job to hand out (scheduler.py, _pump_locked).
THEOREM TypeCorrect == Spec => []TypeOK
<1>1. IInv => TypeOK
  BY DEF IInv
<1>. QED  BY <1>1, InvHolds, PTL

\* For any number of agents, lanes and wakes, no agent is in flight twice, the lanes
\* are never exceeded and the executor holds exactly the agents in flight.
THEOREM LanesHold == Spec => []OneWakePerLane
<1>1. IInv => OneWakePerLane
  BY DEF IInv, DispatchInv
<1>. QED  BY <1>1, InvHolds, PTL

\* No agent with work is ever out of the dispatcher's sight and no lane is left free
\* while an agent waits: what lets _idle_locked ignore the queues.
THEOREM NothingStranded == Spec => []NoStrandedWork
<1>1. IInv => NoStrandedWork
  BY DEF IInv, DispatchInv
<1>. QED  BY <1>1, InvHolds, PTL

\* Tickets deliver an agent's counts one at a time, in the order they were taken, and
\* leave no counter behind.
THEOREM LineHolds == Spec => []DeliveryLine
<1>1. IInv => DeliveryLine
  BY DEF IInv, NotifyInv
<1>. QED  BY <1>1, InvHolds, PTL

\* An agent whose notifications have all been delivered is recorded with the count it
\* has now: the phantom queued edge cannot remain.
THEOREM NoPhantomEdge == Spec => []ObserverUpToDate
<1>1. IInv => ObserverUpToDate
  BY DEF IInv, NotifyInv
<1>. QED  BY <1>1, InvHolds, PTL

-----------------------------------------------------------------------------
(* The order of the wakes: what more is invariant.                         *)

\* Who is behind another in the ready queue has not seen it dispatched, nobody has seen
\* another dispatched twice, and who does not wait has seen nobody.
InLine(rdy) ==
  /\ \A i, j \in 1..Len(rdy) : j < i => passes[rdy[i]][rdy[j]] = 0
  /\ \A a, b \in Agents : passes[a][b] <= 1
  /\ \A a \in Agents \ Elements(rdy) : \A b \in Agents : passes[a][b] = 0

\* A job is in some lane or some queue.
Owed(j, qs, inf, held) ==
  \/ \E a \in inf : held[a] = j
  \/ \E a \in Agents : j \in Elements(qs[a])

\* A wake that was submitted has run or is owed, and no other is.
Accounted ==
  \A j \in Jobs : j \in submitted <=> j \in finished \/ Owed(j, queues, inflight, job)

OrderInv == InLine(ready) /\ Accounted

-----------------------------------------------------------------------------
(* The pump.                                                               *)

\* The pump of a critical section takes nobody or the head of the ready queue.
LEMMA PumpEither ==
  ASSUME TypeOK, NEW qs \in [Agents -> Seq(Jobs)], NEW rdy \in Seq(Agents),
         NEW inf \in SUBSET Agents, Pumpable(qs, rdy, inf), PumpLocked(qs, rdy, inf)
  PROVE  Idles(qs, rdy, inf) \/ Dispatches(qs, rdy, inf)
BY PumpShape, TakeAtMostOne DEF Pumpable

\* An agent that joins at the back has seen nobody dispatched (append of _ready).
LEMMA LineAppend ==
  ASSUME TypeOK, InLine(ready), NEW a \in Agents
  PROVE  InLine(Enter(ready, a))
<1>1. CASE a \in Elements(ready)
  BY <1>1 DEF Enter
<1>2. CASE a \notin Elements(ready)
  <2>1. /\ ready \in Seq(Agents) /\ Len(ready) \in Nat /\ Enter(ready, a) = Append(ready, a)
        /\ passes \in [Agents -> [Agents -> Nat]]
    BY <1>2 DEF TypeOK, Enter
  <2>2. /\ Len(Append(ready, a)) = Len(ready) + 1
        /\ \A i \in 1..Len(ready) : Append(ready, a)[i] = ready[i] /\ ready[i] \in Agents
        /\ Append(ready, a)[Len(ready) + 1] = a
    BY <2>1
  <2>3. ASSUME NEW i \in 1..(Len(ready) + 1), NEW j \in 1..(Len(ready) + 1), j < i
        PROVE  passes[Append(ready, a)[i]][Append(ready, a)[j]] = 0
    <3>1. j \in 1..Len(ready) /\ (i \in 1..Len(ready) \/ i = Len(ready) + 1)
      <4>1. Len(ready) \in Nat
        BY <2>1
      <4> QED
        BY <2>3, <4>1
    <3>2. CASE i \in 1..Len(ready)
      BY <2>2, <2>3, <3>1, <3>2 DEF InLine
    <3>3. CASE i = Len(ready) + 1
      BY <1>2, <2>2, <3>1, <3>3 DEF InLine
    <3> QED
      BY <3>1, <3>2, <3>3
  <2>4. Elements(Append(ready, a)) = Elements(ready) \cup {a}
    BY <2>1, ElementsAppend
  <2>5. \A i, j \in 1..Len(Append(ready, a)) :
          j < i => passes[Append(ready, a)[i]][Append(ready, a)[j]] = 0
    BY <2>2, <2>3
  <2>6. \A c \in Agents \ Elements(Append(ready, a)) : \A b \in Agents : passes[c][b] = 0
    BY <2>4 DEF InLine
  <2>7. \A c, b \in Agents : passes[c][b] <= 1
    BY DEF InLine
  <2>8. InLine(Append(ready, a))
    BY <2>5, <2>6, <2>7 DEF InLine
  <2> QED
    BY <2>1, <2>8
<1> QED
  BY <1>1, <1>2

\* Dispatching the head is seen once by those who wait, and is nobody's second.
LEMMA LinePump ==
  ASSUME TypeOK, NEW qs, NEW rdy \in Seq(Agents), NEW inf, NoRepeat(rdy), InLine(rdy),
         Idles(qs, rdy, inf) \/ Dispatches(qs, rdy, inf)
  PROVE  InLine(ready)'
<1>1. /\ passes \in [Agents -> [Agents -> Nat]] /\ Len(rdy) \in Nat
      /\ \A i \in 1..Len(rdy) : rdy[i] \in Agents /\ rdy[i] \in Elements(rdy)
  <2>1. Len(rdy) \in Nat /\ \A i \in 1..Len(rdy) : rdy[i] \in Agents
    OBVIOUS
  <2> QED
    BY <2>1 DEF TypeOK, Elements
<1>2. CASE Idles(qs, rdy, inf)
  <2>1. \A a, b \in Agents : passes'[a][b] = IF a \in Elements(rdy) THEN passes[a][b] ELSE 0
    BY <1>2 DEF Idles
  <2>2. ready' = rdy
    BY <1>2 DEF Idles
  <2>3. \A i, j \in 1..Len(rdy) : j < i => passes'[rdy[i]][rdy[j]] = 0
    <3> SUFFICES ASSUME NEW i \in 1..Len(rdy), NEW j \in 1..Len(rdy), j < i
                 PROVE  passes'[rdy[i]][rdy[j]] = 0
      OBVIOUS
    <3>1. passes[rdy[i]][rdy[j]] = 0
      BY DEF InLine
    <3>2. rdy[i] \in Agents /\ rdy[j] \in Agents /\ rdy[i] \in Elements(rdy)
      BY <1>1
    <3> QED
      BY <2>1, <3>1, <3>2, Zenon
  <2>4. \A a, b \in Agents : passes'[a][b] <= 1
    <3>1. \A a, b \in Agents : passes[a][b] <= 1 /\ 0 <= 1
      BY DEF InLine
    <3> QED
      BY <2>1, <3>1
  <2>5. \A a \in Agents \ Elements(rdy) : \A b \in Agents : passes'[a][b] = 0
    BY <2>1
  <2> QED
    BY <2>2, <2>3, <2>4, <2>5 DEF InLine
<1>3. CASE Dispatches(qs, rdy, inf)
  <2>1. /\ ready' = Tail(rdy) /\ rdy # <<>>
        /\ \A a, b \in Agents : passes'[a][b] =
             IF a \in Elements(Tail(rdy)) THEN passes[a][b] + (IF b = rdy[1] THEN 1 ELSE 0) ELSE 0
    BY <1>3 DEF Dispatches
  <2>2. /\ Len(Tail(rdy)) = Len(rdy) - 1 /\ Len(rdy) >= 1
        /\ \A i \in 1..Len(Tail(rdy)) : Tail(rdy)[i] = rdy[i + 1]
    BY <1>1, <2>1, HeadTailProperties, EmptySeq
  <2>3. \A i \in 1..(Len(rdy) - 1) :
          /\ i + 1 \in 1..Len(rdy) /\ rdy[i + 1] \in Agents /\ rdy[i + 1] # rdy[1]
          /\ rdy[i + 1] \in Elements(Tail(rdy))
    <3> TAKE i \in 1..(Len(rdy) - 1)
    <3>1. i + 1 \in 1..Len(rdy) /\ 1 \in 1..Len(rdy) /\ i + 1 # 1 /\ i \in 1..Len(Tail(rdy))
      BY <1>1, <2>2
    <3> QED
      BY <1>1, <2>2, <3>1 DEF NoRepeat, Elements
  <2>4. ASSUME NEW i \in 1..(Len(rdy) - 1), NEW j \in 1..(Len(rdy) - 1), j < i
        PROVE  passes'[rdy[i + 1]][rdy[j + 1]] = 0
    <3>1. passes[rdy[i + 1]][rdy[j + 1]] = 0
      <4>1. j + 1 < i + 1 /\ i + 1 \in 1..Len(rdy) /\ j + 1 \in 1..Len(rdy)
        BY <2>3, <2>4
      <4> QED
        BY <4>1 DEF InLine
    <3> QED
      BY <2>1, <2>3, <3>1
  <2>5. ASSUME NEW a \in Agents, NEW b \in Agents
        PROVE  passes'[a][b] <= 1 /\ (a \notin Elements(Tail(rdy)) => passes'[a][b] = 0)
    <3>1. CASE a \notin Elements(Tail(rdy))
      BY <2>1, <3>1
    <3>2. CASE a \in Elements(Tail(rdy)) /\ b = rdy[1]
      <4>1. PICK i \in 1..(Len(rdy) - 1) : a = rdy[i + 1]
        BY <2>2, <3>2 DEF Elements
      <4>2. 1 < i + 1 /\ 1 \in 1..Len(rdy) /\ i + 1 \in 1..Len(rdy)
        BY <2>2, <2>3
      <4>3. passes[a][b] = 0
        BY <3>2, <4>1, <4>2 DEF InLine
      <4> QED
        BY <2>1, <3>2, <4>3
    <3>3. CASE a \in Elements(Tail(rdy)) /\ b # rdy[1]
      <4>1. passes'[a][b] = passes[a][b] + 0 /\ passes[a][b] \in Nat
        BY <1>1, <2>1, <3>3
      <4>2. passes[a][b] <= 1
        BY DEF InLine
      <4> QED
        BY <3>3, <4>1, <4>2
    <3> QED
      BY <3>1, <3>2, <3>3
  <2>6. \A i, j \in 1..Len(Tail(rdy)) : j < i => passes'[Tail(rdy)[i]][Tail(rdy)[j]] = 0
    BY <2>2, <2>4
  <2> QED
    BY <2>1, <2>5, <2>6 DEF InLine
<1> QED
  BY <1>2, <1>3

\* A job handed to the executor is owed as before.
LEMMA OwedPump ==
  ASSUME TypeOK, NEW qs \in [Agents -> Seq(Jobs)], NEW rdy \in Seq(Agents),
         NEW inf \in SUBSET Agents, Pumpable(qs, rdy, inf),
         Idles(qs, rdy, inf) \/ Dispatches(qs, rdy, inf), NEW j \in Jobs
  PROVE  Owed(j, queues, inflight, job)' <=> Owed(j, qs, inf, job)
<1>1. CASE Idles(qs, rdy, inf)
  BY <1>1 DEF Idles, Owed
<1>2. CASE Dispatches(qs, rdy, inf)
  <2>1. PICK b \in Agents : b = rdy[1] /\ b \in Elements(rdy)
    BY <1>2, ElementsTail DEF Dispatches
  <2>2. /\ inflight' = inf \cup {b}
        /\ queues' = [a \in Agents |-> IF a = b THEN Tail(qs[a]) ELSE qs[a]]
        /\ job' = [a \in Agents |-> IF a = b THEN Head(qs[a])
                                    ELSE IF a \in inf THEN job[a] ELSE NoJob]
    BY <1>2, <2>1 DEF Dispatches
  <2>3. qs[b] \in Seq(Jobs) /\ qs[b] # <<>> /\ b \notin inf
    BY <2>1 DEF Pumpable
  <2>4. Elements(qs[b]) = {qs[b][1]} \cup Elements(Tail(qs[b])) /\ Head(qs[b]) = qs[b][1]
    BY <2>3, ElementsTail
  <2>5. /\ job'[b] = qs[b][1] /\ Elements(queues'[b]) = Elements(Tail(qs[b]))
        /\ \A a \in Agents : a # b => queues'[a] = qs[a]
        /\ \A a \in inf : a # b /\ job'[a] = job[a]
    BY <2>2, <2>3, <2>4
  <2>6. ASSUME Owed(j, qs, inf, job)
        PROVE  \/ \E a \in inflight' : job'[a] = j
               \/ \E a \in Agents : j \in Elements(queues'[a])
    BY <2>2, <2>4, <2>5, <2>6 DEF Owed
  <2>7. ASSUME \/ \E a \in inflight' : job'[a] = j
               \/ \E a \in Agents : j \in Elements(queues'[a])
        PROVE  Owed(j, qs, inf, job)
    BY <2>2, <2>4, <2>5, <2>7 DEF Owed
  <2> QED
    BY <2>6, <2>7 DEF Owed
<1> QED
  BY <1>1, <1>2

-----------------------------------------------------------------------------
(* The streams.                                                            *)

\* The wakes of an agent that no thread runs, as the refinement maps them.
Backlog(a, held, qs, pl) == IF a \in Elements(pl) THEN <<held[a]>> \o qs[a] ELSE qs[a]

\* Handing a job to the executor leaves it in its stream, and the running wakes alone.
LEMMA StreamsPump ==
  ASSUME TypeOK, NEW qs \in [Agents -> Seq(Jobs)], NEW rdy \in Seq(Agents),
         NEW inf \in SUBSET Agents, Pumpable(qs, rdy, inf),
         Idles(qs, rdy, inf) \/ Dispatches(qs, rdy, inf), NEW a \in Agents
  PROVE  /\ Backlog(a, job', queues', pool') = Backlog(a, job, qs, pool)
         /\ a \in running' => job'[a] = job[a]
<1>1. \A b \in running' \cup Elements(pool) : b \in inf
  BY DEF Pumpable
<1>2. CASE Idles(qs, rdy, inf)
  BY <1>1, <1>2 DEF Idles, Backlog
<1>3. CASE Dispatches(qs, rdy, inf)
  <2>1. PICK b \in Agents : b = rdy[1] /\ b \in Elements(rdy)
    BY <1>3, ElementsTail DEF Dispatches
  <2>2. /\ queues' = [c \in Agents |-> IF c = b THEN Tail(qs[c]) ELSE qs[c]]
        /\ job' = [c \in Agents |-> IF c = b THEN Head(qs[c])
                                    ELSE IF c \in inf THEN job[c] ELSE NoJob]
        /\ pool' = Append(pool, b)
    BY <1>3, <2>1 DEF Dispatches
  <2>3. qs[b] \in Seq(Jobs) /\ qs[b] # <<>> /\ b \notin inf
    BY <2>1 DEF Pumpable
  <2>4. Elements(pool') = Elements(pool) \cup {b} /\ b \notin Elements(pool)
    BY <1>1, <2>2, <2>3, ElementsAppend DEF TypeOK
  <2>5. CASE a = b
    <3>1. <<Head(qs[b])>> \o Tail(qs[b]) = qs[b]
      BY <2>3
    <3>2. job'[b] = Head(qs[b]) /\ queues'[b] = Tail(qs[b])
      BY <2>2
    <3> QED
      BY <1>1, <2>3, <2>4, <2>5, <3>1, <3>2 DEF Backlog
  <2>6. CASE a # b
    <3>1. queues'[a] = qs[a] /\ (a \in inf => job'[a] = job[a])
      BY <2>2, <2>6
    <3> QED
      BY <1>1, <2>4, <2>6, <3>1 DEF Backlog
  <2> QED
    BY <2>5, <2>6
<1> QED
  BY <1>2, <1>3

-----------------------------------------------------------------------------
(* Every step keeps the order.                                             *)

\* Before anything is submitted nobody waits and nothing is owed.
LEMMA InitOrder == Init => OrderInv
<1> SUFFICES ASSUME Init PROVE OrderInv
  OBVIOUS
<1>1. Len(<<>>) = 0 /\ Elements(<<>>) = {} /\ 1..0 = {}
  BY DEF Elements
<1>2. InLine(ready)
  BY <1>1 DEF Init, InLine
<1>3. Accounted
  BY <1>1 DEF Init, Accounted, Owed
<1> QED
  BY <1>2, <1>3 DEF OrderInv

\* submit, the finally of _run_job and every other step keep the line and lose no wake.
LEMMA OrderStep ==
  ASSUME IInv, OrderInv, [Next]_vars
  PROVE  OrderInv'
<1>0. /\ TypeOK /\ OneWakePerLane /\ InLine(ready)
      /\ \A j \in Jobs : j \in submitted <=> j \in finished \/ Owed(j, queues, inflight, job)
  BY DEF IInv, DispatchInv, OrderInv, Accounted
<1>1. ASSUME NEW j \in Jobs, Submit(j)
      PROVE  OrderInv'
  <2> DEFINE a == j[1]
             qs == Enqueue(queues, j)
             rdy == IF a \in inflight THEN ready ELSE Enter(ready, a)
  <2>1. a \in Agents /\ inflight \in SUBSET Agents /\ queues[a] \in Seq(Jobs)
    BY <1>0 DEF Jobs, TypeOK
  <2>2. /\ qs \in [Agents -> Seq(Jobs)] /\ qs[a] = Append(queues[a], j)
        /\ \A b \in Agents \ {a} : qs[b] = queues[b]
        /\ rdy \in Seq(Agents)
        /\ Pumpable(qs, rdy, inflight) /\ PumpLocked(qs, rdy, inflight)
    BY <1>1, <2>1, SubmitPumps
  <2>3. InLine(rdy)
    BY <1>0, <2>1, LineAppend
  <2>4. submitted' = submitted \cup {j} /\ finished' = finished
    BY <1>1 DEF Submit
  <2> HIDE DEF qs, rdy, a
  <2>5. Idles(qs, rdy, inflight) \/ Dispatches(qs, rdy, inflight)
    BY <1>0, <2>1, <2>2, PumpEither
  <2>6. InLine(ready)'
    BY <1>0, <2>2, <2>3, <2>5, LinePump DEF Pumpable
  <2>7. ASSUME NEW k \in Jobs
        PROVE  Owed(k, queues, inflight, job)' <=> Owed(k, queues, inflight, job) \/ k = j
    <3>1. Owed(k, queues, inflight, job)' <=> Owed(k, qs, inflight, job)
      BY <1>0, <2>1, <2>2, <2>5, OwedPump
    <3>2. Elements(qs[a]) = Elements(queues[a]) \cup {j}
      BY <2>1, <2>2, ElementsAppend
    <3>3. Owed(k, qs, inflight, job) <=> Owed(k, queues, inflight, job) \/ k = j
      BY <2>1, <2>2, <3>2 DEF Owed
    <3> QED
      BY <3>1, <3>3
  <2>8. Accounted'
    BY <1>0, <2>4, <2>7 DEF Accounted
  <2> QED
    BY <2>6, <2>8 DEF OrderInv
<1>2. ASSUME NEW a \in Agents, RunJobFinally(a)
      PROVE  OrderInv'
  <2> DEFINE rdy == Reenter(a)
             inf == inflight \ {a}
  <2>1. /\ a \in inflight /\ rdy \in Seq(Agents) /\ inf \in SUBSET Agents
        /\ Pumpable(queues, rdy, inf) /\ PumpLocked(queues, rdy, inf)
        /\ queues \in [Agents -> Seq(Jobs)]
    BY <1>0, <1>2, RunJobPumps DEF TypeOK
  <2>2. InLine(rdy)
    BY <1>0, LineAppend DEF Reenter
  <2>3. submitted' = submitted /\ finished' = finished \cup {job[a]}
    BY <1>2 DEF RunJobFinally
  <2>4. ASSUME NEW k \in Jobs
        PROVE  Owed(k, queues, inf, job) \/ k = job[a] <=> Owed(k, queues, inflight, job)
    BY <2>1 DEF Owed
  <2> HIDE DEF rdy, inf
  <2>5. Idles(queues, rdy, inf) \/ Dispatches(queues, rdy, inf)
    BY <1>0, <2>1, PumpEither
  <2>6. InLine(ready)'
    BY <1>0, <2>1, <2>2, <2>5, LinePump DEF Pumpable
  <2>7. ASSUME NEW k \in Jobs
        PROVE  Owed(k, queues, inflight, job)' <=> Owed(k, queues, inf, job)
    BY <1>0, <2>1, <2>5, OwedPump
  <2>8. Accounted'
    BY <1>0, <2>3, <2>4, <2>7 DEF Accounted
  <2> QED
    BY <2>6, <2>8 DEF OrderInv
<1>3. ASSUME UNCHANGED <<queues, ready, inflight, job, submitted, finished, passes>>
      PROVE  OrderInv'
  BY <1>3 DEF OrderInv, Accounted, Owed, InLine
<1>4. CASE StartJob
  BY <1>3, <1>4 DEF StartJob
<1>5. ASSUME NEW a \in Agents, Deliver(a)
      PROVE  OrderInv'
  BY <1>3, <1>5 DEF Deliver, CheckTurn, NotifyQueueChange, Settle, schedVars
<1>6. CASE CallWaitIdle \/ WaitIdle \/ UNCHANGED vars
  BY <1>3, <1>6 DEF CallWaitIdle, WaitIdle, vars, schedVars
<1> QED
  BY <1>1, <1>2, <1>4, <1>5, <1>6 DEF Next

-----------------------------------------------------------------------------
(* The scheduler implements the streams.                                   *)

\* Its variables as the refinement maps them.
waitingBar == [a \in Agents |-> Backlog(a, job, queues, pool)]

currentBar == [a \in Agents |-> IF a \in running THEN job[a] ELSE NoJob]

\* submit accepts a job that no stream knows, and puts it at the end of its agent's.
LEMMA SubmitAccepts ==
  ASSUME IInv, OrderInv, NEW j \in Jobs, Submit(j)
  PROVE  Streams!Accept(j)
<1> DEFINE a == j[1]
           qs == Enqueue(queues, j)
           rdy == IF a \in inflight THEN ready ELSE Enter(ready, a)
<1>1. /\ TypeOK /\ OneWakePerLane /\ a \in Agents /\ inflight \in SUBSET Agents
      /\ queues[a] \in Seq(Jobs)
  BY DEF IInv, DispatchInv, TypeOK, Jobs
<1>2. /\ qs \in [Agents -> Seq(Jobs)] /\ qs[a] = Append(queues[a], j)
      /\ \A b \in Agents \ {a} : qs[b] = queues[b]
      /\ rdy \in Seq(Agents)
      /\ Pumpable(qs, rdy, inflight) /\ PumpLocked(qs, rdy, inflight)
  BY <1>1, SubmitPumps
<1>3. j \notin submitted /\ UNCHANGED <<running, finished>>
  BY DEF Submit
<1> HIDE DEF qs, rdy, a
<1>4. \A b \in Agents : /\ Backlog(b, job', queues', pool') = Backlog(b, job, qs, pool)
                        /\ b \in running => job'[b] = job[b]
  BY <1>1, <1>2, <1>3, PumpEither, StreamsPump
<1>5. UNCHANGED currentBar
  BY <1>3, <1>4 DEF currentBar
<1>6. waitingBar' = [waitingBar EXCEPT ![a] = Append(waitingBar[a], j)]
  <2>1. \A b \in Agents \ {a} : Backlog(b, job, qs, pool) = Backlog(b, job, queues, pool)
    BY <1>2 DEF Backlog
  <2>2. Backlog(a, job, qs, pool) = Append(Backlog(a, job, queues, pool), j)
    <3>1. CASE a \in Elements(pool)
      <4>1. job[a] \in Jobs
        BY <1>1, <3>1 DEF OneWakePerLane, TypeOK
      <4>2. <<job[a]>> \o Append(queues[a], j) = Append(<<job[a]>> \o queues[a], j)
        BY <1>1, <4>1
      <4> QED
        BY <1>2, <3>1, <4>2 DEF Backlog
    <3>2. CASE a \notin Elements(pool)
      BY <1>2, <3>2 DEF Backlog
    <3> QED
      BY <3>1, <3>2
  <2> QED
    BY <1>1, <1>4, <2>1, <2>2 DEF waitingBar
<1>7. j \notin Streams!Known
  <2>1. /\ j \notin finished /\ \A b \in inflight : job[b] # j
        /\ \A b \in Agents : j \notin Elements(queues[b])
    BY <1>3 DEF OrderInv, Accounted, Owed
  <2>2. ASSUME NEW b \in Agents, currentBar[b] # NoJob
        PROVE  currentBar[b] # j
    BY <1>1, <2>1, <2>2 DEF currentBar, OneWakePerLane
  <2>3. ASSUME NEW b \in Agents, NEW i \in DOMAIN waitingBar[b]
        PROVE  waitingBar[b][i] # j
    <3>1. queues[b] \in Seq(Jobs) /\ \A k \in DOMAIN queues[b] : queues[b][k] # j
      BY <1>1, <2>1 DEF TypeOK, Elements
    <3>2. CASE b \in Elements(pool)
      <4>1. waitingBar[b] = <<job[b]>> \o queues[b] /\ job[b] # j /\ job[b] \in Jobs
        BY <1>1, <2>1, <3>2 DEF waitingBar, Backlog, OneWakePerLane, TypeOK
      <4>2. /\ Len(queues[b]) \in Nat /\ DOMAIN queues[b] = 1..Len(queues[b])
            /\ DOMAIN (<<job[b]>> \o queues[b]) = 1..(Len(queues[b]) + 1)
            /\ \A k \in 1..(Len(queues[b]) + 1) :
                 (<<job[b]>> \o queues[b])[k] = IF k = 1 THEN job[b] ELSE queues[b][k - 1]
        BY <3>1, <4>1
      <4>3. i = 1 \/ i - 1 \in DOMAIN queues[b]
        BY <4>1, <4>2
      <4> QED
        BY <3>1, <4>1, <4>2, <4>3
    <3>3. CASE b \notin Elements(pool)
      BY <3>1, <3>3 DEF waitingBar, Backlog
    <3> QED
      BY <3>2, <3>3
  <2>4. Streams!Known = (finished \cup {currentBar[b] : b \in {c \in Agents : currentBar[c] # NoJob}})
                        \cup UNION {{waitingBar[b][i] : i \in DOMAIN waitingBar[b]} : b \in Agents}
    BY Zenon DEF Streams!Known, Streams!Busy, waitingBar, currentBar, Backlog
  <2> QED
    BY <2>1, <2>2, <2>3, <2>4
<1> QED
  BY <1>3, <1>5, <1>6, <1>7 DEF Streams!Accept, waitingBar, currentBar, Backlog, a

\* AgentStreams counts its busy agents as the scheduler counts its runs.
LEMMA StreamsCount ==
  ASSUME NEW S
  PROVE  Streams!Cardinality(S) = Cardinality(S)
BY Zenon DEF Streams!Cardinality, Cardinality

\* The executor starts the oldest wake of an agent that runs none.
LEMMA StartJobStarts ==
  ASSUME IInv, StartJob
  PROVE  \E a \in Agents : Streams!Start(a)
<1>0. TypeOK /\ OneWakePerLane /\ IsFiniteSet(notes)
  BY DEF IInv, DispatchInv, NotifyInv
<1>1. /\ pool # <<>> /\ BusyThreads < Lanes /\ pool' = Tail(pool)
      /\ running' = running \cup {Head(pool)} /\ UNCHANGED <<queues, job, finished>>
  BY DEF StartJob
<1>2. PICK a \in Agents : a = pool[1] /\ a = Head(pool)
  BY <1>0, <1>1 DEF TypeOK
<1>3. /\ Elements(pool) = {a} \cup Elements(pool') /\ a \notin Elements(pool')
  BY <1>0, <1>1, <1>2, ElementsTail, NoRepeatTail DEF OneWakePerLane, NoRepeat, TypeOK
<1>4. a \notin running /\ job[a] \in Jobs /\ queues[a] \in Seq(Jobs)
  BY <1>0, <1>2, <1>3 DEF OneWakePerLane, TypeOK
<1>5. waitingBar[a] = <<job[a]>> \o queues[a] /\ currentBar[a] = NoJob
  BY <1>3, <1>4 DEF waitingBar, currentBar, Backlog
<1>6. /\ waitingBar[a] # <<>> /\ Head(waitingBar[a]) = job[a] /\ Tail(waitingBar[a]) = queues[a]
  BY <1>4, <1>5
<1>7. waitingBar' = [waitingBar EXCEPT ![a] = Tail(waitingBar[a])]
  BY <1>1, <1>3, <1>6 DEF waitingBar, Backlog
<1>8. currentBar' = [currentBar EXCEPT ![a] = Head(waitingBar[a])]
  BY <1>1, <1>2, <1>6 DEF currentBar
<1>9. Cardinality(Streams!Busy) < Lanes
  <2>1. Streams!Busy = running
    BY <1>0, SchedulerAssumption DEF Streams!Busy, OneWakePerLane, TypeOK
  <2>2. Cardinality(running) \in Nat /\ Cardinality({n \in notes : n.by = "lane"}) \in Nat
    <3>1. running \in SUBSET Agents /\ IsFiniteSet(Agents)
      BY <1>0, SchedulerAssumption DEF TypeOK, SchedulerAssumption
    <3>2. IsFiniteSet(running) /\ IsFiniteSet({n \in notes : n.by = "lane"})
      BY <1>0, <3>1, FS_Subset
    <3> QED
      BY <3>2, FS_CardinalityType
  <2>3. Lanes \in Nat
    BY SchedulerAssumption DEF SchedulerAssumption
  <2> QED
    BY <1>1, <2>1, <2>2, <2>3 DEF BusyThreads
<1>10. Streams!Start(a) <=> /\ currentBar[a] = NoJob
                            /\ waitingBar[a] # <<>>
                            /\ Streams!Cardinality(Streams!Busy) < Lanes
                            /\ currentBar' = [currentBar EXCEPT ![a] = Head(waitingBar[a])]
                            /\ waitingBar' = [waitingBar EXCEPT ![a] = Tail(waitingBar[a])]
                            /\ UNCHANGED finished
  BY DEF Streams!Start, waitingBar, currentBar, Backlog
<1> QED
  BY <1>1, <1>5, <1>6, <1>7, <1>8, <1>9, <1>10, StreamsCount

\* A run that returns finishes its agent's wake.
LEMMA RunJobFinishes ==
  ASSUME IInv, NEW a \in Agents, RunJobFinally(a)
  PROVE  Streams!Finish(a)
<1> DEFINE rdy == Reenter(a)
           inf == inflight \ {a}
<1>1. TypeOK /\ OneWakePerLane /\ queues \in [Agents -> Seq(Jobs)]
  BY DEF IInv, DispatchInv, TypeOK
<1>2. /\ a \in running /\ running' = running \ {a} /\ finished' = finished \cup {job[a]}
      /\ job[a] # NoJob /\ rdy \in Seq(Agents) /\ inf \in SUBSET Agents
      /\ Pumpable(queues, rdy, inf) /\ PumpLocked(queues, rdy, inf)
  BY <1>1, RunJobPumps, SchedulerAssumption DEF RunJobFinally, SchedulerAssumption
<1> HIDE DEF rdy, inf
<1>3. \A b \in Agents : /\ Backlog(b, job', queues', pool') = Backlog(b, job, queues, pool)
                        /\ b \in running' => job'[b] = job[b]
  BY <1>1, <1>2, PumpEither, StreamsPump
<1>4. UNCHANGED waitingBar
  BY <1>3 DEF waitingBar
<1>5. currentBar[a] = job[a] /\ currentBar' = [currentBar EXCEPT ![a] = NoJob]
  BY <1>2, <1>3 DEF currentBar
<1> QED
  BY <1>2, <1>4, <1>5 DEF Streams!Finish, waitingBar, currentBar, Backlog

\* Every step of the scheduler is a step of the streams, or none.
LEMMA StreamsStep ==
  ASSUME IInv, OrderInv, [Next]_vars
  PROVE  [Streams!Next]_(Streams!streamVars)
<1>1. ASSUME NEW j \in Jobs, Submit(j)
      PROVE  Streams!Next
  BY <1>1, SubmitAccepts DEF Streams!Next, Streams!Jobs, Jobs
<1>2. CASE StartJob
  BY <1>2, StartJobStarts DEF Streams!Next
<1>3. ASSUME NEW a \in Agents, RunJobFinally(a)
      PROVE  Streams!Next
  BY <1>3, RunJobFinishes DEF Streams!Next
<1>4. ASSUME UNCHANGED <<queues, job, pool, running, finished>>
      PROVE  UNCHANGED Streams!streamVars
  BY <1>4 DEF Streams!streamVars
<1>5. ASSUME NEW a \in Agents, Deliver(a)
      PROVE  UNCHANGED Streams!streamVars
  BY <1>4, <1>5 DEF Deliver, CheckTurn, NotifyQueueChange, Settle, schedVars
<1>6. CASE CallWaitIdle \/ WaitIdle \/ UNCHANGED vars
  BY <1>4, <1>6 DEF CallWaitIdle, WaitIdle, vars, schedVars
<1> QED
  BY <1>1, <1>2, <1>3, <1>5, <1>6 DEF Next

\* Before anything is submitted every stream is empty.
LEMMA StreamsInit == Init => Streams!Init
BY DEF Init, Streams!Init, Elements

-----------------------------------------------------------------------------
(* The drain.                                                              *)

\* wait_idle returns when everything has run and the observer was told so.
LEMMA DrainStep ==
  ASSUME IInv, OrderInv, [Next]_vars, drain' = "returned", drain # "returned"
  PROVE  /\ finished = submitted
         /\ \A a \in Agents : a \in missed \/ published[a] = 0
<1>1. WaitIdle
  BY DEF Next, Submit, StartJob, RunJobFinally, Deliver, CheckTurn, NotifyQueueChange, Settle,
         CallWaitIdle, NotifyAll, vars
<1>2. inflight = {} /\ ready = <<>> /\ notifying = 0
  BY <1>1 DEF WaitIdle, IdleLocked
<1>3. \A a \in Agents : queues[a] = <<>>
  BY <1>2 DEF IInv, DispatchInv, NoStrandedWork, Elements
<1>4. notes = {}
  BY <1>2, FS_EmptySet DEF IInv, NotifyInv, DeliveryLine
<1>5. \A a \in Agents : a \in missed \/ published[a] = 0
  <2>1. \A a \in Agents : Pending(a) = 0
    BY <1>2, <1>3 DEF Pending
  <2> QED
    BY <1>4, <2>1 DEF IInv, NotifyInv, ObserverUpToDate
<1>6. \A j \in Jobs : j \in submitted <=> j \in finished
  BY <1>2, <1>3 DEF OrderInv, Accounted, Owed, Elements
<1> QED
  BY <1>5, <1>6 DEF IInv, TypeOK

-----------------------------------------------------------------------------
(* The theorems about the order.                                           *)

\* Every reachable state satisfies both invariants.
LEMMA OrderHolds == Spec => [](IInv /\ OrderInv)
<1>1. IInv /\ OrderInv /\ [Next]_vars => (IInv /\ OrderInv)'
  BY NextInv, OrderStep
<1> QED
  BY <1>1, InitInv, InitOrder, PTL DEF Spec

\* Round robin: submit and _run_job put an agent at the back of _ready, so that while an
\* agent waits for a lane no other is dispatched twice.
THEOREM RoundRobin == Spec => []BoundedOvertaking
<1>1. IInv /\ OrderInv => BoundedOvertaking
  <2> SUFFICES ASSUME IInv, OrderInv, NEW a \in Elements(ready), NEW b \in Agents
               PROVE  passes[a][b] <= 1
    BY DEF BoundedOvertaking
  <2>1. a \in Agents
    BY DEF IInv, TypeOK, Elements
  <2> QED
    BY <2>1 DEF OrderInv, InLine
<1> QED
  BY <1>1, OrderHolds, PTL

\* wait_idle returns with every submitted wake run and every count told, whatever threads
\* delivered them.
THEOREM DrainSettles == Spec => DrainedMeansSettled
<1>1. IInv /\ OrderInv /\ [Next]_vars =>
        [drain' = "returned" /\ drain # "returned" =>
           /\ finished = submitted
           /\ \A a \in Agents : a \in missed \/ published[a] = 0]_drain
  BY DrainStep
<1> QED
  BY <1>1, OrderHolds, PTL DEF Spec, DrainedMeansSettled

\* The scheduler, with its lanes, threads, lock and tickets, is one ordered stream of
\* wakes per agent, each running one wake at a time, and at most Lanes of them at once.
THEOREM SchedulerImplementsStreams == Spec => ImplementsStreams
<1>1. IInv /\ OrderInv /\ [Next]_vars => [Streams!Next]_(Streams!streamVars)
  BY StreamsStep
<1> QED
  BY <1>1, StreamsInit, OrderHolds, PTL DEF Spec, ImplementsStreams, Streams!Spec

=============================================================================
