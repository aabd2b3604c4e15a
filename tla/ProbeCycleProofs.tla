-------------------------- MODULE ProbeCycleProofs --------------------------
(***************************************************************************)
(* Theorems of the synthetic probe, for any agents, overlapping runs,      *)
(* configurations, boots and failing writes: type correctness; a run that  *)
(* reports proven was itself answered; a run whose window no other probe's *)
(* outcome fell into ends with what the file says of its own delivery; and *)
(* a clean stop leaves nothing unaccounted for.                            *)
(***************************************************************************)
EXTENDS ProbeCycle, SequenceTheorems, TLAPS

-----------------------------------------------------------------------------
(* The invariant.                                                          *)

Runs == [stage : {"new", "inject", "wait", "done"}, agent : Agents \cup {None},
         before : Rows, polls : 0..Polls, verdict : Verdicts]

\* The type invariant; queues are sequences, and a run under way is of an agent.
Typed ==
  /\ TypeOK /\ runs \in [Probes -> Runs]
  /\ queue \in [Agents -> Seq(Probes \cup {Real})]
  /\ \A p \in Probes : runs[p].stage \in {"inject", "wait"} => runs[p].agent \in Agents

\* A probe's delivery is in one place of one queue, its agent's, until its wake ends.
Queued ==
  /\ \A a \in Agents : \A i \in 1..Len(queue[a]) : queue[a][i] \in Probes =>
       fate[queue[a][i]] = "queued" /\ runs[queue[a][i]].agent = a
  /\ \A a \in Agents : \A i, j \in 1..Len(queue[a]) :
       queue[a][i] = queue[a][j] /\ queue[a][i] \in Probes => i = j

\* Nothing has become of a delivery that was not sent; what the file shows is recorded; a
\* proof in the document, or in the file, is of a wake that ended so.
Fates ==
  /\ \A p \in Probes : runs[p].stage \in {"new", "inject"} => fate[p] = None
  /\ \A p \in shown : fate[p] \in Recorded
  /\ \A a \in Agents, p \in Probes :
       /\ doc[a].lastOk = p => fate[p] = "proven"
       /\ disk[a].lastOk = p => fate[p] = "proven" /\ p \in shown

\* A run that says proven has read it of its own delivery.
Earned == \A p \in Probes : runs[p].verdict = "proven" => fate[p] = "proven" /\ p \in shown

\* Every outcome that was recorded is in the file.
AllShown == \A p \in Probes : fate[p] \in Recorded => p \in shown

\* What a boot leaves to the next, and what it knows of itself as long as its writes succeed.
Settles ==
  /\ daemon = "down" =>
       /\ AllShown /\ \A p \in Probes : fate[p] # "queued"
       /\ doc = disk
  /\ daemon # "down" /\ stop = "none" => AllShown /\ doc = disk
  /\ stop = "clean" =>
       /\ daemon = "down"
       /\ \A a \in Agents : queue[a] = <<>> /\ disk[a].queued = 0

\* The rows agree on what a probe reads of them.
Alike(r, s) ==
  /\ r.lastOk = s.lastOk /\ r.failed = s.failed
  /\ r.reason = s.reason /\ r.refused = s.refused

\* Since b the row r has had outcome o of probe p, or no outcome of any probe.
Since(p, b, r, o) ==
  CASE o = "proven"                  -> r.lastOk = p
    [] o \in {"failed", "no_answer"} -> r.lastOk # p /\ r.failed # b.failed /\ r.reason = o
    [] o = "refused"                 -> /\ r.lastOk # p /\ r.failed = b.failed
                                        /\ r.refused # b.refused
    [] OTHER                         -> /\ r.lastOk # p /\ r.failed = b.failed
                                        /\ r.refused = b.refused

\* No outcome of a probe of agent a, other than p, is missing from the file.
NoneUnshown(a, p) ==
  \A q \in Probes \ {p} : runs[q].agent = a /\ fate[q] \in Recorded => q \in shown

\* A run whose window no other probe's outcome fell into has read, or would read, its own.
Windows ==
  /\ \A a \in Agents : NoneUnshown(a, None) => Alike(doc[a], disk[a])
  /\ \A p \in Probes \ mixed : runs[p].stage \in {"inject", "wait"} =>
       /\ Since(p, runs[p].before, disk[runs[p].agent], IF p \in shown THEN fate[p] ELSE None)
       /\ NoneUnshown(runs[p].agent, p) =>
            Since(p, runs[p].before, doc[runs[p].agent],
                  IF fate[p] \in Recorded THEN fate[p] ELSE None)

\* Inductive.
IInv == Typed /\ Queued /\ Fates /\ Earned /\ Settles /\ Windows

-----------------------------------------------------------------------------
(* Rows and outcomes.                                                      *)

\* What the strings of the model and None are apart from.
LEMMA NoneApart ==
  /\ None \notin Recorded /\ None # "queued" /\ None \notin Probes /\ Real \notin Probes
  /\ "queued" \notin Recorded /\ "silent" \notin Recorded /\ "lost" \notin Recorded
BY ProbeAssumption DEF ProbeAssumption, Recorded

\* Recording an outcome gives a row (record_wake_ok, _failed, _refused).
LEMMA OutcomeShape ==
  ASSUME NEW r \in Rows, NEW p \in Probes, NEW o \in Recorded
  PROVE  /\ Outcome(r, p, o) \in Rows
         /\ Outcome(r, p, o).lastOk = IF o = "proven" THEN p ELSE r.lastOk
         /\ Outcome(r, p, o).queued = r.queued
         /\ o \in {"failed", "no_answer"} =>
              Outcome(r, p, o).failed = r.failed + 1 /\ Outcome(r, p, o).reason = o
         /\ o = "refused" =>
              Outcome(r, p, o).failed = r.failed /\ Outcome(r, p, o).refused = r.refused + 1
<1>0. /\ r.anyOk \in Nat /\ r.anyFailed \in Nat /\ r.failed \in Nat /\ r.refused \in Nat
      /\ r.queued \in Nat /\ r.lastOk \in Probes \cup {None}
      /\ r.reason \in {None, "failed", "no_answer"}
  BY DEF Rows
<1>1. CASE o = "proven"
  <2>1. Outcome(r, p, o) = [r EXCEPT !.anyOk = @ + 1, !.lastOk = p]
    BY <1>1 DEF Outcome
  <2>2. Outcome(r, p, o) =
          [anyOk |-> r.anyOk + 1, anyFailed |-> r.anyFailed, lastOk |-> p, failed |-> r.failed,
           reason |-> r.reason, refused |-> r.refused, queued |-> r.queued]
    BY <2>1 DEF Rows
  <2> QED
    BY <1>0, <1>1, <2>2 DEF Rows
<1>2. CASE o = "refused"
  <2>1. Outcome(r, p, o) = [r EXCEPT !.refused = @ + 1]
    BY <1>2 DEF Outcome
  <2> QED
    BY <1>2, <2>1 DEF Rows
<1>3. CASE o \in {"failed", "no_answer"}
  <2>1. Outcome(r, p, o) =
          [r EXCEPT !.anyFailed = @ + 1, !.failed = @ + 1, !.reason = o]
    BY <1>3 DEF Outcome
  <2>2. Outcome(r, p, o) =
          [anyOk |-> r.anyOk, anyFailed |-> r.anyFailed + 1, lastOk |-> r.lastOk,
           failed |-> r.failed + 1, reason |-> o, refused |-> r.refused, queued |-> r.queued]
    BY <2>1 DEF Rows
  <2> QED
    BY <1>0, <1>3, <2>2 DEF Rows
<1> QED
  BY <1>1, <1>2, <1>3 DEF Recorded

\* What a run has seen depends only on what it reads of the row.
LEMMA SinceAlike ==
  ASSUME NEW p, NEW b, NEW r, NEW s, NEW o, Alike(r, s), Since(p, b, r, o)
  PROVE  Since(p, b, s, o)
BY DEF Alike, Since

\* An outcome of the run's own wake, recorded in a row that showed none.
LEMMA OutcomeSince ==
  ASSUME NEW p \in Probes, NEW b \in Rows, NEW r \in Rows, NEW o \in Recorded,
         Since(p, b, r, None)
  PROVE  Since(p, b, Outcome(r, p, o), o)
<1>1. r.lastOk # p /\ r.failed = b.failed /\ r.refused = b.refused
  BY NoneApart DEF Since, Recorded
<1>2. r.failed \in Nat /\ r.refused \in Nat
  BY DEF Rows
<1>3. CASE o = "proven"
  BY <1>3, OutcomeShape DEF Since
<1>4. CASE o = "refused"
  <2>1. LET n == Outcome(r, p, o) IN
          n.lastOk = r.lastOk /\ n.failed = r.failed /\ n.refused = r.refused + 1
    BY <1>4, OutcomeShape
  <2> QED
    BY <1>1, <1>2, <1>4, <2>1 DEF Since
<1>5. CASE o \in {"failed", "no_answer"}
  <2>1. LET n == Outcome(r, p, o) IN
          n.lastOk = r.lastOk /\ n.failed = r.failed + 1 /\ n.reason = o
    BY <1>5, OutcomeShape
  <2> QED
    BY <1>1, <1>2, <1>5, <2>1 DEF Since
<1> QED
  BY <1>3, <1>4, <1>5 DEF Recorded

\* A reading of the run's own outcome, or of none, shows just that (_read_outcome).
LEMMA ReadSince ==
  ASSUME NEW p \in Probes, NEW b \in Rows, NEW r \in Rows, NEW o \in Recorded \cup {None},
         Since(p, b, r, o)
  PROVE  ReadOutcome(p, b, r) = o
<1>1. CASE o = "proven"
  BY <1>1 DEF Since, ReadOutcome
<1>2. CASE o = "refused"
  BY <1>2 DEF Since, ReadOutcome
<1>3. CASE o \in {"failed", "no_answer"}
  BY <1>3 DEF Since, ReadOutcome
<1>4. CASE o = None
  BY <1>4, NoneApart DEF Since, ReadOutcome, Recorded
<1> QED
  BY <1>1, <1>2, <1>3, <1>4 DEF Recorded

\* A reading shows an outcome or nothing, and a proof only of the run's own wake.
LEMMA ReadShape ==
  ASSUME NEW p \in Probes, NEW b \in Rows, NEW r \in Rows
  PROVE  /\ ReadOutcome(p, b, r) \in Recorded \cup {None}
         /\ ReadOutcome(p, b, r) = "proven" => r.lastOk = p
BY NoneApart DEF ReadOutcome, Rows, Recorded

-----------------------------------------------------------------------------
(* What the steps do to the evidence.                                      *)

\* Runs go on or end, and nothing else becomes of them.
RunsKept ==
  \A q \in Probes :
    /\ runs'[q].agent = runs[q].agent
    /\ runs'[q].stage \in {"inject", "wait"} =>
         runs[q].stage \in {"inject", "wait"} /\ runs'[q].before = runs[q].before

\* No outcome is recorded and none is withdrawn.
FateKept(f) ==
  \A q \in Probes : f[q] = fate[q] \/ (f[q] \notin Recorded /\ fate[q] \notin Recorded)

\* A step that leaves the rows alone.
LEMMA QuietWindows ==
  ASSUME Windows, Fates, UNCHANGED <<doc, disk, shown, mixed>>, FateKept(fate'), RunsKept
  PROVE  Windows'
<1>1. ASSUME NEW a, NEW p, NoneUnshown(a, p)' PROVE NoneUnshown(a, p)
  BY <1>1 DEF NoneUnshown, FateKept, RunsKept
<1>2. \A a \in Agents : NoneUnshown(a, None)' => Alike(doc[a], disk[a])'
  BY <1>1 DEF Windows
<1>3. ASSUME NEW p \in Probes, p \notin mixed, runs'[p].stage \in {"inject", "wait"}
      PROVE  /\ Since(p, runs[p].before, disk[runs[p].agent],
                      IF p \in shown THEN fate[p] ELSE None)'
             /\ NoneUnshown(runs[p].agent, p)' =>
                  Since(p, runs[p].before, doc[runs[p].agent],
                        IF fate[p] \in Recorded THEN fate[p] ELSE None)'
  <2>1. /\ runs'[p].agent = runs[p].agent /\ runs'[p].before = runs[p].before
        /\ runs[p].stage \in {"inject", "wait"}
    BY <1>3 DEF RunsKept
  <2>2. /\ p \in shown => fate'[p] = fate[p]
        /\ fate'[p] = fate[p] \/ (fate'[p] \notin Recorded /\ fate[p] \notin Recorded)
    BY DEF FateKept, Fates
  <2>3. /\ Since(p, runs[p].before, disk[runs[p].agent], IF p \in shown THEN fate[p] ELSE None)
        /\ NoneUnshown(runs[p].agent, p) =>
             Since(p, runs[p].before, doc[runs[p].agent],
                   IF fate[p] \in Recorded THEN fate[p] ELSE None)
    BY <1>3, <2>1 DEF Windows
  <2>4. /\ (IF p \in shown THEN fate[p] ELSE None)' = IF p \in shown THEN fate[p] ELSE None
        /\ (IF fate[p] \in Recorded THEN fate[p] ELSE None)'
             = IF fate[p] \in Recorded THEN fate[p] ELSE None
    BY <2>2
  <2>5. NoneUnshown(runs[p].agent, p)' => NoneUnshown(runs[p].agent, p)
    BY <2>1 DEF NoneUnshown, FateKept, RunsKept
  <2> QED
    BY <2>1, <2>3, <2>4, <2>5 DEF Since
<1> QED
  BY <1>2, <1>3 DEF Windows

\* With the fates f, no outcome of a probe of agent a, other than p, misses from the file.
Unseen(f, a, p) ==
  \A q \in Probes \ {p} : runs[q].agent = a /\ f[q] \in Recorded => q \in shown

\* A document d, of fates f, that agrees with the file unless an outcome misses from it, and
\* that shows a run its own outcome unless another misses.
DocFits(d, f) ==
  /\ \A a \in Agents : Unseen(f, a, None) => Alike(d[a], disk[a])
  /\ \A p \in Probes \ mixed :
       /\ runs[p].stage \in {"inject", "wait"}
       /\ Unseen(f, runs[p].agent, p)
       => Since(p, runs[p].before, d[runs[p].agent], IF f[p] \in Recorded THEN f[p] ELSE None)

\* A record of such a document, flushed to the file or not (_record, _persist).
LEMMA RecordWindows ==
  ASSUME Windows, Fates, RunsKept, NEW d, NEW f, Record(d, f), DocFits(d, f),
         \A p \in shown : f[p] = fate[p], Typed
  PROVE  Windows'
<1>1. doc' = d /\ fate' = f
  BY DEF Record
<1>2. shown \subseteq Probes
  BY DEF Typed, TypeOK
<1>3. CASE disk' = d /\ shown' = shown \cup Published(f) /\
           mixed' = mixed \cup
             {p \in Probes : /\ runs[p].stage \in {"inject", "wait"}
                             /\ \E q \in Published(f) \ (shown \cup {p}) :
                                  runs[q].agent = runs[p].agent}
  <2>1. \A a \in Agents : Alike(doc'[a], disk'[a])
    BY <1>1, <1>3 DEF Alike
  <2>2. ASSUME NEW p \in Probes, p \notin mixed', runs'[p].stage \in {"inject", "wait"}
        PROVE  /\ Since(p, runs[p].before, disk[runs[p].agent],
                        IF p \in shown THEN fate[p] ELSE None)'
               /\ Since(p, runs[p].before, doc[runs[p].agent],
                        IF fate[p] \in Recorded THEN fate[p] ELSE None)'
    <3>1. /\ runs'[p].agent = runs[p].agent /\ runs'[p].before = runs[p].before
          /\ runs[p].stage \in {"inject", "wait"} /\ p \notin mixed
      BY <2>2, <1>3 DEF RunsKept
    <3>2. Unseen(f, runs[p].agent, p)
      BY <2>2, <3>1, <1>3 DEF Unseen, Published
    <3>3. Since(p, runs[p].before, d[runs[p].agent], IF f[p] \in Recorded THEN f[p] ELSE None)
      BY <3>1, <3>2 DEF DocFits
    <3>4. p \in shown' <=> f[p] \in Recorded
      BY <1>3 DEF Published, Fates
    <3> QED
      BY <3>1, <3>3, <3>4, <1>1, <1>3 DEF Since
  <2> QED
    BY <2>1, <2>2 DEF Windows
<1>4. CASE UNCHANGED <<disk, shown, mixed>>
  <2>1. ASSUME NEW a, NEW p, NoneUnshown(a, p)' PROVE Unseen(f, a, p)
    BY <2>1, <1>1, <1>4 DEF NoneUnshown, Unseen, RunsKept
  <2>2. \A a \in Agents : NoneUnshown(a, None)' => Alike(doc'[a], disk'[a])
    BY <2>1, <1>1, <1>4 DEF DocFits
  <2>3. ASSUME NEW p \in Probes, p \notin mixed, runs'[p].stage \in {"inject", "wait"}
        PROVE  /\ Since(p, runs[p].before, disk[runs[p].agent],
                        IF p \in shown THEN fate[p] ELSE None)'
               /\ NoneUnshown(runs[p].agent, p)' =>
                    Since(p, runs[p].before, doc[runs[p].agent],
                          IF fate[p] \in Recorded THEN fate[p] ELSE None)'
    <3>1. /\ runs'[p].agent = runs[p].agent /\ runs'[p].before = runs[p].before
          /\ runs[p].stage \in {"inject", "wait"}
      BY <2>3 DEF RunsKept
    <3>2. Since(p, runs[p].before, disk[runs[p].agent], IF p \in shown THEN fate[p] ELSE None)
      BY <2>3, <3>1 DEF Windows
    <3>3. (IF p \in shown THEN fate[p] ELSE None)' = IF p \in shown THEN fate[p] ELSE None
      BY <1>1, <1>4
    <3>4. NoneUnshown(runs[p].agent, p)' =>
            Since(p, runs[p].before, d[runs[p].agent],
                  IF f[p] \in Recorded THEN f[p] ELSE None)
      BY <2>1, <2>3, <3>1 DEF DocFits, NoneUnshown
    <3> QED
      BY <3>1, <3>2, <3>3, <3>4, <1>1, <1>4 DEF Since
  <2> QED
    BY <2>2, <2>3, <1>4 DEF Windows, Alike
<1> QED
  BY <1>3, <1>4 DEF Record

\* A document that a probe reads as it would the present one, with no outcome the more.
LEMMA AlikeFits ==
  ASSUME Windows, NEW d, NEW f, FateKept(f), Typed,
         \A a \in Agents : Alike(doc[a], d[a])
  PROVE  DocFits(d, f)
<1>1. ASSUME NEW a, NEW p, Unseen(f, a, p) PROVE NoneUnshown(a, p)
  BY <1>1 DEF Unseen, NoneUnshown, FateKept
<1>2. ASSUME NEW a \in Agents, Unseen(f, a, None) PROVE Alike(d[a], disk[a])
  <2>1. Alike(doc[a], disk[a])
    BY <1>1, <1>2 DEF Windows
  <2> QED
    BY <2>1 DEF Alike
<1>3. ASSUME NEW p \in Probes, p \notin mixed, runs[p].stage \in {"inject", "wait"},
             Unseen(f, runs[p].agent, p)
      PROVE  Since(p, runs[p].before, d[runs[p].agent],
                   IF f[p] \in Recorded THEN f[p] ELSE None)
  <2>1. NoneUnshown(runs[p].agent, p)
    BY <1>1, <1>3
  <2>2. Since(p, runs[p].before, doc[runs[p].agent],
              IF fate[p] \in Recorded THEN fate[p] ELSE None)
    BY <1>3, <2>1 DEF Windows
  <2>3. (IF fate[p] \in Recorded THEN fate[p] ELSE None)
          = (IF f[p] \in Recorded THEN f[p] ELSE None)
    BY DEF FateKept
  <2>4. Alike(doc[runs[p].agent], d[runs[p].agent])
    BY <1>3 DEF Typed
  <2> QED
    BY <2>2, <2>3, <2>4, SinceAlike
<1> QED
  BY <1>2, <1>3 DEF DocFits

\* The outcome of a probe's wake, recorded for its agent.
LEMMA OutcomeFits ==
  ASSUME Windows, Fates, Typed, NEW a \in Agents, NEW p \in Probes, NEW o \in Recorded,
         fate[p] = "queued", runs[p].agent = a
  PROVE  DocFits([doc EXCEPT ![a] = Outcome(@, p, o)], [fate EXCEPT ![p] = o])
<1> DEFINE d == [doc EXCEPT ![a] = Outcome(@, p, o)]
           f == [fate EXCEPT ![p] = o]
<1>1. doc \in [Agents -> Rows] /\ disk \in [Agents -> Rows] /\ p \notin shown
  BY NoneApart DEF Typed, TypeOK, Fates
<1>2. /\ d[a] = Outcome(doc[a], p, o) /\ f[p] = o
      /\ \A b \in Agents \ {a} : d[b] = doc[b]
      /\ \A q \in Probes \ {p} : f[q] = fate[q]
  BY <1>1 DEF Typed, TypeOK
<1> HIDE DEF d, f
<1>3. \A q \in Probes \cup {None} : q # p => ~Unseen(f, a, q)
  BY <1>1, <1>2 DEF Unseen
<1>4. ASSUME NEW b \in Agents, Unseen(f, b, None) PROVE Alike(d[b], disk[b])
  <2>1. b # a
    BY <1>3, <1>4, NoneApart
  <2>2. NoneUnshown(b, None)
    BY <1>2, <1>4, <2>1 DEF Unseen, NoneUnshown
  <2> QED
    BY <1>2, <2>1, <2>2 DEF Windows
<1>5. ASSUME NEW q \in Probes, q \notin mixed, runs[q].stage \in {"inject", "wait"},
             Unseen(f, runs[q].agent, q)
      PROVE  Since(q, runs[q].before, d[runs[q].agent],
                   IF f[q] \in Recorded THEN f[q] ELSE None)
  <2>1. NoneUnshown(runs[q].agent, q)
    <3>1. CASE q = p
      BY <3>1, <1>2, <1>5 DEF Unseen, NoneUnshown
    <3>2. CASE q # p
      BY <3>2, <1>2, <1>3, <1>5 DEF Unseen, NoneUnshown
    <3> QED
      BY <3>1, <3>2
  <2>2. Since(q, runs[q].before, doc[runs[q].agent],
              IF fate[q] \in Recorded THEN fate[q] ELSE None)
    BY <1>5, <2>1 DEF Windows
  <2>3. CASE q = p
    <3>1. Since(p, runs[p].before, doc[a], None)
      BY <2>2, <2>3, NoneApart
    <3>2. runs[p].before \in Rows /\ doc[a] \in Rows
      BY <1>1 DEF Typed, Runs
    <3>3. Since(p, runs[p].before, Outcome(doc[a], p, o), o)
      BY <3>1, <3>2, OutcomeSince
    <3> QED
      BY <3>3, <2>3, <1>2
  <2>4. CASE q # p
    <3>1. runs[q].agent \in Agents /\ runs[q].agent # a
      BY <2>4, <1>3, <1>5 DEF Typed
    <3> QED
      BY <3>1, <2>4, <2>2, <1>2
  <2> QED
    BY <2>3, <2>4
<1> QED
  BY <1>4, <1>5 DEF DocFits, d, f

\* The delivery in flight, when it is a probe's.
LEMMA InFlight ==
  ASSUME Typed, Queued, NEW a \in Agents, queue[a] # <<>>, Head(queue[a]) # Real
  PROVE  /\ Head(queue[a]) \in Probes
         /\ fate[Head(queue[a])] = "queued" /\ runs[Head(queue[a])].agent = a
<1>1. queue[a] \in Seq(Probes \cup {Real})
  BY DEF Typed
<1>2. 1 \in 1..Len(queue[a]) /\ queue[a][1] = Head(queue[a])
  BY <1>1
<1>3. queue[a][1] \in Probes
  BY <1>1, <1>2
<1> QED
  BY <1>2, <1>3 DEF Queued

\* Of a run before its delivery, nothing is recorded.
LEMMA Unsent ==
  ASSUME Fates, Typed, NEW p \in Probes, runs[p].stage \in {"new", "inject"}
  PROVE  /\ fate[p] = None /\ p \notin shown
         /\ \A a \in Agents : doc[a].lastOk # p /\ disk[a].lastOk # p
<1>1. fate[p] = None
  BY DEF Fates
<1>2. None # "proven"
  BY ProbeAssumption DEF ProbeAssumption
<1> QED
  BY <1>1, <1>2, NoneApart DEF Fates

\* Each turn of a run leaves the others alone, and itself goes on or ends.
LEMMA TurnOfRun ==
  ASSUME Typed, NEW p \in Probes,
         InjectRefused(p) \/ Inject(p) \/ InjectUnanswered(p) \/ Poll(p)
  PROVE  /\ RunsKept
         /\ \A q \in Probes \ {p} : runs'[q] = runs[q]
<1> USE DEF Typed, Runs
<1>1. CASE InjectRefused(p)
  BY <1>1 DEF InjectRefused, RunsKept, Ended
<1>2. CASE Inject(p)
  BY <1>2 DEF Inject, RunsKept, Ended
<1>3. CASE InjectUnanswered(p)
  BY <1>3 DEF InjectUnanswered, RunsKept, Ended
<1>4. CASE Poll(p)
  BY <1>4 DEF Poll, RunsKept, Ended
<1> QED
  BY <1>1, <1>2, <1>3, <1>4

\* The accept half records no outcome: at most it queues the run's delivery.
LEMMA AcceptFates ==
  ASSUME Typed, Fates, NEW p \in Probes, runs[p].stage = "inject", Accept(p)
  PROVE  /\ \/ UNCHANGED <<doc, disk, history>>
            \/ \E f : Record(doc, f) /\ (f = fate \/ f = [fate EXCEPT ![p] = "queued"])
         /\ FateKept(fate')
         /\ fate' = fate \/ fate' = [fate EXCEPT ![p] = "queued"]
<1>1. UNCHANGED <<doc, disk, history>>
        \/ \E f : Record(doc, f) /\ (f = fate \/ f = [fate EXCEPT ![p] = "queued"])
  BY DEF Accept, Normalize
<1>2. fate' = fate \/ fate' = [fate EXCEPT ![p] = "queued"]
  BY <1>1 DEF Record, history
<1>3. fate[p] \notin Recorded
  BY Unsent, NoneApart
<1> QED
  BY <1>1, <1>2, <1>3, NoneApart DEF FateKept, Typed, TypeOK

\* What another route's wake, or a report of the depth, leaves of a row for a probe to read.
LEMMA OthersAlike ==
  ASSUME NEW r \in Rows, NEW n \in Nat
  PROVE  /\ \A s \in OtherOutcomes(r) : s \in Rows /\ Alike(r, s) /\ s.queued = r.queued
         /\ [r EXCEPT !.queued = n] \in Rows /\ Alike(r, [r EXCEPT !.queued = n])
         /\ [r EXCEPT !.queued = n].queued = n
<1>1. r.anyOk + 1 \in Nat /\ r.anyFailed + 1 \in Nat
  BY DEF Rows
<1>2. [r EXCEPT !.anyOk = @ + 1] \in Rows /\ [r EXCEPT !.anyFailed = @ + 1] \in Rows
  BY <1>1 DEF Rows
<1>3. [r EXCEPT !.queued = n] \in Rows
  BY DEF Rows
<1> QED
  BY <1>2, <1>3 DEF OtherOutcomes, Alike, Rows

-----------------------------------------------------------------------------
(* Windows.                                                                *)

\* A boot leaves what a probe reads (EvidenceStore.__init__, _zero_queued).
LEMMA BootWindows ==
  ASSUME IInv, NEW s, Boot(s)
  PROVE  Windows'
<1> DEFINE fresh == [a \in Agents |-> [disk[a] EXCEPT !.queued = 0]]
<1>0. disk \in [Agents -> Rows] /\ doc = disk /\ AllShown /\ daemon = "down"
  BY DEF IInv, Typed, TypeOK, Settles, Boot
<1>1. \A a \in Agents : Alike(disk[a], fresh[a])
  BY <1>0, OthersAlike
<1>2. doc' = fresh /\ (disk' = fresh \/ disk' = disk)
      /\ UNCHANGED <<runs, fate, shown, mixed>>
  BY DEF Boot
<1> HIDE DEF fresh
<1>3. \A a \in Agents : Alike(disk[a], disk'[a]) /\ Alike(disk[a], doc'[a])
                        /\ Alike(doc'[a], disk'[a])
  BY <1>1, <1>2 DEF Alike
<1>4. ASSUME NEW p \in Probes, p \notin mixed, runs[p].stage \in {"inject", "wait"}
      PROVE  LET o == IF p \in shown THEN fate[p] ELSE None
             IN  /\ Since(p, runs[p].before, disk'[runs[p].agent], o)
                 /\ Since(p, runs[p].before, doc'[runs[p].agent], o)
                 /\ o = IF fate[p] \in Recorded THEN fate[p] ELSE None
  <2>1. runs[p].agent \in Agents
    BY <1>4 DEF IInv, Typed
  <2>2. Since(p, runs[p].before, disk[runs[p].agent], IF p \in shown THEN fate[p] ELSE None)
    BY <1>4 DEF IInv, Windows
  <2>3. p \in shown <=> fate[p] \in Recorded
    BY <1>0 DEF AllShown, IInv, Fates
  <2> QED
    BY <2>1, <2>2, <2>3, <1>3, SinceAlike
<1> QED
  BY <1>2, <1>3, <1>4 DEF Windows

\* A fall leaves the file as the document.
LEMMA FallWindows ==
  ASSUME IInv, doc' = disk, fate' = AtTheEnd(fate), UNCHANGED <<disk, runs, shown, mixed>>
  PROVE  Windows'
<1>1. \A p \in Probes : (p \in shown => fate'[p] = fate[p])
                        /\ (fate'[p] \in Recorded <=> p \in shown)
  BY NoneApart DEF AtTheEnd, IInv, Fates
<1>2. \A a \in Agents : Alike(doc'[a], disk'[a])
  BY DEF Alike
<1>3. \A p \in Probes \ mixed : runs[p].stage \in {"inject", "wait"} =>
        Since(p, runs[p].before, disk[runs[p].agent], IF p \in shown THEN fate[p] ELSE None)
  BY DEF IInv, Windows
<1>4. \A p \in Probes : /\ (IF p \in shown THEN fate'[p] ELSE None)
                             = (IF p \in shown THEN fate[p] ELSE None)
                        /\ (IF fate'[p] \in Recorded THEN fate'[p] ELSE None)
                             = (IF p \in shown THEN fate[p] ELSE None)
  BY <1>1
<1> QED
  BY <1>2, <1>3, <1>4 DEF Windows

\* A run begins with a reading that shows nothing of it.
LEMMA StartWindows ==
  ASSUME IInv, NEW p \in Probes, NEW a \in Agents, Start(p, a)
  PROVE  Windows'
<1>0. Windows /\ Fates /\ Typed
  BY DEF IInv
<1>1. /\ fate[p] = None /\ p \notin shown /\ disk[a].lastOk # p
      /\ runs[p].stage = "new" /\ None \notin Recorded
  BY Unsent, NoneApart, <1>0 DEF Start
<1>2. /\ runs'[p].stage = "inject" /\ runs'[p].agent = a /\ runs'[p].before = disk[a]
      /\ \A q \in Probes \ {p} : runs'[q] = runs[q]
      /\ UNCHANGED <<doc, disk, fate, shown, mixed>>
  BY <1>0 DEF Start, NewRun, Proof, history, Typed
<1>3. ASSUME NEW b, NEW q, NoneUnshown(b, q)' PROVE NoneUnshown(b, q)
  BY <1>1, <1>2, <1>3 DEF NoneUnshown
<1>4. ASSUME NEW b \in Agents, NoneUnshown(b, None)' PROVE Alike(doc[b], disk[b])
  BY <1>3, <1>4, <1>0 DEF Windows
<1>5. ASSUME NEW q \in Probes, q \notin mixed', runs'[q].stage \in {"inject", "wait"}
      PROVE  /\ Since(q, runs[q].before, disk[runs[q].agent],
                      IF q \in shown THEN fate[q] ELSE None)'
             /\ NoneUnshown(runs[q].agent, q)' =>
                  Since(q, runs[q].before, doc[runs[q].agent],
                        IF fate[q] \in Recorded THEN fate[q] ELSE None)'
  <2>1. CASE q = p
    <3>1. Since(p, disk[a], disk[a], None)
      BY <1>1, NoneApart DEF Since, Recorded
    <3>2. NoneUnshown(a, p)' => NoneUnshown(a, None)'
      BY <1>1, <1>2 DEF NoneUnshown
    <3>3. NoneUnshown(a, p)' => Since(p, disk[a], doc[a], None)
      <4> SUFFICES ASSUME NoneUnshown(a, p)' PROVE Since(p, disk[a], doc[a], None)
        OBVIOUS
      <4>1. Alike(disk[a], doc[a])
        BY <3>2, <1>4 DEF Alike
      <4> QED
        BY <3>1, <4>1, SinceAlike
    <3> QED
      BY <2>1, <3>1, <3>3, <1>1, <1>2
  <2>2. CASE q # p
    <3>1. /\ Since(q, runs[q].before, disk[runs[q].agent],
                   IF q \in shown THEN fate[q] ELSE None)
          /\ NoneUnshown(runs[q].agent, q) =>
               Since(q, runs[q].before, doc[runs[q].agent],
                     IF fate[q] \in Recorded THEN fate[q] ELSE None)
      BY <2>2, <1>0, <1>2, <1>5 DEF Windows
    <3>2. NoneUnshown(runs[q].agent, q)' => NoneUnshown(runs[q].agent, q)
      BY <2>2, <1>1, <1>2 DEF NoneUnshown
    <3> QED
      BY <2>2, <3>1, <3>2, <1>2
  <2> QED
    BY <2>1, <2>2
<1> QED
  BY <1>2, <1>4, <1>5 DEF Windows

\* A record of a document that a probe reads as the present one.
LEMMA AlikeWindows ==
  ASSUME IInv, RunsKept, NEW d, NEW f, Record(d, f), FateKept(f),
         \A a \in Agents : Alike(doc[a], d[a])
  PROVE  Windows'
<1>1. Windows /\ Fates /\ Typed
  BY DEF IInv
<1>2. DocFits(d, f)
  BY <1>1, AlikeFits
<1>3. \A p \in shown : f[p] = fate[p]
  BY <1>1 DEF Fates, FateKept, Typed, TypeOK
<1> QED
  BY <1>1, <1>2, <1>3, RecordWindows

\* Every step keeps what the runs have read in line with what became of their deliveries.
LEMMA NextWindows ==
  ASSUME IInv, [Next]_vars
  PROVE  Windows'
<1>0. Windows /\ Fates /\ Typed /\ Queued
  BY DEF IInv
<1>1. FateKept(fate) /\ \A a \in Agents : Alike(doc[a], doc[a])
  BY DEF FateKept, Alike
<1>2. UNCHANGED runs => RunsKept
  BY DEF RunsKept
<1>3. /\ doc \in [Agents -> Rows]
      /\ fate \in [Probes -> Recorded \cup {"queued", "silent", "lost", None}]
  BY <1>0 DEF Typed, TypeOK
<1>4. ASSUME UNCHANGED vars PROVE Windows'
  BY <1>0, <1>1, <1>2, <1>4, QuietWindows DEF vars, history
<1>5. ASSUME NEW s \in Setups, Boot(s) PROVE Windows'
  BY <1>5, BootWindows
<1>6. CASE Up
  BY <1>1, <1>2, <1>6, AlikeWindows DEF Up
<1>7. CASE Drain
  BY <1>0, <1>1, <1>2, <1>7, QuietWindows DEF Drain, history
<1>8. CASE Shutdown
  BY <1>8, FallWindows DEF Shutdown
<1>9. CASE Kill
  BY <1>9, FallWindows DEF Kill
<1>10. ASSUME NEW a \in Agents, RealArrive(a) PROVE Windows'
  BY <1>1, <1>2, <1>10, AlikeWindows DEF RealArrive
<1>11. ASSUME NEW a \in Agents, RealEnds(a) PROVE Windows'
  <2>1. CASE UNCHANGED <<doc, disk, history>>
    BY <1>0, <1>1, <1>2, <1>11, <2>1, QuietWindows DEF RealEnds, history
  <2>2. ASSUME NEW r \in OtherOutcomes(doc[a]), Record([doc EXCEPT ![a] = r], fate)
        PROVE  Windows'
    <3>1. Alike(doc[a], r)
      BY <1>3, OthersAlike
    <3>2. \A b \in Agents : Alike(doc[b], [doc EXCEPT ![a] = r][b])
      BY <1>1, <1>3, <3>1
    <3> QED
      BY <1>1, <1>2, <1>11, <2>2, <3>2, AlikeWindows DEF RealEnds
  <2> QED
    BY <1>11, <2>1, <2>2 DEF RealEnds
<1>12. ASSUME NEW a \in Agents, ProbeStops(a) PROVE Windows'
  <2>1. FateKept(fate')
    BY <1>0, <1>3, <1>12, InFlight, NoneApart DEF ProbeStops, FateKept
  <2> QED
    BY <1>0, <1>2, <1>12, <2>1, QuietWindows DEF ProbeStops
<1>13. ASSUME NEW a \in Agents, ReportDepth(a) PROVE Windows'
  <2>1. Len(queue[a]) \in Nat
    BY <1>0 DEF Typed
  <2>2. \A b \in Agents : Alike(doc[b], [doc EXCEPT ![a].queued = Len(queue[a])][b])
    BY <1>1, <1>3, <2>1, OthersAlike
  <2> QED
    BY <1>1, <1>2, <1>13, <2>2, AlikeWindows DEF ReportDepth
<1>14. ASSUME NEW a \in Agents, NEW o \in Recorded, ProbeEnds(a, o) PROVE Windows'
  <2> DEFINE p == Head(queue[a])
             d == [doc EXCEPT ![a] = Outcome(@, p, o)]
             f == [fate EXCEPT ![p] = o]
  <2>1. p \in Probes /\ fate[p] = "queued" /\ runs[p].agent = a
    BY <1>0, <1>14, InFlight DEF ProbeEnds
  <2>2. Record(d, f) /\ RunsKept
    BY <1>2, <1>14 DEF ProbeEnds
  <2>3. DocFits(d, f)
    BY <1>0, <2>1, OutcomeFits
  <2>4. \A q \in shown : f[q] = fate[q]
    BY <1>0, <1>3, <2>1, NoneApart DEF Fates
  <2> HIDE DEF p, d, f
  <2> QED
    BY <1>0, <2>2, <2>3, <2>4, RecordWindows
<1>15. ASSUME NEW p \in Probes, NEW a \in Agents, Start(p, a) PROVE Windows'
  BY <1>15, StartWindows
<1>16. ASSUME NEW p \in Probes, InjectRefused(p) \/ Poll(p) PROVE Windows'
  <2>1. UNCHANGED <<doc, disk, shown, mixed, fate>> /\ RunsKept
    BY <1>0, <1>16, TurnOfRun DEF InjectRefused, Poll, history
  <2> QED
    BY <1>0, <1>1, <2>1, QuietWindows
<1>17. ASSUME NEW p \in Probes, Inject(p) \/ InjectUnanswered(p) PROVE Windows'
  <2>1. Accept(p) /\ runs[p].stage = "inject" /\ RunsKept
    BY <1>0, <1>17, TurnOfRun DEF Inject, InjectUnanswered
  <2>2. FateKept(fate')
    BY <1>0, <2>1, AcceptFates
  <2>3. CASE UNCHANGED <<doc, disk, history>>
    BY <1>0, <2>1, <2>2, <2>3, QuietWindows DEF history
  <2>4. ASSUME NEW f, Record(doc, f) PROVE Windows'
    <3>1. FateKept(f)
      BY <2>2, <2>4 DEF Record
    <3> QED
      BY <1>1, <2>1, <2>4, <3>1, AlikeWindows
  <2> QED
    BY <1>0, <2>1, <2>3, <2>4, AcceptFates
<1> QED
  BY <1>4, <1>5, <1>6, <1>7, <1>8, <1>9, <1>10, <1>11, <1>12, <1>13, <1>14, <1>15, <1>16, <1>17
     DEF Next, Daemon, Process

-----------------------------------------------------------------------------
(* Types.                                                                  *)

Stores == [Agents -> Rows]
Fated  == [Probes -> Recorded \cup {"queued", "silent", "lost", None}]

\* The parts of the type that each step of the model changes together.
DaemonTyped == /\ daemon \in {"down", "starting", "up", "draining"}
               /\ setup \in Setups \cup {None} /\ boots \in 0..MaxBoots /\ reals \in 0..MaxReal
StoreTyped  == /\ doc \in Stores /\ disk \in Stores /\ fate \in Fated
               /\ shown \subseteq Probes /\ mixed \subseteq Probes
               /\ stop \in {"none", "unwritten", "clean", "killed"}
QueueTyped  == queue \in [Agents -> Seq(Probes \cup {Real})]
RunsTyped   == /\ runs \in [Probes -> Runs]
               /\ \A p \in Probes : runs[p].stage \in {"inject", "wait"} => runs[p].agent \in Agents

\* The parts make the type.
LEMMA TypedParts ==
  /\ Typed => DaemonTyped /\ StoreTyped /\ QueueTyped /\ RunsTyped
  /\ DaemonTyped /\ StoreTyped /\ QueueTyped /\ RunsTyped => Typed
<1>1. QueueTyped => \A a \in Agents : \A i \in DOMAIN queue[a] : queue[a][i] \in Probes \cup {Real}
  BY DEF QueueTyped
<1> QED
  BY <1>1 DEF Typed, TypeOK, DaemonTyped, StoreTyped, QueueTyped, RunsTyped, Stores, Fated, Runs

\* A record of a typed document (_record, _persist).
LEMMA RecordTyped ==
  ASSUME StoreTyped, NEW d \in Stores, NEW f \in Fated, Record(d, f)
  PROVE  StoreTyped'
BY DEF StoreTyped, Record, Published

\* An empty row is a row.
LEMMA NoRowTyped == NoRow \in Rows
BY DEF NoRow, Rows

\* A run that ends is a run.
LEMMA EndedTyped ==
  ASSUME NEW r \in Runs, NEW v \in Verdicts
  PROVE  /\ Ended(r, v) \in Runs
         /\ Ended(r, v).stage = "done" /\ Ended(r, v).verdict = v
<1>1. 0 \in 0..Polls
  BY ProbeAssumption DEF ProbeAssumption
<1> DEFINE r1 == [r  EXCEPT !.stage = "done"]
           r2 == [r1 EXCEPT !.verdict = v]
           r3 == [r2 EXCEPT !.before = NoRow]
           r4 == [r3 EXCEPT !.polls = 0]
<1>2. r1 \in Runs /\ r1.stage = "done"
  BY DEF Runs
<1>3. r2 \in Runs /\ r2.stage = "done" /\ r2.verdict = v
  <2> HIDE DEF r1
  <2> QED
    BY <1>2 DEF Runs
<1>4. r3 \in Runs /\ r3.stage = "done" /\ r3.verdict = v
  <2> HIDE DEF r2
  <2> QED
    BY <1>3, NoRowTyped DEF Runs
<1>5. r4 \in Runs /\ r4.stage = "done" /\ r4.verdict = v
  <2> HIDE DEF r3
  <2> QED
    BY <1>1, <1>4 DEF Runs
<1> QED
  BY <1>5 DEF Ended

\* A turn of a run keeps the runs typed.
LEMMA TurnTyped ==
  ASSUME Typed, NEW p \in Probes,
         InjectRefused(p) \/ Inject(p) \/ InjectUnanswered(p) \/ Poll(p)
  PROVE  RunsTyped'
<1>1. runs \in [Probes -> Runs] /\ runs[p] \in Runs
  BY DEF Typed
<1>2. runs' \in [Probes -> Runs]
  <2>1. CASE InjectRefused(p) \/ InjectUnanswered(p)
    <3>1. Ended(runs[p], "unreachable") \in Runs
      BY <1>1, EndedTyped DEF Verdicts
    <3> QED
      BY <1>1, <2>1, <3>1 DEF InjectRefused, InjectUnanswered
  <2>2. CASE Inject(p)
    <3>1. Ended(runs[p], InjectionVerdict) \in Runs
      <4>1. InjectionVerdict \in Verdicts
        BY DEF InjectionVerdict, Verdicts
      <4> QED
        BY <1>1, <4>1, EndedTyped
    <3>2. [runs[p] EXCEPT !.stage = "wait"] \in Runs
      BY <1>1 DEF Runs
    <3> QED
      BY <1>1, <2>2, <3>1, <3>2 DEF Inject
  <2>3. CASE Poll(p)
    <3> DEFINE o == ReadOutcome(p, runs[p].before, Proof(runs[p].agent))
    <3>1. /\ runs[p].before \in Rows /\ runs[p].polls \in 0..Polls
          /\ Proof(runs[p].agent) \in Rows
      BY <1>1, <2>3 DEF Typed, TypeOK, Poll, Proof, Runs
    <3>2. o \in Verdicts
      BY <3>1, ReadShape DEF Verdicts
    <3> HIDE DEF o
    <3>3. Ended(runs[p], o) \in Runs /\ Ended(runs[p], "timeout") \in Runs
      BY <1>1, <3>2, EndedTyped DEF Verdicts
    <3>4. ~PastDeadline(runs[p]) => [runs[p] EXCEPT !.polls = @ + 1] \in Runs
      <4>1. ~PastDeadline(runs[p]) => runs[p].polls + 1 \in 0..Polls
        BY <3>1, ProbeAssumption DEF PastDeadline, ProbeAssumption
      <4> QED
        BY <4>1, <1>1 DEF Runs
    <3>5. runs' = [runs EXCEPT ![p] =
            IF      o # None        THEN Ended(runs[p], o)
            ELSE IF PastDeadline(runs[p]) THEN Ended(runs[p], "timeout")
            ELSE [runs[p] EXCEPT !.polls = @ + 1]]
      BY <2>3 DEF Poll, o
    <3> QED
      BY <1>1, <3>3, <3>4, <3>5
  <2> QED
    BY <2>1, <2>2, <2>3
<1>3. \A q \in Probes : runs'[q].stage \in {"inject", "wait"} => runs'[q].agent \in Agents
  BY TurnOfRun DEF RunsKept, Typed
<1> QED
  BY <1>2, <1>3 DEF RunsTyped

\* What becomes of the deliveries at the end of a process, and at the end of a wake.
LEMMA FateTyped ==
  ASSUME fate \in Fated
  PROVE  /\ AtTheEnd(fate) \in Fated
         /\ \A p \in Probes, o \in Recorded \cup {"queued", "silent"} :
              [fate EXCEPT ![p] = o] \in Fated
BY DEF AtTheEnd, Fated

\* The document with another row of an agent.
LEMMA RowTyped ==
  ASSUME doc \in Stores, NEW a \in Agents, NEW r \in Rows
  PROVE  [doc EXCEPT ![a] = r] \in Stores
BY DEF Stores

\* Queues grow by a delivery and lose their first.
LEMMA QueueMoves ==
  ASSUME QueueTyped, NEW a \in Agents
  PROVE  /\ \A e \in Probes \cup {Real} :
              [queue EXCEPT ![a] = Append(@, e)] \in [Agents -> Seq(Probes \cup {Real})]
         /\ queue[a] # <<>> =>
              [queue EXCEPT ![a] = Tail(@)] \in [Agents -> Seq(Probes \cup {Real})]
<1>1. queue[a] \in Seq(Probes \cup {Real})
  BY DEF QueueTyped
<1>2. \A e \in Probes \cup {Real} : Append(queue[a], e) \in Seq(Probes \cup {Real})
  BY <1>1
<1>3. queue[a] # <<>> => Tail(queue[a]) \in Seq(Probes \cup {Real})
  BY <1>1
<1> QED
  BY <1>2, <1>3 DEF QueueTyped

\* Every step keeps the type.
LEMMA NextTyped ==
  ASSUME IInv, [Next]_vars
  PROVE  Typed'
<1>0. DaemonTyped /\ StoreTyped /\ QueueTyped /\ RunsTyped /\ Typed /\ Queued /\ Fates
  BY TypedParts DEF IInv
<1>1. UNCHANGED <<server, reals>> => DaemonTyped'
  BY <1>0 DEF DaemonTyped, server
<1>2. UNCHANGED <<doc, disk, history>> => StoreTyped'
  BY <1>0 DEF StoreTyped, history
<1>3. UNCHANGED queue => QueueTyped'
  BY <1>0 DEF QueueTyped
<1>4. UNCHANGED runs => RunsTyped'
  BY <1>0 DEF RunsTyped
<1>5. doc \in Stores /\ fate \in Fated /\ \A a \in Agents : doc[a] \in Rows /\ disk[a] \in Rows
  BY <1>0 DEF StoreTyped, Stores
<1>6. DaemonTyped' /\ StoreTyped' /\ QueueTyped' /\ RunsTyped' => Typed'
  BY TypedParts, PTL
<1>7. CASE UNCHANGED vars
  BY <1>1, <1>2, <1>3, <1>4, <1>6, <1>7 DEF vars, server
<1>8. ASSUME NEW s \in Setups, Boot(s) PROVE Typed'
  <2> DEFINE fresh == [a \in Agents |-> [disk[a] EXCEPT !.queued = 0]]
  <2>1. fresh \in Stores
    <3>1. \A a \in Agents : [disk[a] EXCEPT !.queued = 0] \in Rows
      BY <1>5, OthersAlike
    <3> QED
      BY <3>1 DEF Stores
  <2> HIDE DEF fresh
  <2>2. /\ doc' = fresh /\ (disk' = fresh \/ disk' = disk)
        /\ stop' \in {"none", "unwritten"} /\ UNCHANGED <<fate, shown, mixed>>
    BY <1>8 DEF Boot, fresh
  <2>3. StoreTyped'
    BY <1>0, <2>1, <2>2 DEF StoreTyped
  <2>4. DaemonTyped'
    BY <1>0, <1>8, ProbeAssumption DEF DaemonTyped, Boot, ProbeAssumption
  <2> QED
    BY <1>3, <1>4, <1>6, <1>8, <2>3, <2>4 DEF Boot
<1>9. CASE Up
  BY <1>0, <1>3, <1>4, <1>5, <1>6, <1>9, RecordTyped DEF Up, DaemonTyped
<1>10. CASE Drain
  BY <1>0, <1>2, <1>3, <1>4, <1>6, <1>10 DEF Drain, DaemonTyped
<1>11. CASE Shutdown
  <2>1. DaemonTyped' /\ StoreTyped'
    BY <1>0, <1>11, FateTyped DEF Shutdown, DaemonTyped, StoreTyped
  <2> QED
    BY <1>3, <1>4, <1>6, <1>11, <2>1 DEF Shutdown
<1>12. CASE Kill
  <2>1. DaemonTyped' /\ StoreTyped'
    BY <1>0, <1>12, FateTyped DEF Kill, DaemonTyped, StoreTyped
  <2>2. QueueTyped'
    BY <1>12 DEF Kill, QueueTyped
  <2> QED
    BY <1>4, <1>6, <1>12, <2>1, <2>2 DEF Kill
<1>13. ASSUME NEW a \in Agents, RealArrive(a) PROVE Typed'
  <2>1. DaemonTyped'
    BY <1>0, <1>13, ProbeAssumption DEF DaemonTyped, RealArrive, server, ProbeAssumption
  <2>2. QueueTyped'
    BY <1>0, <1>13, QueueMoves DEF RealArrive, QueueTyped
  <2> QED
    BY <1>0, <1>4, <1>5, <1>6, <1>13, <2>1, <2>2, RecordTyped DEF RealArrive
<1>14. ASSUME NEW a \in Agents, RealEnds(a) PROVE Typed'
  <2>1. QueueTyped'
    BY <1>0, <1>14, QueueMoves DEF RealEnds, QueueTyped
  <2>2. StoreTyped'
    <3>1. ASSUME NEW r \in OtherOutcomes(doc[a]), Record([doc EXCEPT ![a] = r], fate)
          PROVE  StoreTyped'
      <4>1. [doc EXCEPT ![a] = r] \in Stores
        BY <1>5, OthersAlike, RowTyped
      <4> QED
        BY <1>0, <1>5, <3>1, <4>1, RecordTyped
    <3> QED
      BY <1>2, <1>14, <3>1 DEF RealEnds
  <2> QED
    BY <1>1, <1>4, <1>6, <1>14, <2>1, <2>2 DEF RealEnds
<1>15. ASSUME NEW a \in Agents, ProbeStops(a) PROVE Typed'
  <2>1. QueueTyped'
    BY <1>0, <1>15, QueueMoves DEF ProbeStops, QueueTyped
  <2>2. StoreTyped'
    BY <1>0, <1>15, InFlight, FateTyped DEF ProbeStops, StoreTyped
  <2> QED
    BY <1>1, <1>4, <1>6, <1>15, <2>1, <2>2 DEF ProbeStops
<1>16. ASSUME NEW a \in Agents, ReportDepth(a) PROVE Typed'
  <2>1. Len(queue[a]) \in Nat
    BY <1>0 DEF QueueTyped
  <2>2. [doc EXCEPT ![a].queued = Len(queue[a])] \in Stores
    <3>1. [doc[a] EXCEPT !.queued = Len(queue[a])] \in Rows
      BY <1>5, <2>1, OthersAlike
    <3> QED
      BY <1>5, <3>1, RowTyped
  <2> QED
    BY <1>0, <1>1, <1>3, <1>4, <1>5, <1>6, <1>16, <2>2, RecordTyped DEF ReportDepth
<1>17. ASSUME NEW a \in Agents, NEW o \in Recorded, ProbeEnds(a, o) PROVE Typed'
  <2> DEFINE p == Head(queue[a])
             d == [doc EXCEPT ![a] = Outcome(@, p, o)]
             f == [fate EXCEPT ![p] = o]
  <2>1. QueueTyped'
    BY <1>0, <1>17, QueueMoves DEF ProbeEnds, QueueTyped
  <2>2. p \in Probes
    BY <1>0, <1>17, InFlight DEF ProbeEnds
  <2>3. d \in Stores
    BY <1>5, <2>2, OutcomeShape, RowTyped
  <2>4. f \in Fated
    BY <1>5, <2>2, FateTyped
  <2>5. Record(d, f)
    BY <1>17 DEF ProbeEnds
  <2> HIDE DEF p, d, f
  <2>6. StoreTyped'
    BY <1>0, <2>3, <2>4, <2>5, RecordTyped
  <2> QED
    BY <1>1, <1>4, <1>6, <1>17, <2>1, <2>6 DEF ProbeEnds
<1>18. ASSUME NEW p \in Probes, NEW a \in Agents, Start(p, a) PROVE Typed'
  <2>1. NewRun(a) \in Runs
    BY <1>5, ProbeAssumption DEF NewRun, Runs, Proof, Verdicts, ProbeAssumption
  <2>2. RunsTyped'
    BY <1>0, <1>18, <2>1 DEF Start, RunsTyped, NewRun
  <2> QED
    BY <1>1, <1>2, <1>3, <1>6, <1>18, <2>2 DEF Start
<1>19. ASSUME NEW p \in Probes, InjectRefused(p) \/ Poll(p) PROVE Typed'
  BY <1>0, <1>1, <1>2, <1>3, <1>6, <1>19, TurnTyped DEF InjectRefused, Poll
<1>20. ASSUME NEW p \in Probes, Inject(p) \/ InjectUnanswered(p) PROVE Typed'
  <2>1. Accept(p) /\ runs[p].stage = "inject" /\ UNCHANGED <<server, reals>>
    BY <1>20 DEF Inject, InjectUnanswered
  <2>2. runs[p].agent \in Agents
    BY <1>0, <2>1 DEF RunsTyped
  <2>3. QueueTyped'
    BY <1>0, <2>1, <2>2, QueueMoves DEF Accept, Normalize, QueueTyped
  <2>4. StoreTyped'
    <3>1. ASSUME NEW f, Record(doc, f), f = fate \/ f = [fate EXCEPT ![p] = "queued"]
          PROVE  StoreTyped'
      <4>1. f \in Fated
        BY <1>5, <3>1, FateTyped
      <4> QED
        BY <1>0, <1>5, <3>1, <4>1, RecordTyped
    <3> QED
      BY <1>0, <1>2, <2>1, <3>1, AcceptFates
  <2> QED
    BY <1>0, <1>1, <1>6, <1>20, <2>1, <2>3, <2>4, TurnTyped
<1> QED
  BY <1>7, <1>8, <1>9, <1>10, <1>11, <1>12, <1>13, <1>14, <1>15, <1>16, <1>17, <1>18, <1>19,
     <1>20 DEF Next, Daemon, Process

-----------------------------------------------------------------------------
(* Queued.                                                                 *)

\* The delivery of q is still pending, for the same agent.
StillQueued(q) ==
  fate[q] = "queued" => fate'[q] = "queued" /\ runs'[q].agent = runs[q].agent

\* A queue that stands still.
LEMMA SameQueued ==
  ASSUME Queued, UNCHANGED queue, \A q \in Probes : StillQueued(q)
  PROVE  Queued'
BY DEF Queued, StillQueued

\* No queue at all.
LEMMA NoneQueued ==
  ASSUME \A a \in Agents : queue'[a] = <<>>
  PROVE  Queued'
BY DEF Queued

\* A delivery joins the end of its agent's queue (_queue.append).
LEMMA AppendQueued ==
  ASSUME Typed, Queued, NEW a \in Agents, NEW e \in Probes \cup {Real},
         queue' = [queue EXCEPT ![a] = Append(@, e)],
         \A q \in Probes : StillQueued(q),
         e \in Probes => fate[e] # "queued" /\ fate'[e] = "queued" /\ runs'[e].agent = a
  PROVE  Queued'
<1>1. queue[a] \in Seq(Probes \cup {Real}) /\ queue \in [Agents -> Seq(Probes \cup {Real})]
  BY DEF Typed
<1>2. PICK L \in Nat : L = Len(queue[a])
  BY <1>1
<1>3. /\ Len(queue'[a]) = L + 1 /\ queue'[a][L + 1] = e
      /\ \A i \in 1..L : queue'[a][i] = queue[a][i]
      /\ \A b \in Agents \ {a} : queue'[b] = queue[b]
  BY <1>1, <1>2, AppendProperties
<1>4. \A i \in 1..(L + 1) : i \in 1..L \/ i = L + 1
  BY <1>2
<1>5. \A b \in Agents : \A i \in 1..Len(queue[b]) : queue[b][i] \in Probes =>
        queue[b][i] # e /\ fate'[queue[b][i]] = "queued" /\ runs'[queue[b][i]].agent = b
  BY DEF Queued, StillQueued
<1>6. ASSUME NEW b \in Agents, NEW i \in 1..Len(queue'[b]), queue'[b][i] \in Probes
      PROVE  fate'[queue'[b][i]] = "queued" /\ runs'[queue'[b][i]].agent = b
  <2>1. CASE b # a
    BY <1>3, <1>5, <1>6, <2>1
  <2>2. CASE b = a
    BY <1>2, <1>3, <1>4, <1>5, <1>6, <2>2
  <2> QED
    BY <2>1, <2>2
<1>7. ASSUME NEW b \in Agents, NEW i \in 1..Len(queue'[b]), NEW j \in 1..Len(queue'[b]),
             queue'[b][i] = queue'[b][j], queue'[b][i] \in Probes
      PROVE  i = j
  <2>1. CASE b # a
    BY <1>3, <1>7, <2>1 DEF Queued
  <2>2. CASE b = a
    <3>1. (i \in 1..L \/ i = L + 1) /\ (j \in 1..L \/ j = L + 1)
      BY <1>3, <1>4, <1>7, <2>2
    <3>2. CASE i \in 1..L /\ j \in 1..L
      BY <1>2, <1>3, <1>7, <2>2, <3>2 DEF Queued
    <3>3. CASE i = L + 1 /\ j \in 1..L
      BY <1>2, <1>3, <1>5, <1>7, <2>2, <3>3
    <3>4. CASE j = L + 1 /\ i \in 1..L
      BY <1>2, <1>3, <1>5, <1>7, <2>2, <3>4
    <3> QED
      BY <3>1, <3>2, <3>3, <3>4
  <2> QED
    BY <2>1, <2>2
<1> QED
  BY <1>6, <1>7 DEF Queued

\* The delivery in flight leaves its queue (_run_job, _finish).
LEMMA TailQueued ==
  ASSUME Typed, Queued, NEW a \in Agents, queue[a] # <<>>,
         queue' = [queue EXCEPT ![a] = Tail(@)],
         \A q \in Probes : q # Head(queue[a]) => StillQueued(q)
  PROVE  Queued'
<1>1. queue[a] \in Seq(Probes \cup {Real}) /\ queue \in [Agents -> Seq(Probes \cup {Real})]
  BY DEF Typed
<1>2. PICK L \in Nat : L = Len(queue[a])
  BY <1>1
<1>3. /\ L >= 1 /\ Len(queue'[a]) = L - 1 /\ Head(queue[a]) = queue[a][1]
      /\ \A i \in 1..(L - 1) : queue'[a][i] = queue[a][i + 1]
      /\ \A b \in Agents \ {a} : queue'[b] = queue[b]
  BY <1>1, <1>2, HeadTailProperties
<1>4. \A i \in 1..(L - 1) : i + 1 \in 1..L /\ i + 1 # 1
  BY <1>2
<1>5. \A i, j \in 1..(L - 1) : i + 1 = j + 1 => i = j
  BY <1>2
<1>6. 1 \in 1..L
  BY <1>2, <1>3
<1>7. \A b \in Agents : \A i \in 1..Len(queue[b]) :
        queue[b][i] \in Probes /\ queue[b][i] # Head(queue[a]) =>
          fate'[queue[b][i]] = "queued" /\ runs'[queue[b][i]].agent = b
  BY DEF Queued, StillQueued
<1>8. \A i \in 1..(L - 1) : queue[a][i + 1] \in Probes => queue[a][i + 1] # Head(queue[a])
  BY <1>2, <1>3, <1>4, <1>6 DEF Queued
<1>9. ASSUME NEW b \in Agents, b # a, NEW i \in 1..Len(queue[b]), queue[b][i] \in Probes
      PROVE  queue[b][i] # Head(queue[a])
  BY <1>2, <1>3, <1>6, <1>9 DEF Queued
<1>10. ASSUME NEW b \in Agents, NEW i \in 1..Len(queue'[b]), queue'[b][i] \in Probes
       PROVE  fate'[queue'[b][i]] = "queued" /\ runs'[queue'[b][i]].agent = b
  <2>1. CASE b # a
    BY <1>3, <1>7, <1>9, <1>10, <2>1
  <2>2. CASE b = a
    BY <1>2, <1>3, <1>4, <1>7, <1>8, <1>10, <2>2
  <2> QED
    BY <2>1, <2>2
<1>11. ASSUME NEW b \in Agents, NEW i \in 1..Len(queue'[b]), NEW j \in 1..Len(queue'[b]),
              queue'[b][i] = queue'[b][j], queue'[b][i] \in Probes
       PROVE  i = j
  <2>1. CASE b # a
    BY <1>3, <1>11, <2>1 DEF Queued
  <2>2. CASE b = a
    <3>1. i \in 1..(L - 1) /\ j \in 1..(L - 1)
      BY <1>3, <1>11, <2>2
    <3>2. i + 1 \in 1..L /\ j + 1 \in 1..L /\ queue[a][i + 1] = queue[a][j + 1]
          /\ queue[a][i + 1] \in Probes
      BY <1>3, <1>4, <1>11, <2>2, <3>1
    <3>3. i + 1 = j + 1
      BY <1>2, <3>2 DEF Queued
    <3> QED
      BY <1>5, <3>1, <3>3
  <2> QED
    BY <2>1, <2>2
<1> QED
  BY <1>10, <1>11 DEF Queued

\* Every step keeps the pending deliveries apart and accounted for.
LEMMA NextQueued ==
  ASSUME IInv, [Next]_vars
  PROVE  Queued'
<1>0. /\ Typed /\ Queued /\ Fates /\ fate \in Fated
      /\ runs \in [Probes -> Runs] /\ queue \in [Agents -> Seq(Probes \cup {Real})]
  BY TypedParts DEF IInv, StoreTyped, Typed
<1>1. ASSUME UNCHANGED <<runs, fate>> PROVE \A q \in Probes : StillQueued(q)
  BY <1>1 DEF StillQueued
<1>2. ASSUME NEW d, Record(d, fate), UNCHANGED runs PROVE \A q \in Probes : StillQueued(q)
  BY <1>1, <1>2 DEF Record
<1>3. CASE UNCHANGED vars
  BY <1>0, <1>1, <1>3, SameQueued DEF vars, history
<1>4. ASSUME NEW s \in Setups, Boot(s) PROVE Queued'
  BY <1>0, <1>1, <1>4, SameQueued DEF Boot
<1>5. CASE Up
  BY <1>0, <1>2, <1>5, SameQueued DEF Up
<1>6. CASE Drain
  BY <1>0, <1>1, <1>6, SameQueued DEF Drain, history
<1>7. CASE Shutdown
  BY <1>7, NoneQueued DEF Shutdown, Drained
<1>8. CASE Kill
  BY <1>8, NoneQueued DEF Kill
<1>9. ASSUME NEW a \in Agents, RealArrive(a) PROVE Queued'
  BY <1>0, <1>2, <1>9, AppendQueued, NoneApart DEF RealArrive
<1>10. ASSUME NEW a \in Agents, RealEnds(a) PROVE Queued'
  <2>1. UNCHANGED <<runs, fate>>
    BY <1>10 DEF RealEnds, Record, history
  <2> QED
    BY <1>0, <1>1, <1>10, <2>1, TailQueued DEF RealEnds
<1>11. ASSUME NEW a \in Agents, ProbeStops(a) PROVE Queued'
  <2>1. \A q \in Probes : q # Head(queue[a]) => StillQueued(q)
    BY <1>0, <1>11 DEF ProbeStops, StillQueued, Fated
  <2> QED
    BY <1>0, <1>11, <2>1, TailQueued DEF ProbeStops
<1>12. ASSUME NEW a \in Agents, ReportDepth(a) PROVE Queued'
  BY <1>0, <1>2, <1>12, SameQueued DEF ReportDepth
<1>13. ASSUME NEW a \in Agents, NEW o \in Recorded, ProbeEnds(a, o) PROVE Queued'
  <2>1. UNCHANGED runs /\ fate' = [fate EXCEPT ![Head(queue[a])] = o]
    BY <1>13 DEF ProbeEnds, Record
  <2>2. \A q \in Probes : q # Head(queue[a]) => StillQueued(q)
    BY <1>0, <2>1 DEF StillQueued, Fated
  <2> QED
    BY <1>0, <1>13, <2>2, TailQueued DEF ProbeEnds
<1>14. ASSUME NEW p \in Probes, NEW a \in Agents, Start(p, a) PROVE Queued'
  <2>1. /\ fate[p] # "queued" /\ UNCHANGED <<queue, fate>>
        /\ \A q \in Probes \ {p} : runs'[q] = runs[q]
    BY <1>0, <1>14, Unsent, NoneApart DEF Start, history
  <2>2. \A q \in Probes : StillQueued(q)
    BY <2>1 DEF StillQueued
  <2> QED
    BY <1>0, <2>1, <2>2, SameQueued
<1>15. ASSUME NEW p \in Probes, InjectRefused(p) \/ Poll(p) PROVE Queued'
  <2>1. UNCHANGED <<queue, fate>> /\ RunsKept
    BY <1>0, <1>15, TurnOfRun DEF InjectRefused, Poll, history
  <2>2. \A q \in Probes : StillQueued(q)
    BY <2>1 DEF StillQueued, RunsKept
  <2> QED
    BY <1>0, <2>1, <2>2, SameQueued
<1>16. ASSUME NEW p \in Probes, Inject(p) \/ InjectUnanswered(p) PROVE Queued'
  <2>1. Accept(p) /\ runs[p].stage = "inject" /\ RunsKept
    BY <1>0, <1>16, TurnOfRun DEF Inject, InjectUnanswered
  <2>2. fate[p] # "queued" /\ runs[p].agent \in Agents
    BY <1>0, <2>1, Unsent, NoneApart DEF Typed
  <2>3. \A q \in Probes : StillQueued(q)
    BY <1>0, <2>1, <2>2, AcceptFates DEF StillQueued, RunsKept, Fated
  <2>4. CASE Served /\ Verified /\ Resolved
    <3>1. queue' = [queue EXCEPT ![runs[p].agent] = Append(@, p)]
      BY <2>1, <2>4 DEF Accept, Normalize
    <3>2. fate' = [fate EXCEPT ![p] = "queued"]
      BY <2>1, <2>4 DEF Accept, Normalize, Record
    <3>3. fate'[p] = "queued" /\ runs'[p].agent = runs[p].agent
      BY <1>0, <2>1, <3>2 DEF RunsKept, Fated
    <3> QED
      BY <1>0, <2>2, <2>3, <3>1, <3>3, AppendQueued
  <2>5. CASE ~(Served /\ Verified /\ Resolved)
    BY <1>0, <2>1, <2>3, <2>5, SameQueued DEF Accept
  <2> QED
    BY <2>4, <2>5
<1> QED
  BY <1>3, <1>4, <1>5, <1>6, <1>7, <1>8, <1>9, <1>10, <1>11, <1>12, <1>13, <1>14, <1>15, <1>16
     DEF Next, Daemon, Process

-----------------------------------------------------------------------------
(* Fates.                                                                  *)

\* A run that is new, or about to post, was so before, and nothing has become of it since.
Fresh == \A p \in Probes : runs'[p].stage \in {"new", "inject"} =>
           runs[p].stage \in {"new", "inject"} /\ fate'[p] = fate[p]

\* A record of a document that shows only proofs that were (_record, _persist).
LEMMA RecordFates ==
  ASSUME Fates, Fresh, NEW d, NEW f, Record(d, f), \A p \in shown : f[p] = fate[p],
         \A a \in Agents, p \in Probes : d[a].lastOk = p => f[p] = "proven"
  PROVE  Fates'
<1>1. doc' = d /\ fate' = f
  BY DEF Record
<1>2. \A p \in Probes : runs'[p].stage \in {"new", "inject"} => fate'[p] = None
  BY DEF Fresh, Fates
<1>3. CASE disk' = d /\ shown' = shown \cup Published(f)
  <2>1. \A p \in shown' : fate'[p] \in Recorded
    BY <1>1, <1>3 DEF Fates, Published
  <2>2. \A p \in Probes : f[p] = "proven" => p \in shown'
    BY <1>3 DEF Published, Recorded
  <2> QED
    BY <1>1, <1>2, <1>3, <2>1, <2>2 DEF Fates
<1>4. CASE UNCHANGED <<disk, shown>>
  <2>1. \A a \in Agents, p \in Probes : disk[a].lastOk = p => f[p] = "proven" /\ p \in shown
    BY DEF Fates
  <2>2. \A p \in shown : fate'[p] \in Recorded
    BY <1>1 DEF Fates
  <2> QED
    BY <1>1, <1>2, <1>4, <2>1, <2>2 DEF Fates
<1> QED
  BY <1>3, <1>4 DEF Record

\* A step of which the document and the file show no other proof.
LEMMA QuietFates ==
  ASSUME Fates, Fresh, UNCHANGED shown,
         \A p \in Probes \cup shown : fate[p] \in Recorded => fate'[p] = fate[p],
         \A a \in Agents : doc'[a].lastOk = doc[a].lastOk /\ disk'[a].lastOk = disk[a].lastOk
  PROVE  Fates'
<1>1. "proven" \in Recorded
  BY DEF Recorded
<1> QED
  BY <1>1 DEF Fates, Fresh

\* A turn of a run moves it past its post.
LEMMA TurnFresh ==
  ASSUME Typed, Fates, NEW p \in Probes,
         InjectRefused(p) \/ Inject(p) \/ InjectUnanswered(p) \/ Poll(p)
  PROVE  Fresh
<1>0. runs \in [Probes -> Runs] /\ fate \in Fated
  BY TypedParts DEF RunsTyped, StoreTyped
<1>1. runs'[p].stage \in {"wait", "done"}
  <2>1. CASE InjectRefused(p) \/ InjectUnanswered(p)
    BY <1>0, <2>1 DEF InjectRefused, InjectUnanswered, Ended, Runs
  <2>2. CASE Inject(p)
    BY <1>0, <2>2 DEF Inject, Ended, Runs
  <2>3. CASE Poll(p)
    BY <1>0, <2>3 DEF Poll, Ended, Runs
  <2> QED
    BY <2>1, <2>2, <2>3
<1>2. \A q \in Probes \ {p} : runs'[q] = runs[q]
  BY TurnOfRun
<1>3. fate' = fate \/ fate' = [fate EXCEPT ![p] = "queued"]
  BY AcceptFates DEF InjectRefused, Inject, InjectUnanswered, Poll, history
<1> QED
  BY <1>0, <1>1, <1>2, <1>3 DEF Fresh, Fated

\* Every step keeps the proofs that are shown those of wakes that ended so.
LEMMA NextFates ==
  ASSUME IInv, [Next]_vars
  PROVE  Fates'
<1>0. /\ Typed /\ Queued /\ Fates /\ fate \in Fated /\ runs \in [Probes -> Runs]
      /\ doc \in Stores /\ shown \subseteq Probes
  BY TypedParts DEF IInv, StoreTyped, Typed
<1>1. UNCHANGED <<runs, fate>> => Fresh
  BY DEF Fresh
<1>2. ASSUME UNCHANGED <<runs, fate, doc, disk, shown>> PROVE Fates'
  BY <1>0, <1>2 DEF Fates
<1>3. ASSUME NEW d, Record(d, fate), UNCHANGED runs,
             \A a \in Agents : d[a].lastOk = doc[a].lastOk
      PROVE  Fates'
  <2>1. Fresh
    BY <1>1, <1>3 DEF Record
  <2>2. \A a \in Agents, p \in Probes : d[a].lastOk = p => fate[p] = "proven"
    BY <1>0, <1>3 DEF Fates
  <2> QED
    BY <1>0, <1>3, <2>1, <2>2, RecordFates
<1>4. ASSUME doc' = disk, fate' = AtTheEnd(fate), UNCHANGED <<disk, runs, shown>>
      PROVE  Fates'
  <2>1. \A p \in Probes : /\ p \in shown => fate'[p] = fate[p]
                          /\ fate[p] = None => fate'[p] = None
    BY <1>0, <1>4, NoneApart DEF AtTheEnd, Fates
  <2> QED
    BY <1>0, <1>4, <2>1 DEF Fates
<1>5. CASE UNCHANGED vars
  BY <1>2, <1>5 DEF vars, history
<1>6. ASSUME NEW s \in Setups, Boot(s) PROVE Fates'
  <2>1. \A a \in Agents : doc'[a].lastOk = disk[a].lastOk /\ disk'[a].lastOk = disk[a].lastOk
    <3>1. \A a \in Agents : [disk[a] EXCEPT !.queued = 0].lastOk = disk[a].lastOk
      BY <1>0 DEF Typed, TypeOK, Rows
    <3> QED
      BY <1>6, <3>1 DEF Boot
  <2>2. UNCHANGED <<runs, fate, shown>>
    BY <1>6 DEF Boot
  <2> QED
    BY <1>0, <2>1, <2>2 DEF Fates
<1>7. CASE Up
  BY <1>3, <1>7 DEF Up
<1>8. CASE Drain
  BY <1>2, <1>8 DEF Drain, history
<1>9. CASE Shutdown
  BY <1>4, <1>9 DEF Shutdown
<1>10. CASE Kill
  BY <1>4, <1>10 DEF Kill
<1>11. ASSUME NEW a \in Agents, RealArrive(a) PROVE Fates'
  BY <1>3, <1>11 DEF RealArrive
<1>12. ASSUME NEW a \in Agents, RealEnds(a) PROVE Fates'
  <2>1. CASE UNCHANGED <<doc, disk, history>>
    BY <1>2, <1>12, <2>1 DEF RealEnds, history
  <2>2. ASSUME NEW r \in OtherOutcomes(doc[a]), Record([doc EXCEPT ![a] = r], fate)
        PROVE  Fates'
    <3>1. doc[a].lastOk = r.lastOk
      BY <1>0, OthersAlike DEF Alike, Stores
    <3>2. \A b \in Agents : [doc EXCEPT ![a] = r][b].lastOk = doc[b].lastOk
      BY <1>0, <3>1 DEF Stores
    <3> QED
      BY <1>3, <1>12, <2>2, <3>2 DEF RealEnds
  <2> QED
    BY <1>12, <2>1, <2>2 DEF RealEnds
<1>13. ASSUME NEW a \in Agents, ProbeStops(a) PROVE Fates'
  <2> DEFINE p == Head(queue[a])
  <2>1. p \in Probes /\ fate[p] = "queued" /\ fate' = [fate EXCEPT ![p] = "silent"]
        /\ UNCHANGED <<runs, doc, disk, shown>>
    BY <1>0, <1>13, InFlight DEF ProbeStops
  <2> HIDE DEF p
  <2>2. Fresh
    BY <1>0, <2>1, NoneApart DEF Fresh, Fates, Fated
  <2>3. \A q \in Probes \cup shown : fate[q] \in Recorded => fate'[q] = fate[q]
    BY <1>0, <2>1, NoneApart DEF Fated
  <2> QED
    BY <1>0, <2>1, <2>2, <2>3, QuietFates
<1>14. ASSUME NEW a \in Agents, ReportDepth(a) PROVE Fates'
  <2>1. \A b \in Agents :
          [doc EXCEPT ![a].queued = Len(queue[a])][b].lastOk = doc[b].lastOk
    BY <1>0 DEF Stores, Rows
  <2> QED
    BY <1>3, <1>14, <2>1 DEF ReportDepth
<1>15. ASSUME NEW a \in Agents, NEW o \in Recorded, ProbeEnds(a, o) PROVE Fates'
  <2> DEFINE p == Head(queue[a])
             d == [doc EXCEPT ![a] = Outcome(@, p, o)]
             f == [fate EXCEPT ![p] = o]
  <2>1. p \in Probes /\ fate[p] = "queued" /\ runs[p].agent = a /\ doc[a] \in Rows
    BY <1>0, <1>15, InFlight DEF ProbeEnds, Stores
  <2>2. Record(d, f) /\ UNCHANGED runs
    BY <1>15 DEF ProbeEnds
  <2>3. /\ \A q \in Probes \ {p} : f[q] = fate[q]
        /\ f[p] = o
    BY <1>0, <2>1 DEF Fated
  <2>4. d[a].lastOk = (IF o = "proven" THEN p ELSE doc[a].lastOk)
    BY <1>0, <2>1, OutcomeShape DEF Stores
  <2>5. \A b \in Agents \ {a} : d[b] = doc[b]
    BY <1>0 DEF Stores
  <2> HIDE DEF d, f, p
  <2>6. Fresh
    BY <1>0, <2>1, <2>2, <2>3, NoneApart DEF Fresh, Fates, Record
  <2>7. \A q \in shown : f[q] = fate[q]
    BY <1>0, <2>1, <2>3, NoneApart DEF Fates
  <2>8. \A b \in Agents, q \in Probes : d[b].lastOk = q => f[q] = "proven"
    <3>1. \A b \in Agents, q \in Probes : doc[b].lastOk = q => fate[q] = "proven" /\ q # p
      BY <1>0, <2>1 DEF Fates
    <3> QED
      BY <2>3, <2>4, <2>5, <3>1
  <2> QED
    BY <1>0, <2>2, <2>6, <2>7, <2>8, RecordFates
<1>16. ASSUME NEW p \in Probes, NEW a \in Agents, Start(p, a) PROVE Fates'
  <2>1. /\ runs[p].stage = "new" /\ UNCHANGED <<fate, doc, disk, shown>>
        /\ \A q \in Probes \ {p} : runs'[q] = runs[q]
    BY <1>0, <1>16 DEF Start, history
  <2>2. Fresh
    BY <2>1 DEF Fresh
  <2> QED
    BY <1>0, <2>1, <2>2, QuietFates
<1>17. ASSUME NEW p \in Probes, InjectRefused(p) \/ Poll(p) PROVE Fates'
  <2>1. UNCHANGED <<fate, doc, disk, shown>>
    BY <1>17 DEF InjectRefused, Poll, history
  <2>2. Fresh
    BY <1>0, <1>17, TurnFresh
  <2> QED
    BY <1>0, <2>1, <2>2, QuietFates
<1>18. ASSUME NEW p \in Probes, Inject(p) \/ InjectUnanswered(p) PROVE Fates'
  <2>1. Accept(p) /\ runs[p].stage = "inject" /\ Fresh
    BY <1>0, <1>18, TurnFresh DEF Inject, InjectUnanswered
  <2>2. CASE UNCHANGED <<doc, disk, history>>
    BY <1>0, <2>1, <2>2, QuietFates DEF history
  <2>3. ASSUME NEW f, Record(doc, f), f = fate \/ f = [fate EXCEPT ![p] = "queued"]
        PROVE  Fates'
    <3>1. fate[p] = None /\ p \notin shown /\ \A a \in Agents : doc[a].lastOk # p
      BY <1>0, <2>1, Unsent
    <3>2. \A q \in Probes \ {p} : f[q] = fate[q]
      BY <1>0, <2>3 DEF Fated
    <3> QED
      BY <1>0, <2>1, <2>3, <3>1, <3>2, RecordFates DEF Fates
  <2> QED
    BY <1>0, <2>1, <2>2, <2>3, AcceptFates
<1> QED
  BY <1>5, <1>6, <1>7, <1>8, <1>9, <1>10, <1>11, <1>12, <1>13, <1>14, <1>15, <1>16, <1>17, <1>18
     DEF Next, Daemon, Process

-----------------------------------------------------------------------------
(* Earned.                                                                 *)

\* What the file once shows of a delivery stays so.
LEMMA ShownStays ==
  ASSUME IInv, [Next]_vars
  PROVE  \A p \in shown : p \in shown' /\ fate'[p] = fate[p]
<1>0. Typed /\ Queued /\ Fates /\ fate \in Fated /\ shown \subseteq Probes
  BY TypedParts DEF IInv, StoreTyped
<1>1. ASSUME UNCHANGED <<fate, shown>> PROVE \A p \in shown : p \in shown' /\ fate'[p] = fate[p]
  BY <1>1
<1>2. ASSUME NEW d, NEW f, Record(d, f) PROVE shown \subseteq shown' /\ fate' = f
  BY <1>2 DEF Record
<1>3. fate' = AtTheEnd(fate) => \A p \in shown : fate'[p] = fate[p]
  BY <1>0, NoneApart DEF AtTheEnd, Fates
<1>4. ASSUME NEW s \in Setups, Boot(s) PROVE UNCHANGED <<fate, shown>>
  BY <1>4 DEF Boot
<1>5. CASE Up
  BY <1>2, <1>5 DEF Up
<1>6. CASE Shutdown \/ Kill
  BY <1>3, <1>6 DEF Shutdown, Kill
<1>7. ASSUME NEW a \in Agents, RealArrive(a) \/ ReportDepth(a)
      PROVE  \A p \in shown : p \in shown' /\ fate'[p] = fate[p]
  BY <1>2, <1>7 DEF RealArrive, ReportDepth
<1>8. ASSUME NEW a \in Agents, RealEnds(a)
      PROVE  \A p \in shown : p \in shown' /\ fate'[p] = fate[p]
  BY <1>2, <1>8 DEF RealEnds, history
<1>9. ASSUME NEW a \in Agents, ProbeStops(a)
      PROVE  \A p \in shown : p \in shown' /\ fate'[p] = fate[p]
  BY <1>0, <1>9, InFlight, NoneApart DEF ProbeStops, Fates, Fated
<1>10. ASSUME NEW a \in Agents, NEW o \in Recorded, ProbeEnds(a, o)
       PROVE  \A p \in shown : p \in shown' /\ fate'[p] = fate[p]
  <2>1. Head(queue[a]) \in Probes /\ Head(queue[a]) \notin shown
    BY <1>0, <1>10, InFlight, NoneApart DEF ProbeEnds, Fates
  <2>2. shown \subseteq shown' /\ fate' = [fate EXCEPT ![Head(queue[a])] = o]
    BY <1>2, <1>10 DEF ProbeEnds
  <2> QED
    BY <1>0, <2>1, <2>2 DEF Fated
<1>11. ASSUME NEW p \in Probes, Inject(p) \/ InjectUnanswered(p)
       PROVE  \A q \in shown : q \in shown' /\ fate'[q] = fate[q]
  <2>1. Accept(p) /\ runs[p].stage = "inject"
    BY <1>11 DEF Inject, InjectUnanswered
  <2>2. p \notin shown /\ shown \subseteq shown'
    BY <1>0, <1>2, <2>1, Unsent, AcceptFates DEF history
  <2>3. fate' = fate \/ fate' = [fate EXCEPT ![p] = "queued"]
    BY <1>0, <2>1, AcceptFates
  <2> QED
    BY <1>0, <2>2, <2>3 DEF Fated
<1>12. CASE Drain \/ UNCHANGED vars
  BY <1>1, <1>12 DEF Drain, vars, history
<1>13. ASSUME NEW p \in Probes, NEW a \in Agents, Start(p, a) PROVE UNCHANGED <<fate, shown>>
  BY <1>13 DEF Start, history
<1>14. ASSUME NEW p \in Probes, InjectRefused(p) \/ Poll(p) PROVE UNCHANGED <<fate, shown>>
  BY <1>14 DEF InjectRefused, Poll, history
<1> QED
  BY <1>1, <1>4, <1>5, <1>6, <1>7, <1>8, <1>9, <1>10, <1>11, <1>12, <1>13, <1>14
     DEF Next, Daemon, Process

\* Only a reading of its own proof makes a run say proven.
LEMMA NextEarned ==
  ASSUME IInv, [Next]_vars
  PROVE  Earned'
<1>0. Typed /\ Fates /\ Earned /\ runs \in [Probes -> Runs] /\ disk \in Stores
  BY TypedParts DEF IInv, RunsTyped, StoreTyped
<1>1. ASSUME NEW p \in Probes, runs'[p].verdict = "proven", runs[p].verdict # "proven"
      PROVE  fate[p] = "proven" /\ p \in shown
  <2>1. None # "proven"
    BY ProbeAssumption DEF ProbeAssumption
  <2>2. ASSUME NEW q \in Probes, NEW a \in Agents, Start(q, a) PROVE FALSE
    BY <1>0, <1>1, <2>1, <2>2 DEF Start, NewRun
  <2>3. ASSUME NEW q \in Probes,
               InjectRefused(q) \/ Inject(q) \/ InjectUnanswered(q) \/ Poll(q)
        PROVE  q = p
    BY <1>0, <1>1, <2>3, TurnOfRun
  <2>4. ASSUME InjectRefused(p) \/ InjectUnanswered(p) PROVE FALSE
    BY <1>0, <1>1, <2>4 DEF InjectRefused, InjectUnanswered, Ended, Runs
  <2>5. ASSUME Inject(p) PROVE FALSE
    <3>1. InjectionVerdict # "proven"
      BY DEF InjectionVerdict
    <3>2. [runs[p] EXCEPT !.stage = "wait"].verdict = runs[p].verdict
      BY <1>0 DEF Runs
    <3>3. InjectionVerdict \in Verdicts
      BY DEF InjectionVerdict, Verdicts
    <3>4. Ended(runs[p], InjectionVerdict).verdict = InjectionVerdict
      BY <1>0, <3>3, EndedTyped
    <3> QED
      BY <1>0, <1>1, <2>5, <3>1, <3>2, <3>4 DEF Inject
  <2>6. ASSUME Poll(p) PROVE fate[p] = "proven" /\ p \in shown
    <3> DEFINE o == ReadOutcome(p, runs[p].before, disk[runs[p].agent])
    <3>1. runs[p].before \in Rows /\ runs[p].agent \in Agents /\ disk[runs[p].agent] \in Rows
      BY <1>0, <2>6 DEF Poll, Typed, Runs, Stores
    <3>2. o \in Recorded \cup {None}
      BY <3>1, ReadShape
    <3>3. o = "proven" => disk[runs[p].agent].lastOk = p
      BY <3>1, ReadShape
    <3>4. runs' = [runs EXCEPT ![p] =
            IF      o # None        THEN Ended(runs[p], o)
            ELSE IF PastDeadline(runs[p]) THEN Ended(runs[p], "timeout")
            ELSE [runs[p] EXCEPT !.polls = @ + 1]]
      BY <2>6 DEF Poll, Proof
    <3> HIDE DEF o
    <3>5. /\ o # None => Ended(runs[p], o).verdict = o
          /\ Ended(runs[p], "timeout").verdict = "timeout"
          /\ [runs[p] EXCEPT !.polls = @ + 1].verdict = runs[p].verdict
      <4>1. Ended(runs[p], "timeout").verdict = "timeout"
        BY <1>0, EndedTyped DEF Verdicts
      <4>2. o # None => Ended(runs[p], o).verdict = o
        BY <1>0, <3>2, EndedTyped DEF Verdicts
      <4>3. [runs[p] EXCEPT !.polls = @ + 1].verdict = runs[p].verdict
        BY <1>0 DEF Runs
      <4> QED
        BY <4>1, <4>2, <4>3
    <3>6. o = "proven"
      BY <1>0, <1>1, <3>4, <3>5
    <3> QED
      BY <1>0, <3>1, <3>3, <3>6 DEF Fates
  <2>7. ASSUME UNCHANGED runs PROVE FALSE
    BY <1>1, <2>7
  <2> QED
    BY <2>2, <2>3, <2>4, <2>5, <2>6, <2>7
       DEF Next, Daemon, Process, vars, Boot, Up, Drain, Shutdown, Kill, RealArrive, RealEnds,
           ProbeStops, ReportDepth, ProbeEnds
<1> QED
  BY <1>0, <1>1, ShownStays DEF Earned

-----------------------------------------------------------------------------
(* Settles.                                                                *)

\* A record that is written leaves nothing out of the file, and one that is not is known.
LEMMA RecordSettles ==
  ASSUME Settles, daemon # "down", daemon' # "down", NEW d, NEW f, Record(d, f)
  PROVE  Settles'
<1>1. stop # "clean" /\ stop' # "clean"
  BY DEF Settles, Record
<1>2. stop' = "none" => AllShown' /\ doc' = disk'
  BY DEF Record, AllShown, Published
<1> QED
  BY <1>1, <1>2 DEF Settles

\* A step of the live daemon that records nothing.
LEMMA LiveSettles ==
  ASSUME Settles, daemon # "down", daemon' # "down", UNCHANGED <<doc, disk, shown, stop>>,
         \A p \in Probes : fate'[p] \in Recorded => fate[p] \in Recorded
  PROVE  Settles'
BY DEF Settles, AllShown

\* A step of no daemon.
LEMMA QuietSettles ==
  ASSUME Settles, UNCHANGED <<daemon, queue, doc, disk, fate, shown, stop>>
  PROVE  Settles'
BY DEF Settles, AllShown

\* Every step keeps what a boot leaves to the next.
LEMMA NextSettles ==
  ASSUME IInv, [Next]_vars
  PROVE  Settles'
<1>0. Typed /\ Queued /\ Fates /\ Settles /\ fate \in Fated /\ disk \in Stores /\ doc \in Stores
  BY TypedParts DEF IInv, StoreTyped
<1>1. CASE UNCHANGED vars
  BY <1>0, <1>1, QuietSettles DEF vars, server, history
<1>2. ASSUME NEW s \in Setups, Boot(s) PROVE Settles'
  BY <1>0, <1>2 DEF Boot, Settles, AllShown
<1>3. CASE Up
  BY <1>0, <1>3, RecordSettles DEF Up
<1>4. CASE Drain
  BY <1>0, <1>4, LiveSettles DEF Drain, history
<1>5. ASSUME Shutdown \/ Kill
      PROVE  daemon' = "down" /\ AllShown' /\ doc' = disk' /\ \A p \in Probes : fate'[p] # "queued"
  BY <1>0, <1>5, NoneApart DEF Shutdown, Kill, AtTheEnd, AllShown, Fated
<1>6. CASE Shutdown
  <2>1. stop' = "clean" => \A a \in Agents : queue'[a] = <<>> /\ disk'[a].queued = 0
    BY <1>0, <1>6 DEF Shutdown, Drained, Settles
  <2> QED
    BY <1>5, <1>6, <2>1 DEF Settles
<1>7. CASE Kill
  <2>1. stop' # "clean"
    BY <1>7 DEF Kill
  <2> QED
    BY <1>5, <1>7, <2>1 DEF Settles
<1>8. ASSUME NEW a \in Agents, RealArrive(a) PROVE Settles'
  BY <1>0, <1>8, RecordSettles DEF RealArrive, server
<1>9. ASSUME NEW a \in Agents, RealEnds(a) PROVE Settles'
  <2>1. daemon # "down" /\ daemon' # "down"
    BY <1>9 DEF RealEnds, Serving, server
  <2>2. CASE UNCHANGED <<doc, disk, history>>
    BY <1>0, <2>1, <2>2, LiveSettles DEF history
  <2>3. ASSUME NEW d, Record(d, fate) PROVE Settles'
    BY <1>0, <2>1, <2>3, RecordSettles
  <2> QED
    BY <1>9, <2>2, <2>3 DEF RealEnds
<1>10. ASSUME NEW a \in Agents, ProbeStops(a) PROVE Settles'
  <2>1. daemon # "down" /\ daemon' # "down"
    BY <1>10 DEF ProbeStops, Serving, server
  <2>2. \A p \in Probes : fate'[p] \in Recorded => fate[p] \in Recorded
    BY <1>0, <1>10, NoneApart DEF ProbeStops, Fated
  <2> QED
    BY <1>0, <1>10, <2>1, <2>2, LiveSettles DEF ProbeStops
<1>11. ASSUME NEW a \in Agents, ReportDepth(a) PROVE Settles'
  BY <1>0, <1>11, RecordSettles DEF ReportDepth, Serving, server
<1>12. ASSUME NEW a \in Agents, NEW o \in Recorded, ProbeEnds(a, o) PROVE Settles'
  BY <1>0, <1>12, RecordSettles DEF ProbeEnds, Serving, server
<1>13. ASSUME NEW p \in Probes, NEW a \in Agents, Start(p, a) PROVE Settles'
  BY <1>0, <1>13, QuietSettles DEF Start, server, history
<1>14. ASSUME NEW p \in Probes, InjectRefused(p) \/ Poll(p) PROVE Settles'
  BY <1>0, <1>14, QuietSettles DEF InjectRefused, Poll, server, history
<1>15. ASSUME NEW p \in Probes, Inject(p) \/ InjectUnanswered(p) PROVE Settles'
  <2>1. Accept(p) /\ daemon # "down" /\ daemon' # "down" /\ runs[p].stage = "inject"
    BY <1>15 DEF Inject, InjectUnanswered, server
  <2>2. CASE UNCHANGED <<doc, disk, history>>
    BY <1>0, <2>1, <2>2, LiveSettles DEF history
  <2>3. ASSUME NEW f, Record(doc, f) PROVE Settles'
    BY <1>0, <2>1, <2>3, RecordSettles
  <2> QED
    BY <1>0, <2>1, <2>2, <2>3, AcceptFates
<1> QED
  BY <1>1, <1>2, <1>3, <1>4, <1>6, <1>7, <1>8, <1>9, <1>10, <1>11, <1>12, <1>13, <1>14, <1>15
     DEF Next, Daemon, Process

-----------------------------------------------------------------------------
(* The theorems.                                                           *)

\* The first state: no process, no run, an empty file.
LEMMA InitHolds ==
  ASSUME Init
  PROVE  IInv
<1>1. Idle \in Runs /\ NoRow \in Rows
  BY NoRowTyped, ProbeAssumption DEF Idle, Runs, Verdicts, ProbeAssumption
<1>2. DaemonTyped
  BY ProbeAssumption DEF Init, DaemonTyped, ProbeAssumption
<1>3. StoreTyped /\ QueueTyped
  BY <1>1 DEF Init, StoreTyped, QueueTyped, Stores, Fated
<1>4. RunsTyped
  BY <1>1 DEF Init, RunsTyped, Idle
<1>5. Typed
  BY <1>2, <1>3, <1>4, TypedParts
<1>6. Queued
  BY NoneQueued DEF Init, Queued
<1>7. \A p \in Probes : p # None
  BY ProbeAssumption DEF ProbeAssumption
<1>8. Fates
  BY <1>7 DEF Init, Fates, NoRow
<1>9. Earned
  BY ProbeAssumption DEF Init, Earned, Idle, ProbeAssumption
<1>10. Settles
  BY NoneApart DEF Init, Settles, AllShown
<1>11. Windows
  BY DEF Init, Windows, Alike, Idle
<1> QED
  BY <1>5, <1>6, <1>8, <1>9, <1>10, <1>11 DEF IInv

\* The invariant holds at all times.
LEMMA InvHolds == Spec => []IInv
<1>1. Init => IInv
  BY InitHolds
<1>2. IInv /\ [Next]_vars => IInv'
  <2> SUFFICES ASSUME IInv, [Next]_vars PROVE IInv'
    OBVIOUS
  <2>1. Typed' /\ Queued' /\ Fates' /\ Earned' /\ Settles' /\ Windows'
    BY NextTyped, NextQueued, NextFates, NextEarned, NextSettles, NextWindows
  <2> QED
    BY <2>1 DEF IInv
<1> QED
  BY <1>1, <1>2, PTL DEF Spec

\* The rows, the runs and the history keep their types (EvidenceDocument, ProbeResult).
THEOREM TypeCorrect == Spec => []TypeOK
<1>1. IInv => TypeOK
  BY DEF IInv, Typed
<1> QED
  BY <1>1, InvHolds, PTL

\* A run that reports proven was itself answered (_read_outcome: the last proof's delivery id
\* is the run's own), whatever overlapped with it, restarted or was lost.
THEOREM ProvenWasAnswered == Spec => []ProvenIsOwn
<1>1. IInv => ProvenIsOwn
  BY DEF IInv, Earned, ProvenIsOwn
<1> QED
  BY <1>1, InvHolds, PTL

\* A stop that drained, and whose writes all succeeded, leaves no acknowledged delivery without
\* an outcome, no outcome out of the file and no pending count in it (wait_idle, _persist).
THEOREM CleanStopSettles == Spec => []SettledStop
<1>1. IInv => SettledStop
  BY DEF IInv, Settles, AllShown, SettledStop
<1> QED
  BY <1>1, InvHolds, PTL

\* A step that ends a run's wait is a turn of that run.
LEMMA EndIsPoll ==
  ASSUME IInv, [Next]_vars, NEW p \in Probes, runs[p].stage = "wait", runs'[p].stage = "done"
  PROVE  Poll(p)
<1>0. Typed /\ runs \in [Probes -> Runs]
  BY DEF IInv, Typed
<1>1. ASSUME NEW q \in Probes,
             InjectRefused(q) \/ Inject(q) \/ InjectUnanswered(q) \/ Poll(q)
      PROVE  q = p
  BY <1>0, <1>1, TurnOfRun
<1>2. ASSUME NEW q \in Probes, NEW a \in Agents, Start(q, a) PROVE FALSE
  BY <1>0, <1>2 DEF Start
<1>3. ~InjectRefused(p) /\ ~Inject(p) /\ ~InjectUnanswered(p)
  BY DEF InjectRefused, Inject, InjectUnanswered
<1>4. runs' # runs
  OBVIOUS
<1> QED
  BY <1>1, <1>2, <1>3, <1>4
     DEF Next, Daemon, Process, vars, Boot, Up, Drain, Shutdown, Kill, RealArrive, RealEnds,
         ProbeStops, ReportDepth, ProbeEnds

\* A run in whose window no other probe of its agent was reported ends with what the file says
\* of its own delivery, and with the deadline only when the file says nothing (_await_outcome).
THEOREM VerdictHolds == Spec => VerdictIsTheFiles
<1>1. ASSUME IInv, [Next]_vars, NEW p \in Probes \ mixed,
             runs[p].stage = "wait", runs'[p].stage = "done"
      PROVE  runs'[p].verdict = IF p \in shown THEN fate[p] ELSE "timeout"
  <2> DEFINE o == ReadOutcome(p, runs[p].before, disk[runs[p].agent])
  <2>0. Typed /\ Fates /\ runs \in [Probes -> Runs] /\ disk \in Stores
    BY <1>1, TypedParts DEF IInv, Typed, StoreTyped
  <2>1. Poll(p)
    BY <1>1, EndIsPoll
  <2>2. runs[p].before \in Rows /\ disk[runs[p].agent] \in Rows
    BY <1>1, <2>0 DEF Typed, Runs, Stores
  <2>3. Since(p, runs[p].before, disk[runs[p].agent], IF p \in shown THEN fate[p] ELSE None)
    BY <1>1 DEF IInv, Windows
  <2>4. (IF p \in shown THEN fate[p] ELSE None) \in Recorded \cup {None}
    BY <2>0 DEF Fates
  <2>5. o = IF p \in shown THEN fate[p] ELSE None
    BY <1>1, <2>2, <2>3, <2>4, ReadSince
  <2>6. runs' = [runs EXCEPT ![p] =
          IF      o # None        THEN Ended(runs[p], o)
          ELSE IF PastDeadline(runs[p]) THEN Ended(runs[p], "timeout")
          ELSE [runs[p] EXCEPT !.polls = @ + 1]]
    BY <2>1 DEF Poll, Proof
  <2> HIDE DEF o
  <2>7. [runs[p] EXCEPT !.polls = @ + 1].stage = "wait"
    BY <1>1, <2>0 DEF Runs
  <2>8. Ended(runs[p], "timeout").verdict = "timeout"
    BY <1>1, <2>0, EndedTyped DEF Verdicts
  <2>9. o # None => Ended(runs[p], o).verdict = o
    BY <1>1, <2>0, <2>4, <2>5, EndedTyped DEF Verdicts
  <2>10. o # None <=> p \in shown
    BY <2>0, <2>5, NoneApart DEF Fates
  <2>11. runs'[p] = IF      o # None              THEN Ended(runs[p], o)
                    ELSE IF PastDeadline(runs[p]) THEN Ended(runs[p], "timeout")
                    ELSE [runs[p] EXCEPT !.polls = @ + 1]
    BY <1>1, <2>0, <2>6
  <2> QED
    BY <1>1, <2>5, <2>7, <2>8, <2>9, <2>10, <2>11
<1>2. IInv /\ [Next]_vars =>
        [\A p \in Probes \ mixed :
           (runs[p].stage = "wait" /\ runs'[p].stage = "done") =>
             runs'[p].verdict = IF p \in shown THEN fate[p] ELSE "timeout"]_vars
  BY <1>1
<1> QED
  BY <1>2, InvHolds, PTL DEF Spec, VerdictIsTheFiles
====
