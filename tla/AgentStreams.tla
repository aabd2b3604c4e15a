---------------------------- MODULE AgentStreams ----------------------------
(***************************************************************************)
(* What the wake scheduler promises, without saying how: every agent is    *)
(* one ordered stream of wakes, an agent runs at most one wake at a time   *)
(* and in the order its wakes were accepted, and at most Lanes wakes run   *)
(* at once over all agents.  There is no lane, no ready queue, no thread   *)
(* pool and no lock here; WakeScheduler is shown to implement this.        *)
(***************************************************************************)
EXTENDS Naturals, Sequences, FiniteSets

CONSTANTS
  Agents,    \* harness keys, one per agent
  JobIds,    \* names the wakes of one agent apart
  Lanes,     \* ceiling on wakes running at once
  NoJob      \* "this agent runs nothing"

VARIABLES
  waiting,   \* per agent, the accepted wakes that have not started, oldest first
  current,   \* per agent, the wake it runs, or NoJob
  finished   \* the wakes that have run

streamVars == <<waiting, current, finished>>

Jobs == Agents \X JobIds

Busy == {a \in Agents : current[a] # NoJob}

Known == finished \cup {current[a] : a \in Busy}
                  \cup UNION {{waiting[a][i] : i \in DOMAIN waiting[a]} : a \in Agents}

Init ==
  /\ waiting = [a \in Agents |-> <<>>]
  /\ current = [a \in Agents |-> NoJob]
  /\ finished = {}

\* A wake is accepted once and joins the end of its agent's stream.
Accept(j) ==
  /\ j \notin Known
  /\ waiting' = [waiting EXCEPT ![j[1]] = Append(@, j)]
  /\ UNCHANGED <<current, finished>>

\* An agent at rest starts the oldest wake of its stream, if a lane is free.
Start(a) ==
  /\ current[a] = NoJob
  /\ waiting[a] # <<>>
  /\ Cardinality(Busy) < Lanes
  /\ current' = [current EXCEPT ![a] = Head(waiting[a])]
  /\ waiting' = [waiting EXCEPT ![a] = Tail(@)]
  /\ UNCHANGED finished

Finish(a) ==
  /\ current[a] # NoJob
  /\ finished' = finished \cup {current[a]}
  /\ current' = [current EXCEPT ![a] = NoJob]
  /\ UNCHANGED waiting

Next ==
  \/ \E j \in Jobs : Accept(j)
  \/ \E a \in Agents : Start(a) \/ Finish(a)

Spec == Init /\ [][Next]_streamVars

=============================================================================
