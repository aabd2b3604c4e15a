-------------------------- MODULE WakeRateBreaker --------------------------
(***************************************************************************)
(* The wake-rate breaker (breaker.py): a rolling window of recent wakes    *)
(* for each agent and for each (agent, stream), a trip when a window goes  *)
(* over its threshold, a cooldown that refuses every wake of the tripped   *)
(* scope, and a periodic sweep of the windows that are no longer live.     *)
(*                                                                         *)
(* admit reads the clock BEFORE it takes the breaker's lock, so a call is  *)
(* two steps: Ask reads the clock, Admit is the critical section.  Calls   *)
(* for one agent come one at a time (pipeline.execute holds the agent's    *)
(* lock around admit); calls for different agents overlap.                 *)
(*                                                                         *)
(* A definition whose comment begins with "Fault:" is a plausible mistake  *)
(* in the definition that follows it.                                      *)
(***************************************************************************)
EXTENDS Naturals, Integers, Sequences, FiniteSets

CONSTANTS
  Agents,
  Streams,       \* stream keys (a timeline, an issue)
  NoStream,      \* an event without a stream key
  MaxWakes,      \* BreakerConfig.max_wakes
  StreamMaxWakes,\* BreakerConfig.stream_max_wakes, 0 turns the scope off
  Window,        \* BreakerConfig.window
  Cooldown,      \* BreakerConfig.cooldown
  GcInterval,    \* _GC_INTERVAL
  NotTripped,    \* tripped_until is None
  Nothing,       \* no call under way / no trip yet
  MaxTime,       \* bound: the clock stops here
  MaxAsks        \* bound: no call starts once this many wakes are recorded

\* BreakerConfig.__post_init__.
ASSUME BreakerAssumption ==
  /\ MaxWakes \in Nat \ {0} /\ StreamMaxWakes \in Nat
  /\ Window \in Nat \ {0} /\ Cooldown \in Nat
  /\ GcInterval \in Nat \ {0}
  /\ MaxTime \in Nat /\ MaxAsks \in Nat
  /\ NoStream \notin Streams
  /\ NotTripped \notin Nat

VARIABLES
  clock,     \* time.monotonic()
  windows,   \* _windows: scope key -> rolling window (an absent one is empty)
  known,     \* the keys _windows has an entry for
  sinceGc,   \* _admits_since_gc
  asking,    \* per agent: the admit call that has read the clock, or Nothing
  asked,     \* history: per scope, the stamps of the wakes recorded
  admitted,  \* history: per scope, the wakes admitted, [stamp, at]
  lastTrip   \* history: per scope, the stamp of its last trip, or Nothing

vars == <<clock, windows, known, sinceGc, asking, asked, admitted, lastTrip>>

\* A window's key: the agent alone is <<a, NoStream>>.
Keys == Agents \X (Streams \cup {NoStream})

Empty == [stamps |-> <<>>, until |-> NotTripped]

Windows == [stamps : Seq(Nat), until : Nat \cup {NotTripped}]

Calls == [now : Nat, stream : Streams \cup {NoStream}]

Threshold(k) == IF k[2] = NoStream THEN MaxWakes ELSE StreamMaxWakes

\* The scopes admit visits, in its order.
Scopes(a, s) ==
  IF s # NoStream /\ StreamMaxWakes > 0 THEN <<<<a, NoStream>>, <<a, s>>>>
                                        ELSE <<<<a, NoStream>>>>

-----------------------------------------------------------------------------
(* One window.                                                             *)

Cooling(w, now) == w.until # NotTripped /\ now < w.until

\* Fault: a wake exactly one window old still counts.
RecentClosed(s, now) ==
  LET aged == {i \in DOMAIN s : \A j \in 1..i : s[j] < now - Window}
  IN  SubSeq(s, Cardinality(aged) + 1, Len(s))

\* The popleft loop: stamps that have left the rolling window are dropped from the
\* head, up to the first one that has not.
Recent(s, now) ==
  LET aged == {i \in DOMAIN s : \A j \in 1..i : s[j] <= now - Window}
  IN  SubSeq(s, Cardinality(aged) + 1, Len(s))

Stamped(w, now) == [w EXCEPT !.stamps = Append(Recent(@, now), now)]

\* Fault: one wake more than the threshold is let through.
OverLate(w, k, now) == Len(Stamped(w, now).stamps) > Threshold(k) + 1

Over(w, k, now) == Len(Stamped(w, now).stamps) > Threshold(k)

\* Fault: the sweep drops a tripped window, and its cooldown with it.
StaleTripped(w, now) ==
  w.stamps = <<>> \/ w.stamps[Len(w.stamps)] <= now - Window

\* What _gc reclaims.
Stale(w, now) ==
  /\ w.until = NotTripped
  /\ w.stamps = <<>> \/ w.stamps[Len(w.stamps)] <= now - Window

-----------------------------------------------------------------------------
(* admit.                                                                  *)

\* Fault: off by one.
SweepLate == sinceGc + 1 > GcInterval

SweepDue == sinceGc + 1 >= GcInterval

\* The positions of scopes before the first bad one, and with the first bad one.
Before(scopes, bad) == {i \in DOMAIN scopes : \A j \in 1..i : j \notin bad}
UpTo(scopes, bad) == {i \in DOMAIN scopes : \A j \in 1..(i - 1) : j \notin bad}

KeysAt(scopes, I) == {scopes[i] : i \in I}

\* Wakes recorded so far (for the bound).
Recorded == UNION {{b} \X DOMAIN asked[<<b, NoStream>>] : b \in Agents}

\* admit, up to the lock: the clock is read.
Ask(a, s) ==
  /\ asking[a] = Nothing
  /\ Cardinality(Recorded) < MaxAsks
  /\ asking' = [asking EXCEPT ![a] = [now |-> clock, stream |-> s]]
  /\ UNCHANGED <<clock, windows, known, sinceGc, asked, admitted, lastTrip>>

\* admit, under the lock: sweep if it is time, refuse while a scope cools down
\* (scopes visited before it whose cooldown is over are reset already), then
\* record the wake scope by scope and trip at the first that goes over.
Admit(a) ==
  LET now == asking[a].now
      scopes == Scopes(a, asking[a].stream)
      dead == IF SweepDue THEN {k \in known : Stale(windows[k], now)} ELSE {}
      swept == [k \in Keys |-> IF k \in dead THEN Empty ELSE windows[k]]
      open == {i \in DOMAIN scopes : Cooling(swept[scopes[i]], now)}
      reset == {k \in KeysAt(scopes, Before(scopes, open)) : swept[k].until # NotTripped}
      healed == [k \in Keys |-> IF k \in reset THEN Empty ELSE swept[k]]
      over == {i \in DOMAIN scopes : Over(healed[scopes[i]], scopes[i], now)}
      recorded == IF open = {} THEN KeysAt(scopes, UpTo(scopes, over)) ELSE {}
      tripped == {scopes[i] : i \in {i \in over : scopes[i] \in recorded}}
      admits == open = {} /\ over = {}
  IN
  /\ asking[a] # Nothing
  /\ asking' = [asking EXCEPT ![a] = Nothing]
  /\ sinceGc' = IF SweepDue THEN 0 ELSE sinceGc + 1
  /\ known' = (known \ dead) \cup recorded
  /\ windows' = [k \in Keys |->
       IF k \in recorded
       THEN [stamps |-> Stamped(healed[k], now).stamps,
             until |-> IF k \in tripped THEN now + Cooldown ELSE NotTripped]
       ELSE healed[k]]
  /\ asked' = [k \in Keys |-> IF k \in recorded THEN Append(asked[k], now) ELSE asked[k]]
  /\ lastTrip' = [k \in Keys |-> IF k \in tripped THEN now ELSE lastTrip[k]]
  /\ admitted' = [k \in Keys |->
       IF admits /\ k \in KeysAt(scopes, DOMAIN scopes)
       THEN Append(admitted[k], [stamp |-> now, at |-> clock]) ELSE admitted[k]]
  /\ UNCHANGED clock

Tick ==
  /\ clock < MaxTime
  /\ clock' = clock + 1
  /\ UNCHANGED <<windows, known, sinceGc, asking, asked, admitted, lastTrip>>

Init ==
  /\ clock = 0
  /\ windows = [k \in Keys |-> Empty]
  /\ known = {}
  /\ sinceGc = 0
  /\ asking = [a \in Agents |-> Nothing]
  /\ asked = [k \in Keys |-> <<>>]
  /\ admitted = [k \in Keys |-> <<>>]
  /\ lastTrip = [k \in Keys |-> Nothing]

Next ==
  \/ \E a \in Agents : \E s \in Streams \cup {NoStream} : Ask(a, s)
  \/ \E a \in Agents : Admit(a)
  \/ Tick

Spec == Init /\ [][Next]_vars

-----------------------------------------------------------------------------
(* Properties.                                                             *)

TypeOK ==
  /\ clock \in Nat
  /\ windows \in [Keys -> Windows]
  /\ known \subseteq Keys
  /\ sinceGc \in 0..(GcInterval - 1)
  /\ asking \in [Agents -> Calls \cup {Nothing}]
  /\ asked \in [Keys -> Seq(Nat)]
  /\ admitted \in [Keys -> Seq([stamp : Nat, at : Nat])]
  /\ lastTrip \in [Keys -> Nat \cup {Nothing}]

\* The cap: with a cooldown no shorter than the window, no Threshold + 2 wakes of a
\* scope are let through within one window, whatever the sweep drops, however long
\* a call waits for the lock after reading the clock, and across trips and resets.
\* (The one wake above the threshold is a call that waited: its stamp is older than
\* the moment it is let through.)
RateCap ==
  \A k \in Keys : \A i \in DOMAIN admitted[k] :
    LET j == i + Threshold(k) + 1 IN
    j \in DOMAIN admitted[k] => admitted[k][j].at - admitted[k][i].at >= Window

\* A trip halts the scope: no wake whose clock reading falls within the cooldown is
\* let through, neither a sweep nor a trip of the other scope shortens it.
CooldownHonoured ==
  [][\A k \in Keys :
       Len(admitted'[k]) > Len(admitted[k]) /\ lastTrip[k] # Nothing =>
         admitted'[k][Len(admitted'[k])].stamp >= lastTrip[k] + Cooldown]_<<admitted, lastTrip>>

\* Stamps of asked within the window that ends at now.
InWindow(k, now) == {i \in DOMAIN asked[k] : asked[k][i] > now - Window}

\* A healthy scope is never halted: a trip means that more wakes than the threshold
\* were recorded for the scope within one window.
NoFalseTrip ==
  \A k \in Keys : lastTrip[k] # Nothing =>
    Cardinality({i \in InWindow(k, lastTrip[k]) : asked[k][i] <= lastTrip[k]}) > Threshold(k)

=============================================================================
