----------------------- MODULE WakeRateBreakerProofs -----------------------
(***************************************************************************)
(* Theorems of the wake-rate breaker: type correctness; that a trip halts  *)
(* its scope for the whole cooldown; that a scope is never halted below    *)
(* its threshold; and the cap on the wakes let through in one window.      *)
(***************************************************************************)
EXTENDS WakeRateBreaker, SequenceTheorems, FiniteSetTheorems, TLAPS

\* Where a scope stands with respect to its last trip.  While it is tripped, its
\* clock is the trip's; once it is reset, the cooldown of the last trip is over for
\* every call that has read the clock or will.
TripKept(k) ==
  /\ windows[k].until # NotTripped =>
       lastTrip[k] \in Nat /\ windows[k].until = lastTrip[k] + Cooldown
  /\ windows[k].until = NotTripped /\ lastTrip[k] # Nothing =>
       /\ lastTrip[k] + Cooldown <= clock
       /\ asking[k[1]] # Nothing => lastTrip[k] + Cooldown <= asking[k[1]].now

IInv ==
  /\ TypeOK
  /\ \A a \in Agents : asking[a] # Nothing => asking[a].now <= clock
  /\ \A k \in Keys : TripKept(k)

\* Dropping aged stamps from the head leaves a sequence of stamps (the popleft loop
\* of admit).
LEMMA RecentType ==
  ASSUME NEW s \in Seq(Nat), NEW t \in Nat
  PROVE  Recent(s, t) \in Seq(Nat)
<1> DEFINE aged == {i \in DOMAIN s : \A j \in 1..i : s[j] <= t - Window}
<1>1. DOMAIN s = 1..Len(s) /\ Len(s) \in Nat
  OBVIOUS
<1>2. IsFiniteSet(1..Len(s)) /\ Cardinality(1..Len(s)) = Len(s)
  BY <1>1, FS_Interval
<1>3. aged \subseteq 1..Len(s)
  BY <1>1
<1> HIDE DEF aged
<1>4. IsFiniteSet(aged) /\ Cardinality(aged) <= Len(s)
  BY <1>2, <1>3, FS_Subset
<1>5. Cardinality(aged) \in Nat
  BY <1>4, FS_CardinalityType
<1>6. Cardinality(aged) + 1 \in 1..(Len(s) + 1)
  BY <1>1, <1>4, <1>5
<1>7. SubSeq(s, Cardinality(aged) + 1, Len(s)) \in Seq(Nat)
  BY <1>1, <1>6, SubSeqProperties
<1> QED
  BY <1>7 DEF Recent, aged

\* Stamping a window adds the clock reading and keeps its other fields.
LEMMA StampedType ==
  ASSUME NEW w \in Windows, NEW t \in Nat
  PROVE  Stamped(w, t).stamps \in Seq(Nat)
<1>1. w.stamps \in Seq(Nat)
  BY DEF Windows
<1>2. Recent(w.stamps, t) \in Seq(Nat)
  BY <1>1, RecentType
<1>3. Stamped(w, t).stamps = Append(Recent(w.stamps, t), t)
  BY DEF Stamped, Windows
<1> QED
  BY <1>2, <1>3

\* The scopes of a call are keys of the calling agent.
LEMMA ScopeKeys ==
  ASSUME NEW a \in Agents, NEW s \in Streams \cup {NoStream}
  PROVE  \A i \in DOMAIN Scopes(a, s) :
           Scopes(a, s)[i] \in Keys /\ Scopes(a, s)[i][1] = a
  BY DEF Scopes, Keys

\* What the critical section of admit does to each scope: it trips it, it resets or
\* records it although it is not cooling down, or it leaves its trip clock alone;
\* and it lets a wake through only if the scope is not cooling down.
LEMMA AdmitShape ==
  ASSUME BreakerAssumption, TypeOK, NEW a \in Agents, Admit(a)
  PROVE  /\ asking[a] \in Calls
         /\ asking' = [asking EXCEPT ![a] = Nothing]
         /\ clock' = clock
         /\ sinceGc' \in 0..(GcInterval - 1)
         /\ known' \subseteq Keys
         /\ \A k \in Keys :
              /\ windows'[k] \in Windows
              /\ asked'[k] \in Seq(Nat)
              /\ lastTrip'[k] \in Nat \cup {Nothing}
              /\ \/ /\ lastTrip'[k] = asking[a].now
                    /\ windows'[k].until = asking[a].now + Cooldown
                 \/ /\ lastTrip'[k] = lastTrip[k]
                    /\ windows'[k].until = NotTripped
                    /\ k[1] = a
                    /\ ~Cooling(windows[k], asking[a].now)
                 \/ /\ lastTrip'[k] = lastTrip[k]
                    /\ windows'[k].until = windows[k].until
              /\ \/ admitted'[k] = admitted[k]
                 \/ /\ admitted'[k] = Append(admitted[k], [stamp |-> asking[a].now, at |-> clock])
                    /\ k[1] = a
                    /\ ~Cooling(windows[k], asking[a].now)
         /\ windows' = [k \in Keys |-> windows'[k]]
         /\ asked' = [k \in Keys |-> asked'[k]]
         /\ lastTrip' = [k \in Keys |-> lastTrip'[k]]
         /\ admitted' = [k \in Keys |-> admitted'[k]]
<1> DEFINE
      now == asking[a].now
      scopes == Scopes(a, asking[a].stream)
      dead == IF SweepDue THEN {k \in known : Stale(windows[k], now)} ELSE {}
      swept == [k \in Keys |-> IF k \in dead THEN Empty ELSE windows[k]]
      open == {i \in DOMAIN scopes : Cooling(swept[scopes[i]], now)}
      reset == {k \in KeysAt(scopes, Before(scopes, open)) : swept[k].until # NotTripped}
      healed == [k \in Keys |-> IF k \in reset THEN Empty ELSE swept[k]]
      over == {i \in DOMAIN scopes : Over(healed[scopes[i]], scopes[i], now)}
      recorded == IF open = {} THEN KeysAt(scopes, UpTo(scopes, over)) ELSE {}
      tripped == {scopes[i] : i \in {i \in over : scopes[i] \in recorded}}
      admits == open = {} /\ over = {}
<1>1. /\ asking' = [asking EXCEPT ![a] = Nothing]
      /\ sinceGc' = IF SweepDue THEN 0 ELSE sinceGc + 1
      /\ known' = (known \ dead) \cup recorded
      /\ windows' = [k \in Keys |->
           IF k \in recorded
           THEN [stamps |-> Stamped(healed[k], now).stamps,
                 until |-> IF k \in tripped THEN now + Cooldown ELSE NotTripped]
           ELSE healed[k]]
      /\ asked' = [k \in Keys |-> IF k \in recorded THEN Append(asked[k], now) ELSE asked[k]]
      /\ lastTrip' = [k \in Keys |-> IF k \in tripped THEN now ELSE lastTrip[k]]
      /\ admitted' = [k \in Keys |->
           IF admits /\ k \in KeysAt(scopes, DOMAIN scopes)
           THEN Append(admitted[k], [stamp |-> now, at |-> clock]) ELSE admitted[k]]
      /\ clock' = clock
      /\ asking[a] # Nothing
  BY DEF Admit
<1>2. asking[a] \in Calls /\ now \in Nat /\ asking[a].stream \in Streams \cup {NoStream}
  BY <1>1 DEF TypeOK, Calls
<1>3. \A i \in DOMAIN scopes : scopes[i] \in Keys /\ scopes[i][1] = a
  BY <1>2, ScopeKeys
<1>4. \A k \in Keys : swept[k] \in Windows /\ swept[k].until = windows[k].until
  BY DEF TypeOK, Windows, Empty, Stale
<1>5. \A i \in DOMAIN scopes : Cooling(swept[scopes[i]], now) <=> Cooling(windows[scopes[i]], now)
  BY <1>3, <1>4 DEF Cooling
<1>6. \A k \in reset : k \in Keys /\ k[1] = a /\ ~Cooling(windows[k], now)
  <2> TAKE k \in reset
  <2>1. PICK i \in Before(scopes, open) : k = scopes[i]
    BY DEF KeysAt
  <2>2. i \in DOMAIN scopes /\ i \in Nat /\ i >= 1
    BY <2>1 DEF Before, Scopes
  <2>3. i \notin open
    BY <2>1, <2>2 DEF Before
  <2> QED
    BY <2>1, <2>2, <2>3, <1>3, <1>5
<1>7. \A k \in recorded : k \in Keys /\ k[1] = a /\ ~Cooling(windows[k], now)
  <2> TAKE k \in recorded
  <2>1. open = {} /\ k \in KeysAt(scopes, UpTo(scopes, over))
    OBVIOUS
  <2>2. PICK i \in DOMAIN scopes : k = scopes[i]
    BY <2>1 DEF KeysAt, UpTo
  <2> QED
    BY <2>1, <2>2, <1>3, <1>5
<1>8. tripped \subseteq recorded
  OBVIOUS
<1>9. \A k \in KeysAt(scopes, DOMAIN scopes) :
        open = {} => k \in Keys /\ k[1] = a /\ ~Cooling(windows[k], now)
  <2> TAKE k \in KeysAt(scopes, DOMAIN scopes)
  <2>1. PICK i \in DOMAIN scopes : k = scopes[i]
    BY DEF KeysAt
  <2> QED
    BY <2>1, <1>3, <1>5
<1>10. \A k \in Keys : healed[k] \in Windows
  <2>1. Empty \in Windows
    BY DEF Windows, Empty
  <2> QED
    BY <1>4, <2>1
<1>11. \A k \in Keys : healed[k].until = IF k \in reset THEN NotTripped ELSE windows[k].until
  BY <1>4 DEF Empty
<1>12. now + Cooldown \in Nat
  BY <1>2 DEF BreakerAssumption
<1>13. known' \subseteq Keys
  BY <1>1, <1>7 DEF TypeOK
<1>14. sinceGc' \in 0..(GcInterval - 1)
  <2>1. GcInterval \in Nat /\ GcInterval >= 1 /\ sinceGc \in 0..(GcInterval - 1)
    BY DEF TypeOK, BreakerAssumption
  <2>2. sinceGc' = IF sinceGc + 1 >= GcInterval THEN 0 ELSE sinceGc + 1
    BY <1>1 DEF SweepDue
  <2> QED
    BY <2>1, <2>2
<1> HIDE DEF now, scopes, dead, swept, open, reset, healed, over, recorded, tripped, admits
<1>15. ASSUME NEW k \in Keys
       PROVE  /\ windows'[k] \in Windows
              /\ asked'[k] \in Seq(Nat)
              /\ lastTrip'[k] \in Nat \cup {Nothing}
  <2>1. Stamped(healed[k], now).stamps \in Seq(Nat)
    BY <1>2, <1>10, StampedType
  <2>2. windows'[k] \in Windows
    BY <1>1, <1>10, <1>12, <2>1 DEF Windows
  <2>3. asked'[k] \in Seq(Nat)
    BY <1>1, <1>2 DEF TypeOK
  <2> QED
    BY <1>1, <1>2, <2>2, <2>3 DEF TypeOK
<1>16. ASSUME NEW k \in Keys
       PROVE  \/ /\ lastTrip'[k] = now
                 /\ windows'[k].until = now + Cooldown
              \/ /\ lastTrip'[k] = lastTrip[k]
                 /\ windows'[k].until = NotTripped
                 /\ k[1] = a
                 /\ ~Cooling(windows[k], now)
              \/ /\ lastTrip'[k] = lastTrip[k]
                 /\ windows'[k].until = windows[k].until
  <2>1. CASE k \in tripped
    BY <2>1, <1>1, <1>8
  <2>2. CASE k \in recorded /\ k \notin tripped
    BY <2>2, <1>1, <1>7
  <2>3. CASE k \notin recorded
    <3>1. lastTrip'[k] = lastTrip[k] /\ windows'[k] = healed[k]
      BY <2>3, <1>1, <1>8
    <3> QED
      BY <3>1, <1>6, <1>11
  <2> QED
    BY <2>1, <2>2, <2>3
<1>17. ASSUME NEW k \in Keys
       PROVE  \/ admitted'[k] = admitted[k]
              \/ /\ admitted'[k] = Append(admitted[k], [stamp |-> now, at |-> clock])
                 /\ k[1] = a
                 /\ ~Cooling(windows[k], now)
  BY <1>1, <1>9 DEF admits
<1> QED
  BY <1>1, <1>2, <1>13, <1>14, <1>15, <1>16, <1>17 DEF now

\* The breaker starts with nothing tripped.
LEMMA InitInv == BreakerAssumption /\ Init => IInv
<1> SUFFICES ASSUME BreakerAssumption, Init PROVE IInv
  OBVIOUS
<1>1. TypeOK
  BY DEF Init, TypeOK, BreakerAssumption, Windows, Empty
<1> QED
  BY <1>1 DEF Init, IInv, TripKept, Empty, Keys

\* Reading the clock: the call's reading is past every cooldown that is over.
LEMMA AskInv ==
  ASSUME BreakerAssumption, IInv, NEW a \in Agents, NEW s \in Streams \cup {NoStream},
         Ask(a, s)
  PROVE  IInv'
<1>1. /\ asking' = [asking EXCEPT ![a] = [now |-> clock, stream |-> s]]
      /\ UNCHANGED <<clock, windows, known, sinceGc, asked, admitted, lastTrip>>
  BY DEF Ask
<1>2. TypeOK'
  BY <1>1 DEF IInv, TypeOK, Calls
<1>3. \A b \in Agents : asking'[b] # Nothing => asking'[b].now <= clock'
  BY <1>1 DEF IInv, TypeOK
<1>4. ASSUME NEW k \in Keys PROVE TripKept(k)'
  <2>1. k[1] \in Agents
    BY DEF Keys
  <2> QED
    BY <1>1, <2>1 DEF IInv, TypeOK, TripKept
<1> QED
  BY <1>2, <1>3, <1>4 DEF IInv

\* The critical section of admit.
LEMMA AdmitInv ==
  ASSUME BreakerAssumption, IInv, NEW a \in Agents, Admit(a)
  PROVE  IInv'
<1>1. TypeOK
  BY DEF IInv
<1>5. /\ asking[a] \in Calls
      /\ asking' = [asking EXCEPT ![a] = Nothing]
      /\ clock' = clock
  BY <1>1, AdmitShape
<1>2. TypeOK'
  <2>1. clock' \in Nat /\ asking' \in [Agents -> Calls \cup {Nothing}]
    <3>1. clock \in Nat /\ asking \in [Agents -> Calls \cup {Nothing}]
      BY <1>1 DEF TypeOK
    <3> QED
      BY <3>1, <1>5
  <2>2. ASSUME NEW k \in Keys
        PROVE  admitted'[k] \in Seq([stamp : Nat, at : Nat])
    <3>1. [stamp |-> asking[a].now, at |-> clock] \in [stamp : Nat, at : Nat]
      BY <1>1, AdmitShape DEF TypeOK, Calls
    <3>2. admitted[k] \in Seq([stamp : Nat, at : Nat])
      BY <1>1 DEF TypeOK
    <3>3. \/ admitted'[k] = admitted[k]
          \/ admitted'[k] = Append(admitted[k], [stamp |-> asking[a].now, at |-> clock])
      BY <1>1, AdmitShape
    <3>4. Append(admitted[k], [stamp |-> asking[a].now, at |-> clock])
            \in Seq([stamp : Nat, at : Nat])
      BY <3>1, <3>2, AppendProperties
    <3> QED
      BY <3>2, <3>3, <3>4, Zenon
  <2>3. /\ windows' \in [Keys -> Windows]
        /\ asked' \in [Keys -> Seq(Nat)]
        /\ lastTrip' \in [Keys -> Nat \cup {Nothing}]
    BY <1>1, AdmitShape
  <2>4. admitted' \in [Keys -> Seq([stamp : Nat, at : Nat])]
    BY <1>1, <2>2, AdmitShape
  <2> QED
    BY <1>1, <2>1, <2>3, <2>4, AdmitShape DEF TypeOK
<1>3. \A b \in Agents : asking'[b] # Nothing => asking'[b].now <= clock'
  BY <1>1, <1>5 DEF IInv, TypeOK
<1>4. ASSUME NEW k \in Keys PROVE TripKept(k)'
  <2> DEFINE t == asking[a].now
  <2>1. k[1] \in Agents
    BY DEF Keys
  <2>2. t \in Nat /\ t <= clock /\ clock \in Nat /\ Cooldown \in Nat
    BY <1>1, AdmitShape DEF IInv, TypeOK, Calls, BreakerAssumption, Admit
  <2>3. TripKept(k)
    BY DEF IInv
  <2>4. /\ clock' = clock
        /\ asking'[k[1]] = IF k[1] = a THEN Nothing ELSE asking[k[1]]
    BY <1>1, <1>5, <2>1 DEF TypeOK
  <2>5. lastTrip[k] \in Nat \cup {Nothing}
    BY <1>1 DEF TypeOK
  <2>6. windows[k].until \in Nat \cup {NotTripped}
    BY <1>1 DEF TypeOK, Windows
  <2>7. NotTripped \notin Nat
    BY DEF BreakerAssumption
  <2>8. CASE lastTrip'[k] = t /\ windows'[k].until = t + Cooldown
    BY <2>2, <2>7, <2>8 DEF TripKept
  <2>9. CASE /\ lastTrip'[k] = lastTrip[k]
             /\ windows'[k].until = NotTripped
             /\ k[1] = a
             /\ ~Cooling(windows[k], t)
    <3>1. lastTrip[k] # Nothing => lastTrip[k] + Cooldown <= clock
      BY <2>2, <2>3, <2>5, <2>6, <2>9 DEF TripKept, Cooling
    <3> QED
      BY <3>1, <2>4, <2>9 DEF TripKept
  <2>10. CASE lastTrip'[k] = lastTrip[k] /\ windows'[k].until = windows[k].until
    BY <2>3, <2>4, <2>10 DEF TripKept
  <2> QED
    BY <1>1, <2>8, <2>9, <2>10, AdmitShape
<1> QED
  BY <1>2, <1>3, <1>4 DEF IInv

\* Time passes.
LEMMA TickInv ==
  ASSUME BreakerAssumption, IInv, Tick
  PROVE  IInv'
<1>1. clock' = clock + 1 /\ UNCHANGED <<windows, known, sinceGc, asking, asked, admitted, lastTrip>>
  BY DEF Tick
<1>2. TypeOK'
  BY <1>1 DEF IInv, TypeOK
<1>3. \A b \in Agents : asking'[b] # Nothing => asking'[b].now <= clock'
  BY <1>1 DEF IInv, TypeOK, Calls
<1>4. ASSUME NEW k \in Keys PROVE TripKept(k)'
  <2>1. lastTrip[k] \in Nat \cup {Nothing} /\ clock \in Nat /\ Cooldown \in Nat
    BY DEF IInv, TypeOK, BreakerAssumption
  <2>2. TripKept(k)
    BY DEF IInv
  <2> QED
    BY <1>1, <2>1, <2>2 DEF TripKept
<1> QED
  BY <1>2, <1>3, <1>4 DEF IInv

\* Every step keeps the invariant.
LEMMA NextInv == BreakerAssumption /\ IInv /\ [Next]_vars => IInv'
<1> SUFFICES ASSUME BreakerAssumption, IInv, [Next]_vars PROVE IInv'
  OBVIOUS
<1>1. CASE UNCHANGED vars
  BY <1>1 DEF vars, IInv, TypeOK, TripKept
<1>2. ASSUME NEW a \in Agents, NEW s \in Streams \cup {NoStream}, Ask(a, s) PROVE IInv'
  BY <1>2, AskInv
<1>3. ASSUME NEW a \in Agents, Admit(a) PROVE IInv'
  BY <1>3, AdmitInv
<1>4. CASE Tick
  BY <1>4, TickInv
<1> QED
  BY <1>1, <1>2, <1>3, <1>4 DEF Next

\* A step that lets a wake of a scope through does so past the cooldown of its last
\* trip.
LEMMA StepHonours ==
  ASSUME BreakerAssumption, IInv, [Next]_vars, NEW k \in Keys,
         Len(admitted'[k]) > Len(admitted[k]), lastTrip[k] # Nothing
  PROVE  admitted'[k][Len(admitted'[k])].stamp >= lastTrip[k] + Cooldown
<1>1. TypeOK
  BY DEF IInv
<1>2. admitted[k] \in Seq([stamp : Nat, at : Nat]) /\ Len(admitted[k]) \in Nat
  BY <1>1 DEF TypeOK
<1>3. admitted'[k] # admitted[k]
  BY <1>2
<1>4. PICK a \in Agents : Admit(a)
  BY <1>3 DEF Next, vars, Ask, Tick
<1> DEFINE t == asking[a].now
           e == [stamp |-> t, at |-> clock]
<1>5. /\ admitted'[k] = Append(admitted[k], e)
      /\ k[1] = a
      /\ ~Cooling(windows[k], t)
  BY <1>1, <1>3, <1>4, AdmitShape
<1>6. t \in Nat /\ clock \in Nat /\ asking[a] # Nothing
  BY <1>1, <1>4, AdmitShape DEF TypeOK, Calls, Admit
<1>7. admitted'[k][Len(admitted'[k])] = e
  BY <1>2, <1>5, <1>6
<1>8. TripKept(k)
  BY DEF IInv
<1>9. lastTrip[k] \in Nat /\ windows[k].until \in Nat \cup {NotTripped} /\ Cooldown \in Nat
  BY <1>1 DEF TypeOK, Windows, BreakerAssumption
<1>10. lastTrip[k] + Cooldown <= t
  BY <1>5, <1>6, <1>8, <1>9 DEF TripKept, Cooling
<1> QED
  BY <1>6, <1>7, <1>9, <1>10

\* The invariant holds of every behaviour.
LEMMA InvHolds == Spec => []IInv
<1>1. BreakerAssumption
  BY BreakerAssumption
<1> QED
  BY <1>1, InitInv, NextInv, PTL DEF Spec

\* The breaker's state stays well typed, its sweep counter below the interval.
THEOREM TypeCorrect == Spec => []TypeOK
<1>1. IInv => TypeOK
  BY DEF IInv
<1> QED
  BY <1>1, InvHolds, PTL

\* A trip halts its scope: whatever sweeps and trips of the other scope happen in
\* between, no wake whose clock reading is within the cooldown is let through.
THEOREM TripHalts == Spec => CooldownHonoured
<1>1. BreakerAssumption
  BY BreakerAssumption
<1>2. IInv /\ [Next]_vars =>
        [\A k \in Keys :
           Len(admitted'[k]) > Len(admitted[k]) /\ lastTrip[k] # Nothing =>
             admitted'[k][Len(admitted'[k])].stamp >= lastTrip[k] + Cooldown]_<<admitted, lastTrip>>
  BY <1>1, StepHonours
<1> QED
  BY <1>2, InvHolds, PTL DEF Spec, CooldownHonoured

-----------------------------------------------------------------------------
(* What the windows hold.                                                  *)

\* The sequence never decreases.
InOrder(s) == \A p, q \in 1..Len(s) : p < q => s[p] <= s[q]

\* s is the end of z.
EndOf(s, z) ==
  /\ Len(s) <= Len(z)
  /\ \A p \in 1..Len(s) : z[(Len(z) - Len(s)) + p] = s[p]

\* s has n elements at its end that are v or later.
LastFrom(s, n, v) ==
  /\ n <= Len(s)
  /\ \A p \in 1..Len(s) : p > Len(s) - n => s[p] >= v

\* Calls of an agent come one at a time, so the stamps of its scopes are in order, and
\* behind the reading of the call under way.
Sorted(k) ==
  /\ InOrder(windows[k].stamps)
  /\ \A p \in 1..Len(windows[k].stamps) :
       /\ windows[k].stamps[p] <= clock
       /\ asking[k[1]] # Nothing => windows[k].stamps[p] <= asking[k[1]].now

\* A call reads the clock after the agent's last wake was let through.
AfterAdmitted(k) ==
  \A i \in 1..Len(admitted[k]) :
    /\ admitted[k][i].at <= clock
    /\ asking[k[1]] # Nothing => admitted[k][i].at <= asking[k[1]].now

\* The stamps of a tripped window are at least a cooldown older than its reset.
BeforeTrip(k) ==
  windows[k].until # NotTripped =>
    \A p \in 1..Len(windows[k].stamps) : windows[k].stamps[p] + Cooldown <= windows[k].until

\* While a wake that was let through is within the rolling window, what was let
\* through after it is held by the scope's window: no sweep and no reset drops it.
Held(k) ==
  \A i \in 1..Len(admitted[k]) :
    admitted[k][i].at + Window > clock =>
      LastFrom(windows[k].stamps, Len(admitted[k]) - i, admitted[k][i].at)

\* No Threshold + 2 wakes of the scope within one window.
Capped(k) ==
  \A i, j \in 1..Len(admitted[k]) :
    j = i + Threshold(k) + 1 => admitted[k][j].at - admitted[k][i].at >= Window

\* With the invariant above, inductive: what is in each window and what it proves.
RateInv ==
  /\ \A k \in Keys : /\ Sorted(k) /\ AfterAdmitted(k) /\ BeforeTrip(k)
                     /\ EndOf(windows[k].stamps, asked[k])
  /\ NoFalseTrip
  /\ Cooldown >= Window => \A k \in Keys : Held(k) /\ Capped(k)

\* The popleft loop drops a prefix: all its stamps have aged, the first that stays has not.
LEMMA RecentShape ==
  ASSUME NEW s \in Seq(Nat), NEW t \in Nat
  PROVE  \E c \in 0..Len(s) :
           /\ Recent(s, t) \in Seq(Nat)
           /\ Len(Recent(s, t)) = Len(s) - c
           /\ \A p \in 1..(Len(s) - c) : Recent(s, t)[p] = s[c + p]
           /\ \A p \in 1..c : s[p] <= t - Window
           /\ c < Len(s) => s[c + 1] > t - Window
<1> DEFINE aged == {i \in DOMAIN s : \A j \in 1..i : s[j] <= t - Window}
           c == Cardinality(aged)
<1>1. DOMAIN s = 1..Len(s) /\ Len(s) \in Nat /\ Window \in Nat
  BY BreakerAssumption DEF BreakerAssumption
<1>2. \A i \in aged : i \in 1..Len(s) /\ 1..i \subseteq aged
  BY <1>1
<1>3. \A i \in 1..Len(s) : (\A j \in 1..i : s[j] <= t - Window) => i \in aged
  BY <1>1
<1>4. \A i \in aged : s[i] <= t - Window
  BY <1>1
<1>5. Recent(s, t) = SubSeq(s, c + 1, Len(s))
  BY DEF Recent
<1> HIDE DEF aged
<1>6. IsFiniteSet(aged) /\ c \in Nat /\ c <= Len(s)
  <2>1. IsFiniteSet(1..Len(s)) /\ Cardinality(1..Len(s)) = Len(s)
    BY <1>1, FS_Interval
  <2>2. aged \in SUBSET (1..Len(s))
    BY <1>2
  <2> QED
    BY <2>1, <2>2, FS_Subset, FS_CardinalityType
<1>7. aged = 1..c
  <2>1. IsFiniteSet(1..c) /\ Cardinality(1..c) = c
    BY <1>6, FS_Interval
  <2>2. ASSUME NEW i \in aged PROVE i \in 1..c
    <3>1. i \in 1..Len(s) /\ 1..i \in SUBSET aged
      BY <1>2
    <3>2. Cardinality(1..i) = i
      BY <1>1, <3>1, FS_Interval
    <3>3. i <= c
      BY <1>6, <3>1, <3>2, FS_Subset
    <3> QED
      BY <1>1, <1>6, <3>1, <3>3
  <2>3. aged \in SUBSET (1..c)
    BY <2>2
  <2> QED
    BY <2>1, <2>3, FS_Subset
<1> HIDE DEF c
<1>8. /\ SubSeq(s, c + 1, Len(s)) \in Seq(Nat)
      /\ Len(SubSeq(s, c + 1, Len(s))) = Len(s) - c
      /\ \A p \in 1..(Len(s) - c) : SubSeq(s, c + 1, Len(s))[p] = s[c + p]
  <2>1. \A i \in (c + 1)..Len(s) : s[i] \in Nat
    BY <1>1, <1>6
  <2> QED
    <3>1. c + 1 \in Int /\ Len(s) \in Int /\ c + 1 <= Len(s) + 1
      BY <1>1, <1>6
    <3>2. /\ SubSeq(s, c + 1, Len(s)) \in Seq(Nat)
          /\ Len(SubSeq(s, c + 1, Len(s)))
               = IF c + 1 <= Len(s) THEN Len(s) - (c + 1) + 1 ELSE 0
          /\ \A p \in 1..(Len(s) - (c + 1) + 1) :
               SubSeq(s, c + 1, Len(s))[p] = s[(c + 1) + p - 1]
      BY <2>1, <3>1, SubSeqProperties
    <3> HIDE DEF c
    <3>3. \A p \in Int : (c + 1) + p - 1 = c + p
      BY <1>6
    <3>4. Len(s) - (c + 1) + 1 = Len(s) - c
      BY <1>1, <1>6
    <3>5. Len(SubSeq(s, c + 1, Len(s))) = Len(s) - c
      <4>1. CASE c + 1 <= Len(s)
        BY <3>2, <3>4, <4>1, Zenon
      <4>2. CASE ~(c + 1 <= Len(s))
        <5>1. \A x, y \in Nat : x <= y /\ ~(x + 1 <= y) => y - x = 0
          OBVIOUS
        <5>2. Len(s) - c = 0
          BY <1>1, <1>6, <4>2, <5>1, Zenon
        <5> QED
          BY <3>2, <4>2, <5>2, Zenon
      <4> QED
        BY <4>1, <4>2
    <3>6. ASSUME NEW p \in 1..(Len(s) - c)
          PROVE  SubSeq(s, c + 1, Len(s))[p] = s[c + p]
      <4>1. SubSeq(s, c + 1, Len(s))[p] = s[(c + 1) + p - 1] /\ p \in Int
        BY <3>2, <3>4, <1>1, <1>6
      <4> QED
        BY <3>3, <4>1
    <3> QED
      BY <3>2, <3>5, <3>6
<1>9. ASSUME c < Len(s) PROVE s[c + 1] > t - Window
  <2>1. c + 1 \in 1..Len(s) /\ c + 1 \notin aged
    BY <1>1, <1>6, <1>7, <1>9
  <2>2. PICK j \in 1..(c + 1) : ~(s[j] <= t - Window)
    BY <1>3, <2>1
  <2>3. j = c + 1
    BY <1>4, <1>6, <1>7, <2>2
  <2> QED
    BY <1>1, <2>1, <2>2, <2>3
<1> QED
  BY <1>4, <1>5, <1>6, <1>7, <1>8, <1>9

\* What was dropped from a window: it was stale to the sweep, or its cooldown was over.
Droppable(k, t) ==
  \/ Stale(windows[k], t)
  \/ windows[k].until # NotTripped /\ windows[k].until <= t

\* The scope is left as it was.
Untouched(k) ==
  /\ windows'[k] = windows[k] /\ asked'[k] = asked[k]
  /\ admitted'[k] = admitted[k] /\ lastTrip'[k] = lastTrip[k]

\* The scope is swept or reset, and the call is not recorded in it.
Emptied(k, t) ==
  /\ Droppable(k, t) /\ windows'[k] = Empty /\ asked'[k] = asked[k]
  /\ admitted'[k] = admitted[k] /\ lastTrip'[k] = lastTrip[k]

\* The call is recorded in the scope; the scope trips if it is over its threshold then, and
\* only a call that leaves it within its threshold is let through.
Takes(k, t) ==
  /\ asked'[k] = Append(asked[k], t)
  /\ \E base \in Seq(Nat) :
       /\ base = windows[k].stamps \/ (base = <<>> /\ Droppable(k, t))
       /\ windows'[k].stamps = Append(Recent(base, t), t)
  /\ \/ /\ lastTrip'[k] = t /\ windows'[k].until = t + Cooldown
        /\ Len(windows'[k].stamps) > Threshold(k)
        /\ admitted'[k] = admitted[k]
     \/ /\ lastTrip'[k] = lastTrip[k] /\ windows'[k].until = NotTripped
        /\ \/ admitted'[k] = admitted[k]
           \/ /\ admitted'[k] = Append(admitted[k], [stamp |-> t, at |-> clock])
              /\ Len(windows'[k].stamps) <= Threshold(k)

\* What the critical section of admit does to the window of each scope.
LEMMA AdmitWindows ==
  ASSUME TypeOK, NEW a \in Agents, Admit(a), NEW k \in Keys
  PROVE  \/ Untouched(k)
         \/ Emptied(k, asking[a].now)
         \/ k[1] = a /\ Takes(k, asking[a].now)
<1> DEFINE
      now == asking[a].now
      scopes == Scopes(a, asking[a].stream)
      dead == IF SweepDue THEN {j \in known : Stale(windows[j], now)} ELSE {}
      swept == [j \in Keys |-> IF j \in dead THEN Empty ELSE windows[j]]
      open == {i \in DOMAIN scopes : Cooling(swept[scopes[i]], now)}
      reset == {j \in KeysAt(scopes, Before(scopes, open)) : swept[j].until # NotTripped}
      healed == [j \in Keys |-> IF j \in reset THEN Empty ELSE swept[j]]
      over == {i \in DOMAIN scopes : Over(healed[scopes[i]], scopes[i], now)}
      recorded == IF open = {} THEN KeysAt(scopes, UpTo(scopes, over)) ELSE {}
      tripped == {scopes[i] : i \in {i \in over : scopes[i] \in recorded}}
      admits == open = {} /\ over = {}
<1>1. /\ windows' = [j \in Keys |->
           IF j \in recorded
           THEN [stamps |-> Stamped(healed[j], now).stamps,
                 until |-> IF j \in tripped THEN now + Cooldown ELSE NotTripped]
           ELSE healed[j]]
      /\ asked' = [j \in Keys |-> IF j \in recorded THEN Append(asked[j], now) ELSE asked[j]]
      /\ lastTrip' = [j \in Keys |-> IF j \in tripped THEN now ELSE lastTrip[j]]
      /\ admitted' = [j \in Keys |->
           IF admits /\ j \in KeysAt(scopes, DOMAIN scopes)
           THEN Append(admitted[j], [stamp |-> now, at |-> clock]) ELSE admitted[j]]
      /\ asking[a] # Nothing
  BY DEF Admit
<1>2. now \in Nat /\ asking[a].stream \in Streams \cup {NoStream}
  BY <1>1 DEF TypeOK, Calls
<1>3. \A i \in DOMAIN scopes : scopes[i] \in Keys /\ scopes[i][1] = a
  BY <1>2, ScopeKeys
<1>4. windows[k] \in Windows
  BY DEF TypeOK
<1>5. k \in dead => Stale(windows[k], now)
  OBVIOUS
<1>6. swept[k] = IF k \in dead THEN Empty ELSE windows[k]
  OBVIOUS
<1>7. healed[k] = IF k \in reset THEN Empty ELSE swept[k]
  OBVIOUS
<1>8. k \in reset => swept[k].until # NotTripped /\ ~Cooling(swept[k], now)
  <2> SUFFICES ASSUME k \in reset PROVE ~Cooling(swept[k], now)
    OBVIOUS
  <2>1. PICK i \in Before(scopes, open) : k = scopes[i]
    BY DEF KeysAt
  <2>2. i \in DOMAIN scopes /\ i \in Nat /\ i >= 1
    BY <2>1 DEF Before, Scopes
  <2>3. i \in 1..i /\ \A j \in 1..i : j \notin open
    BY <2>1, <2>2 DEF Before
  <2> QED
    BY <2>1, <2>2, <2>3
<1>9. tripped \subseteq recorded
  OBVIOUS
<1>10. k \in recorded => k[1] = a
  BY <1>3 DEF KeysAt, UpTo
<1>11. k \in recorded /\ k \in tripped => Over(healed[k], k, now)
  OBVIOUS
<1>12. admits /\ k \in KeysAt(scopes, DOMAIN scopes) => k \in recorded /\ ~Over(healed[k], k, now)
  <2> SUFFICES ASSUME open = {}, over = {}, k \in KeysAt(scopes, DOMAIN scopes)
               PROVE  k \in recorded /\ ~Over(healed[k], k, now)
    OBVIOUS
  <2>1. PICK i \in DOMAIN scopes : k = scopes[i]
    BY DEF KeysAt
  <2>2. i \in UpTo(scopes, over)
    BY DEF UpTo
  <2> QED
    BY <2>1, <2>2 DEF KeysAt
<1>13. Stamped(healed[k], now).stamps = Append(Recent(healed[k].stamps, now), now)
  <2>1. healed[k] \in Windows
    BY <1>4, <1>6, <1>7 DEF Empty, Windows
  <2> QED
    BY <2>1 DEF Stamped, Windows
<1> HIDE DEF scopes, dead, swept, open, reset, healed, over, recorded, tripped, admits
<1>14. healed[k] = windows[k] \/ (healed[k] = Empty /\ Droppable(k, now))
  <2>1. CASE k \in dead
    BY <2>1, <1>5, <1>6, <1>7, <1>8 DEF Droppable, Empty
  <2>2. CASE k \notin dead /\ k \in reset
    <3>1. windows[k].until # NotTripped /\ ~(now < windows[k].until) /\ healed[k] = Empty
      BY <2>2, <1>6, <1>7, <1>8 DEF Cooling
    <3>2. windows[k].until \in Nat
      BY <1>4, <3>1 DEF Windows
    <3> QED
      BY <1>2, <3>1, <3>2 DEF Droppable
  <2>3. CASE k \notin dead /\ k \notin reset
    BY <2>3, <1>6, <1>7
  <2> QED
    BY <2>1, <2>2, <2>3
<1>15. CASE k \notin recorded
  <2>1. /\ windows'[k] = healed[k] /\ asked'[k] = asked[k] /\ lastTrip'[k] = lastTrip[k]
        /\ admitted'[k] = admitted[k]
    BY <1>1, <1>9, <1>12, <1>15
  <2> QED
    BY <1>14, <2>1 DEF Untouched, Emptied
<1>16. CASE k \in recorded
  <2>1. /\ asked'[k] = Append(asked[k], now)
        /\ windows'[k].stamps = Append(Recent(healed[k].stamps, now), now)
        /\ windows'[k].until = IF k \in tripped THEN now + Cooldown ELSE NotTripped
        /\ lastTrip'[k] = IF k \in tripped THEN now ELSE lastTrip[k]
    BY <1>1, <1>13, <1>16
  <2>2. /\ healed[k].stamps \in Seq(Nat)
        /\ healed[k].stamps = windows[k].stamps \/ (healed[k].stamps = <<>> /\ Droppable(k, now))
    <3>1. windows[k].stamps \in Seq(Nat)
      BY <1>4 DEF Windows
    <3>2. Empty.stamps = <<>> /\ <<>> \in Seq(Nat)
      BY DEF Empty
    <3> QED
      BY <1>14, <3>1, <3>2, Zenon
  <2>3. Over(healed[k], k, now) <=> Len(windows'[k].stamps) > Threshold(k)
    BY <1>13, <2>1 DEF Over
  <2>4. Recent(healed[k].stamps, now) \in Seq(Nat) /\ Threshold(k) \in Nat
    BY <1>2, <2>2, RecentType, BreakerAssumption DEF Threshold, BreakerAssumption
  <2>5. Len(windows'[k].stamps) \in Nat
    BY <1>2, <2>1, <2>4
  <2>6. ~Over(healed[k], k, now) => Len(windows'[k].stamps) <= Threshold(k)
    BY <2>3, <2>4, <2>5
  <2>7. \/ admitted'[k] = admitted[k]
        \/ /\ admitted'[k] = Append(admitted[k], [stamp |-> now, at |-> clock])
           /\ ~Over(healed[k], k, now)
    BY <1>1, <1>12
  <2>8. k \in tripped => admitted'[k] = admitted[k]
    BY <1>1, <1>11, <1>12, <1>16
  <2>9. Takes(k, now)
    BY <1>11, <1>16, <2>1, <2>2, <2>3, <2>6, <2>7, <2>8 DEF Takes
  <2> QED
    BY <1>10, <1>16, <2>9
<1> QED
  BY <1>15, <1>16

\* s is base without its first c stamps, which have aged, and with the stamp t.
Pushed(s, base, t, c, m) ==
  /\ Len(base) = c + m
  /\ \A p \in 1..(c + m) : base[p] \in Nat
  /\ s \in Seq(Nat) /\ Len(s) = m + 1 /\ s[m + 1] = t
  /\ \A p \in 1..m : s[p] = base[c + p] /\ c + p \in 1..(c + m)
  /\ \A p \in 1..c : base[p] <= t - Window
  /\ m > 0 => base[c + 1] > t - Window

\* Admission pushes its stamp on what the popleft loop leaves.
LEMMA PushShape ==
  ASSUME NEW base \in Seq(Nat), NEW t \in Nat, NEW s, s = Append(Recent(base, t), t)
  PROVE  \E c, m \in Nat : Pushed(s, base, t, c, m)
<1>1. PICK b \in Nat : b = Len(base)
  OBVIOUS
<1>2. PICK c \in 0..b :
           /\ Recent(base, t) \in Seq(Nat)
           /\ Len(Recent(base, t)) = b - c
           /\ \A p \in 1..(b - c) : Recent(base, t)[p] = base[c + p]
           /\ \A p \in 1..c : base[p] <= t - Window
           /\ c < b => base[c + 1] > t - Window
  BY <1>1, RecentShape
<1>3. PICK m \in Nat : b = c + m
  OBVIOUS
<1>4. PICK r \in Seq(Nat) : r = Recent(base, t) /\ Len(r) = m /\ \A p \in 1..m : r[p] = base[c + p]
  BY <1>2, <1>3
<1>5. /\ s \in Seq(Nat) /\ Len(s) = m + 1 /\ s[m + 1] = t
      /\ \A p \in 1..m : s[p] = r[p]
  BY <1>4, AppendProperties
<1>6. /\ \A p \in 1..m : c + p \in 1..(c + m)
      /\ c \in Nat /\ Len(base) = c + m /\ (m > 0 => c < b)
  BY <1>1, <1>3
<1>7. \A p \in 1..(c + m) : base[p] \in Nat
  BY <1>6
<1> QED
  BY <1>2, <1>4, <1>5, <1>6, <1>7 DEF Pushed

\* A window stays in order, all of it recent and none of it ahead of the call.
LEMMA PushOrder ==
  ASSUME NEW base \in Seq(Nat), NEW t \in Nat, InOrder(base),
         \A p \in 1..Len(base) : base[p] <= t,
         NEW s, s = Append(Recent(base, t), t)
  PROVE  /\ s \in Seq(Nat) /\ Len(s) >= 1 /\ InOrder(s)
         /\ \A p \in 1..Len(s) : s[p] <= t /\ s[p] > t - Window
<1>1. PICK c, m \in Nat : Pushed(s, base, t, c, m)
  BY PushShape
<1>2a. PICK b \in Nat : b = c + m
  OBVIOUS
<1>2b. /\ Len(base) = b /\ \A p \in 1..b : base[p] \in Nat
       /\ s \in Seq(Nat) /\ Len(s) = m + 1 /\ s[m + 1] = t
       /\ \A p \in 1..m : s[p] = base[c + p] /\ c + p \in 1..b
       /\ \A p \in 1..c : base[p] <= t - Window
       /\ m > 0 => base[c + 1] > t - Window
  BY <1>1, <1>2a, Zenon DEF Pushed
<1>2. Window \in Nat /\ Window >= 1
  BY BreakerAssumption DEF BreakerAssumption
<1>3. /\ \A p \in 1..b : base[p] \in Nat /\ base[p] <= t
      /\ \A p, q \in 1..b : p < q => base[p] <= base[q]
  BY <1>2a, <1>2b DEF InOrder
<1>4. ASSUME NEW p \in 1..m PROVE s[p] <= t /\ s[p] > t - Window /\ s[p] \in Nat
  <2>1. c < b /\ c + 1 \in 1..b /\ c + p \in 1..b /\ s[p] = base[c + p]
    BY <1>2a, <1>2b
  <2>2. base[c + 1] <= base[c + p]
    <3>1. CASE p = 1
      BY <1>3, <2>1, <3>1
    <3>2. CASE p # 1
      <4>1. c + 1 < c + p
        BY <3>2
      <4> QED
        BY <1>3, <2>1, <4>1
    <3> QED
      BY <3>1, <3>2
  <2> QED
    BY <1>2a, <1>2b, <1>2, <1>3, <2>1, <2>2
<1>5. ASSUME NEW p \in 1..(m + 1) PROVE s[p] <= t /\ s[p] > t - Window
  <2>1. CASE p = m + 1
    BY <1>2b, <1>2, <2>1
  <2>2. CASE p # m + 1
    <3>1. p \in 1..m
      BY <2>2
    <3> QED
      BY <1>4, <3>1
  <2> QED
    BY <2>1, <2>2
<1>6. ASSUME NEW p \in 1..(m + 1), NEW q \in 1..(m + 1), p < q PROVE s[p] <= s[q]
  <2>1. p \in 1..m
    BY <1>6
  <2>2. CASE q = m + 1
    BY <1>2a, <1>2b, <1>4, <2>1, <2>2
  <2>3. CASE q # m + 1
    <3>1. q \in 1..m /\ c + p < c + q
      BY <1>6, <2>3
    <3> QED
      BY <1>2a, <1>2b, <1>3, <2>1, <3>1
  <2> QED
    BY <2>2, <2>3
<1>7. s \in Seq(Nat) /\ Len(s) = m + 1 /\ m + 1 >= 1
  BY <1>2b
<1>8. InOrder(s)
  BY <1>6, <1>7, Zenon DEF InOrder
<1> QED
  BY <1>5, <1>7, <1>8, Zenon

\* A window stays the end of what was asked.
LEMMA PushEnd ==
  ASSUME NEW base \in Seq(Nat), NEW t \in Nat, NEW z \in Seq(Nat), EndOf(base, z),
         NEW s, s = Append(Recent(base, t), t)
  PROVE  EndOf(s, Append(z, t))
<1>1. PICK c, m \in Nat : Pushed(s, base, t, c, m)
  BY PushShape
<1>2a. PICK b \in Nat : b = c + m
  OBVIOUS
<1>2b. /\ Len(base) = b /\ \A p \in 1..b : base[p] \in Nat
       /\ s \in Seq(Nat) /\ Len(s) = m + 1 /\ s[m + 1] = t
       /\ \A p \in 1..m : s[p] = base[c + p] /\ c + p \in 1..b
       /\ \A p \in 1..c : base[p] <= t - Window
       /\ m > 0 => base[c + 1] > t - Window
  BY <1>1, <1>2a, Zenon DEF Pushed
<1>2. PICK y \in Nat : y = Len(z)
  OBVIOUS
<1>3. b <= y /\ \A p \in 1..b : z[(y - b) + p] = base[p]
  BY <1>2a, <1>2b, <1>2 DEF EndOf
<1>4. /\ Len(Append(z, t)) = y + 1 /\ Append(z, t)[y + 1] = t
      /\ \A p \in 1..y : Append(z, t)[p] = z[p]
  BY <1>2
<1>5. m + 1 <= y + 1
  BY <1>2a, <1>2b, <1>3
<1>6. ASSUME NEW p \in 1..(m + 1)
      PROVE  Append(z, t)[((y + 1) - (m + 1)) + p] = s[p]
  <2>1. CASE p = m + 1
    <3>1. ((y + 1) - (m + 1)) + p = y + 1
      BY <2>1
    <3> QED
      BY <1>2a, <1>2b, <1>4, <2>1, <3>1
  <2>2. CASE p # m + 1
    <3>1. p \in 1..m /\ s[p] = base[c + p] /\ c + p \in 1..b
      BY <1>2a, <1>2b, <2>2
    <3>2. z[(y - b) + (c + p)] = base[c + p]
      BY <1>3, <3>1
    <3>3. ((y + 1) - (m + 1)) + p = (y - b) + (c + p) /\ (y - b) + (c + p) \in 1..y
      <4>1. b = c + m
        BY <1>2a, <1>2b
      <4> QED
        BY <1>3, <3>1, <4>1
    <3> QED
      BY <1>4, <3>1, <3>2, <3>3
  <2> QED
    BY <2>1, <2>2
<1> QED
  BY <1>2a, <1>2b, <1>4, <1>5, <1>6 DEF EndOf

\* What a window holds of the recent past, it holds after the push, and the stamp more.
LEMMA PushLast ==
  ASSUME NEW base \in Seq(Nat), NEW t \in Nat, NEW n \in Nat, NEW v \in Nat,
         v > t - Window, v <= t, LastFrom(base, n, v),
         NEW s, s = Append(Recent(base, t), t)
  PROVE  LastFrom(s, n + 1, v)
<1>1. PICK c, m \in Nat : Pushed(s, base, t, c, m)
  BY PushShape
<1>2a. PICK b \in Nat : b = c + m
  OBVIOUS
<1>2b. /\ Len(base) = b /\ \A p \in 1..b : base[p] \in Nat
       /\ s \in Seq(Nat) /\ Len(s) = m + 1 /\ s[m + 1] = t
       /\ \A p \in 1..m : s[p] = base[c + p] /\ c + p \in 1..b
       /\ \A p \in 1..c : base[p] <= t - Window
       /\ m > 0 => base[c + 1] > t - Window
  BY <1>1, <1>2a, Zenon DEF Pushed
<1>2. Window \in Nat /\ \A p \in 1..b : base[p] \in Nat
  BY <1>2a, <1>2b, BreakerAssumption DEF BreakerAssumption
<1>3. n <= b /\ \A p \in 1..b : p > b - n => base[p] >= v
  BY <1>2a, <1>2b DEF LastFrom
<1>4. n <= m
  <2> SUFFICES ASSUME ~(n <= m) PROVE FALSE
    OBVIOUS
  <2>1. b = c + m
    BY <1>2a, <1>2b
  <2>2. c \in 1..c /\ c \in 1..b /\ c > b - n
    BY <1>3, <2>1
  <2>3. base[c] <= t - Window /\ base[c] >= v /\ base[c] \in Nat
    BY <1>2a, <1>2b, <1>2, <1>3, <2>2
  <2> QED
    BY <1>2, <2>3
<1>5. ASSUME NEW p \in 1..(m + 1), p > (m + 1) - (n + 1) PROVE s[p] >= v
  <2>1. CASE p = m + 1
    BY <1>2a, <1>2b, <2>1
  <2>2. CASE p # m + 1
    <3>1. p \in 1..m /\ s[p] = base[c + p] /\ c + p \in 1..b
      BY <1>2a, <1>2b, <2>2
    <3>2. b = c + m
      BY <1>2a, <1>2b
    <3>3. c + p > b - n
      BY <1>5, <3>1, <3>2
    <3> QED
      BY <1>3, <3>1, <3>3
  <2> QED
    BY <2>1, <2>2
<1> QED
  BY <1>2a, <1>2b, <1>4, <1>5 DEF LastFrom

\* What is within the rolling window of a wake that was let through cannot be dropped.
LEMMA HeldIsKept ==
  ASSUME TypeOK, NEW k \in Keys, BeforeTrip(k), Cooldown >= Window,
         NEW t \in Nat, NEW n \in Nat, n # 0, NEW v \in Nat, v > t - Window,
         LastFrom(windows[k].stamps, n, v)
  PROVE  ~Droppable(k, t)
<1>1. PICK s \in Seq(Nat) : s = windows[k].stamps
  BY DEF TypeOK, Windows
<1>2. PICK L \in Nat : L = Len(s)
  OBVIOUS
<1>3. PICK u \in Nat \cup {NotTripped} : u = windows[k].until
  BY DEF TypeOK, Windows
<1>4. Window \in Nat /\ Cooldown \in Nat
  BY BreakerAssumption DEF BreakerAssumption
<1>5. n <= L /\ \A p \in 1..L : p > L - n => s[p] >= v
  BY <1>1, <1>2 DEF LastFrom
<1>6. L \in 1..L /\ L > L - n
  BY <1>5
<1>7. PICK w \in Nat : w = s[L]
  BY <1>1, <1>2, <1>6
<1>8. w >= v
  BY <1>5, <1>6, <1>7
<1>9. w > t - Window
  BY <1>4, <1>8
<1>10. ~Stale(windows[k], t)
  <2>1. s # <<>>
    BY <1>1, <1>2, <1>6
  <2> QED
    BY <1>1, <1>2, <1>4, <1>7, <1>9, <2>1 DEF Stale
<1>11. u # NotTripped => w + Cooldown <= u
  BY <1>1, <1>2, <1>3, <1>6, <1>7 DEF BeforeTrip
<1>12. u # NotTripped => ~(u <= t)
  BY <1>3, <1>4, <1>9, <1>11
<1> QED
  BY <1>3, <1>10, <1>12 DEF Droppable

\* The window of a scope that a call was recorded in: all of it is recent, in order and the
\* end of what was asked, and it holds what the wakes let through before need it to hold,
\* and the call.
LEMMA TakesShape ==
  ASSUME TypeOK, NEW k \in Keys, Sorted(k), AfterAdmitted(k), BeforeTrip(k),
         EndOf(windows[k].stamps, asked[k]), Cooldown >= Window => Held(k),
         NEW t \in Nat, t <= clock, asking[k[1]] # Nothing, asking[k[1]].now = t,
         Takes(k, t)
  PROVE  /\ windows'[k].stamps \in Seq(Nat) /\ Len(windows'[k].stamps) >= 1
         /\ InOrder(windows'[k].stamps)
         /\ \A p \in 1..Len(windows'[k].stamps) :
              windows'[k].stamps[p] <= t /\ windows'[k].stamps[p] > t - Window
         /\ asked'[k] = Append(asked[k], t)
         /\ EndOf(windows'[k].stamps, asked'[k])
         /\ Cooldown >= Window =>
              \A i \in 1..Len(admitted[k]) : admitted[k][i].at + Window > clock =>
                LastFrom(windows'[k].stamps, Len(admitted[k]) - i + 1, admitted[k][i].at)
<1>1. PICK old \in Seq(Nat) : old = windows[k].stamps
  BY DEF TypeOK, Windows
<1>2. PICK s : s = windows'[k].stamps
  OBVIOUS
<1>3. PICK base \in Seq(Nat) : /\ base = old \/ (base = <<>> /\ Droppable(k, t))
                               /\ s = Append(Recent(base, t), t)
  BY <1>1, <1>2 DEF Takes
<1>4. /\ InOrder(old) /\ EndOf(old, asked[k])
      /\ \A p \in 1..Len(old) : old[p] <= t
  BY <1>1 DEF Sorted
<1>5. /\ InOrder(base) /\ EndOf(base, asked[k])
      /\ \A p \in 1..Len(base) : base[p] <= t
  <2>1. CASE base = old
    BY <2>1, <1>4
  <2>2. CASE base = <<>>
    <3>1. Len(asked[k]) \in Nat /\ Len(<<>>) = 0
      BY DEF TypeOK
    <3> QED
      BY <2>2, <3>1 DEF InOrder, EndOf
  <2> QED
    BY <1>3, <2>1, <2>2
<1>6. /\ s \in Seq(Nat) /\ Len(s) >= 1 /\ InOrder(s)
      /\ \A p \in 1..Len(s) : s[p] <= t /\ s[p] > t - Window
  BY <1>3, <1>5, PushOrder
<1>7. asked'[k] = Append(asked[k], t)
  BY DEF Takes
<1>8. EndOf(s, asked'[k])
  <2>1. asked[k] \in Seq(Nat)
    BY DEF TypeOK
  <2> QED
    BY <1>3, <1>5, <1>7, <2>1, PushEnd
<1>9. ASSUME Cooldown >= Window, NEW i \in 1..Len(admitted[k]),
             admitted[k][i].at + Window > clock
      PROVE  LastFrom(s, Len(admitted[k]) - i + 1, admitted[k][i].at)
  <2>1. PICK L \in Nat : L = Len(admitted[k])
    BY DEF TypeOK
  <2>2. PICK n \in Nat : n = L - i
    BY <2>1
  <2>3. PICK v \in Nat : v = admitted[k][i].at
    <3>1. admitted[k] \in Seq([stamp : Nat, at : Nat])
      BY DEF TypeOK
    <3>2. admitted[k][i] \in [stamp : Nat, at : Nat]
      BY <3>1, ElementOfSeq
    <3> QED
      BY <3>2
  <2>4. clock \in Nat /\ Window \in Nat
    BY BreakerAssumption DEF TypeOK, BreakerAssumption
  <2>5. v <= t
    BY <2>3 DEF AfterAdmitted
  <2>6. v > t - Window
    BY <1>9, <2>3, <2>4
  <2>7. LastFrom(old, n, v)
    BY <1>1, <1>9, <2>1, <2>2, <2>3 DEF Held
  <2>8. LastFrom(base, n, v)
    <3>1. CASE n = 0
      <4>1. Len(base) \in Nat
        OBVIOUS
      <4> QED
        BY <3>1, <4>1 DEF LastFrom
    <3>2. CASE n # 0
      <4>1. ~Droppable(k, t)
        BY <1>1, <1>9, <2>6, <2>7, <3>2, HeldIsKept
      <4> QED
        BY <1>3, <2>7, <4>1
    <3> QED
      BY <3>1, <3>2
  <2>9. LastFrom(s, n + 1, v)
    BY <1>3, <2>5, <2>6, <2>8, PushLast
  <2> QED
    BY <2>1, <2>2, <2>3, <2>9
<1> QED
  BY <1>2, <1>6, <1>7, <1>8, <1>9

\* The breaker starts with empty windows.
LEMMA InitRate == Init => RateInv
<1> SUFFICES ASSUME Init PROVE RateInv
  OBVIOUS
<1>1. \A k \in Keys : /\ windows[k] = Empty /\ asked[k] = <<>> /\ admitted[k] = <<>>
                      /\ lastTrip[k] = Nothing
  BY DEF Init
<1>2. \A k \in Keys : /\ windows[k].stamps = <<>> /\ windows[k].until = NotTripped
                      /\ Len(windows[k].stamps) = 0 /\ Len(asked[k]) = 0
                      /\ Len(admitted[k]) = 0
  BY <1>1 DEF Empty
<1>3. 1..0 = {} /\ 0 <= 0
  OBVIOUS
<1>4. \A k \in Keys : Sorted(k) /\ AfterAdmitted(k) /\ BeforeTrip(k)
  BY <1>2, <1>3, Zenon DEF Sorted, InOrder, AfterAdmitted, BeforeTrip
<1>5. \A k \in Keys : EndOf(windows[k].stamps, asked[k]) /\ Held(k) /\ Capped(k)
  BY <1>2, <1>3, Zenon DEF EndOf, Held, Capped
<1>6. NoFalseTrip
  BY <1>1, Zenon DEF NoFalseTrip
<1> QED
  BY <1>4, <1>5, <1>6 DEF RateInv

\* Reading the clock and the passing of time leave the windows alone.
LEMMA QuietRate ==
  ASSUME IInv, RateInv, NEW now \in Nat, clock' = now, now >= clock,
         UNCHANGED <<windows, asked, admitted, lastTrip>>,
         \A a \in Agents : asking'[a] # Nothing =>
           asking'[a].now = clock \/ asking'[a] = asking[a]
  PROVE  RateInv'
<1>1. ASSUME NEW k \in Keys
      PROVE  /\ Sorted(k)' /\ AfterAdmitted(k)' /\ BeforeTrip(k)'
             /\ EndOf(windows[k].stamps, asked[k])'
  <2>1. k[1] \in Agents /\ clock \in Nat
    BY DEF Keys, IInv, TypeOK
  <2>2. windows[k].stamps \in Seq(Nat)
    BY DEF IInv, TypeOK, Windows
  <2>3. Sorted(k) /\ AfterAdmitted(k) /\ BeforeTrip(k) /\ EndOf(windows[k].stamps, asked[k])
    BY DEF RateInv
  <2>4. asking'[k[1]] # Nothing => asking'[k[1]].now = clock \/ asking'[k[1]] = asking[k[1]]
    BY <2>1
  <2>5. \A p \in 1..Len(windows[k].stamps) : windows[k].stamps[p] \in Nat
    BY <2>2
  <2>6. Sorted(k)'
    BY <2>1, <2>3, <2>4, <2>5 DEF Sorted
  <2>7. \A i \in 1..Len(admitted[k]) : admitted[k][i].at \in Nat
    <3>1. admitted[k] \in Seq([stamp : Nat, at : Nat])
      BY DEF IInv, TypeOK
    <3>2. \A i \in 1..Len(admitted[k]) : admitted[k][i] \in [stamp : Nat, at : Nat]
      BY <3>1, ElementOfSeq
    <3> QED
      BY <3>2
  <2>8. AfterAdmitted(k)'
    BY <2>1, <2>3, <2>4, <2>7 DEF AfterAdmitted
  <2> QED
    BY <2>3, <2>6, <2>8 DEF BeforeTrip, EndOf
<1>2. NoFalseTrip'
  BY DEF RateInv, NoFalseTrip, InWindow
<1>3. ASSUME Cooldown >= Window, NEW k \in Keys PROVE Held(k)' /\ Capped(k)'
  <2>1. Held(k) /\ Capped(k) /\ clock \in Nat /\ Window \in Nat
    BY <1>3, BreakerAssumption DEF RateInv, IInv, TypeOK, BreakerAssumption
  <2>2. \A i \in 1..Len(admitted[k]) : admitted[k][i].at \in Nat
    <3>1. admitted[k] \in Seq([stamp : Nat, at : Nat])
      BY DEF IInv, TypeOK
    <3>2. \A i \in 1..Len(admitted[k]) : admitted[k][i] \in [stamp : Nat, at : Nat]
      BY <3>1, ElementOfSeq
    <3> QED
      BY <3>2
  <2>3. \A i \in 1..Len(admitted[k]) :
          admitted[k][i].at + Window > now => admitted[k][i].at + Window > clock
    BY <2>1, <2>2
  <2> QED
    BY <2>1, <2>3 DEF Held, Capped, LastFrom
<1> QED
  BY <1>1, <1>2, <1>3 DEF RateInv

\* The scope a call was recorded in.
LEMMA TakesRate ==
  ASSUME IInv, RateInv, NEW k \in Keys, asking[k[1]] # Nothing, asking'[k[1]] = Nothing,
         clock' = clock, Takes(k, asking[k[1]].now)
  PROVE  /\ Sorted(k)' /\ AfterAdmitted(k)' /\ BeforeTrip(k)'
         /\ EndOf(windows[k].stamps, asked[k])'
         /\ lastTrip'[k] # Nothing /\ lastTrip'[k] # lastTrip[k] =>
              Cardinality({i \in InWindow(k, lastTrip[k]) : asked[k][i] <= lastTrip[k]})'
                > Threshold(k)
         /\ Cooldown >= Window => Held(k)' /\ Capped(k)'
<1>1. TypeOK /\ clock \in Nat /\ k[1] \in Agents
  BY DEF IInv, TypeOK, Keys
<1>2. PICK t \in Nat : t = asking[k[1]].now /\ t <= clock
  BY <1>1 DEF IInv, TypeOK, Calls
<1>3. Sorted(k) /\ AfterAdmitted(k) /\ BeforeTrip(k) /\ EndOf(windows[k].stamps, asked[k])
  BY DEF RateInv
<1>4. Cooldown >= Window => Held(k) /\ Capped(k)
  BY DEF RateInv
<1>5. /\ windows'[k].stamps \in Seq(Nat) /\ Len(windows'[k].stamps) >= 1
      /\ InOrder(windows'[k].stamps)
      /\ \A p \in 1..Len(windows'[k].stamps) :
           windows'[k].stamps[p] <= t /\ windows'[k].stamps[p] > t - Window
      /\ asked'[k] = Append(asked[k], t)
      /\ EndOf(windows'[k].stamps, asked'[k])
      /\ Cooldown >= Window =>
           \A i \in 1..Len(admitted[k]) : admitted[k][i].at + Window > clock =>
             LastFrom(windows'[k].stamps, Len(admitted[k]) - i + 1, admitted[k][i].at)
  BY <1>1, <1>2, <1>3, <1>4, TakesShape
<1>6. PICK s \in Seq(Nat) : s = windows'[k].stamps
  BY <1>5
<1>7. PICK L \in Nat : L = Len(s)
  OBVIOUS
<1>8. \A p \in 1..L : s[p] \in Nat /\ s[p] <= t /\ s[p] > t - Window
  BY <1>5, <1>6, <1>7
<1>9. Sorted(k)'
  <2>1. \A p \in 1..L : s[p] <= clock
    BY <1>1, <1>2, <1>8
  <2> QED
    BY <1>5, <1>6, <1>7, <2>1 DEF Sorted
<1>10. PICK A \in Seq([stamp : Nat, at : Nat]) : A = admitted[k]
  BY <1>1 DEF TypeOK
<1>11. PICK N \in Nat : N = Len(A)
  OBVIOUS
<1>12. \A i \in 1..N : A[i] \in [stamp : Nat, at : Nat] /\ A[i].at \in Nat /\ A[i].at <= clock
  <2>1. \A i \in 1..N : A[i] \in [stamp : Nat, at : Nat]
    BY <1>11, ElementOfSeq
  <2> QED
    BY <1>3, <1>10, <1>11, <2>1 DEF AfterAdmitted
<1> DEFINE e == [stamp |-> t, at |-> clock]
<1>13. e \in [stamp : Nat, at : Nat] /\ e.at = clock
  BY <1>1
<1> HIDE DEF e
<1>14. /\ Len(Append(A, e)) = N + 1 /\ Append(A, e)[N + 1] = e
       /\ \A i \in 1..N : Append(A, e)[i] = A[i]
  BY <1>11, <1>13, AppendProperties
<1>15. \/ admitted'[k] = A
       \/ admitted'[k] = Append(A, e) /\ L <= Threshold(k)
  BY <1>2, <1>6, <1>7, <1>10 DEF Takes, e
<1>16. AfterAdmitted(k)'
  <2>1. \A i \in 1..Len(admitted'[k]) : admitted'[k][i].at <= clock
    <3>1. CASE admitted'[k] = A
      BY <1>11, <1>12, <3>1
    <3>2. CASE admitted'[k] = Append(A, e)
      BY <1>1, <1>12, <1>13, <1>14, <3>2
    <3> QED
      BY <1>15, <3>1, <3>2
  <2> QED
    BY <2>1 DEF AfterAdmitted
<1>17. BeforeTrip(k)'
  <2>1. \/ windows'[k].until = t + Cooldown
        \/ windows'[k].until = NotTripped
    BY <1>2 DEF Takes
  <2>2. Cooldown \in Nat
    BY BreakerAssumption DEF BreakerAssumption
  <2>3. \A p \in 1..L : s[p] + Cooldown <= t + Cooldown
    BY <1>8, <2>2
  <2> QED
    BY <1>6, <1>7, <2>1, <2>3 DEF BeforeTrip
<1>18. ASSUME lastTrip'[k] # lastTrip[k]
       PROVE  Cardinality({i \in InWindow(k, lastTrip[k]) : asked[k][i] <= lastTrip[k]})'
                > Threshold(k)
  <2>1. lastTrip'[k] = t /\ L > Threshold(k)
    BY <1>2, <1>6, <1>7, <1>18 DEF Takes
  <2>2. PICK z \in Seq(Nat) : z = asked'[k]
    <3>1. asked[k] \in Seq(Nat) /\ asked'[k] = Append(asked[k], t)
      BY <1>1, <1>5 DEF TypeOK
    <3>2. Append(asked[k], t) \in Seq(Nat)
      BY <3>1, AppendProperties
    <3> QED
      BY <3>1, <3>2, Zenon
  <2>3. PICK Z \in Nat : Z = Len(z) /\ DOMAIN z = 1..Z
    OBVIOUS
  <2>4. L <= Z /\ \A p \in 1..L : z[(Z - L) + p] = s[p]
    BY <1>5, <1>6, <1>7, <2>2, <2>3 DEF EndOf
  <2> DEFINE late == {i \in 1..Z : z[i] > t - Window /\ z[i] <= t}
             tail == (Z - L + 1)..Z
  <2>5. {i \in InWindow(k, lastTrip[k]) : asked[k][i] <= lastTrip[k]}' = late
    BY <2>1, <2>2, <2>3 DEF InWindow
  <2>6. tail \in SUBSET late
    <3>1. ASSUME NEW i \in tail PROVE i \in late
      <4>1. PICK p \in 1..L : i = (Z - L) + p
        <5>1. i - (Z - L) \in 1..L /\ i = (Z - L) + (i - (Z - L))
          BY <2>4
        <5> QED
          BY <5>1
      <4>2. z[i] = s[p] /\ i \in 1..Z
        BY <2>4, <4>1
      <4> QED
        BY <1>8, <4>1, <4>2
    <3> QED
      BY <3>1
  <2>7. IsFiniteSet(late)
    <3>1. IsFiniteSet(1..Z) /\ late \in SUBSET (1..Z)
      BY FS_Interval
    <3> QED
      BY <3>1, FS_Subset
  <2>8. Cardinality(tail) = L
    <3>1. Z - L + 1 \in Int /\ Z \in Int
      OBVIOUS
    <3>2. Cardinality(tail) = IF Z - L + 1 > Z THEN 0 ELSE Z - (Z - L + 1) + 1
      BY <3>1, FS_Interval
    <3> HIDE DEF tail
    <3> QED
      BY <3>2
  <2> HIDE DEF tail, late
  <2>9. Cardinality(late) >= L /\ Cardinality(late) \in Nat
    BY <2>6, <2>7, <2>8, FS_Subset, FS_CardinalityType
  <2>10. Threshold(k) \in Nat
    BY BreakerAssumption DEF Threshold, BreakerAssumption
  <2>11. Cardinality(late) > Threshold(k)
    BY <2>1, <2>9, <2>10
  <2> QED
    BY <2>5, <2>11, Zenon
<1>19. ASSUME Cooldown >= Window PROVE Held(k)' /\ Capped(k)'
  <2>1. /\ \A i \in 1..N : A[i].at + Window > clock => LastFrom(s, N - i + 1, A[i].at)
        /\ \A i, j \in 1..N : j = i + Threshold(k) + 1 => A[j].at - A[i].at >= Window
    BY <1>4, <1>5, <1>6, <1>10, <1>11, <1>19 DEF Capped
  <2>2. Threshold(k) \in Nat /\ Window \in Nat
    BY BreakerAssumption DEF Threshold, BreakerAssumption
  <2>3. CASE admitted'[k] = A
    <3>1. ASSUME NEW i \in 1..N, A[i].at + Window > clock PROVE LastFrom(s, N - i, A[i].at)
      <4>1. PICK n \in Nat : n = N - i
        OBVIOUS
      <4>2. LastFrom(s, n + 1, A[i].at)
        BY <2>1, <3>1, <4>1
      <4>3. LastFrom(s, n, A[i].at)
        BY <1>7, <4>2 DEF LastFrom
      <4> QED
        BY <4>1, <4>3
    <3> QED
      BY <1>6, <1>10, <1>11, <2>1, <2>3, <3>1 DEF Held, Capped
  <2>4. CASE admitted'[k] = Append(A, e) /\ L <= Threshold(k)
    <3>1. ASSUME NEW i \in 1..(N + 1), Append(A, e)[i].at + Window > clock
          PROVE  LastFrom(s, (N + 1) - i, Append(A, e)[i].at)
      <4>1. CASE i = N + 1
        BY <1>7, <4>1 DEF LastFrom
      <4>2. CASE i # N + 1
        <5>1. i \in 1..N /\ (N + 1) - i = N - i + 1
          BY <4>2
        <5> QED
          BY <1>14, <2>1, <3>1, <5>1
      <4> QED
        BY <4>1, <4>2
    <3>2. ASSUME NEW i \in 1..(N + 1), NEW j \in 1..(N + 1), j = i + Threshold(k) + 1
          PROVE  Append(A, e)[j].at - Append(A, e)[i].at >= Window
      <4>1. i \in 1..N
        BY <2>2, <3>2
      <4>2. CASE j = N + 1
        <5>1. PICK v \in Nat : v = A[i].at
          BY <1>12, <4>1
        <5>2. N - i + 1 = Threshold(k) + 1
          BY <2>2, <3>2, <4>1, <4>2
        <5>3. ~LastFrom(s, N - i + 1, v)
          BY <1>7, <2>2, <2>4, <5>2 DEF LastFrom
        <5>4. ~(v + Window > clock)
          BY <2>1, <4>1, <5>1, <5>3
        <5>5. PICK u \in Nat : u = clock
          BY <1>1
        <5>6. u - v >= Window
          BY <2>2, <5>4, <5>5
        <5>7. Append(A, e)[j].at = u /\ Append(A, e)[i].at = v
          BY <1>13, <1>14, <4>1, <4>2, <5>1, <5>5
        <5> QED
          BY <5>6, <5>7
      <4>3. CASE j # N + 1
        BY <1>14, <2>1, <3>2, <4>1, <4>3
      <4> QED
        BY <4>2, <4>3
    <3> QED
      BY <1>6, <1>14, <2>4, <3>1, <3>2 DEF Held, Capped
  <2> QED
    BY <1>15, <2>3, <2>4
<1> QED
  BY <1>5, <1>9, <1>16, <1>17, <1>18, <1>19

\* The critical section of admit.
LEMMA AdmitRate ==
  ASSUME IInv, RateInv, NEW a \in Agents, Admit(a)
  PROVE  RateInv'
<1>1. TypeOK /\ BreakerAssumption
  BY BreakerAssumption DEF IInv
<1>2. /\ asking[a] # Nothing /\ asking' = [asking EXCEPT ![a] = Nothing] /\ clock' = clock
      /\ asking[a].now \in Nat /\ asking[a].now <= clock
  BY <1>1, AdmitShape DEF Admit, IInv, Calls
<1>3. \A b \in Agents : asking'[b] = IF b = a THEN Nothing ELSE asking[b]
  BY <1>1, <1>2 DEF TypeOK
<1>4. ASSUME NEW k \in Keys
      PROVE  /\ Sorted(k)' /\ AfterAdmitted(k)' /\ BeforeTrip(k)'
             /\ EndOf(windows[k].stamps, asked[k])'
             /\ lastTrip'[k] # Nothing /\ lastTrip'[k] # lastTrip[k] =>
                  Cardinality({i \in InWindow(k, lastTrip[k]) : asked[k][i] <= lastTrip[k]})'
                    > Threshold(k)
             /\ Cooldown >= Window => Held(k)' /\ Capped(k)'
             /\ asked'[k] = asked[k] \/ \E t \in Nat : asked'[k] = Append(asked[k], t)
  <2>1. k[1] \in Agents /\ asking'[k[1]] = IF k[1] = a THEN Nothing ELSE asking[k[1]]
    BY <1>3 DEF Keys
  <2>2. /\ Sorted(k) /\ AfterAdmitted(k) /\ BeforeTrip(k) /\ EndOf(windows[k].stamps, asked[k])
        /\ Cooldown >= Window => Held(k) /\ Capped(k)
    BY DEF RateInv
  <2>3. CASE Untouched(k)
    <3>1. /\ windows'[k] = windows[k] /\ asked'[k] = asked[k] /\ admitted'[k] = admitted[k]
          /\ lastTrip'[k] = lastTrip[k]
      BY <2>3 DEF Untouched
    <3>2. Sorted(k)' /\ AfterAdmitted(k)' /\ BeforeTrip(k)' /\ EndOf(windows[k].stamps, asked[k])'
      BY <1>2, <2>1, <2>2, <3>1 DEF Sorted, AfterAdmitted, BeforeTrip, EndOf
    <3>3. Cooldown >= Window => Held(k)' /\ Capped(k)'
      BY <1>2, <2>2, <3>1 DEF Held, Capped
    <3> QED
      BY <3>1, <3>2, <3>3
  <2>4. CASE Emptied(k, asking[a].now)
    <3>1. /\ windows'[k].stamps = <<>> /\ windows'[k].until = NotTripped
          /\ asked'[k] = asked[k] /\ admitted'[k] = admitted[k] /\ lastTrip'[k] = lastTrip[k]
          /\ Droppable(k, asking[a].now)
      BY <2>4 DEF Emptied, Empty
    <3>2. 1..0 = {} /\ Len(<<>>) = 0 /\ Len(asked[k]) \in Nat
      BY <1>1 DEF TypeOK
    <3>3. Sorted(k)' /\ BeforeTrip(k)'
      BY <3>1, <3>2, Zenon DEF Sorted, InOrder, BeforeTrip
    <3>4. AfterAdmitted(k)'
      BY <1>2, <2>1, <2>2, <3>1 DEF AfterAdmitted
    <3>5. EndOf(windows[k].stamps, asked[k])'
      BY <3>1, <3>2 DEF EndOf
    <3>6. ASSUME Cooldown >= Window, NEW i \in 1..Len(admitted[k]),
                 admitted[k][i].at + Window > clock
          PROVE  LastFrom(<<>>, Len(admitted[k]) - i, admitted[k][i].at)
      <4>1. PICK n \in Nat : n = Len(admitted[k]) - i
        <5>1. PICK N \in Nat : N = Len(admitted[k])
          BY <1>1 DEF TypeOK
        <5> QED
          BY <5>1
      <4>2. PICK v \in Nat : v = admitted[k][i].at
        <5>1. admitted[k] \in Seq([stamp : Nat, at : Nat])
          BY <1>1 DEF TypeOK
        <5>2. admitted[k][i] \in [stamp : Nat, at : Nat]
          BY <5>1, ElementOfSeq
        <5> QED
          BY <5>2
      <4>3. PICK t \in Nat : t = asking[a].now /\ t <= clock
        BY <1>2
      <4>4. clock \in Nat /\ Window \in Nat
        BY <1>1 DEF TypeOK, BreakerAssumption
      <4>5. v > t - Window
        BY <3>6, <4>2, <4>3, <4>4
      <4>6. LastFrom(windows[k].stamps, n, v)
        BY <2>2, <3>6, <4>1, <4>2 DEF Held
      <4>7. n = 0
        BY <1>1, <2>2, <3>1, <3>6, <4>3, <4>5, <4>6, HeldIsKept
      <4> QED
        BY <3>2, <4>1, <4>2, <4>7 DEF LastFrom
    <3>7. Cooldown >= Window => Held(k)' /\ Capped(k)'
      BY <1>2, <2>2, <3>1, <3>6 DEF Held, Capped
    <3> QED
      BY <3>1, <3>3, <3>4, <3>5, <3>7
  <2>5. CASE k[1] = a /\ Takes(k, asking[a].now)
    <3>1. asking[k[1]] # Nothing /\ asking'[k[1]] = Nothing /\ Takes(k, asking[k[1]].now)
      BY <1>2, <2>1, <2>5
    <3>2. \E t \in Nat : asked'[k] = Append(asked[k], t)
      BY <1>2, <2>5 DEF Takes
    <3> QED
      BY <1>2, <3>1, <3>2, TakesRate
  <2> QED
    BY <1>1, <2>3, <2>4, <2>5, AdmitWindows
<1>5. ASSUME NEW k \in Keys, lastTrip'[k] # Nothing
      PROVE  Cardinality({i \in InWindow(k, lastTrip[k]) : asked[k][i] <= lastTrip[k]})'
               > Threshold(k)
  <2>1. CASE lastTrip'[k] # lastTrip[k]
    BY <1>4, <1>5, <2>1
  <2>2. CASE lastTrip'[k] = lastTrip[k]
    <3> DEFINE t == lastTrip[k]
               X == {i \in DOMAIN asked[k] : asked[k][i] > t - Window /\ asked[k][i] <= t}
               Y == {i \in DOMAIN asked'[k] : asked'[k][i] > t - Window /\ asked'[k][i] <= t}
    <3>1. X \in SUBSET Y /\ IsFiniteSet(Y)
      <4>1. PICK z \in Seq(Nat) : z = asked[k]
        BY <1>1 DEF TypeOK
      <4>2. asked'[k] = z \/ \E u \in Nat : asked'[k] = Append(z, u)
        BY <1>4, <4>1
      <4>3. PICK y \in Seq(Nat) : /\ y = asked'[k] /\ Len(y) >= Len(z)
                                  /\ \A i \in 1..Len(z) : y[i] = z[i]
        BY <4>2, AppendProperties
      <4>4. DOMAIN z = 1..Len(z) /\ DOMAIN y = 1..Len(y) /\ 1..Len(z) \subseteq 1..Len(y)
        BY <4>3
      <4>5. IsFiniteSet(1..Len(y)) /\ Y \in SUBSET (1..Len(y))
        BY <4>3, <4>4, FS_Interval
      <4>6. IsFiniteSet(Y)
        <5> HIDE DEF Y
        <5> QED
          BY <4>5, FS_Subset
      <4> QED
        BY <4>1, <4>3, <4>4, <4>6
    <3>2. X = {i \in InWindow(k, lastTrip[k]) : asked[k][i] <= lastTrip[k]}
      BY DEF InWindow
    <3>3. Y = {i \in InWindow(k, lastTrip[k]) : asked[k][i] <= lastTrip[k]}'
      BY <2>2 DEF InWindow
    <3> HIDE DEF X, Y
    <3>4. Cardinality(X) > Threshold(k)
      BY <1>5, <2>2, <3>2 DEF RateInv, NoFalseTrip
    <3>5. Cardinality(X) <= Cardinality(Y) /\ Cardinality(X) \in Nat /\ Cardinality(Y) \in Nat
      BY <3>1, FS_Subset, FS_CardinalityType
    <3>6. Threshold(k) \in Nat
      BY <1>1 DEF Threshold, BreakerAssumption
    <3>7. Cardinality(Y) > Threshold(k)
      BY <3>4, <3>5, <3>6
    <3> QED
      BY <3>3, <3>7, Zenon
  <2> QED
    BY <2>1, <2>2
<1>6. NoFalseTrip'
  BY <1>5 DEF NoFalseTrip, Threshold
<1> QED
  BY <1>4, <1>6 DEF RateInv

\* Every step keeps what the windows hold.
LEMMA NextRate == IInv /\ RateInv /\ [Next]_vars => RateInv'
<1> SUFFICES ASSUME IInv, RateInv, [Next]_vars PROVE RateInv'
  OBVIOUS
<1>1. clock \in Nat
  BY DEF IInv, TypeOK
<1>2. ASSUME NEW a \in Agents, NEW s \in Streams \cup {NoStream}, Ask(a, s) PROVE RateInv'
  <2>1. /\ asking' = [asking EXCEPT ![a] = [now |-> clock, stream |-> s]]
        /\ UNCHANGED <<clock, windows, asked, admitted, lastTrip>>
    BY <1>2 DEF Ask
  <2>2. \A b \in Agents : asking'[b].now = clock \/ asking'[b] = asking[b]
    BY <2>1 DEF IInv, TypeOK
  <2>3. PICK now \in Nat : now = clock
    BY <1>1
  <2> QED
    BY <2>1, <2>2, <2>3, QuietRate
<1>3. ASSUME NEW a \in Agents, Admit(a) PROVE RateInv'
  BY <1>3, AdmitRate
<1>4. CASE Tick
  <2>1. PICK now \in Nat : now = clock + 1 /\ clock' = now /\ now >= clock
    BY <1>1, <1>4 DEF Tick
  <2> QED
    BY <1>4, <2>1, QuietRate DEF Tick
<1>5. CASE UNCHANGED vars
  <2>1. PICK now \in Nat : now = clock /\ now >= clock
    BY <1>1
  <2> QED
    BY <1>5, <2>1, QuietRate DEF vars
<1> QED
  BY <1>2, <1>3, <1>4, <1>5 DEF Next

\* What the windows hold, in every behaviour.
LEMMA RateHolds == Spec => []RateInv
BY InitRate, NextRate, InvHolds, PTL DEF Spec

\* With a cooldown no shorter than the window, no Threshold + 2 wakes of a scope are let
\* through within one window.
THEOREM CapHolds ==
  ASSUME Cooldown >= Window
  PROVE  Spec => []RateCap
<1>1. IInv /\ RateInv => RateCap
  <2> SUFFICES ASSUME IInv, RateInv, NEW k \in Keys, NEW i \in DOMAIN admitted[k],
                      i + Threshold(k) + 1 \in DOMAIN admitted[k]
               PROVE  admitted[k][i + Threshold(k) + 1].at - admitted[k][i].at >= Window
    BY Zenon DEF RateCap
  <2>1. admitted[k] \in Seq([stamp : Nat, at : Nat])
    BY DEF IInv, TypeOK
  <2>2. DOMAIN admitted[k] = 1..Len(admitted[k])
    BY <2>1
  <2>3. Capped(k)
    BY DEF RateInv
  <2> QED
    BY <2>2, <2>3, Zenon DEF Capped
<1> QED
  BY <1>1, InvHolds, RateHolds, PTL

\* A trip means that more wakes than the threshold were recorded within one window.
THEOREM TripIsEarned == Spec => []NoFalseTrip
<1>1. RateInv => NoFalseTrip
  BY DEF RateInv
<1> QED
  BY <1>1, RateHolds, PTL

=============================================================================
