------------------------ MODULE ClaimsManifestProofs ------------------------
(***************************************************************************)
(* Theorems of the claims, for every set of agents, environments, edits,   *)
(* boots and failures: the types, that the evidence file keeps every proof *)
(* and is up to date between flushes, that a key verifies for its own      *)
(* agent only, that every edge a manifest lists is real, and that every    *)
(* claim in it was earned.                                                 *)
(***************************************************************************)
EXTENDS ClaimsManifest, FiniteSetTheorems, WellFoundedInduction, TLAPS

\* What the daemon runs on is what it built of an environment, and of one that loads
\* and is sensible while it runs.
CfgIsBuilt ==
  /\ Sensible(env)
  /\ \E e \in Envs : cfg = Built(e) /\ (Up => Sensible(e) /\ Loads(e))

\* The temporary file of a flush is there, and is the only one beyond those that could
\* not be unlinked.
TempsCounted ==
  /\ phase = "replace" => temps > 0
  /\ phase \in {"idle", "write"} => temps <= stuck
  /\ phase = "replace" => temps <= stuck + 1

\* The document in memory has what the file has, and between flushes that did not fail
\* is the file.
MemoryIsAhead ==
  /\ Up /\ ~reset => /\ Parsed(disk).proven \subseteq doc.proven
                     /\ Parsed(disk).accepted \subseteq doc.accepted
  /\ phase = "idle" /\ ~behind => Parsed(disk) = doc

\* The document holds the depth of every agent with nothing left to be reported, and a
\* process that is gone has left no wake.
DepthsTold ==
  /\ ~Up => wakes = {} /\ due = {}
  /\ Up => \A a \in Agents \ due : doc.queued[a] = Depth(a)

\* No copy of the document, in memory, in the file or in what a power cut may leave of
\* it, holds a proof that was not earned.
EarnedIn(d) == d.proven \subseteq woken /\ d.accepted \subseteq heard
AllEarned == EarnedIn(doc) /\ EarnedIn(Parsed(disk)) /\ EarnedIn(Parsed(durable))

IInv == TypeOK /\ CfgIsBuilt /\ TempsCounted /\ MemoryIsAhead /\ DepthsTold /\ AllEarned

-----------------------------------------------------------------------------
(* What resolution and counting return.                                    *)

\* The first of a set of entries is one of them.
LEMMA FirstIsIn ==
  ASSUME ConfigAssumption, NEW S \in SUBSET Entries, S # {}
  PROVE  First(S) \in S
<1>1. \A e \in Entries : Pos(e) \in Nat
  <2> TAKE e \in Entries
  <2>1. \E i \in DOMAIN Order : Order[i] = e
    BY DEF ConfigAssumption
  <2>2. Pos(e) \in DOMAIN Order
    BY <2>1 DEF Pos
  <2>3. DOMAIN Order = 1..Len(Order) /\ Len(Order) \in Nat
    BY DEF ConfigAssumption
  <2> QED
    BY <2>2, <2>3
<1> DEFINE T == {Pos(e) : e \in S}
           Less == {p \in Nat \X Nat : p[1] < p[2]}
<1>2. T \subseteq Nat /\ T # {}
  BY <1>1
<1>3. IsWellFoundedOn(Less, Nat)
  BY NatLessThanWellFounded, Zenon DEF OpToRel
<1>4. PICK m \in T : \A n \in T : ~(<<n, m>> \in Less)
  <2> HIDE DEF T, Less
  <2> QED
    BY <1>2, <1>3, WFMin
<1>5. \A n \in T : m <= n
  <2> SUFFICES ASSUME NEW n \in T
               PROVE  m <= n
    OBVIOUS
  <2>1. n \in Nat /\ m \in Nat
    BY <1>2, <1>4
  <2>2. <<n, m>> \in Nat \X Nat /\ ~(<<n, m>> \in Less)
    BY <2>1, <1>4
  <2>3. ~(n < m)
    BY <2>2
  <2> HIDE DEF T
  <2> QED
    BY <2>1, <2>3
<1>6. \E e \in S : \A f \in S : Pos(e) <= Pos(f)
  BY <1>4, <1>5
<1> QED
  BY <1>6 DEF First

\* A recipient resolves to registered entries.
LEMMA ResolvesInside ==
  ASSUME ConfigAssumption, NEW reg \in SUBSET Entries, NEW by, NEW value
  PROVE  by \in {"repo", "recipient_uuid", "harness_key"} =>
           AgentForRecipient(reg, by, value) \subseteq Entries
<1> SUFFICES ASSUME by \in {"repo", "recipient_uuid", "harness_key"}
             PROVE  AgentForRecipient(reg, by, value) \subseteq Entries
  OBVIOUS
<1>1. CASE by = "repo"
  BY <1>1, Zenon DEF AgentForRecipient
<1>2. CASE by = "recipient_uuid"
  <2>1. AgentForRecipient(reg, by, value) = {e \in Harness(reg) : e.uuid = value}
    BY <1>2, Zenon DEF AgentForRecipient
  <2> QED
    BY <2>1 DEF Harness
<1>3. CASE by = "harness_key"
  <2> DEFINE S == {e \in reg : e.user = value}
  <2>1. S # {} => First(S) \in S
    BY FirstIsIn
  <2>2. AgentForRecipient(reg, by, value) =
          IF \E e \in reg : e.user = value THEN {First(S)} ELSE {}
    BY <1>3, Zenon DEF AgentForRecipient, Owner
  <2> QED
    BY <2>1, <2>2
<1> QED
  BY <1>1, <1>2, <1>3

\* A pending count is a number: there are finitely many wakes.
LEMMA DepthIsNat ==
  ASSUME ClaimsAssumption, wakes \subseteq Agents \X Routes, NEW a
  PROVE  Depth(a) \in Nat
<1>1. IsFiniteSet({e.user : e \in Entries})
  <2> DEFINE f == [e \in Entries |-> e.user]
  <2>1. IsFiniteSet({f[e] : e \in Entries})
    <3> f \in Surjection(Entries, {f[e] : e \in Entries})
      BY DEF Surjection
    <3> HIDE DEF f
    <3> QED
      BY FS_Surjection DEF ClaimsAssumption
  <2> QED
    BY <2>1
<1>2. IsFiniteSet(Agents)
  BY <1>1 DEF ClaimsAssumption, Users
<1>3. IsFiniteSet(Routes)
  <2>1. IsFiniteSet({}) /\ IsFiniteSet({} \cup {"github"})
    BY FS_EmptySet, FS_AddElement
  <2>2. IsFiniteSet({} \cup {"github"} \cup {"basecradle"})
    BY <2>1, FS_AddElement
  <2>3. IsFiniteSet({} \cup {"github"} \cup {"basecradle"} \cup {"probe"})
    BY <2>2, FS_AddElement
  <2>4. RouteNames = {} \cup {"github"} \cup {"basecradle"} \cup {"probe"}
    BY DEF RouteNames
  <2> QED
    BY <2>3, <2>4 DEF ClaimsAssumption
<1>4. IsFiniteSet(Agents \X Routes)
  BY <1>2, <1>3, FS_Product
<1>5. {w \in wakes : w[1] = a} \subseteq Agents \X Routes
  OBVIOUS
<1>6. IsFiniteSet({w \in wakes : w[1] = a})
  BY <1>4, <1>5, FS_Subset
<1> QED
  BY <1>6, FS_CardinalityType DEF Depth

\* The documents a step makes are documents: an empty one, one that was read, one whose
\* depths were zeroed.
LEMMA DocumentTypes ==
  /\ Blank \in Documents
  /\ \A d \in Documents \cup {Corrupt} : Parsed(d) \in Documents
  /\ \A d \in Documents : /\ DepthsZeroed(d) \in Documents
                          /\ DepthsZeroed(d).proven = d.proven
                          /\ DepthsZeroed(d).accepted = d.accepted
                          /\ \A a \in Agents : DepthsZeroed(d).queued[a] = 0
<1>1. Blank \in Documents
  BY DEF Blank, Documents
<1> QED
  BY <1>1 DEF Parsed, DepthsZeroed, Documents

\* A recorder's update keeps the types of the store.
LEMMA RecordTypes ==
  ASSUME StoreTypeOK, TempsCounted, NEW d \in Documents, Record(d)
  PROVE  StoreTypeOK' /\ TempsCounted'
BY DEF StoreTypeOK, TempsCounted, Record, Phases

\* A flush, a kill and a power cut keep the types of the store, and its temporary files
\* in count.
LEMMA StoreTypes ==
  ASSUME StoreAssumption, StoreTypeOK, TempsCounted,
         Boot \/ StoreStep \/ Kill \/ PowerCut
  PROVE  StoreTypeOK' /\ TempsCounted'
<1> USE DEF StoreTypeOK, TempsCounted, Phases
<1>1. CASE Boot
  <2>1. PICK kept \in 0..1, unreadable \in BOOLEAN :
          LET failed == kept + (IF unreadable THEN 1 ELSE 0)
              loaded == IF unreadable THEN Blank ELSE Parsed(disk)
          IN  /\ kept <= temps /\ faults + failed <= MaxFaults
              /\ faults' = faults + failed
              /\ temps' = kept /\ stuck' = kept
              /\ doc' = DepthsZeroed(loaded)
              /\ phase' = IF DepthsZeroed(loaded) = loaded THEN "idle" ELSE "write"
              /\ behind' = unreadable
              /\ reset' = (reset \/ unreadable)
    BY <1>1 DEF Boot
  <2>2. doc' \in Documents
    BY <2>1, DocumentTypes
  <2>3. faults' \in 0..MaxFaults /\ temps' \in Nat /\ stuck' \in Nat
    BY <2>1 DEF StoreAssumption
  <2>4. phase' \in {"idle", "write"} /\ behind' \in BOOLEAN /\ reset' \in BOOLEAN /\ temps' <= stuck'
    BY <2>1
  <2> QED
    BY <1>1, <2>2, <2>3, <2>4 DEF Boot
<1>2. CASE Write
  BY <1>2 DEF Write
<1>3. CASE Replace
  <2>1. temps' \in Nat /\ temps' <= stuck' /\ phase' = "idle"
    BY <1>3 DEF Replace
  <2>2. durable' \in Documents \cup {Corrupt} /\ disk' \in Documents \cup {Corrupt}
    BY <1>3 DEF Replace
  <2> QED
    BY <1>3, <2>1, <2>2 DEF Replace
<1>4. CASE FlushFails
  BY <1>4 DEF FlushFails, Unlink, StoreAssumption
<1>5. CASE Kill
  BY <1>5 DEF Kill
<1>6. CASE PowerCut
  BY <1>6 DEF PowerCut, StoreAssumption
<1> QED
  BY <1>1, <1>2, <1>3, <1>4, <1>5, <1>6 DEF StoreStep

\* An edited environment is an environment.
LEMMA EditTypes ==
  ASSUME ConfigAssumption, NEW e \in Envs, NEW f \in Edited(e)
  PROVE  f \in Envs
<1>1. \A v \in Vars : KeysUnder(v) \subseteq Keys
  BY DEF KeysUnder, Keys
<1>2. CASE f \in {[e EXCEPT !.registry = Toggled(@, x)] : x \in Entries}
  BY <1>2 DEF Toggled, Envs
<1>3. CASE f \in {[e EXCEPT !.routes = Toggled(@, r)] : r \in RouteNames \cup {"other"}}
  BY <1>3 DEF Toggled, Envs
<1>4. CASE f \in {[e EXCEPT !.secrets = Toggled(@, r)] : r \in RouteNames \cup {"other"}}
  BY <1>4 DEF Toggled, Envs
<1>5. CASE f \in {[e EXCEPT !.fallback = g] : g \in {"on", "off", "garbled"}}
  BY <1>5 DEF Envs
<1>6. CASE f \in UNION {{[e EXCEPT !.own[v] = k] : k \in KeysUnder(v) \cup {"unset", "blank"}} : v \in Vars}
  BY <1>1, <1>6 DEF Envs
<1>7. CASE f \in {[e EXCEPT !.actors = Toggled(@, x)] : x \in {"founder", "captain"}}
  BY <1>7 DEF Toggled, Envs
<1>8. CASE f \in {[e EXCEPT !.numbers = ~@]}
  BY <1>8 DEF Envs
<1> QED
  BY <1>2, <1>3, <1>4, <1>5, <1>6, <1>7, <1>8, Zenon DEF Edited

\* What the daemon built has registered entries and routes of the program only.
LEMMA BuiltTypes ==
  ASSUME CfgIsBuilt
  PROVE  cfg.registry \subseteq Entries /\ cfg.routes \subseteq RouteNames
BY DEF CfgIsBuilt, Built, Envs

\* Only the agents of registered entries are woken.
LEMMA WokenInside ==
  ASSUME ConfigAssumption, ClaimsAssumption, CfgIsBuilt, NEW r \in RouteNames, NEW to
  PROVE  {<<e.user, r>> : e \in WokenBy(cfg, r, to)} \subseteq Agents \X Routes
<1>1. cfg.registry \in SUBSET Entries
  BY BuiltTypes
<1>2. RecipientKind[r] \in {"repo", "recipient_uuid", "harness_key"}
  BY DEF RecipientKind, RouteNames
<1>3. WokenBy(cfg, r, to) \subseteq Entries
  BY <1>1, <1>2, ResolvesInside DEF WokenBy
<1> QED
  BY <1>3 DEF ClaimsAssumption, Users

-----------------------------------------------------------------------------
(* The invariant holds at first.                                           *)

\* A box on which the daemon has never run (Init).
LEMMA InitIInv ==
  ASSUME StoreAssumption, ClaimsAssumption
  PROVE  Init => IInv
<1> SUFFICES ASSUME Init
             PROVE  IInv
  OBVIOUS
<1> USE DEF Init, StoreInit
<1>1. TypeOK
  <2>1. StoreTypeOK
    <3>1. doc \in Documents /\ disk \in Documents /\ durable \in Documents
      BY DocumentTypes
    <3>2. temps \in Nat /\ stuck \in Nat /\ faults \in 0..MaxFaults
      BY DEF StoreAssumption
    <3>3. phase \in Phases /\ behind \in BOOLEAN /\ reset \in BOOLEAN
      BY DEF Phases
    <3> QED
      BY <3>1, <3>2, <3>3 DEF StoreTypeOK
  <2>2. env \in Envs /\ inputs \in 0..MaxInputs /\ boots \in 0..MaxBoots
    BY DEF ClaimsAssumption
  <2> QED
    BY <2>1, <2>2 DEF TypeOK
<1>2. CfgIsBuilt
  BY DEF CfgIsBuilt, Up, ClaimsAssumption
<1>3. TempsCounted /\ MemoryIsAhead /\ DepthsTold
  BY DEF TempsCounted, MemoryIsAhead, DepthsTold, Up
<1>4. AllEarned
  BY DEF AllEarned, EarnedIn, Parsed, Blank
<1> QED
  BY <1>1, <1>2, <1>3, <1>4 DEF IInv

-----------------------------------------------------------------------------
(* Every step preserves it, part by part.                                  *)

\* The types, and the temporary files.
LEMMA TypesStep ==
  ASSUME StoreAssumption, ConfigAssumption, ClaimsAssumption, IInv, [Next]_vars
  PROVE  TypeOK' /\ TempsCounted'
<1> USE DEF IInv
<1>0. StoreTypeOK
  BY DEF TypeOK
<1>1. CASE Edit
  <2>1. env' \in Envs
    BY <1>1, EditTypes DEF Edit, TypeOK
  <2>2. inputs' \in 0..MaxInputs
    BY <1>1 DEF Edit, TypeOK, ClaimsAssumption
  <2> QED
    BY <1>1, <2>1, <2>2 DEF Edit, TypeOK, StoreTypeOK, TempsCounted, storeVars
<1>2. CASE Start
  <2>1. StoreTypeOK' /\ TempsCounted'
    BY <1>0, <1>2, StoreTypes DEF Start
  <2>2. boots' \in 0..MaxBoots
    BY <1>2 DEF Start, TypeOK, ClaimsAssumption
  <2> QED
    BY <1>2, <2>1, <2>2 DEF Start, TypeOK
<1>3. ASSUME NEW r \in RouteNames, NEW to \in Recipients(r), NEW key \in KeysFor(r),
             Receive(r, to, key)
      PROVE  TypeOK' /\ TempsCounted'
  <2>1. inputs' \in 0..MaxInputs
    BY <1>3 DEF Receive, TypeOK, ClaimsAssumption
  <2>2. CASE key \in VerifyingKeys(cfg, r, to)
    <3> DEFINE new == {<<e.user, r>> : e \in WokenBy(cfg, r, to)}
               d == [doc EXCEPT !.accepted = @ \cup {r}]
    <3>1. Record(d) /\ wakes' = wakes \cup new /\ due' = due \cup {w[1] : w \in new}
            /\ heard' = heard \cup {r}
      BY <1>3, <2>2 DEF Receive, RecordDeliveryAccepted
    <3>2. d \in Documents
      BY <1>0 DEF StoreTypeOK, Documents, ClaimsAssumption
    <3>3. StoreTypeOK' /\ TempsCounted'
      <4> HIDE DEF d
      <4> QED
        BY <1>0, <3>1, <3>2, RecordTypes
    <3>4. new \subseteq Agents \X Routes
      BY WokenInside
    <3>5. wakes' \subseteq Agents \X Routes /\ due' \subseteq Agents
      <4> HIDE DEF new
      <4> QED
        BY <3>1, <3>4 DEF TypeOK
    <3>6. heard' \subseteq Routes
      BY <3>1 DEF TypeOK, ClaimsAssumption
    <3> QED
      BY <1>3, <2>1, <3>3, <3>5, <3>6 DEF Receive, TypeOK
  <2>3. CASE key \notin VerifyingKeys(cfg, r, to)
    <3>1. Record(doc) /\ UNCHANGED <<wakes, due, heard>>
      BY <1>3, <2>3 DEF Receive, RecordOther
    <3>2. StoreTypeOK' /\ TempsCounted'
      BY <1>0, <3>1, RecordTypes DEF StoreTypeOK
    <3> QED
      BY <1>3, <2>1, <3>1, <3>2 DEF Receive, TypeOK
  <2> QED
    BY <2>2, <2>3
<1>4. ASSUME NEW a \in Agents, Report(a)
      PROVE  TypeOK' /\ TempsCounted'
  <2>1. Depth(a) \in Nat
    BY DepthIsNat DEF TypeOK
  <2>2. [doc EXCEPT !.queued[a] = Depth(a)] \in Documents
    BY <1>0, <2>1 DEF StoreTypeOK, Documents
  <2>3. StoreTypeOK' /\ TempsCounted'
    <3>1. CASE doc.queued[a] = Depth(a)
      BY <1>0, <1>4, <3>1 DEF Report, RecordQueueDepth, storeVars, StoreTypeOK, TempsCounted
    <3>2. CASE doc.queued[a] # Depth(a)
      <4>1. Record([doc EXCEPT !.queued[a] = Depth(a)])
        BY <1>4, <3>2 DEF Report, RecordQueueDepth
      <4> QED
        BY <1>0, <2>2, <4>1, RecordTypes
    <3> QED
      BY <3>1, <3>2
  <2> QED
    BY <1>4, <2>3 DEF Report, TypeOK
<1>5. ASSUME NEW w \in wakes, WakeOk(w)
      PROVE  TypeOK' /\ TempsCounted'
  <2>1. w \in Agents \X Routes /\ <<w[1], w[2]>> = w
    BY DEF TypeOK
  <2>2. [doc EXCEPT !.proven = @ \cup {<<w[1], w[2]>>}] \in Documents
    BY <1>0, <2>1 DEF StoreTypeOK, Documents
  <2>3. StoreTypeOK' /\ TempsCounted'
    BY <1>0, <1>5, <2>2, RecordTypes DEF WakeOk, RecordWakeOk
  <2> QED
    BY <1>5, <2>1, <2>3 DEF WakeOk, Ended, TypeOK
<1>6. ASSUME NEW w \in wakes, WakeNot(w) \/ WakeUntold(w)
      PROVE  TypeOK' /\ TempsCounted'
  <2>1. w \in Agents \X Routes
    BY DEF TypeOK
  <2>2. CASE WakeNot(w)
    <3>1. StoreTypeOK' /\ TempsCounted'
      BY <1>0, <2>2, RecordTypes DEF WakeNot, RecordOther, StoreTypeOK
    <3> QED
      BY <2>1, <2>2, <3>1 DEF WakeNot, Ended, TypeOK
  <2>3. CASE WakeUntold(w)
    <3>1. StoreTypeOK' /\ TempsCounted'
      BY <1>0, <2>3 DEF WakeUntold, storeVars, StoreTypeOK, TempsCounted
    <3> QED
      BY <2>1, <2>3, <3>1 DEF WakeUntold, Ended, TypeOK
  <2> QED
    BY <1>6, <2>2, <2>3
<1>7. CASE StoreStep /\ UNCHANGED boxVars
  BY <1>0, <1>7, StoreTypes DEF boxVars, TypeOK
<1>8. CASE (Kill \/ PowerCut) /\ Gone
  <2>1. StoreTypeOK' /\ TempsCounted'
    BY <1>0, <1>8, StoreTypes
  <2> QED
    BY <1>8, <2>1 DEF Gone, TypeOK
<1>9. CASE UNCHANGED vars
  BY <1>9 DEF vars, storeVars, boxVars, TypeOK, StoreTypeOK, TempsCounted
<1> QED
  BY <1>1, <1>2, <1>3, <1>4, <1>5, <1>6, <1>7, <1>8, <1>9 DEF Next

\* The configuration: a daemon boots from a sensible environment that loads.
LEMMA CfgStep ==
  ASSUME IInv, [Next]_vars
  PROVE  CfgIsBuilt'
<1> USE DEF IInv
<1>1. CASE Edit
  BY <1>1 DEF Edit, CfgIsBuilt, storeVars, Up
<1>2. CASE Start
  <2>1. cfg' = Built(env) /\ Loads(env) /\ UNCHANGED env
    BY <1>2 DEF Start, Boots
  <2>2. Sensible(env) /\ env \in Envs
    BY DEF CfgIsBuilt, TypeOK
  <2> QED
    BY <2>1, <2>2 DEF CfgIsBuilt
<1>3. CASE UNCHANGED <<env, cfg>> /\ (Up' => Up)
  BY <1>3 DEF CfgIsBuilt
<1>4. ASSUME NEW r \in RouteNames, NEW to \in Recipients(r), NEW key \in KeysFor(r),
             Receive(r, to, key)
      PROVE  UNCHANGED <<env, cfg>> /\ (Up' => Up)
  BY <1>4 DEF Receive
<1>5. ASSUME NEW a \in Agents, Report(a)
      PROVE  UNCHANGED <<env, cfg>> /\ (Up' => Up)
  BY <1>5 DEF Report
<1>6. ASSUME NEW w \in wakes, WakeOk(w) \/ WakeNot(w) \/ WakeUntold(w)
      PROVE  UNCHANGED <<env, cfg>> /\ (Up' => Up)
  BY <1>6 DEF WakeOk, WakeNot, WakeUntold, Ended
<1>7. CASE StoreStep /\ UNCHANGED boxVars
  <2>1. Up
    BY <1>7 DEF StoreStep, Write, Replace, FlushFails, Up
  <2> QED
    BY <1>3, <1>7, <2>1 DEF boxVars
<1>8. CASE (Kill \/ PowerCut) /\ Gone
  <2>1. ~Up'
    BY <1>8 DEF Kill, PowerCut, Up
  <2> QED
    BY <1>3, <1>8, <2>1 DEF Gone
<1>9. CASE UNCHANGED vars
  BY <1>3, <1>9 DEF vars, boxVars, storeVars, Up
<1> QED
  BY <1>1, <1>2, <1>3, <1>4, <1>5, <1>6, <1>7, <1>8, <1>9 DEF Next

\* A document that is recorded has what the one before it had.
LEMMA RecordAhead ==
  ASSUME TypeOK, MemoryIsAhead, NEW d \in Documents, Record(d),
         doc.proven \subseteq d.proven, doc.accepted \subseteq d.accepted
  PROVE  MemoryIsAhead'
BY DEF MemoryIsAhead, Record, Up, Parsed

\* Memory and file.
LEMMA AheadStep ==
  ASSUME StoreAssumption, CorruptAssumption, ConfigAssumption, ClaimsAssumption, IInv, [Next]_vars
  PROVE  MemoryIsAhead'
<1> USE DEF IInv
<1>0. TypeOK'
  BY TypesStep
<1>1. CASE Edit \/ UNCHANGED vars
  BY <1>1 DEF Edit, vars, storeVars, MemoryIsAhead, Up, Parsed
<1>2. CASE Start
  <2>1. PICK kept \in 0..1, unreadable \in BOOLEAN :
          LET loaded == IF unreadable THEN Blank ELSE Parsed(disk)
          IN  /\ doc' = DepthsZeroed(loaded)
              /\ phase' = IF DepthsZeroed(loaded) = loaded THEN "idle" ELSE "write"
              /\ behind' = unreadable
              /\ reset' = (reset \/ unreadable)
    BY <1>2 DEF Start, Boot
  <2>2. UNCHANGED disk
    BY <1>2 DEF Start, Boot
  <2>3. CASE unreadable
    BY <2>1, <2>3 DEF MemoryIsAhead
  <2>4. CASE ~unreadable
    <3>1. doc' = DepthsZeroed(Parsed(disk))
            /\ phase' = IF DepthsZeroed(Parsed(disk)) = Parsed(disk) THEN "idle" ELSE "write"
      BY <2>1, <2>4
    <3>2. Parsed(disk) \in Documents
      BY DocumentTypes DEF TypeOK, StoreTypeOK
    <3>3. Parsed(disk') = Parsed(disk)
      BY <2>2 DEF Parsed
    <3> QED
      BY <3>1, <3>2, <3>3, DocumentTypes DEF MemoryIsAhead
  <2> QED
    BY <2>3, <2>4
<1>3. ASSUME NEW r \in RouteNames, NEW to \in Recipients(r), NEW key \in KeysFor(r),
             Receive(r, to, key)
      PROVE  MemoryIsAhead'
  <2> DEFINE d == [doc EXCEPT !.accepted = @ \cup {r}]
  <2>1. Record(d) \/ Record(doc)
    BY <1>3 DEF Receive, RecordDeliveryAccepted, RecordOther
  <2>2. doc \in Documents
    BY DEF TypeOK, StoreTypeOK
  <2>3. d \in Documents /\ doc.proven \subseteq d.proven /\ doc.accepted \subseteq d.accepted
    BY <2>2 DEF Documents, ClaimsAssumption
  <2> HIDE DEF d
  <2> QED
    BY <2>1, <2>2, <2>3, RecordAhead
<1>4. ASSUME NEW a \in Agents, Report(a)
      PROVE  MemoryIsAhead'
  <2> DEFINE d == [doc EXCEPT !.queued[a] = Depth(a)]
  <2>1. CASE doc.queued[a] = Depth(a)
    BY <1>4, <2>1 DEF Report, RecordQueueDepth, storeVars, MemoryIsAhead, Up, Parsed
  <2>2. CASE doc.queued[a] # Depth(a)
    <3>1. Record(d)
      BY <1>4, <2>2 DEF Report, RecordQueueDepth
    <3>2. Depth(a) \in Nat
      BY DepthIsNat DEF TypeOK
    <3>3. d \in Documents /\ doc.proven \subseteq d.proven /\ doc.accepted \subseteq d.accepted
      BY <3>2 DEF Documents, TypeOK, StoreTypeOK
    <3> HIDE DEF d
    <3> QED
      BY <3>1, <3>3, RecordAhead
  <2> QED
    BY <2>1, <2>2
<1>5. ASSUME NEW w \in wakes, WakeOk(w) \/ WakeNot(w)
      PROVE  MemoryIsAhead'
  <2> DEFINE d == [doc EXCEPT !.proven = @ \cup {<<w[1], w[2]>>}]
  <2>1. Record(d) \/ Record(doc)
    BY <1>5 DEF WakeOk, WakeNot, RecordWakeOk, RecordOther
  <2>2. doc \in Documents /\ <<w[1], w[2]>> \in Agents \X Routes
    BY DEF TypeOK, StoreTypeOK
  <2>3. d \in Documents /\ doc.proven \subseteq d.proven /\ doc.accepted \subseteq d.accepted
    BY <2>2 DEF Documents
  <2> HIDE DEF d
  <2> QED
    BY <2>1, <2>2, <2>3, RecordAhead
<1>6. CASE StoreStep
  <2>1. CASE Write
    BY <2>1 DEF Write, MemoryIsAhead, Up, Parsed
  <2>2. CASE Replace
    <3>1. doc # Corrupt
      BY CorruptAssumption DEF TypeOK, StoreTypeOK
    <3>2. Parsed(disk') = doc'
      BY <2>2, <3>1 DEF Replace, Parsed
    <3> QED
      BY <3>2 DEF MemoryIsAhead
  <2>3. CASE FlushFails
    BY <2>3 DEF FlushFails, MemoryIsAhead, Up, Parsed
  <2> QED
    BY <1>6, <2>1, <2>2, <2>3 DEF StoreStep
<1>7. CASE Kill \/ PowerCut
  BY <1>7 DEF Kill, PowerCut, MemoryIsAhead, Up
<1>8. ASSUME NEW w \in wakes, WakeUntold(w)
      PROVE  MemoryIsAhead'
  BY <1>8 DEF WakeUntold, storeVars, MemoryIsAhead, Up
<1> QED
  BY <1>1, <1>2, <1>3, <1>4, <1>5, <1>6, <1>7, <1>8 DEF Next

\* The depths.
LEMMA DepthsStep ==
  ASSUME ConfigAssumption, ClaimsAssumption, IInv, [Next]_vars
  PROVE  DepthsTold'
<1> USE DEF IInv
<1>1. CASE UNCHANGED <<doc, wakes, due>> /\ Up' = Up
  BY <1>1 DEF DepthsTold, Depth
<1>2. CASE Start
  <2>1. Up' /\ \A a \in Agents : doc'.queued[a] = 0
    <3>1. PICK d \in {Blank, Parsed(disk)} :
            doc' = DepthsZeroed(d) /\ phase' \in {"idle", "write"}
      BY <1>2 DEF Start, Boot
    <3>2. d \in Documents
      BY <3>1, DocumentTypes DEF TypeOK, StoreTypeOK
    <3> QED
      BY <3>1, <3>2, DocumentTypes DEF Up
  <2>2. wakes' = {} /\ due' = {}
    BY <1>2 DEF Start, Boot, DepthsTold, Up
  <2>3. \A a \in Agents : Depth(a)' = 0
    <3> TAKE a \in Agents
    <3>1. {w \in wakes' : w[1] = a} = {}
      BY <2>2
    <3> QED
      BY <3>1, FS_EmptySet DEF Depth
  <2> QED
    BY <2>1, <2>3 DEF DepthsTold
<1>3. ASSUME NEW r \in RouteNames, NEW to \in Recipients(r), NEW key \in KeysFor(r),
             Receive(r, to, key)
      PROVE  DepthsTold'
  <2>1. CASE key \in VerifyingKeys(cfg, r, to)
    <3>1. PICK new \in {{<<e.user, r>> : e \in WokenBy(cfg, r, to)}} :
            /\ RecordDeliveryAccepted(r)
            /\ wakes' = wakes \cup new
            /\ due' = due \cup {w[1] : w \in new}
      BY <1>3, <2>1 DEF Receive
    <3>2. Up /\ Up' /\ doc'.queued = doc.queued
      BY <3>1, <1>3 DEF Receive, RecordDeliveryAccepted, Record, Up, TypeOK, StoreTypeOK, Documents
    <3>3. ASSUME NEW a \in Agents \ due'
          PROVE  doc'.queued[a] = Depth(a)'
      <4>1. a \notin due /\ \A w \in new : w[1] # a
        BY <3>1, <3>3
      <4>2. {w \in wakes' : w[1] = a} = {w \in wakes : w[1] = a}
        BY <3>1, <4>1
      <4> QED
        BY <3>2, <4>1, <4>2 DEF DepthsTold, Depth
    <3> QED
      BY <3>2, <3>3 DEF DepthsTold
  <2>2. CASE key \notin VerifyingKeys(cfg, r, to)
    <3>1. UNCHANGED <<doc, wakes, due>> /\ Up' = Up
      BY <1>3, <2>2 DEF Receive, RecordOther, Record, Up
    <3> QED
      BY <1>1, <3>1
  <2> QED
    BY <2>1, <2>2
<1>4. ASSUME NEW a \in Agents, Report(a)
      PROVE  DepthsTold'
  <2>1. Up /\ UNCHANGED wakes /\ due' = due \ {a}
    BY <1>4 DEF Report
  <2>2. Up'
    BY <1>4 DEF Report, RecordQueueDepth, Record, storeVars, Up
  <2>3. doc'.queued[a] = Depth(a) /\ \A b \in Agents \ {a} : doc'.queued[b] = doc.queued[b]
    <3>1. doc \in Documents
      BY DEF TypeOK, StoreTypeOK
    <3>2. CASE doc.queued[a] = Depth(a)
      BY <1>4, <3>2 DEF Report, RecordQueueDepth, storeVars
    <3>3. CASE doc.queued[a] # Depth(a)
      <4>1. doc' = [doc EXCEPT !.queued[a] = Depth(a)]
        BY <1>4, <3>3 DEF Report, RecordQueueDepth, Record
      <4> QED
        BY <3>1, <4>1 DEF Documents
    <3> QED
      BY <3>2, <3>3
  <2>4. \A b \in Agents : Depth(b)' = Depth(b)
    BY <2>1 DEF Depth
  <2> QED
    BY <2>1, <2>2, <2>3, <2>4 DEF DepthsTold
<1>5. ASSUME NEW v \in wakes, WakeOk(v) \/ WakeNot(v) \/ WakeUntold(v)
      PROVE  DepthsTold'
  <2>1. Up /\ wakes' = wakes \ {v} /\ due' = due \cup {v[1]}
    BY <1>5 DEF WakeOk, WakeNot, WakeUntold, Ended
  <2>2. Up' /\ doc'.queued = doc.queued
    <3>1. CASE WakeOk(v) \/ WakeNot(v)
      BY <3>1 DEF WakeOk, WakeNot, RecordWakeOk, RecordOther, Record, Up, TypeOK, StoreTypeOK,
                  Documents
    <3>2. CASE WakeUntold(v)
      BY <2>1, <3>2 DEF WakeUntold, storeVars, Up
    <3> QED
      BY <1>5, <3>1, <3>2
  <2>3. ASSUME NEW a \in Agents \ due'
        PROVE  doc'.queued[a] = Depth(a)'
    <3>1. a \notin due /\ v[1] # a
      BY <2>1, <2>3
    <3>2. {w \in wakes' : w[1] = a} = {w \in wakes : w[1] = a}
      BY <2>1, <3>1
    <3> QED
      BY <2>1, <2>2, <3>1, <3>2 DEF DepthsTold, Depth
  <2> QED
    BY <2>2, <2>3 DEF DepthsTold
<1>6. CASE StoreStep /\ UNCHANGED boxVars
  <2>1. UNCHANGED <<doc, wakes, due>> /\ Up' = Up
    BY <1>6 DEF StoreStep, Write, Replace, FlushFails, boxVars, Up
  <2> QED
    BY <1>1, <2>1
<1>7. CASE (Kill \/ PowerCut) /\ Gone
  BY <1>7 DEF Kill, PowerCut, Gone, DepthsTold, Up
<1>8. CASE Edit \/ UNCHANGED vars
  <2>1. UNCHANGED <<doc, wakes, due>> /\ Up' = Up
    BY <1>8 DEF Edit, vars, storeVars, boxVars, Up
  <2> QED
    BY <1>1, <2>1
<1> QED
  BY <1>2, <1>3, <1>4, <1>5, <1>6, <1>7, <1>8 DEF Next

\* A document that was earned stays earned, since the histories only grow.
LEMMA EarnedStep ==
  ASSUME ConfigAssumption, ClaimsAssumption, CorruptAssumption, IInv, [Next]_vars
  PROVE  AllEarned'
<1> USE DEF IInv
<1>1. EarnedIn(Blank) /\ EarnedIn(doc) /\ EarnedIn(Parsed(disk)) /\ EarnedIn(Parsed(durable))
  BY DEF AllEarned, EarnedIn, Blank
<1>2. CASE UNCHANGED <<doc, disk, durable>> /\ woken \subseteq woken' /\ heard \subseteq heard'
  BY <1>1, <1>2 DEF AllEarned, EarnedIn, Parsed
<1>3. CASE Start
  <2>1. PICK d \in {Blank, Parsed(disk)} : doc' = DepthsZeroed(d)
    BY <1>3 DEF Start, Boot
  <2>2. d \in Documents
    BY <2>1, DocumentTypes DEF TypeOK, StoreTypeOK
  <2>3. UNCHANGED <<disk, durable, woken, heard>>
    BY <1>3 DEF Start, Boot
  <2> QED
    BY <1>1, <2>1, <2>2, <2>3, DocumentTypes DEF AllEarned, EarnedIn, Parsed
<1>4. ASSUME NEW r \in RouteNames, NEW to \in Recipients(r), NEW key \in KeysFor(r),
             Receive(r, to, key)
      PROVE  AllEarned'
  <2>1. UNCHANGED <<disk, durable, woken>>
    BY <1>4 DEF Receive, RecordDeliveryAccepted, RecordOther, Record
  <2>2. CASE key \in VerifyingKeys(cfg, r, to)
    <3>1. doc' = [doc EXCEPT !.accepted = @ \cup {r}] /\ heard' = heard \cup {r}
      BY <1>4, <2>2 DEF Receive, RecordDeliveryAccepted, Record
    <3>2. doc \in Documents
      BY DEF TypeOK, StoreTypeOK
    <3> QED
      BY <1>1, <2>1, <3>1, <3>2 DEF AllEarned, EarnedIn, Parsed, Documents
  <2>3. CASE key \notin VerifyingKeys(cfg, r, to)
    <3>1. UNCHANGED <<doc, heard>>
      BY <1>4, <2>3 DEF Receive, RecordOther, Record
    <3> QED
      BY <1>2, <2>1, <3>1
  <2> QED
    BY <2>2, <2>3
<1>5. ASSUME NEW a \in Agents, Report(a)
      PROVE  AllEarned'
  <2>1. UNCHANGED <<disk, durable, woken, heard>>
    BY <1>5 DEF Report, RecordQueueDepth, Record, storeVars
  <2>2. doc \in Documents
    BY DEF TypeOK, StoreTypeOK
  <2>3. doc' = doc \/ doc' = [doc EXCEPT !.queued[a] = Depth(a)]
    BY <1>5 DEF Report, RecordQueueDepth, Record, storeVars
  <2>4. doc'.proven = doc.proven /\ doc'.accepted = doc.accepted
    BY <2>2, <2>3 DEF Documents
  <2> QED
    BY <1>1, <2>1, <2>4 DEF AllEarned, EarnedIn, Parsed
<1>6. ASSUME NEW w \in wakes, WakeOk(w)
      PROVE  AllEarned'
  <2>1. UNCHANGED <<disk, durable, heard>> /\ woken' = woken \cup {w}
    BY <1>6 DEF WakeOk, Ended, RecordWakeOk, Record
  <2>2. doc' = [doc EXCEPT !.proven = @ \cup {<<w[1], w[2]>>}]
    BY <1>6 DEF WakeOk, RecordWakeOk, Record
  <2>3. doc \in Documents /\ <<w[1], w[2]>> = w
    BY DEF TypeOK, StoreTypeOK
  <2>4. doc'.proven = doc.proven \cup {w} /\ doc'.accepted = doc.accepted
    BY <2>2, <2>3 DEF Documents
  <2> QED
    BY <1>1, <2>1, <2>4 DEF AllEarned, EarnedIn, Parsed
<1>7. ASSUME NEW w \in wakes, WakeNot(w) \/ WakeUntold(w)
      PROVE  AllEarned'
  BY <1>2, <1>7 DEF WakeNot, WakeUntold, Ended, RecordOther, Record, storeVars
<1>8. CASE StoreStep /\ UNCHANGED boxVars
  <2>1. UNCHANGED <<doc, woken, heard>>
    BY <1>8 DEF StoreStep, Write, Replace, FlushFails, boxVars
  <2>2. CASE Replace
    <3>1. Parsed(doc) = doc
      BY CorruptAssumption DEF TypeOK, StoreTypeOK, Parsed
    <3>2. disk' = doc /\ durable' \in {durable, disk}
      BY <2>2 DEF Replace
    <3> QED
      BY <1>1, <2>1, <3>1, <3>2 DEF AllEarned, EarnedIn, Parsed
  <2>3. CASE Write \/ FlushFails
    <3>1. UNCHANGED <<disk, durable>>
      BY <2>3 DEF Write, FlushFails
    <3> QED
      BY <1>2, <2>1, <3>1
  <2> QED
    BY <1>8, <2>2, <2>3 DEF StoreStep
<1>9. CASE (Kill \/ PowerCut) /\ Gone
  <2>1. UNCHANGED <<doc, woken, heard>>
    BY <1>9 DEF Kill, PowerCut, Gone
  <2>2. disk' \in {disk, durable, Corrupt} /\ durable' \in {disk, durable, Corrupt}
    BY <1>9 DEF Kill, PowerCut
  <2> QED
    BY <1>1, <2>1, <2>2 DEF AllEarned, EarnedIn, Parsed
<1>10. CASE Edit \/ UNCHANGED vars
  BY <1>2, <1>10 DEF Edit, vars, storeVars, boxVars
<1> QED
  BY <1>3, <1>4, <1>5, <1>6, <1>7, <1>8, <1>9, <1>10 DEF Next

\* The invariant.
LEMMA Invariance ==
  ASSUME StoreAssumption, CorruptAssumption, ConfigAssumption, ClaimsAssumption
  PROVE  Spec => []IInv
<1>1. Init => IInv
  BY InitIInv
<1>2. IInv /\ [Next]_vars => IInv'
  <2> SUFFICES ASSUME IInv, [Next]_vars
               PROVE  IInv'
    OBVIOUS
  <2> QED
    BY TypesStep, CfgStep, AheadStep, DepthsStep, EarnedStep DEF IInv
<1> QED
  BY <1>1, <1>2, PTL DEF Spec

-----------------------------------------------------------------------------
(* What follows from it.                                                   *)

\* Every variable of the box keeps its type.
THEOREM TypeCorrect == Spec => []TypeOK
<1>1. IInv => TypeOK
  BY DEF IInv
<1> QED
  BY <1>1, Invariance, StoreAssumption, CorruptAssumption, ConfigAssumption, ClaimsAssumption, PTL

\* Between flushes the file shows what the process has proven and its true depths, and
\* no temporary file is left but those that nobody could unlink.
THEOREM FileSettles == Spec => []FlushedMeansSettled
<1>1. IInv => FlushedMeansSettled
  <2> SUFFICES ASSUME IInv, phase = "idle"
               PROVE  /\ temps <= stuck
                      /\ ~behind => /\ seen.proven = doc.proven /\ seen.accepted = doc.accepted
                                    /\ \A a \in Agents \ due : QueuedEdge(a) = Depth(a)
    BY DEF FlushedMeansSettled
  <2>1. temps <= stuck
    BY DEF IInv, TempsCounted
  <2>2. ~behind => seen = doc
    BY DEF IInv, MemoryIsAhead, seen
  <2>3. \A a \in Agents \ due : doc.queued[a] = Depth(a)
    BY DEF IInv, DepthsTold, Up
  <2> QED
    BY <2>1, <2>2, <2>3 DEF QueuedEdge
<1> QED
  BY <1>1, Invariance, StoreAssumption, CorruptAssumption, ConfigAssumption, ClaimsAssumption, PTL

\* A claim of the manifest was earned by a session of that route, or a delivery.
THEOREM ClaimsAreEarned == Spec => []ClaimIsEarned
<1>1. IInv => ClaimIsEarned
  <2> SUFFICES ASSUME IInv
               PROVE  ClaimIsEarned
    OBVIOUS
  <2>1. seen.proven \subseteq woken /\ seen.accepted \subseteq heard
    BY DEF IInv, AllEarned, EarnedIn, seen
  <2> QED
    BY <2>1 DEF ClaimIsEarned, AgentProof, RouteProof, SinkProof
<1> QED
  BY <1>1, Invariance, StoreAssumption, CorruptAssumption, ConfigAssumption, ClaimsAssumption, PTL

\* No step loses what the file proves, but one that resets the document.
THEOREM ProofsAreKept == Spec => ProofKept
<1> DEFINE Kept == reset' \/ /\ Parsed(disk).proven \subseteq Parsed(disk').proven
                             /\ Parsed(disk).accepted \subseteq Parsed(disk').accepted
<1>1. IInv /\ [Next]_vars => [Kept]_<<disk, reset>>
  <2> SUFFICES ASSUME IInv, [Next]_vars
               PROVE  Kept \/ UNCHANGED <<disk, reset>>
    OBVIOUS
  <2>1. CASE UNCHANGED disk
    BY <2>1 DEF Parsed
  <2>2. CASE Replace
    <3>1. Parsed(doc) = doc
      BY CorruptAssumption DEF IInv, TypeOK, StoreTypeOK, Parsed
    <3>2. disk' = doc /\ reset' = reset /\ Up
      BY <2>2 DEF Replace, Up
    <3>3. Parsed(disk') = doc
      BY <3>1, <3>2 DEF Parsed
    <3> QED
      BY <3>2, <3>3 DEF IInv, MemoryIsAhead
  <2>3. CASE PowerCut
    BY <2>3 DEF PowerCut, Parsed
  <2>4. CASE Next /\ ~Replace /\ ~PowerCut
    <3>1. UNCHANGED disk
      BY <2>4 DEF Next, Edit, Start, Boot, Receive, Report, WakeOk, WakeNot, WakeUntold, Ended,
                  StoreStep, Write, FlushFails, Kill, RecordWakeOk, RecordDeliveryAccepted, RecordOther,
                  RecordQueueDepth, Record, storeVars
    <3> QED
      BY <2>1, <3>1
  <2>5. CASE UNCHANGED vars
    BY <2>5 DEF vars, storeVars
  <2> QED
    BY <2>2, <2>3, <2>4, <2>5
<1>2. Spec => []IInv
  BY Invariance, StoreAssumption, CorruptAssumption, ConfigAssumption, ClaimsAssumption
<1> QED
  BY <1>1, <1>2, PTL DEF Spec, ProofKept

\* The key the daemon holds for an agent is that agent's own.
LEMMA KeyringIsOwn ==
  ASSUME ConfigAssumption, NEW e \in Envs, Sensible(e), Loads(e), "basecradle" \in e.routes,
         NEW x \in Uuids, ByRecipient(e)[x] # "unset"
  PROVE  \E a \in Harness(e.registry) : a.uuid = x /\ ByRecipient(e)[x] = a.key
<1> DEFINE Has(a) == a.uuid = x /\ Provisioned(e, a)
           a == CHOOSE b \in Harness(e.registry) : Has(b)
<1>1. ByRecipient(e)[x] = IF \E b \in Harness(e.registry) : Has(b) THEN e.own[a.var] ELSE "unset"
  BY DEF ByRecipient
<1>2. \E b \in Harness(e.registry) : Has(b)
  BY <1>1
<1>3. a \in Harness(e.registry) /\ a.uuid = x /\ Provisioned(e, a)
  BY <1>2
<1>4. ByRecipient(e)[x] = e.own[a.var]
  BY <1>1, <1>2
<1> HIDE DEF a
<1>5. e.registry \subseteq Entries /\ e.own \in [Vars -> Keys \cup {"unset", "blank"}]
  BY DEF Envs
<1>6. a \in Entries /\ a.kind = "harness" /\ a.var \in Vars
  BY <1>3, <1>5 DEF Harness, ConfigAssumption
<1>7. e.own[a.var] \in Keys
  BY <1>3, <1>5, <1>6 DEF Provisioned
<1> DEFINE readers == {y.key : y \in {z \in Harness(e.registry) : z.var = a.var}}
<1>8. a.key \in readers
  BY <1>3
<1>9. e.own[a.var] \in readers
  <2>1. e.own[a.var] \in Keys /\ readers # {} => e.own[a.var] \in readers
    BY <1>6 DEF Sensible
  <2> QED
    BY <1>7, <1>8, <2>1
<1>10. PICK y \in Harness(e.registry) : y.var = a.var /\ e.own[a.var] = y.key
  BY <1>9
<1>11. DistinctVars(e.registry)
  BY DEF Loads, KeyringLoads
<1>12. y = a
  BY <1>3, <1>10, <1>11 DEF DistinctVars
<1> QED
  BY <1>3, <1>4, <1>10, <1>12

\* No key verifies a delivery to an agent but its own, or the shared one where it has
\* none and the fallback is armed.
THEOREM KeysAreOwn == Spec => []OwnKeyOnly
<1>1. ASSUME ConfigAssumption, IInv
      PROVE  OwnKeyOnly
  <2> SUFFICES ASSUME Up, "basecradle" \in cfg.routes
               PROVE  /\ \A a \in Harness(cfg.registry) : \A k \in Select(cfg, a.uuid) :
                           k = a.key \/ (k = "basecradle" /\ cfg.keyring[a.uuid] = "unset")
                      /\ ~cfg.fallback => \A to \in Recipients("basecradle") :
                           "basecradle" \notin Select(cfg, to)
    BY DEF OwnKeyOnly
  <2>1. PICK e \in Envs : cfg = Built(e) /\ Sensible(e) /\ Loads(e)
    BY <1>1 DEF IInv, CfgIsBuilt
  <2>2. "basecradle" \in e.routes /\ cfg.registry = e.registry /\ cfg.keyring = ByRecipient(e)
    BY <2>1 DEF Built
  <2>3. \A x \in Uuids : cfg.keyring[x] # "unset" =>
          \E b \in Harness(e.registry) : b.uuid = x /\ cfg.keyring[x] = b.key
    BY <1>1, <2>1, <2>2, KeyringIsOwn
  <2>4. e.registry \subseteq Entries
    BY DEF Envs
  <2>5. ASSUME NEW a \in Harness(cfg.registry), NEW k \in Select(cfg, a.uuid)
        PROVE  k = a.key \/ (k = "basecradle" /\ cfg.keyring[a.uuid] = "unset")
    <3>1. a.uuid \in Uuids
      BY <2>2, <2>4, <2>5 DEF Harness, Uuids
    <3>2. CASE cfg.keyring[a.uuid] # "unset"
      <4>1. k = cfg.keyring[a.uuid]
        BY <2>5, <3>1, <3>2 DEF Select
      <4>2. PICK b \in Harness(e.registry) : b.uuid = a.uuid /\ cfg.keyring[a.uuid] = b.key
        BY <2>3, <3>1, <3>2
      <4>3. a = b
        BY <2>1, <2>2, <2>5, <4>2 DEF Loads, AgentsLoad
      <4> QED
        BY <4>1, <4>2, <4>3
    <3>3. CASE cfg.keyring[a.uuid] = "unset"
      BY <2>5, <3>3 DEF Select
    <3> QED
      BY <3>2, <3>3
  <2>6. ASSUME ~cfg.fallback, NEW to \in Recipients("basecradle")
        PROVE  "basecradle" \notin Select(cfg, to)
    <3>1. CASE to \in Uuids /\ cfg.keyring[to] # "unset"
      <4>1. PICK b \in Harness(e.registry) : cfg.keyring[to] = b.key
        BY <2>3, <3>1
      <4>2. b.key \in Keys
        BY <2>4 DEF Harness, Keys
      <4>3. "basecradle" \notin Keys
        BY <1>1 DEF ConfigAssumption, RouteNames
      <4> QED
        BY <3>1, <4>1, <4>2, <4>3 DEF Select
    <3>2. CASE ~(to \in Uuids /\ cfg.keyring[to] # "unset")
      BY <2>6, <3>2 DEF Select
    <3> QED
      BY <3>1, <3>2
  <2> QED
    BY <2>5, <2>6
<1>2. Spec => []IInv
  BY Invariance, StoreAssumption, CorruptAssumption, ConfigAssumption, ClaimsAssumption
<1>3. IInv => OwnKeyOnly
  BY <1>1, ConfigAssumption
<1> QED
  BY <1>2, <1>3, PTL

\* What makes a route verifiable for a recipient: its secret, the recipient's own key, or
\* the armed fallback with the shared one.
LEMMA Verifiable ==
  ASSUME NEW c, NEW r \in {"github", "basecradle"}, NEW to
  PROVE  /\ r = "github" /\ r \in c.secrets => VerifyingKeys(c, r, to) # {}
         /\ r = "basecradle" /\ to \in Uuids /\ c.keyring[to] # "unset"
              => VerifyingKeys(c, r, to) # {}
         /\ r = "basecradle" /\ r \in c.secrets /\ c.fallback => VerifyingKeys(c, r, to) # {}
BY DEF VerifyingKeys, Select

\* A route that a configuration that loads lists for an agent can be verified: the github
\* route by its secret, the platform route by the agent's key or the shared one.
LEMMA ArmedVerifies ==
  ASSUME ConfigAssumption, NEW e \in Envs, Loads(e), NEW o \in e.registry,
         NEW r \in {"github", "basecradle"}, r \in e.routes, r = "basecradle" => o.kind = "harness"
  PROVE  VerifyingKeys(Built(e), r, IF r = "github" THEN o.key ELSE o.uuid) # {}
<1> DEFINE now == Built(e)
<1>1. /\ now.secrets = e.secrets \cap e.routes
      /\ "basecradle" \in e.routes => now.fallback = (e.fallback # "off")
      /\ "basecradle" \in e.routes => now.keyring = ByRecipient(e)
  BY DEF Built
<1>2. r \in e.secrets \/ ~RequiresRouteSecret(e, r)
  BY DEF Loads
<1>3. CASE r = "github"
  <2>1. r \in now.secrets
    BY <1>1, <1>2, <1>3 DEF RequiresRouteSecret
  <2> QED
    BY <1>3, <2>1, Verifiable
<1>4. CASE r = "basecradle"
  <2>1. o \in Harness(e.registry) /\ o.uuid \in Uuids
    BY <1>4 DEF Harness, Uuids, Envs
  <2>2. CASE now.keyring[o.uuid] # "unset"
    BY <1>4, <2>1, <2>2, Verifiable
  <2>3. CASE now.keyring[o.uuid] = "unset" /\ e.fallback # "off"
    <3>1. "basecradle" \in now.secrets /\ now.fallback
      BY <1>1, <1>2, <1>4, <2>3 DEF RequiresRouteSecret
    <3> QED
      BY <1>4, <3>1, Verifiable
  <2>4. CASE now.keyring[o.uuid] = "unset" /\ e.fallback = "off"
    <3>1. Provisioned(e, o)
      BY <1>4, <2>1, <2>4 DEF Loads, KeyringLoads, Retirable
    <3>2. ByRecipient(e)[o.uuid] # "unset"
      <4> DEFINE Has(b) == b.uuid = o.uuid /\ Provisioned(e, b)
                 a == CHOOSE b \in Harness(e.registry) : Has(b)
      <4>1. \E b \in Harness(e.registry) : Has(b)
        BY <2>1, <3>1
      <4>2. ByRecipient(e)[o.uuid] = e.own[a.var]
        BY <2>1, <4>1 DEF ByRecipient
      <4>3. Provisioned(e, a)
        BY <4>1
      <4> HIDE DEF a
      <4> QED
        BY <4>2, <4>3 DEF Provisioned
    <3> QED
      BY <1>1, <1>4, <2>4, <3>2
  <2> QED
    BY <2>2, <2>3, <2>4
<1> QED
  BY <1>3, <1>4

\* The routes that reach an entry, by how they name their recipient.
LEMMA ResolvableKinds ==
  ASSUME NEW reg, NEW o
  PROVE  /\ "repo" \in ResolvableBy(reg, o) <=> o.kind = "github"
         /\ "recipient_uuid" \in ResolvableBy(reg, o) <=> o.kind = "harness"
<1> DEFINE P(by) == CASE by = "repo" -> o.kind = "github"
                      [] by = "recipient_uuid" -> o.kind = "harness"
                      [] by = "harness_key" -> Owner(reg, o.user) = o
<1>1. ResolvableBy(reg, o) = {by \in {"repo", "recipient_uuid", "harness_key"} : P(by)}
  BY Zenon DEF ResolvableBy
<1>2. P("repo") <=> o.kind = "github"
  OBVIOUS
<1>3. P("recipient_uuid") <=> o.kind = "harness"
  OBVIOUS
<1> HIDE DEF P
<1> QED
  BY <1>1, <1>2, <1>3

\* Whom a delivery of a real route wakes, and what its recipient may be.
LEMMA RealRecipients ==
  ASSUME NEW c, NEW to
  PROVE  /\ WokenBy(c, "github", to) = {f \in c.registry : f.key = to}
         /\ WokenBy(c, "basecradle", to) = {f \in Harness(c.registry) : f.uuid = to}
         /\ Recipients("github")
              = {"nobody"} \cup {f.key : f \in {g \in Entries : g.kind = "github"}}
         /\ Recipients("basecradle") = {"nobody"} \cup Uuids
<1>1. RecipientKind["github"] = "repo" /\ RecipientKind["basecradle"] = "recipient_uuid"
  BY DEF RecipientKind
<1>2. /\ AgentForRecipient(c.registry, "repo", to) = {f \in c.registry : f.key = to}
      /\ AgentForRecipient(c.registry, "recipient_uuid", to)
           = {f \in Harness(c.registry) : f.uuid = to}
  BY Zenon DEF AgentForRecipient
<1>3. /\ WokenBy(c, "github", to) = {f \in c.registry : f.key = to}
      /\ WokenBy(c, "basecradle", to) = {f \in Harness(c.registry) : f.uuid = to}
  BY <1>1, <1>2, Zenon DEF WokenBy
<1>4. /\ Recipients("github")
           = {"nobody"} \cup {f.key : f \in {g \in Entries : g.kind = "github"}}
      /\ Recipients("basecradle") = {"nobody"} \cup Uuids
  BY Zenon DEF Recipients
<1> QED
  BY <1>3, <1>4

\* What is listed reaches: the entry that speaks for the OS user is woken by a delivery
\* addressed to its key or its uuid.
LEMMA ListedReaches ==
  ASSUME ConfigAssumption, NEW e \in Envs, Loads(e), NEW o \in e.registry,
         NEW r \in {"github", "basecradle"}, r \in Built(e).routes,
         RecipientKind[r] \in ResolvableBy(e.registry, o)
  PROVE  \E to \in Recipients(r) :
           VerifyingKeys(Built(e), r, to) # {} /\ o \in WokenBy(Built(e), r, to)
<1>1. r \in e.routes /\ Built(e).registry = e.registry /\ e.registry \subseteq Entries
  BY DEF Built, Envs
<1>2. CASE r = "github"
  <2>1. o.kind = "github"
    BY <1>2, ResolvableKinds DEF RecipientKind
  <2>2. o.key \in Recipients("github")
    BY <1>1, <2>1, RealRecipients
  <2>3. VerifyingKeys(Built(e), r, o.key) # {}
    BY <1>1, <1>2, ArmedVerifies
  <2>4. o \in WokenBy(Built(e), "github", o.key)
    BY <1>1, RealRecipients
  <2> QED
    BY <1>2, <2>2, <2>3, <2>4
<1>3. CASE r = "basecradle"
  <2>1. o.kind = "harness"
    BY <1>3, ResolvableKinds DEF RecipientKind
  <2>2. o.uuid \in Recipients("basecradle")
    BY <1>1, <2>1, RealRecipients DEF Uuids
  <2>3. VerifyingKeys(Built(e), r, o.uuid) # {}
    BY <1>1, <1>3, <2>1, ArmedVerifies
  <2>4. o \in WokenBy(Built(e), "basecradle", o.uuid)
    BY <1>1, <2>1, RealRecipients DEF Harness
  <2> QED
    BY <1>3, <2>2, <2>3, <2>4
<1> QED
  BY <1>2, <1>3

\* What reaches the entry is listed: its recipient names the entry by the kind it is of,
\* for no two entries share a key.
LEMMA ReachingListed ==
  ASSUME ConfigAssumption, NEW e \in Envs, NEW o \in e.registry,
         NEW r \in {"github", "basecradle"}, NEW to \in Recipients(r),
         o \in WokenBy(Built(e), r, to)
  PROVE  RecipientKind[r] \in ResolvableBy(e.registry, o)
<1>1. Built(e).registry = e.registry /\ e.registry \subseteq Entries
  BY DEF Built, Envs
<1>2. CASE r = "github"
  <2>1. o.key = to
    BY <1>2, RealRecipients
  <2>2. to # "nobody"
    BY <1>1, <2>1 DEF ConfigAssumption, Keys
  <2>3. PICK f \in Entries : f.kind = "github" /\ f.key = to
    BY <1>2, <2>2, RealRecipients
  <2>4. o = f
    BY <1>1, <2>1, <2>3 DEF ConfigAssumption
  <2> QED
    BY <1>2, <2>3, <2>4, ResolvableKinds DEF RecipientKind
<1>3. CASE r = "basecradle"
  <2>1. o.kind = "harness"
    BY <1>3, RealRecipients DEF Harness
  <2> QED
    BY <1>3, <2>1, ResolvableKinds DEF RecipientKind
<1> QED
  BY <1>2, <1>3

\* No paper edge: the routes that the manifest lists for an OS user are those over which a
\* daemon that booted now would verify a delivery and resolve it to the user's entry.
THEOREM EdgesAreReal == Spec => []EdgesReach
<1>1. ASSUME IInv, ConfigAssumption
      PROVE  EdgesReach
  <2> SUFFICES ASSUME Emits, NEW a \in Subjects, NEW r \in RouteNames
               PROVE  LET now == Built(env)
                          Reach(e, q) == \E to \in Recipients(q) :
                                            VerifyingKeys(now, q, to) # {} /\ e \in WokenBy(now, q, to)
                          armed == r \in ArmedRoutes(now, a, FALSE)
                      IN  /\ armed => ~Synthetic(r) /\ r \in now.routes
                                       /\ \E e \in env.registry : e.user = a /\ Reach(e, r)
                          /\ ~Synthetic(r) /\ r \in now.routes /\ Reach(Owner(env.registry, a), r)
                               => armed
    BY DEF EdgesReach
  <2> DEFINE o == Owner(env.registry, a)
             S == {e \in env.registry : e.user = a}
  <2>1. env \in Envs /\ Loads(env) /\ env.registry \subseteq Entries
    BY <1>1 DEF IInv, TypeOK, Emits, Envs
  <2>2. o \in S
    <3>1. S \in SUBSET Entries /\ S # {}
      BY <2>1 DEF Subjects
    <3> QED
      BY <1>1, <3>1, FirstIsIn DEF Owner
  <2>3. Built(env).registry = env.registry
    BY DEF Built
  <2>4. r \in ArmedRoutes(Built(env), a, FALSE)
          <=> /\ r \in Built(env).routes /\ Synthetic(r) = FALSE
              /\ RecipientKind[r] \in ResolvableBy(env.registry, o)
    BY <2>3 DEF ArmedRoutes
  <2>5. /\ Synthetic(r) = FALSE <=> r \in {"github", "basecradle"}
        /\ ~Synthetic(r) <=> r \in {"github", "basecradle"}
    BY DEF Synthetic, RouteNames
  <2> HIDE DEF o
  <2>6. ASSUME r \in ArmedRoutes(Built(env), a, FALSE)
        PROVE  \E to \in Recipients(r) :
                 VerifyingKeys(Built(env), r, to) # {} /\ o \in WokenBy(Built(env), r, to)
    BY <1>1, <2>1, <2>2, <2>4, <2>5, <2>6, ListedReaches
  <2>7. ASSUME ~Synthetic(r), r \in Built(env).routes, NEW to \in Recipients(r),
               o \in WokenBy(Built(env), r, to)
        PROVE  r \in ArmedRoutes(Built(env), a, FALSE)
    <3>1. r \in {"github", "basecradle"} /\ o \in env.registry
      BY <2>2, <2>5, <2>7
    <3>2. RecipientKind[r] \in ResolvableBy(env.registry, o)
      BY <1>1, <2>1, <2>7, <3>1, ReachingListed
    <3> QED
      BY <2>4, <2>5, <2>7, <3>1, <3>2
  <2>8. r \in ArmedRoutes(Built(env), a, FALSE) =>
          /\ ~Synthetic(r) /\ r \in Built(env).routes
          /\ o \in env.registry /\ o.user = a
    BY <2>2, <2>4, <2>5
  <2> QED
    BY <2>6, <2>7, <2>8, Zenon DEF o
<1>2. Spec => []IInv
  BY Invariance, StoreAssumption, CorruptAssumption, ConfigAssumption, ClaimsAssumption
<1>3. IInv => EdgesReach
  BY <1>1, ConfigAssumption
<1> QED
  BY <1>2, <1>3, PTL

=============================================================================
