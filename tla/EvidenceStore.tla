--------------------------- MODULE EvidenceStore ---------------------------
(***************************************************************************)
(* The evidence store (evidence.py): a document held in memory under one   *)
(* lock and flushed to a file after every change, through a temporary file *)
(* and an atomic replace, without fsync.  The process may be killed at any *)
(* step, the power may fail, a write may fail, and the next process boots  *)
(* from what is on disk.                                                   *)
(*                                                                         *)
(* Of the document, three fields stand for the kinds it has: proven, the   *)
(* routes over which an agent was ever woken, and accepted, the routes     *)
(* over which a delivery was ever verified, both of which must survive a   *)
(* restart; and queued, a live reading of the scheduler of the running     *)
(* process.  Counters and times of what failed, was refused or collapsed   *)
(* are written and not told apart.  Outside src/ is the file system.  The  *)
(* store has no behaviour of its own: ClaimsManifest composes it with the  *)
(* daemon that records in it and the emitter that reads the file.          *)
(*                                                                         *)
(* A definition whose comment begins with "Fault:" is a plausible mistake  *)
(* in the definition that follows it.                                      *)
(***************************************************************************)
EXTENDS Integers, FiniteSets

CONSTANTS
  Agents,       \* harness keys: the OS users of the agents
  Routes,
  Corrupt,      \* a document that cannot be parsed
  MaxTemps,     \* bound: processes are not killed with this many temps left behind
  MaxFaults     \* bound: failures of the file system, and power cuts

ASSUME StoreAssumption == MaxTemps \in Nat /\ MaxFaults \in Nat

VARIABLES
  doc,      \* _doc, the document in memory
  disk,     \* the file at path, or Corrupt
  durable,  \* what a power cut may leave of it
  temps,    \* .evidence-*.tmp files in the directory
  phase,    \* where the process is: down, idle, or within a flush (it holds _lock)
  behind,   \* history: the last flush of this process failed
  stuck,    \* history: temps that could not be unlinked
  faults,
  reset     \* history: the document was lost to a power cut or an unreadable file

storeVars == <<doc, disk, durable, temps, phase, behind, stuck, faults, reset>>

Documents ==
  [proven : SUBSET (Agents \X Routes), accepted : SUBSET Routes, queued : [Agents -> Nat]]

ASSUME CorruptAssumption == Corrupt \notin Documents

\* EvidenceDocument().
Blank == [proven |-> {}, accepted |-> {}, queued |-> [a \in Agents |-> 0]]

\* What a reader makes of the file: an unreadable document counts as an empty one.
Parsed(d) == IF d = Corrupt THEN Blank ELSE d

Phases == {"down", "idle", "write", "replace"}

-----------------------------------------------------------------------------
(* Boot.                                                                   *)

\* Fault: the depth of the previous process is believed.
DepthsKept(d) == d

\* _discard_stale_queue_depths, in memory.
DepthsZeroed(d) == [d EXCEPT !.queued = [a \in Agents |-> 0]]

\* The store is constructed: orphaned temps swept, except one that cannot be unlinked,
\* the document loaded, an empty one if it cannot be read, and stale depths zeroed, and
\* flushed if there were any.
Boot ==
  /\ phase = "down"
  /\ \E kept \in 0..1, unreadable \in BOOLEAN :
       LET failed == kept + (IF unreadable THEN 1 ELSE 0)
           loaded == IF unreadable THEN Blank ELSE Parsed(disk)
       IN  /\ kept <= temps /\ faults + failed <= MaxFaults
           /\ faults' = faults + failed
           /\ temps' = kept /\ stuck' = kept
           /\ doc' = DepthsZeroed(loaded)
           /\ phase' = IF DepthsZeroed(loaded) = loaded THEN "idle" ELSE "write"
           /\ behind' = unreadable
           /\ reset' = (reset \/ unreadable)
  /\ UNCHANGED <<disk, durable>>

-----------------------------------------------------------------------------
(* The recorders: an update in memory, and a flush begins.                 *)

Record(d) ==
  /\ phase = "idle"
  /\ doc' = d
  /\ phase' = "write"
  /\ UNCHANGED <<disk, durable, temps, behind, stuck, faults, reset>>

RecordWakeOk(a, r) == Record([doc EXCEPT !.proven = @ \cup {<<a, r>>}])

RecordDeliveryAccepted(r) == Record([doc EXCEPT !.accepted = @ \cup {r}])

\* A wake failed, was refused or collapsed, or a delivery was rejected: counters and
\* times, and never a proof.
RecordOther == Record(doc)

\* The scheduler reports a pending count; an unchanged one is not written.
RecordQueueDepth(a, n) ==
  IF doc.queued[a] = n THEN phase = "idle" /\ UNCHANGED storeVars
  ELSE Record([doc EXCEPT !.queued[a] = n])

-----------------------------------------------------------------------------
(* _atomic_write, step by step.                                            *)

\* Fault: the document itself is opened for writing.
WriteInPlace ==
  /\ phase = "write"
  /\ phase' = "replace"
  /\ temps' = temps + 1
  /\ disk' = Corrupt
  /\ UNCHANGED <<doc, durable, behind, stuck, faults, reset>>

\* A temp is made, written and made readable.
Write ==
  /\ phase = "write"
  /\ phase' = "replace"
  /\ temps' = temps + 1
  /\ UNCHANGED <<doc, disk, durable, behind, stuck, faults, reset>>

\* The temp takes the file's place.  Until now the file system may or may not have
\* written the old file back.
Replace ==
  /\ phase = "replace"
  /\ phase' = "idle"
  /\ durable' \in {durable, disk}
  /\ disk' = doc
  /\ temps' = temps - 1
  /\ behind' = FALSE
  /\ UNCHANGED <<doc, stuck, faults, reset>>

\* Fault: the handler unlinks a temp that was never made.
UnlinkUnmade(made) == temps' = temps - 1 /\ UNCHANGED stuck

\* The handler of a failed flush unlinks the temp, and passes over a failure to.
Unlink(made) ==
  \/ temps' = made - 1 /\ UNCHANGED stuck
  \/ temps' = made /\ stuck' = stuck + 1

\* Any of the steps fails, the making of the temp too: the change stays in memory.
FlushFails ==
  /\ faults < MaxFaults
  /\ temps < MaxTemps
  /\ \/ phase = "write" /\ UNCHANGED <<temps, stuck>>
     \/ phase = "write" /\ Unlink(temps + 1)
     \/ phase = "replace" /\ Unlink(temps)
  /\ phase' = "idle"
  /\ behind' = TRUE
  /\ faults' = faults + 1
  /\ UNCHANGED <<doc, disk, durable, reset>>

-----------------------------------------------------------------------------
(* The outside.                                                            *)

\* The process is killed or stops.
Kill ==
  /\ phase # "down"
  /\ temps < MaxTemps
  /\ phase' = "down"
  /\ UNCHANGED <<doc, disk, durable, temps, behind, stuck, faults, reset>>

\* The power fails: of a file that was not written back, the old document is left,
\* the new one, or nothing readable.
PowerCut ==
  /\ faults < MaxFaults
  /\ faults' = faults + 1
  /\ temps < MaxTemps
  /\ phase' = "down"
  /\ disk' \in {disk, durable} \cup (IF disk = durable THEN {} ELSE {Corrupt})
  /\ durable' = disk'
  /\ reset' = (reset \/ disk' # disk)
  /\ UNCHANGED <<doc, temps, behind, stuck>>

StoreInit ==
  /\ doc = Blank
  /\ disk = Blank
  /\ durable = Blank
  /\ temps = 0
  /\ phase = "down"
  /\ behind = FALSE
  /\ stuck = 0 /\ faults = 0
  /\ reset = FALSE

\* A flush under way.
StoreStep == Write \/ Replace \/ FlushFails

-----------------------------------------------------------------------------
(* Properties.                                                             *)

StoreTypeOK ==
  /\ doc \in Documents
  /\ disk \in Documents \cup {Corrupt}
  /\ durable \in Documents \cup {Corrupt}
  /\ temps \in Nat /\ stuck \in Nat /\ faults \in 0..MaxFaults
  /\ phase \in Phases
  /\ behind \in BOOLEAN /\ reset \in BOOLEAN

\* Age of proof survives: as long as no power cut and no unreadable file has reset
\* the document, nothing the file proves is lost, at whatever step a process is
\* killed and however many restarts there are.
ProofKept ==
  [][reset' \/ /\ Parsed(disk).proven \subseteq Parsed(disk').proven
               /\ Parsed(disk).accepted \subseteq Parsed(disk').accepted]_<<disk, reset>>

=============================================================================
