--------------------------- MODULE DependencyScan ---------------------------
(***************************************************************************)
(* The daily dependency scan (.github/scripts/dependency_security_scan.py) *)
(* and the workflow that runs it.  A run reads the issues that are open,   *)
(* has osv-scanner print what it knows against uv.lock, decides on the     *)
(* changes to GitHub, makes them one call at a time, and answers the       *)
(* heartbeat if the scan reached a verdict.  It remembers nothing but what *)
(* it wrote into its own issues: the marker of the advisories issue is its *)
(* whole memory.  A run may die between any two calls; a person may close  *)
(* one of the issues or save it with less in its marker at any moment, and *)
(* reopen it between two runs.                                             *)
(*                                                                         *)
(* A name is a package with one of the identifiers a problem has there,    *)
(* numbered in the order in which the scan prefers them.  osv-scanner      *)
(* prints groups of names, each with the ratings its records carry.        *)
(* Abstracted: issues that are not the scan's own, which it never reads,   *)
(* the texts (a comment changes nothing here and rides with the step after *)
(* it), runs on other branches.  Runs never overlap: the workflow's        *)
(* concurrency group sees to it.                                           *)
(*                                                                         *)
(* A definition whose comment begins with "Fault:" is a plausible mistake  *)
(* in the definition that follows it.                                      *)
(***************************************************************************)
EXTENDS Naturals, FiniteSets, Sequences, SequencesExt

CONSTANTS
  Groups,      \* what osv-scanner may print: [ids, names], the ids among the names
  Evidence,    \* the sets of ratings a group's records may carry
  None,        \* of a group: not reported; of a name: not in the marker
  MaxFaults,   \* bound: scans that fail, and runs that die
  MaxTouches   \* bound: a person's changes to the scan's issues

SEVERITY_ORDER == <<"critical", "high", "medium", "moderate", "low", "none", "unknown">>

Names == UNION {g.names : g \in Groups}
Ratings == {SEVERITY_ORDER[i] : i \in DOMAIN SEVERITY_ORDER}
Titles == {"advisories", "error"}
Marker == [Names -> Ratings \cup {None}]

ASSUME ScanAssumption ==
  /\ IsFiniteSet(Groups)
  /\ \A g \in Groups : g.ids # {} /\ g.ids \subseteq g.names /\ g.names \subseteq Nat
  /\ \A e \in Evidence : e \subseteq Ratings \ {"medium", "unknown"}
  /\ None \notin Ratings /\ MaxFaults \in Nat /\ MaxTouches \in Nat

VARIABLES
  world,     \* what OSV knows of uv.lock: per group the ratings, or that it is absent
  issue,     \* the scan's two issues: open or not, their labels, their markers
  run,       \* the workflow's run
  faults, touches,
  paged,     \* history: the names of the findings that paged, until they no longer do
  standing,  \* history: the keys of the findings that paged, at the last verdict whose
             \* issues nobody has touched since, as long as scans find them
  touched    \* history: a person changed an issue since this run began

scanVars == <<world, issue, run, faults, touches, paged, standing, touched>>

--------------------------------------------------------------------------------
(* What a scan found. *)

RankOf == [s \in Ratings |-> CHOOSE i \in DOMAIN SEVERITY_ORDER : SEVERITY_ORDER[i] = s]
Worst(S) == CHOOSE s \in S : \A t \in S : RankOf[s] <= RankOf[t]
Pages(s) == s \in {"critical", "high"}
PrimaryId(ids) == CHOOSE i \in ids : \A j \in ids : i <= j

\* Rated by the worst of what its records say: a CVSS score's band or GitHub's word.
SeverityOf(evidence) == IF evidence = {} THEN "unknown" ELSE Worst(evidence)

AdvisoryOf(g) ==
  [id |-> PrimaryId(g.ids), names |-> g.names, rating |-> SeverityOf(world[g])]

Related(one, other) == one.names \cap other.names # {}

\* Fault: the names of those found earlier are lost.
MergedNamesLast(seen, a) ==
  [id |-> PrimaryId({b.id : b \in seen \cup {a}}), names |-> a.names,
   rating |-> Worst({b.rating : b \in seen \cup {a}})]

\* What finding a is, merged with those it is related to, one after the other.
Merged(seen, a) ==
  [id |-> PrimaryId({b.id : b \in seen \cup {a}}),
   names |-> UNION {b.names : b \in seen \cup {a}},
   rating |-> Worst({b.rating : b \in seen \cup {a}})]

\* Fault: a new finding is merged with the first related one it meets, not with all.
AbsorbFirst(kept, a) ==
  LET twins == {b \in kept : Related(a, b)}
      first == IF twins = {} THEN {} ELSE {CHOOSE b \in twins : TRUE}
  IN  (kept \ first) \cup {Merged(first, a)}

\* A new finding takes in every one it shares a name with.
Absorb(kept, a) ==
  LET twins == {b \in kept : Related(a, b)}
  IN  (kept \ twins) \cup {Merged(twins, a)}

\* The exit status has to agree with what the report holds.
ReachedVerdict(exit, found) == (exit = 0 /\ found = {}) \/ (exit = 1 /\ found # {})

--------------------------------------------------------------------------------
(* What the run is to do about it: its findings against the marker it read. *)

\* The marker of the open issue; without one, nothing is known.
known ==
  LET seen == run.seen["advisories"]
  IN  [n \in Names |-> IF seen.open THEN seen.marker[n] ELSE None]

\* A finding is on the issue under any name it has had.
FiledAs(f) == {n \in f.names : known[n] # None}

\* Fault: a finding is looked up under the name it has today, and no other.
FiledAsToday(f) == known[f.id]

\* Two names filed apart and linked since are folded, at the worse of their ratings.
FiledAt(f) == IF FiledAs(f) = {} THEN None ELSE Worst({known[n] : n \in FiledAs(f)})

Added(found) == {f \in found : FiledAt(f) = None}
Rerated(found) == {f \in found : FiledAt(f) \notin {None, f.rating}}
Renamed(found) == {f \in found : FiledAs(f) \ {f.id} # {}}

\* Rated high or critical after it was filed as something lower.
Escalated(found) == {f \in Rerated(found) : Pages(f.rating) /\ ~Pages(FiledAt(f))}

\* The next marker: the findings under their keys, and what a scan that failed could not
\* have seen.
Current(found, failed) ==
  [n \in Names |-> IF \E f \in found : f.id = n THEN (CHOOSE f \in found : f.id = n).rating
                   ELSE IF failed /\ \A f \in found : n \notin f.names THEN known[n]
                   ELSE None]

Resolved(found, failed) ==
  {n \in Names : /\ known[n] # None /\ \A f \in found : n \notin f.names
                 /\ Current(found, failed)[n] = None}

Announced(found) == Added(found) \cup Escalated(found)

LabelsFor(fs) ==
  IF fs = {} THEN {}
  ELSE IF \E f \in fs : Pages(f.rating) THEN {"needs-human"} ELSE {"needs-capital"}

Call(do, on, labels, marker) == [do |-> do, on |-> on, labels |-> labels, marker |-> marker]

\* Fault: the label is added without being taken off first.
UpdateKeepingLabel(on, labels, marker) ==
  (IF labels = {} THEN <<>> ELSE <<Call("label", on, labels, marker)>>)
    \o <<Call("body", on, labels, marker)>>

\* Fault: the marker is written before the label is applied.
UpdateBodyFirst(on, labels, marker) ==
  <<Call("body", on, labels, marker)>>
    \o (IF labels = {} THEN <<>>
        ELSE <<Call("unlabel", on, labels, marker), Call("label", on, labels, marker)>>)

\* The label is taken off and put back, an event again, and the body is written last.
Update(on, labels, marker) ==
  (IF labels = {} THEN <<>>
   ELSE <<Call("unlabel", on, labels, marker), Call("label", on, labels, marker)>>)
    \o <<Call("body", on, labels, marker)>>

AdvisoriesPlan(found, failed) ==
  LET next == Current(found, failed)
      labels == LabelsFor(Announced(found))
      quiet == Added(found) = {} /\ Rerated(found) = {} /\ Renamed(found) = {}
                 /\ Resolved(found, failed) = {}
  IN  IF quiet THEN <<>>
      ELSE IF run.seen["advisories"].open THEN Update("advisories", labels, next)
      ELSE <<Call("create", "advisories", labels, next)>>

\* The error issue's marker tells whether it names the scanner that fails.
ErrorPlan(failed) ==
  LET seen == run.seen["error"]
  IN  IF ~seen.open
      THEN IF failed THEN <<Call("create", "error", {"needs-capital"}, TRUE)>> ELSE <<>>
      ELSE IF ~failed THEN <<Call("close", "error", {}, FALSE)>>
      ELSE IF ~seen.marker THEN Update("error", {"needs-capital"}, TRUE)
      ELSE <<>>

--------------------------------------------------------------------------------
NoRead == [g \in Groups |-> None]
NoMarker(t) == IF t = "error" THEN FALSE ELSE [n \in Names |-> None]
NoIssue == [t \in Titles |-> [open |-> FALSE, labels |-> {}, marker |-> NoMarker(t)]]

\* seen, the issues it read; looked, whether the scanner answered; found, the verdict's
\* findings; todo, the calls that are left; announced, what they label for; paged, what
\* they paged for.  What a run has no more use for is reset.
NoRun == [step |-> "idle", seen |-> NoIssue, looked |-> FALSE, found |-> {},
          failed |-> FALSE, todo |-> <<>>, announced |-> {}, paged |-> {}]

ScanInit ==
  /\ world = NoRead
  /\ issue = NoIssue
  /\ run = NoRun
  /\ faults = 0 /\ touches = 0
  /\ paged = {} /\ standing = {} /\ touched = FALSE

\* OSV publishes, withdraws or re-rates a group, or the lock file moves.  (Not between a
\* scan and the end of its run, which reads nothing of it any more.)
WorldChanges ==
  /\ run.step # "file"
  /\ \E g \in Groups, e \in Evidence \cup {None} :
       world[g] # e /\ world' = [world EXCEPT ![g] = e]
  /\ UNCHANGED <<issue, run, faults, touches, paged, standing, touched>>

\* What a person may leave of an issue's marker: some of what it says, or nothing.
PartsOf(t, marker) ==
  IF t = "error" THEN {FALSE}
  ELSE {[n \in Names |-> IF n \in kept THEN marker[n] ELSE None] : kept \in SUBSET Names}

\* A person closes an issue, or saves its body with less in its marker.
Edit(t) ==
  /\ issue[t].open
  /\ \/ issue' = [issue EXCEPT ![t].open = FALSE]
     \/ \E part \in PartsOf(t, issue[t].marker) :
          part # issue[t].marker /\ issue' = [issue EXCEPT ![t].marker = part]
  /\ UNCHANGED paged

\* A person reopens an issue, and with it what it says has paged.  (Between runs: one that
\* has read that none is open creates a second of the title.)
Reopen(t) ==
  /\ run.step \notin {"scan", "file"} /\ ~issue[t].open /\ issue[t] # NoIssue[t]
  /\ issue' = [issue EXCEPT ![t].open = TRUE]
  /\ paged' = IF t = "error" THEN paged
              ELSE paged \cup {n \in Names : Pages(issue[t].marker[n])}

Touch(t) ==
  /\ touches < MaxTouches /\ (Edit(t) \/ Reopen(t))
  /\ touches' = touches + 1 /\ touched' = TRUE /\ standing' = {}
  /\ UNCHANGED <<world, run, faults>>

\* The next day's run reads the open issues.
Begin ==
  /\ run.step \in {"idle", "done", "dead"}
  /\ run' = [NoRun EXCEPT !.step = "scan", !.seen = issue]
  /\ touched' = FALSE
  /\ UNCHANGED <<world, issue, faults, touches, paged, standing>>

Paging(found) == {f \in found : Pages(f.rating)}

\* The names of the paging findings that paged under one of them.
PagedOf(found) == UNION {f.names : f \in {e \in Paging(found) : e.names \cap paged # {}}}

\* The report, read in the order in which it is printed.
Parse(printed) ==
  LET kept[n \in 0..Len(printed)] ==
        IF n = 0 THEN {} ELSE Absorb(kept[n - 1], AdvisoryOf(printed[n]))
  IN  kept[Len(printed)]

\* The rest of main: a report that is no verdict, or any exception, is an error; the plan.
Decide(exit, parsed, looked) ==
  \E failed \in {~ReachedVerdict(exit, parsed)} :
  \E found \in {IF failed THEN {} ELSE parsed} :
    /\ run' = [NoRun EXCEPT !.step = "file", !.looked = looked,
                           !.found = found, !.failed = failed,
                           !.todo = AdvisoriesPlan(found, failed) \o ErrorPlan(failed),
                           !.announced = Announced(found)]
    /\ standing' = IF failed THEN standing
                   ELSE standing \cap UNION {f.names : f \in Paging(found)}
    /\ paged' = paged \cup PagedOf(found)

Present == {g \in Groups : world[g] # None}

Scan ==
  /\ run.step = "scan"
  /\ \E parsed \in {Parse(printed) : printed \in SetToSeqs(Present)} :
       Decide(IF Present = {} THEN 0 ELSE 1, parsed, TRUE)
  /\ UNCHANGED <<world, issue, faults, touches, touched>>

\* The advisory source cannot be reached, the scanner dies, its report cannot be read: an
\* empty report and an exit status that does not fit it.
ScanFails ==
  /\ run.step = "scan" /\ faults < MaxFaults
  /\ \E exit \in {1, 127} : Decide(exit, {}, FALSE)
  /\ faults' = faults + 1
  /\ UNCHANGED <<world, issue, touches, touched>>

\* A label put on an issue that does not carry it is an event, and needs-human pages.
PageSent(call) ==
  /\ call.on = "advisories" /\ "needs-human" \in call.labels
  /\ \/ call.do = "create"
     \/ call.do = "label" /\ "needs-human" \notin issue["advisories"].labels

\* The workflow makes one call of the plan.  An issue a person closed meanwhile is still
\* edited, and stays closed.
Apply ==
  /\ run.step = "file" /\ run.todo # <<>>
  /\ LET call == Head(run.todo)
         told == IF PageSent(call) THEN Paging(run.announced) ELSE {}
     IN  /\ issue' = CASE call.do = "create" ->
                            [issue EXCEPT ![call.on] = [open |-> TRUE, labels |-> call.labels,
                                                        marker |-> call.marker]]
                       [] call.do = "unlabel" -> [issue EXCEPT ![call.on].labels = @ \ call.labels]
                       [] call.do = "label" -> [issue EXCEPT ![call.on].labels = @ \cup call.labels]
                       [] call.do = "body" -> [issue EXCEPT ![call.on].marker = call.marker]
                       [] call.do = "close" -> [issue EXCEPT ![call.on].open = FALSE]
         /\ run' = [run EXCEPT !.todo = Tail(@), !.paged = @ \cup told]
         /\ paged' = paged \cup UNION {f.names : f \in told}
  /\ UNCHANGED <<world, faults, touches, standing, touched>>

\* Any call may fail, and with it the run.  (Under which of its names a finding is in the
\* marker then, the old or the new, the history does not follow.)
Die ==
  /\ run.step \in {"scan", "file"} /\ faults < MaxFaults
  /\ run' = [NoRun EXCEPT !.step = "dead"]
  /\ faults' = faults + 1
  /\ standing' = IF run.step = "file" /\ ~run.failed
                 THEN standing \cap {f.id : f \in run.found} ELSE standing
  /\ UNCHANGED <<world, issue, touches, paged, touched>>

\* The plan is carried out: the heartbeat is pinged if the scan reached a verdict.
Finish ==
  /\ run.step = "file" /\ run.todo = <<>>
  /\ run' = [run EXCEPT !.step = "done", !.announced = {}, !.paged = {}]
  /\ IF run.failed THEN UNCHANGED <<paged, standing>>
     ELSE /\ paged' = PagedOf(run.found)
          /\ standing' = IF touched THEN {} ELSE {f.id : f \in Paging(run.found)}
  /\ UNCHANGED <<world, issue, faults, touches, touched>>

RunStep == Begin \/ Scan \/ ScanFails \/ Apply \/ Die \/ Finish

ScanNext == WorldChanges \/ (\E t \in Titles : Touch(t)) \/ RunStep

\* The clock starts a run every day, the runner carries it through, and a scan ends (its
\* timeout, or the job's).
ScanFairness ==
  /\ WF_run(Begin) /\ WF_run(Apply) /\ WF_run(Finish)
  /\ []<>(run.step # "scan")

ScanSpec == ScanInit /\ [][ScanNext]_scanVars /\ ScanFairness

--------------------------------------------------------------------------------
TypeOK ==
  /\ world \in [Groups -> Evidence \cup {None}]
  /\ \A t \in Titles :
       /\ issue[t].open \in BOOLEAN /\ issue[t].labels \subseteq {"needs-human", "needs-capital"}
       /\ issue[t].marker \in IF t = "error" THEN BOOLEAN ELSE Marker
  /\ run.step \in {"idle", "scan", "file", "done", "dead"}
  /\ \A f \in run.found : f.id \in f.names /\ f.names \subseteq Names /\ f.rating \in Ratings
  /\ faults \in 0..MaxFaults /\ touches \in 0..MaxTouches
  /\ paged \subseteq Names /\ standing \subseteq Names /\ touched \in BOOLEAN

\* The groups of each problem: linked by the names they share, and by no name with others.
ProblemsIn(there) ==
  LET closed == {S \in (SUBSET there) \ {{}} :
                   \A g \in S, h \in there \ S : g.names \cap h.names = {}}
  IN  {S \in closed : \A T \in closed : T \subseteq S => T = S}

\* What a problem should be found as.
FindingOf(S) ==
  [id |-> PrimaryId(UNION {g.ids : g \in S}), names |-> UNION {g.names : g \in S},
   rating |-> Worst({SeverityOf(world[g]) : g \in S})]

\* Whatever order osv-scanner prints its groups in, and however it splits the records of a
\* problem between versions of a package, the scan finds each problem once: under the
\* preferred one of its identifiers, with every name it has, at the worst of its ratings
\* (parse_osv_scanner's merge).
OneFindingEach ==
  run.step = "file" /\ run.looked =>
    run.found = {FindingOf(S) : S \in ProblemsIn(Present)}

\* A heartbeat is an answer: the scanner looked, every finding is in the marker at its
\* rating, every one that pages has paged since it last did not, and no error issue is
\* left open.  A run that reached no verdict and finishes leaves the error issue open.
\* (Unless a person changed an issue under the run.)
HeartbeatMeansFiled ==
  run.step = "done" /\ ~touched =>
    IF run.failed THEN issue["error"].open
    ELSE /\ run.looked /\ ~issue["error"].open
         /\ run.found # {} => issue["advisories"].open
         /\ issue["advisories"].open =>
              \A n \in Names :
                issue["advisories"].marker[n] =
                  IF \E f \in run.found : f.id = n
                  THEN (CHOOSE f \in run.found : f.id = n).rating ELSE None
         /\ \A f \in run.found : Pages(f.rating) => f.names \cap paged # {}

\* What paged and still stands is not news: not on the next day, not under another of its
\* names, not merged with another finding, not after days on which the scanner failed or
\* the run died.  (A finding no longer grouped with the name it was filed under is.)
NoRepeatPage ==
  run.step = "file" => \A f \in run.paged : f.names \cap standing = {}

PagingNow(n) ==
  \E g \in Present : n \in g.names /\ Pages(SeverityOf(world[g]))

\* The problem a name is of is on the open issue: under its preferred identifier, at the
\* worst of its ratings.
Filed(n) ==
  /\ issue["advisories"].open
  /\ \E S \in ProblemsIn(Present) :
       LET f == FindingOf(S)
       IN  n \in f.names /\ issue["advisories"].marker[f.id] = f.rating

\* A problem rated high or critical has paged and is on the open issue, or goes away:
\* whichever runs fail or die before one gets through, and whatever people do to the
\* issues, one closed between a run's reading it and its label on it included.
StandingIsFiled ==
  \A n \in Names : PagingNow(n) ~> (~PagingNow(n) \/ (n \in paged /\ Filed(n)))
=============================================================================
