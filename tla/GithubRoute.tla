---------------------------- MODULE GithubRoute ----------------------------
(***************************************************************************)
(* The github route (routes/github.py): its memory of handoff issues       *)
(* (IssueLedger) and of pull requests (PullLedger), both fed by every      *)
(* verified delivery; the decision to wake that each delivery gets; the    *)
(* recheck of a queued wake at dispatch; and the warm-up after a restart.  *)
(*                                                                         *)
(* GitHub is outside src/: issues and pull requests change there, each     *)
(* change posts a delivery with a payload stamped in whole seconds, of     *)
(* which there may be several in a second, and deliveries reach the router *)
(* in any order, more than once, or never.                                 *)
(* All payloads are well-formed.  The wakes that a delivery starts wait    *)
(* for the scheduler in a set: their order does not matter here.           *)
(*                                                                         *)
(* A definition whose comment begins with "Fault:" is a plausible mistake  *)
(* in the definition that follows it.                                      *)
(***************************************************************************)
EXTENDS Integers, Sequences, FiniteSets, SequencesExt

CONSTANTS
  Issues,
  Pulls,
  Own,            \* the pull requests the repository's captain wrote
  Named,          \* per pull request: the issues its title and body name
  Labels,         \* includes "handoff" and the brake, DO_NOT_WORK_LABEL: "DoNotWork"
  Setups,         \* what is around a behaviour: here, the issues of the repository of the
                  \* pull requests; pulls, those that may be opened; senders, who acts; and
                  \* capacity, LEDGER_CAPACITY
  None,           \* no issue or pull request yet, nothing dispatched
  MaxTime,        \* bound, in seconds
  MaxPosts,       \* bound: deliveries GitHub posts
  MaxRestarts     \* bound: restarts of the router

\* Who acts: one of the trusted actors, the captain's bot, anybody else.
People == {"trusted", "captain", "other"}

ASSUME GithubAssumption ==
  /\ IsFiniteSet(Issues) /\ IsFiniteSet(Pulls)
  /\ Own \subseteq Pulls /\ Named \in [Pulls -> SUBSET Issues]
  /\ \A x \in Setups :
       /\ x.here \subseteq Issues /\ x.pulls \subseteq Pulls
       /\ \A p \in x.pulls : Named[p] \subseteq x.here
       /\ x.senders \subseteq People /\ x.capacity \in Nat \ {0}
  /\ {"handoff", "DoNotWork"} \subseteq Labels
  /\ MaxTime \in Nat /\ MaxPosts \in Nat /\ MaxRestarts \in Nat

IssueStates ==
  [open : BOOLEAN, labels : SUBSET Labels,
   before : [open : BOOLEAN, labels : SUBSET Labels],
   stateAt : Nat, labelsAt : Nat, updated : Nat, changes : Nat]

PullStates == [open : BOOLEAN, merged : BOOLEAN, updated : Nat]

IssuePosts ==
  [type : {"issues", "issue_comment"},
   action : {"opened", "closed", "reopened", "labeled", "unlabeled", "created"},
   issue : Issues, open : BOOLEAN, labels : SUBSET Labels, label : Labels \cup {"none"},
   at : Nat, nth : Nat, sender : People]

PullPosts ==
  [type : {"pull_request"}, action : {"opened", "closed", "reopened"}, pull : Pulls,
   open : BOOLEAN, merged : BOOLEAN, at : Nat, sender : People]

RunPosts == [type : {"workflow_run"}, pulls : SUBSET Pulls, sender : People]

Posts == IssuePosts \cup PullPosts \cup RunPosts

Wakes == [issue : Issues, by : Posts]

Outcomes == [wake : Wakes, how : {"woken", "dropped"}]

\* None is told apart from what it stands in for.
ASSUME NoneAssumption ==
  None \notin IssueStates /\ None \notin PullStates /\ None \notin Outcomes

VARIABLES
  setup,       \* one of Setups
  now,         \* the second
  issue,       \* GitHub: each issue, or None before it is opened
  pull,        \* GitHub: each pull request, or None before it is opened
  posted,      \* GitHub: the deliveries posted
  ledger,      \* IssueLedger._issues, least recently observed first
  pulls,       \* PullLedger._pulls, likewise
  waiting,     \* the wakes queued: the issue, and the delivery it is woken by
  outcome,     \* the last dispatch, [wake, how], or None
  heard,       \* history: the deliveries about what the ledgers hold, since they hold it;
               \* but for a change that an earlier one of its second undid by arriving later
  restarts

github == <<setup, now, issue, pull, posted>>
router == <<ledger, pulls, waiting, outcome, heard, restarts>>
vars == <<github, router>>

Here == setup.here
Senders == setup.senders
Capacity == setup.capacity

StateActions == {"opened", "closed", "reopened"}
LabelActions == {"opened", "labeled", "unlabeled"}

-----------------------------------------------------------------------------
(* GitHub.                                                                 *)

\* What a queued wake is for: an open handoff that is not parked.
Wanted(i) ==
  /\ issue[i] # None
  /\ issue[i].open /\ "handoff" \in issue[i].labels /\ "DoNotWork" \notin issue[i].labels

Tick == now < MaxTime /\ now' = now + 1 /\ UNCHANGED <<setup, issue, pull, posted, router>>

\* A payload of issue i as x shows it.  nth is history: the number of the change, which
\* the payload does not carry, or 0.
Payload(type, action, i, x, label, nth, sender) ==
  [type |-> type, action |-> action, issue |-> i, open |-> x.open, labels |-> x.labels,
   label |-> label, at |-> now, nth |-> nth, sender |-> sender]

\* An issue is opened, labels and all: a delivery says so, and one more for each label.
\* (The ones that nothing is ever heard of need not be posted: each says the same.)
Open(i, labels, sender) ==
  LET shown == [open |-> TRUE, labels |-> labels]
  IN  \E told \in SUBSET labels :
      /\ issue' = [issue EXCEPT ![i] =
           [open |-> TRUE, labels |-> labels, before |-> shown,
            stateAt |-> now, labelsAt |-> now, updated |-> now, changes |-> 1]]
      /\ posted' = posted \cup {Payload("issues", "opened", i, shown, "none", 1, sender)}
           \cup {Payload("issues", "labeled", i, shown, l, 1, sender) : l \in told}
      /\ UNCHANGED <<setup, now, pull, router>>

\* An issue becomes [open, labels] by an action, which is posted.  before is the state
\* before the changes of this second, stateAt and labelsAt are the seconds of its last
\* changes, updated the second of its last update.
Change(i, action, open, labels, label, sender) ==
  LET old == issue[i]
      new == [open |-> open, labels |-> labels,
              before |-> IF now \in {old.stateAt, old.labelsAt} THEN old.before
                         ELSE [open |-> old.open, labels |-> old.labels],
              stateAt |-> IF action \in StateActions THEN now ELSE old.stateAt,
              labelsAt |-> IF action \in LabelActions THEN now ELSE old.labelsAt,
              updated |-> now, changes |-> old.changes + 1]
  IN  /\ issue' = [issue EXCEPT ![i] = new]
      /\ posted' = posted \cup {Payload("issues", action, i, new, label, new.changes, sender)}
      /\ UNCHANGED <<setup, now, pull, router>>

ChangeIssue(i, sender) ==
  /\ IF issue[i] = None
     THEN \E labels \in SUBSET Labels : Open(i, labels, sender)
     ELSE LET x == issue[i] IN
          \/ x.open /\ Change(i, "closed", FALSE, x.labels, "none", sender)
          \/ ~x.open /\ Change(i, "reopened", TRUE, x.labels, "none", sender)
          \/ \E l \in Labels \ x.labels :
               Change(i, "labeled", x.open, x.labels \cup {l}, l, sender)
          \/ \E l \in x.labels : Change(i, "unlabeled", x.open, x.labels \ {l}, l, sender)
  /\ Cardinality(posted') <= MaxPosts

\* Somebody comments.  The payload may show the issue as it stood at any moment of the
\* second: as it is, as it was before the second's changes, or as one of them left it.
Comment(i, sender) ==
  /\ Cardinality(posted) < MaxPosts
  /\ issue[i] # None
  /\ LET x == issue[i]
         left == {d \in posted : d.type = "issues" /\ d.issue = i /\ d.at = now}
         shown == {[open |-> x.open, labels |-> x.labels]}
                  \cup (IF now \in {x.stateAt, x.labelsAt} THEN {x.before} ELSE {})
                  \cup {[open |-> d.open, labels |-> d.labels] : d \in left}
     IN  \E s \in shown :
           posted' = posted \cup {Payload("issue_comment", "created", i, s, "none", 0, sender)}
  /\ issue' = [issue EXCEPT ![i].updated = now]
  /\ UNCHANGED <<setup, now, pull, router>>

\* A pull request is opened, closed, merged or reopened.
ChangePull(p, sender) ==
  /\ Cardinality(posted) < MaxPosts
  /\ LET post(action, open, merged) ==
           /\ pull' = [pull EXCEPT ![p] = [open |-> open, merged |-> merged, updated |-> now]]
           /\ posted' = posted \cup {[type |-> "pull_request", action |-> action, pull |-> p,
                open |-> open, merged |-> merged, at |-> now, sender |-> sender]}
     IN  \/ pull[p] = None /\ post("opened", TRUE, FALSE)
         \/ pull[p] # None /\ pull[p].open /\ \E m \in BOOLEAN : post("closed", FALSE, m)
         \/ pull[p] # None /\ ~pull[p].open /\ ~pull[p].merged /\ post("reopened", TRUE, FALSE)
  /\ UNCHANGED <<setup, now, issue, router>>

\* A workflow run of some pull requests fails.
CiFails(ps, actor) ==
  /\ Cardinality(posted) < MaxPosts
  /\ ps # {} /\ \A p \in ps : pull[p] # None
  /\ posted' = posted \cup {[type |-> "workflow_run", pulls |-> ps, sender |-> actor]}
  /\ UNCHANGED <<setup, now, issue, pull, router>>

-----------------------------------------------------------------------------
(* The ledgers.                                                            *)

\* A ledger without the entry of an issue, or of a pull request, at K.
Without(s, K) == IF K = {} THEN s ELSE RemoveAt(s, CHOOSE k \in K : TRUE)

Entry(i) == {k \in DOMAIN ledger : ledger[k].issue = i}
Tracked(i) == Entry(i) # {}
Known(i) == ledger[CHOOSE k \in Entry(i) : TRUE]

PullEntry(p) == {k \in DOMAIN pulls : pulls[k].pull = p}
PullKnown(p) == pulls[CHOOSE k \in PullEntry(p) : TRUE]

\* Fault: one over the capacity.
EvictLate(s) == IF Len(s) > Capacity + 1 THEN SubSeq(s, 2, Len(s)) ELSE s

\* popitem(last=False) until the capacity holds.
Evict(s) == IF Len(s) > Capacity THEN SubSeq(s, Len(s) - Capacity + 1, Len(s)) ELSE s

Report(d) ==
  [issue |-> d.issue, at |-> d.at, open |-> d.open, labels |-> d.labels,
   stateFirst |-> d.type = "issues" /\ d.action \in StateActions,
   labelsFirst |-> d.type = "issues" /\ d.action \in LabelActions]

\* Fault: the later arrival wins the labels, even when it only mentions them.
SettleTieLater(known, r) ==
  [r EXCEPT !.open = IF known.stateFirst /\ ~r.stateFirst THEN known.open ELSE r.open,
            !.stateFirst = known.stateFirst \/ r.stateFirst]

\* _settle_tie: the later arrival wins a field unless only the earlier one heard it
\* first-hand.
SettleTie(known, r) ==
  [r EXCEPT !.open = IF known.stateFirst /\ ~r.stateFirst THEN known.open ELSE r.open,
            !.labels = IF known.labelsFirst /\ ~r.labelsFirst THEN known.labels ELSE r.labels,
            !.stateFirst = known.stateFirst \/ r.stateFirst,
            !.labelsFirst = known.labelsFirst \/ r.labelsFirst]

\* IssueLedger.observe.
ObserveIssue(r) ==
  LET put(e) == ledger' = Evict(Append(Without(ledger, Entry(r.issue)), e))
  IN  IF Tracked(r.issue)
      THEN \/ r.at < Known(r.issue).at /\ UNCHANGED ledger
           \/ r.at = Known(r.issue).at /\ put(SettleTie(Known(r.issue), r))
           \/ r.at > Known(r.issue).at /\ put(r)
      ELSE \/ "handoff" \notin r.labels /\ UNCHANGED ledger
           \/ "handoff" \in r.labels /\ put(r)

\* Fault: the later arrival wins a tie.
OutdatedOlder(p, at, open) == at < PullKnown(p).at

\* Older, or of the same second and undoing a close.
Outdated(p, at, open) ==
  \/ at < PullKnown(p).at
  \/ at = PullKnown(p).at /\ ~PullKnown(p).open /\ open

\* PullLedger.observe.
ObservePull(p, at, open) ==
  IF PullEntry(p) # {} /\ Outdated(p, at, open) THEN UNCHANGED pulls
  ELSE pulls' = Evict(Append(Without(pulls, PullEntry(p)),
                             [pull |-> p, at |-> at, open |-> open]))

\* Fault: the brake is not looked at.
ReasonIgnoringBrake(i) ==
  IF ~Tracked(i) THEN "none"
  ELSE IF ~Known(i).open THEN "issue_closed"
  ELSE IF "handoff" \notin Known(i).labels THEN "handoff_removed"
  ELSE "none"

\* IssueLedger.reason_to_drop.
ReasonToDrop(i) ==
  IF ~Tracked(i) THEN "none"
  ELSE IF ~Known(i).open THEN "issue_closed"
  ELSE IF "DoNotWork" \in Known(i).labels THEN "do_not_work"
  ELSE IF "handoff" \notin Known(i).labels THEN "handoff_removed"
  ELSE "none"

\* IssueLedger.open_handoffs of the repository of the pull requests.
OpenHandoffs ==
  {i \in Here : Tracked(i) /\ Known(i).open /\ "handoff" \in Known(i).labels}

-----------------------------------------------------------------------------
(* Deliveries.                                                             *)

\* _is_handoff and the gates of _normalize_issues and _normalize_comment.
WakesIssue(d) ==
  /\ \/ /\ d.type = "issues"
        /\ \/ d.action = "opened" /\ "handoff" \in d.labels
           \/ d.action = "labeled" /\ d.label = "handoff"
     \/ /\ d.type = "issue_comment"
        /\ "handoff" \in d.labels
        /\ d.sender # "captain"
  /\ "DoNotWork" \notin d.labels
  /\ d.sender = "trusted"

\* An issues or issue_comment delivery: observed, then decided on.
IssueDelivery(d) ==
  /\ d.type \in {"issues", "issue_comment"}
  /\ ObserveIssue(Report(d))
  /\ waiting' = IF WakesIssue(d) THEN waiting \cup {[issue |-> d.issue, by |-> d]}
                ELSE waiting
  /\ UNCHANGED pulls

\* Fault: of several handoffs the pull request may be about, any is taken.
TargetsAny(p) == IF Named[p] # {} THEN OpenHandoffs \cap Named[p] ELSE OpenHandoffs

\* _merge_target: the only open handoff that the pull request may be about.
Targets(p) ==
  LET chosen == IF Named[p] # {} THEN OpenHandoffs \cap Named[p] ELSE OpenHandoffs
  IN  IF Cardinality(chosen) = 1 THEN chosen ELSE {}

\* _wake_on_own_pull.
WakeOnOwnPull(p, d) ==
  LET targets == {i \in Targets(p) : ReasonToDrop(i) # "do_not_work"
                                     /\ d.sender \in {"captain", "trusted"}}
  IN  waiting' = waiting \cup {[issue |-> i, by |-> d] : i \in targets}

\* _normalize_pull_request: observed, and the captain's merge wakes it.
PullDelivery(d) ==
  /\ d.type = "pull_request"
  /\ ObservePull(d.pull, d.at, d.open)
  /\ IF d.action = "closed" /\ d.merged /\ d.pull \in Own
     THEN WakeOnOwnPull(d.pull, d)
     ELSE UNCHANGED waiting
  /\ UNCHANGED ledger

\* The captain's open pull requests of a run, when all the run's ones are known.
RunPulls(ps) ==
  {p \in ps \cap Own : (\A q \in ps : PullEntry(q) # {}) /\ PullKnown(p).open}

\* _normalize_workflow_run: exactly one of them, or no wake.
RunDelivery(d) ==
  /\ d.type = "workflow_run"
  /\ IF Cardinality(RunPulls(d.pulls)) = 1
     THEN \E p \in RunPulls(d.pulls) : WakeOnOwnPull(p, d)
     ELSE UNCHANGED waiting
  /\ UNCHANGED <<ledger, pulls>>

Remembered(d) ==
  \/ /\ d.type \in {"issues", "issue_comment"}
     /\ \E k \in DOMAIN ledger' : ledger'[k].issue = d.issue
  \/ d.type = "pull_request" /\ (\E k \in DOMAIN pulls' : pulls'[k].pull = d.pull)

\* d, of the second of h, is a change of the same kind and was made before it: whichever
\* arrives later wins.
Undoes(d, h) ==
  /\ d.type = "issues" /\ h.type = "issues" /\ d.issue = h.issue
  /\ d.at = h.at /\ d.nth < h.nth
  /\ {d.action, h.action} \subseteq StateActions \/ {d.action, h.action} \subseteq LabelActions

\* normalize.
Deliver(d) ==
  /\ IssueDelivery(d) \/ PullDelivery(d) \/ RunDelivery(d)
  /\ heard' = {h \in heard \cup {d} : Remembered(h) /\ ~Undoes(d, h)}
  /\ UNCHANGED <<github, outcome, restarts>>

\* A queued wake reaches the front: recheck.
Dispatch(w) ==
  /\ w \in waiting
  /\ waiting' = waiting \ {w}
  /\ outcome' = [wake |-> w, how |-> IF ReasonToDrop(w.issue) = "none" THEN "woken" ELSE "dropped"]
  /\ UNCHANGED <<github, ledger, pulls, heard, restarts>>

-----------------------------------------------------------------------------
(* A restart.                                                              *)

Orders(S) ==
  {s \in [1..Cardinality(S) -> S] : \A j, k \in DOMAIN s : s[j] = s[k] => j = k}

\* The memory is lost, the queue with it, and warm reads the open handoffs of the
\* repositories it can reach, then the open pull requests of those that have one.
\* The listing stands for all that was posted, but says nothing first-hand about the
\* second it is stamped with.
Restart ==
  /\ restarts < MaxRestarts
  /\ restarts' = restarts + 1
  /\ waiting' = {} /\ outcome' = None
  /\ \E repos \in SUBSET {Here, Issues \ Here} :
       LET listed == {i \in UNION repos : issue[i] # None /\ issue[i].open
                                          /\ "handoff" \in issue[i].labels}
       IN  \E order \in Orders(listed) :
             ledger' = Evict([k \in DOMAIN order |->
               [issue |-> order[k], at |-> issue[order[k]].updated, open |-> TRUE,
                labels |-> issue[order[k]].labels, stateFirst |-> FALSE, labelsFirst |-> FALSE]])
  /\ LET listed == {p \in Pulls : pull[p] # None /\ pull[p].open}
         useful == \E k \in DOMAIN ledger' : ledger'[k].issue \in Here
     IN  \/ pulls' = <<>>
         \/ useful /\ \E order \in Orders(listed) :
              pulls' = Evict([k \in DOMAIN order |->
                         [pull |-> order[k], at |-> pull[order[k]].updated, open |-> TRUE]])
  /\ heard' = {d \in posted : Remembered(d)
                 /\ (d.type = "issues" => d.at < issue[d.issue].updated)
                 /\ (d.type = "pull_request" => d.at < pull[d.pull].updated)}
  /\ UNCHANGED github

-----------------------------------------------------------------------------

Init ==
  /\ setup \in Setups
  /\ now = 0
  /\ issue = [i \in Issues |-> None]
  /\ pull = [p \in Pulls |-> None]
  /\ posted = {}
  /\ ledger = <<>> /\ pulls = <<>>
  /\ waiting = {} /\ outcome = None
  /\ heard = {} /\ restarts = 0

Next ==
  \/ Tick
  \/ \E s \in Senders :
       \/ \E i \in Issues : ChangeIssue(i, s) \/ Comment(i, s)
       \/ \E p \in setup.pulls : ChangePull(p, s)
       \/ \E ps \in SUBSET setup.pulls : CiFails(ps, s)
  \/ \E d \in posted : Deliver(d)
  \/ \E w \in waiting : Dispatch(w)
  \/ Restart

Spec == Init /\ [][Next]_vars

-----------------------------------------------------------------------------
(* Properties.                                                             *)

IssueEntries ==
  [issue : Issues, at : Nat, open : BOOLEAN, labels : SUBSET Labels,
   stateFirst : BOOLEAN, labelsFirst : BOOLEAN]

PullEntries == [pull : Pulls, at : Nat, open : BOOLEAN]

TypeOK ==
  /\ setup \in Setups /\ now \in Nat /\ restarts \in Nat
  /\ issue \in [Issues -> IssueStates \cup {None}]
  /\ pull \in [Pulls -> PullStates \cup {None}]
  /\ posted \subseteq Posts /\ heard \subseteq posted
  /\ ledger \in Seq(IssueEntries) /\ pulls \in Seq(PullEntries)
  /\ Len(ledger) <= Capacity /\ Len(pulls) <= Capacity
  /\ \A i \in Issues : Cardinality(Entry(i)) <= 1
  /\ \A p \in Pulls : Cardinality(PullEntry(p)) <= 1
  /\ waiting \subseteq Wakes
  /\ outcome \in Outcomes \cup {None}

\* The route is up to date with the state of issue i, or with its labels: it has heard every
\* change of it made since the second its entry is stamped with, and of those of one second
\* the later one last.
UpToDateWith(i, actions) ==
  /\ Tracked(i)
  /\ \A d \in posted :
       d.type = "issues" /\ d.action \in actions /\ d.issue = i /\ d.at >= Known(i).at
       => d \in heard

UpToDate(i) == UpToDateWith(i, StateActions) /\ UpToDateWith(i, LabelActions)

\* An entry shows the true state, and the true labels, once every change of them made since
\* the second it is stamped with has been heard: in whatever order ("GitHub does not
\* promise delivery order"), but for the changes of one second, which can only be told
\* apart by their arrival; with whatever else that was repeated, lost, evicted, or only
\* mentioned the issue.
EntryIsCurrent ==
  \A i \in Issues :
    /\ UpToDateWith(i, StateActions) => Known(i).open = issue[i].open
    /\ UpToDateWith(i, LabelActions) => Known(i).labels = issue[i].labels

\* Every change since the second of the pull request's entry has been heard.
PullUpToDate(p) ==
  {d \in posted : d.type = "pull_request" /\ d.pull = p /\ d.at >= PullKnown(p).at}
    \subseteq heard

\* A pull request is held open only if it is, once every change since the second of
\* its entry has been heard ("the only safe error is a missed wake").
PullHeldOpenIsOpen ==
  \A p \in Pulls :
    PullEntry(p) # {} /\ PullKnown(p).open /\ PullUpToDate(p) => pull[p].open

\* A wake that is launched on an issue the router is up to date with is wanted at
\* that moment: the issue is open, a handoff and not parked.
WokenIsWanted ==
  [][\A i \in Issues :
       (\E w \in waiting \ waiting' :
          w.issue = i /\ outcome' = [wake |-> w, how |-> "woken"])
       => (UpToDate(i) => Wanted(i))]_vars

\* What is known of pull request p leaves no doubt that it is about issue i: no other
\* open handoff it may be about is known, and it names i if it names any.
IsAbout(p, i) ==
  /\ Named[p] # {} => i \in Named[p]
  /\ \A j \in Here \ {i} :
       UpToDate(j) /\ issue[j].open /\ "handoff" \in issue[j].labels
       => Named[p] # {} /\ j \notin Named[p]

\* Never a guess: a pull request wakes its captain on the issue it is about; a failed run
\* does so only when no pull request of the run is unknown, for one of its captain's own
\* that is open or whose closing is unheard.
NeverAGuess ==
  [][\A w \in waiting' \ waiting : \A d \in posted :
       /\ d.type = "pull_request" /\ Deliver(d) => IsAbout(d.pull, w.issue)
       /\ d.type = "workflow_run" /\ Deliver(d) =>
            /\ \A p \in d.pulls : PullEntry(p) # {}
            /\ \E p \in d.pulls \cap Own :
                 (PullUpToDate(p) => pull[p].open) /\ IsAbout(p, w.issue)]_vars

=============================================================================
