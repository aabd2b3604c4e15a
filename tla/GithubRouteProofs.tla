------------------------- MODULE GithubRouteProofs -------------------------
(***************************************************************************)
(* Proofs about GithubRoute, for every number of issues and pull requests, *)
(* any capacity, and deliveries late, repeated, lost or reordered at will. *)
(***************************************************************************)
EXTENDS GithubRoute, SequenceFacts, FiniteSetTheorems

-----------------------------------------------------------------------------
(* The inductive invariant.                                                *)

\* The variables' types, with one entry an issue and one a pull request.
Typed ==
  /\ setup \in Setups /\ now \in Nat /\ restarts \in Nat
  /\ issue \in [Issues -> IssueStates \cup {None}]
  /\ pull \in [Pulls -> PullStates \cup {None}]
  /\ posted \subseteq Posts /\ heard \subseteq posted
  /\ ledger \in Seq(IssueEntries) /\ Len(ledger) <= Capacity
  /\ \A j, k \in DOMAIN ledger : ledger[j].issue = ledger[k].issue => j = k
  /\ pulls \in Seq(PullEntries) /\ Len(pulls) <= Capacity
  /\ \A j, k \in DOMAIN pulls : pulls[j].pull = pulls[k].pull => j = k
  /\ waiting \subseteq Wakes
  /\ outcome \in Outcomes \cup {None}

\* The deliveries about issues and comments, and those about pull requests, among D.
OfIssues(D) == D \cap IssuePosts
OfPulls(D) == D \cap PullPosts

\* The deliveries of D that made a change to a state, and to the labels.
StateChanges(D) == {d \in OfIssues(D) : d.type = "issues" /\ d.action \in StateActions}
LabelChanges(D) == {d \in OfIssues(D) : d.type = "issues" /\ d.action \in LabelActions}

\* d is the last of the changes C of issue i.
IsLast(d, C, i) ==
  d \in C /\ d.issue = i /\ \A c \in C : c.issue = i => c.at <= d.at /\ c.nth <= d.nth

\* x is what issue i is in second n, and D what was posted.  It was last updated no earlier
\* than it was changed; before is what it still is, but for what a change of the last such
\* second was about; a delivery is no later than the last update, shows what the issue is
\* when it is later than the last change, and what the others of its change show; and the
\* last change of the state, and of the labels, was posted and shows them.
IssueShows(i, x, n, D) ==
  /\ x.stateAt <= x.updated /\ x.labelsAt <= x.updated /\ x.updated <= n
  /\ x.stateAt > x.labelsAt => x.before.labels = x.labels
  /\ x.labelsAt > x.stateAt => x.before.open = x.open
  /\ \A d \in OfIssues(D) : d.issue = i =>
       /\ d.at <= x.updated /\ d.nth <= x.changes
       /\ d.at > x.stateAt => d.open = x.open
       /\ d.at > x.labelsAt => d.labels = x.labels
  /\ \A c, d \in OfIssues(D) :
       c.issue = i /\ d.issue = i /\ c.type = "issues" /\ d.type = "issues" /\ c.nth = d.nth
       => c.open = d.open /\ c.labels = d.labels
  /\ \E d : IsLast(d, StateChanges(D), i) /\ d.at = x.stateAt /\ d.open = x.open
  /\ \E d : IsLast(d, LabelChanges(D), i) /\ d.at = x.labelsAt /\ d.labels = x.labels

\* What GitHub has posted about each issue.
GithubInv ==
  \A i \in Issues :
    IF issue[i] = None THEN \A d \in OfIssues(posted) : d.issue # i
                       ELSE IssueShows(i, issue[i], now, posted)

\* An entry of the ledger is no later than the issue's last update, and shows what the
\* issue is when it is later than its last change.
EntryShowsIssue ==
  \A k \in DOMAIN ledger : LET e == ledger[k] IN
    /\ issue[e.issue] # None /\ e.at <= issue[e.issue].updated
    /\ e.at > issue[e.issue].stateAt => e.open = issue[e.issue].open
    /\ e.at > issue[e.issue].labelsAt => e.labels = issue[e.issue].labels

\* What was heard is about what the ledgers hold.
HeardIsHeld ==
  /\ \A d \in OfIssues(heard) : Tracked(d.issue)
  /\ \A d \in OfPulls(heard) : PullEntry(d.pull) # {}

\* Among C there is a later change of its issue, of the same second, than d.
Surpassed(d, C) == \E c \in C : c.issue = d.issue /\ c.at = d.at /\ c.nth > d.nth

\* An entry e has heard H, of what was posted, D: it is no earlier than what was heard of
\* its issue, and shows what a change of its second left, unless a later one was made then.
HasHeard(e, H, D) ==
  /\ \A d \in OfIssues(H) : d.issue = e.issue => d.at <= e.at
  /\ \A d \in StateChanges(H) :
       d.issue = e.issue /\ d.at = e.at =>
         e.stateFirst /\ (e.open = d.open \/ Surpassed(d, StateChanges(D)))
  /\ \A d \in LabelChanges(H) :
       d.issue = e.issue /\ d.at = e.at =>
         e.labelsFirst /\ (e.labels = d.labels \/ Surpassed(d, LabelChanges(D)))

\* The entries of the ledger have heard what was heard.
EntryHeard == \A k \in DOMAIN ledger : HasHeard(ledger[k], heard, posted)

\* A delivery about a pull request is no later than its last change, and the close of a
\* closed one was posted.
PostShowsPull ==
  /\ \A p \in Pulls : pull[p] # None => pull[p].updated <= now
  /\ \A d \in OfPulls(posted) : pull[d.pull] # None /\ d.at <= pull[d.pull].updated
  /\ \A p \in Pulls : pull[p] # None /\ ~pull[p].open =>
       \E d \in OfPulls(posted) : d.pull = p /\ d.at = pull[p].updated /\ ~d.open

\* An entry of the pull ledger is no later than the pull request's last change, no earlier
\* than what was heard of it, and closed if a close of its second was heard.
PullEntryHeard ==
  \A k \in DOMAIN pulls : LET e == pulls[k] IN
    /\ pull[e.pull] # None /\ e.at <= pull[e.pull].updated
    /\ \A d \in OfPulls(heard) :
         d.pull = e.pull => d.at <= e.at /\ (d.at = e.at /\ ~d.open => ~e.open)

\* What holds of the pull requests.
PullInv == HeardIsHeld /\ PostShowsPull /\ PullEntryHeard

\* What holds of the issues.
IssueInv == GithubInv /\ HeardIsHeld /\ EntryShowsIssue /\ EntryHeard

-----------------------------------------------------------------------------
(* The ledgers.                                                            *)

\* What is left of a ledger without an entry: h says where each of the others was.
LEMMA WithoutShape ==
  ASSUME NEW S, NEW s \in Seq(S), NEW K \in SUBSET DOMAIN s, \A j, k \in K : j = k
  PROVE  LET w == Without(s, K) IN
         /\ w \in Seq(S) /\ Len(w) <= Len(s)
         /\ \E h \in [1..Len(w) -> DOMAIN s \ K] :
              /\ \A p \in 1..Len(w) : w[p] = s[h[p]]
              /\ \A p, q \in 1..Len(w) : h[p] = h[q] => p = q
<1> DEFINE w == Without(s, K)
<1>1. Len(s) \in Nat /\ DOMAIN s = 1..Len(s)
  OBVIOUS
<1>2. CASE K = {}
  <2> DEFINE h == [p \in 1..Len(s) |-> p]
  <2>1. w = s
    BY <1>2 DEF Without
  <2>2. h \in [1..Len(s) -> DOMAIN s \ K] /\ \A p \in 1..Len(s) : h[p] = p
    BY <1>1, <1>2
  <2> HIDE DEF h, w
  <2> QED
    BY <1>1, <2>1, <2>2 DEF w
<1>3. CASE K # {}
  <2>1. PICK r \in K : r = CHOOSE k \in K : TRUE
    BY <1>3
  <2>2. r \in 1..Len(s) /\ K = {r}
    BY <1>1
  <2> DEFINE n == Len(s) - 1
             h == [p \in 1..n |-> IF p < r THEN p ELSE p + 1]
  <2>3. w = RemoveAt(s, r)
    BY <1>3, <2>1 DEF Without
  <2> HIDE DEF w
  <2>4. /\ w \in Seq(S) /\ Len(w) = n
        /\ \A p \in 1..n : w[p] = IF p < r THEN s[p] ELSE s[p + 1]
    BY <2>2, <2>3, RemovedAt
  <2>5. \A p \in 1..n : (IF p < r THEN p ELSE p + 1) \in DOMAIN s \ K
    BY <1>1, <2>2
  <2>6. h \in [1..n -> DOMAIN s \ K] /\ \A p \in 1..n : h[p] = IF p < r THEN p ELSE p + 1
    BY <2>5
  <2>7. \A p \in 1..n : w[p] = s[h[p]]
    BY <2>4, <2>6
  <2>8. \A p, q \in 1..n : h[p] = h[q] => p = q
    BY <1>1, <2>2, <2>6
  <2>9. n <= Len(s)
    BY <1>1
  <2> HIDE DEF h, n
  <2> QED
    BY <2>4, <2>6, <2>7, <2>8, <2>9 DEF w
<1> QED
  BY <1>2, <1>3

\* t is what a ledger s is once e is put into it for the entry at K: e, and others of s,
\* each once.
IsPut(S, t, s, K, e) ==
  /\ t \in Seq(S) /\ Len(t) <= Capacity
  /\ \E l \in DOMAIN t : t[l] = e /\
       \E h \in [DOMAIN t \ {l} -> DOMAIN s \ K] :
         /\ \A p \in DOMAIN t \ {l} : t[p] = s[h[p]]
         /\ \A p, q \in DOMAIN t \ {l} : h[p] = h[q] => p = q

\* What a ledger is once an entry is put into it.
LEMMA PutShape ==
  ASSUME Capacity \in Nat \ {0}, NEW S, NEW s \in Seq(S), Len(s) <= Capacity,
         NEW K \in SUBSET DOMAIN s, \A j, k \in K : j = k, NEW e \in S
  PROVE  IsPut(S, Evict(Append(Without(s, K), e)), s, K, e)
<1> DEFINE w == Without(s, K)
           m == Append(w, e)
           t == Evict(m)
<1>1. /\ w \in Seq(S) /\ Len(w) <= Len(s)
      /\ \E g \in [1..Len(w) -> DOMAIN s \ K] :
           /\ \A p \in 1..Len(w) : w[p] = s[g[p]]
           /\ \A p, q \in 1..Len(w) : g[p] = g[q] => p = q
  BY WithoutShape
<1> HIDE DEF w
<1>2. PICK g \in [1..Len(w) -> DOMAIN s \ K] :
           /\ \A p \in 1..Len(w) : w[p] = s[g[p]]
           /\ \A p, q \in 1..Len(w) : g[p] = g[q] => p = q
  BY <1>1
<1>3. PICK n \in Nat : n = Len(w)
  BY <1>1
<1>4. PICK c \in Nat \ {0} : c = Capacity
  OBVIOUS
<1>5. n <= c
  <2>1. PICK k \in Nat : k = Len(s)
    OBVIOUS
  <2> QED
    BY <1>1, <1>3, <1>4, <2>1
<1>6. m \in Seq(S) /\ Len(m) = n + 1
  BY <1>1, <1>3, AppendProperties
<1>7. PICK x \in {0, 1} : x = IF n + 1 > c THEN 1 ELSE 0
  OBVIOUS
<1>8. x <= n /\ n + 1 - x <= c /\ n + 1 - x \in Nat \ {0}
  BY <1>4, <1>5, <1>7
<1>9. t = SubSeq(m, x + 1, Len(m))
  <2>1. CASE n + 1 > c
    <3>1. n + 1 - c + 1 = x + 1
      BY <1>4, <1>5, <1>7, <2>1
    <3>2. Len(m) > Capacity /\ Len(m) - Capacity + 1 = x + 1
      BY <1>4, <1>6, <2>1, <3>1
    <3> HIDE DEF m
    <3> QED
      BY <3>2 DEF Evict
  <2>2. CASE ~(n + 1 > c)
    <3>1. t = m /\ x = 0
      BY <1>4, <1>6, <1>7, <2>2 DEF Evict
    <3>2. SubSeq(m, 1, Len(m)) = m
      BY <1>6, SubSeqFull
    <3> QED
      BY <3>1, <3>2
  <2> QED
    BY <2>1, <2>2
<1> HIDE DEF t, m
<1> DEFINE l == n + 1 - x
<1>10. t \in Seq(S) /\ Len(t) = l /\ t[l] = e /\ \A p \in 1..(l - 1) : t[p] = w[p + x]
  <2>1. LET u == SubSeq(Append(w, e), x + 1, Len(Append(w, e)))
            k == Len(w) + 1 - x
        IN  u \in Seq(S) /\ Len(u) = k /\ u[k] = e /\ \A p \in 1..(k - 1) : u[p] = w[p + x]
    BY <1>1, <1>3, <1>8, AddedWithin
  <2> QED
    BY <1>3, <1>9, <2>1 DEF m
<1> HIDE DEF l
<1>11. DOMAIN t = 1..l /\ l \in DOMAIN t /\ DOMAIN t \ {l} = 1..(l - 1)
  <2>1. DOMAIN t = 1..l
    BY <1>10
  <2> QED
    BY <1>8, <2>1 DEF l
<1> DEFINE h == [p \in 1..(l - 1) |-> g[p + x]]
<1>12. \A p \in 1..(l - 1) : p + x \in 1..n
  BY <1>7 DEF l
<1>13. h \in [1..(l - 1) -> DOMAIN s \ K] /\ \A p \in 1..(l - 1) : h[p] = g[p + x]
  BY <1>3, <1>12
<1>14. \A p \in 1..(l - 1) : t[p] = s[h[p]]
  BY <1>2, <1>3, <1>10, <1>12, <1>13
<1>15. \A p, q \in 1..(l - 1) : h[p] = h[q] => p = q
  <2>1. \A p, q \in 1..(l - 1) : p + x = q + x => p = q
    BY <1>7
  <2> QED
    BY <1>2, <1>3, <1>12, <1>13, <2>1
<1> HIDE DEF h
<1>16. l <= Capacity
  BY <1>4, <1>8 DEF l
<1>17. /\ h \in [DOMAIN t \ {l} -> DOMAIN s \ K]
       /\ \A p \in DOMAIN t \ {l} : t[p] = s[h[p]]
       /\ \A p, q \in DOMAIN t \ {l} : h[p] = h[q] => p = q
  BY <1>11, <1>13, <1>14, <1>15
<1>18. \E i \in DOMAIN t : t[i] = e /\
         \E f \in [DOMAIN t \ {i} -> DOMAIN s \ K] :
           /\ \A p \in DOMAIN t \ {i} : t[p] = s[f[p]]
           /\ \A p, q \in DOMAIN t \ {i} : f[p] = f[q] => p = q
  BY <1>10, <1>11, <1>17
<1>19. t \in Seq(S) /\ Len(t) <= Capacity
  BY <1>10, <1>16
<1>20. IsPut(S, t, s, K, e)
  BY <1>18, <1>19 DEF IsPut
<1> QED
  BY <1>20 DEF t, m, w

\* What the setup bounds.
LEMMA SetupTypes ==
  ASSUME Typed
  PROVE  /\ Capacity \in Nat \ {0} /\ Here \subseteq Issues /\ Senders \subseteq People
         /\ setup.pulls \subseteq Pulls
  BY GithubAssumption DEF Typed, Capacity, Here, Senders

\* The three kinds of deliveries.
LEMMA Kinds ==
  ASSUME NEW d \in Posts
  PROVE  /\ d \in IssuePosts <=> d.type \in {"issues", "issue_comment"}
         /\ d \in PullPosts <=> d.type = "pull_request"
         /\ d \in RunPosts <=> d.type = "workflow_run"
  BY DEF Posts, IssuePosts, PullPosts, RunPosts

\* What the ledger knows of an issue is its only entry.
LEMMA KnownShape ==
  ASSUME Typed, NEW i
  PROVE  /\ Entry(i) \in SUBSET DOMAIN ledger /\ \A j, k \in Entry(i) : j = k
         /\ Tracked(i) <=> \E k \in DOMAIN ledger : ledger[k].issue = i
         /\ Tracked(i) =>
              /\ Known(i) \in IssueEntries /\ Known(i).issue = i
              /\ \E k \in DOMAIN ledger : ledger[k] = Known(i)
         /\ \A k \in DOMAIN ledger : ledger[k].issue = i => Known(i) = ledger[k]
<1>1. ledger \in Seq(IssueEntries)
      /\ \A j, k \in DOMAIN ledger : ledger[j].issue = ledger[k].issue => j = k
  BY DEF Typed
<1>2. \A k \in DOMAIN ledger : ledger[k] \in IssueEntries
  BY <1>1, ElementOfSeq
<1>3. Entry(i) \in SUBSET DOMAIN ledger /\ \A j, k \in Entry(i) : j = k
  BY <1>1 DEF Entry
<1>4. ASSUME NEW k \in DOMAIN ledger, ledger[k].issue = i
      PROVE  Known(i) = ledger[k]
  <2>1. k \in Entry(i)
    BY <1>4 DEF Entry
  <2>2. (CHOOSE j \in Entry(i) : TRUE) \in Entry(i)
    BY <2>1
  <2>3. (CHOOSE j \in Entry(i) : TRUE) = k
    BY <1>3, <2>1, <2>2
  <2> QED
    BY <2>3 DEF Known
<1>5. Tracked(i) <=> \E k \in DOMAIN ledger : ledger[k].issue = i
  BY DEF Tracked, Entry
<1> QED
  BY <1>2, <1>3, <1>4, <1>5

\* The same for a pull request.
LEMMA PullKnownShape ==
  ASSUME Typed, NEW p
  PROVE  /\ PullEntry(p) \in SUBSET DOMAIN pulls /\ \A j, k \in PullEntry(p) : j = k
         /\ PullEntry(p) # {} <=> \E k \in DOMAIN pulls : pulls[k].pull = p
         /\ PullEntry(p) # {} =>
              /\ PullKnown(p) \in PullEntries /\ PullKnown(p).pull = p
              /\ \E k \in DOMAIN pulls : pulls[k] = PullKnown(p)
         /\ \A k \in DOMAIN pulls : pulls[k].pull = p => PullKnown(p) = pulls[k]
<1>1. pulls \in Seq(PullEntries)
      /\ \A j, k \in DOMAIN pulls : pulls[j].pull = pulls[k].pull => j = k
  BY DEF Typed
<1>2. \A k \in DOMAIN pulls : pulls[k] \in PullEntries
  BY <1>1, ElementOfSeq
<1>3. PullEntry(p) \in SUBSET DOMAIN pulls /\ \A j, k \in PullEntry(p) : j = k
  BY <1>1 DEF PullEntry
<1>4. ASSUME NEW k \in DOMAIN pulls, pulls[k].pull = p
      PROVE  PullKnown(p) = pulls[k]
  <2>1. k \in PullEntry(p)
    BY <1>4 DEF PullEntry
  <2>2. (CHOOSE j \in PullEntry(p) : TRUE) \in PullEntry(p)
    BY <2>1
  <2>3. (CHOOSE j \in PullEntry(p) : TRUE) = k
    BY <1>3, <2>1, <2>2
  <2> QED
    BY <2>3 DEF PullKnown
<1>5. PullEntry(p) # {} <=> \E k \in DOMAIN pulls : pulls[k].pull = p
  BY DEF PullEntry
<1> QED
  BY <1>2, <1>3, <1>4, <1>5

\* t is the ledger with an entry e put into it: one entry an issue, and the others' as they
\* were.
IssueLedgerWith(t, e) ==
  /\ t \in Seq(IssueEntries) /\ Len(t) <= Capacity
  /\ \A j, k \in DOMAIN t : t[j].issue = t[k].issue => j = k
  /\ \E l \in DOMAIN t : t[l] = e
  /\ \A k \in DOMAIN t :
       t[k] = e \/ (t[k].issue # e.issue /\ \E j \in DOMAIN ledger : t[k] = ledger[j])

\* Putting an entry into the ledger keeps one entry an issue, and the others' as they were.
LEMMA PutIssue ==
  ASSUME Typed, NEW e \in IssueEntries, NEW t,
         t = Evict(Append(Without(ledger, Entry(e.issue)), e))
  PROVE  IssueLedgerWith(t, e)
<1> DEFINE K == Entry(e.issue)
<1>1. /\ Capacity \in Nat \ {0} /\ ledger \in Seq(IssueEntries) /\ Len(ledger) <= Capacity
      /\ \A j, k \in DOMAIN ledger : ledger[j].issue = ledger[k].issue => j = k
  BY SetupTypes DEF Typed
<1>2. K \in SUBSET DOMAIN ledger /\ \A j, k \in K : j = k
  BY KnownShape
<1>3. \A j \in DOMAIN ledger \ K : ledger[j].issue # e.issue
  BY DEF Entry
<1>4. t = Evict(Append(Without(ledger, K), e))
  OBVIOUS
<1> HIDE DEF K
<1>5. IsPut(IssueEntries, t, ledger, K, e)
  BY <1>1, <1>2, <1>4, PutShape
<1>6. t \in Seq(IssueEntries) /\ Len(t) <= Capacity
  BY <1>5 DEF IsPut
<1>7. PICK l \in DOMAIN t : t[l] = e /\
           \E h \in [DOMAIN t \ {l} -> DOMAIN ledger \ K] :
             /\ \A p \in DOMAIN t \ {l} : t[p] = ledger[h[p]]
             /\ \A p, q \in DOMAIN t \ {l} : h[p] = h[q] => p = q
  BY <1>5 DEF IsPut
<1>8. PICK h \in [DOMAIN t \ {l} -> DOMAIN ledger \ K] :
             /\ \A p \in DOMAIN t \ {l} : t[p] = ledger[h[p]]
             /\ \A p, q \in DOMAIN t \ {l} : h[p] = h[q] => p = q
  BY <1>7
<1>9. \A k \in DOMAIN t \ {l} :
         /\ h[k] \in DOMAIN ledger /\ t[k] = ledger[h[k]] /\ t[k].issue # e.issue
  BY <1>3, <1>8
<1>10. ASSUME NEW j \in DOMAIN t, NEW k \in DOMAIN t, t[j].issue = t[k].issue
      PROVE  j = k
  <2>1. CASE j # l /\ k # l
    <3>1. h[j] = h[k]
      BY <1>1, <1>9, <1>10, <2>1
    <3> QED
      BY <1>8, <2>1, <3>1
  <2>2. CASE j = l \/ k = l
    BY <1>7, <1>9, <1>10, <2>2
  <2> QED
    BY <2>1, <2>2
<1>11. \A k \in DOMAIN t :
         t[k] = e \/ (t[k].issue # e.issue /\ \E j \in DOMAIN ledger : t[k] = ledger[j])
  BY <1>7, <1>9
<1> QED
  BY <1>6, <1>7, <1>10, <1>11 DEF IssueLedgerWith

\* t is the pull ledger with an entry e put into it: one entry a pull request, and the
\* others' as they were.
PullLedgerWith(t, e) ==
  /\ t \in Seq(PullEntries) /\ Len(t) <= Capacity
  /\ \A j, k \in DOMAIN t : t[j].pull = t[k].pull => j = k
  /\ \E l \in DOMAIN t : t[l] = e
  /\ \A k \in DOMAIN t :
       t[k] = e \/ (t[k].pull # e.pull /\ \E j \in DOMAIN pulls : t[k] = pulls[j])

\* The same for the ledger of pull requests.
LEMMA PutPull ==
  ASSUME Typed, NEW e \in PullEntries, NEW t,
         t = Evict(Append(Without(pulls, PullEntry(e.pull)), e))
  PROVE  PullLedgerWith(t, e)
<1> DEFINE K == PullEntry(e.pull)
<1>1. /\ Capacity \in Nat \ {0} /\ pulls \in Seq(PullEntries) /\ Len(pulls) <= Capacity
      /\ \A j, k \in DOMAIN pulls : pulls[j].pull = pulls[k].pull => j = k
  BY SetupTypes DEF Typed
<1>2. K \in SUBSET DOMAIN pulls /\ \A j, k \in K : j = k
  BY PullKnownShape
<1>3. \A j \in DOMAIN pulls \ K : pulls[j].pull # e.pull
  BY DEF PullEntry
<1>4. t = Evict(Append(Without(pulls, K), e))
  OBVIOUS
<1> HIDE DEF K
<1>5. IsPut(PullEntries, t, pulls, K, e)
  BY <1>1, <1>2, <1>4, PutShape
<1>6. t \in Seq(PullEntries) /\ Len(t) <= Capacity
  BY <1>5 DEF IsPut
<1>7. PICK l \in DOMAIN t : t[l] = e /\
           \E h \in [DOMAIN t \ {l} -> DOMAIN pulls \ K] :
             /\ \A p \in DOMAIN t \ {l} : t[p] = pulls[h[p]]
             /\ \A p, q \in DOMAIN t \ {l} : h[p] = h[q] => p = q
  BY <1>5 DEF IsPut
<1>8. PICK h \in [DOMAIN t \ {l} -> DOMAIN pulls \ K] :
             /\ \A p \in DOMAIN t \ {l} : t[p] = pulls[h[p]]
             /\ \A p, q \in DOMAIN t \ {l} : h[p] = h[q] => p = q
  BY <1>7
<1>9. \A k \in DOMAIN t \ {l} :
         /\ h[k] \in DOMAIN pulls /\ t[k] = pulls[h[k]] /\ t[k].pull # e.pull
  BY <1>3, <1>8
<1>10. ASSUME NEW j \in DOMAIN t, NEW k \in DOMAIN t, t[j].pull = t[k].pull
      PROVE  j = k
  <2>1. CASE j # l /\ k # l
    <3>1. h[j] = h[k]
      BY <1>1, <1>9, <1>10, <2>1
    <3> QED
      BY <1>8, <2>1, <3>1
  <2>2. CASE j = l \/ k = l
    BY <1>7, <1>9, <1>10, <2>2
  <2> QED
    BY <2>1, <2>2
<1>11. \A k \in DOMAIN t :
         t[k] = e \/ (t[k].pull # e.pull /\ \E j \in DOMAIN pulls : t[k] = pulls[j])
  BY <1>7, <1>9
<1> QED
  BY <1>6, <1>7, <1>10, <1>11 DEF PullLedgerWith

\* What observe does with a report: nothing, if it is older or of no handoff; else the
\* issue's entry is the report, or the two reports of the second settled.
LEMMA ObserveIssueShape ==
  ASSUME Typed, NEW d \in IssuePosts, ObserveIssue(Report(d))
  PROVE  \/ ledger' = ledger /\ (Tracked(d.issue) => d.at < Known(d.issue).at)
         \/ \E e \in IssueEntries :
              /\ e.issue = d.issue /\ e.at = d.at
              /\ ledger' = Evict(Append(Without(ledger, Entry(d.issue)), e))
              /\ \/ (Tracked(d.issue) => Known(d.issue).at < d.at) /\ e = Report(d)
                 \/ /\ Tracked(d.issue) /\ Known(d.issue).at = d.at
                    /\ e = SettleTie(Known(d.issue), Report(d))
<1> DEFINE r == Report(d)
           i == d.issue
<1>1. r \in IssueEntries /\ r.issue = i /\ r.at = d.at /\ r.labels = d.labels
  BY DEF Report, IssuePosts, IssueEntries
<1>2. Tracked(i) => Known(i) \in IssueEntries /\ Known(i).issue = i
  BY KnownShape
<1>3. Tracked(i) => SettleTie(Known(i), r) \in IssueEntries
                    /\ SettleTie(Known(i), r).issue = i /\ SettleTie(Known(i), r).at = d.at
  BY <1>1, <1>2 DEF SettleTie, IssueEntries
<1>4. ObserveIssue(r)
  OBVIOUS
<1> HIDE DEF r
<1>5. CASE Tracked(i)
  <2>1. \/ r.at < Known(i).at /\ ledger' = ledger
        \/ r.at = Known(i).at
           /\ ledger' = Evict(Append(Without(ledger, Entry(i)), SettleTie(Known(i), r)))
        \/ r.at > Known(i).at /\ ledger' = Evict(Append(Without(ledger, Entry(i)), r))
    BY <1>1, <1>4, <1>5 DEF ObserveIssue
  <2>2. CASE r.at < Known(i).at /\ ledger' = ledger
    BY <1>1, <2>2
  <2>3. CASE r.at = Known(i).at
             /\ ledger' = Evict(Append(Without(ledger, Entry(i)), SettleTie(Known(i), r)))
    BY <1>1, <1>3, <1>5, <2>3 DEF r
  <2>4. CASE r.at > Known(i).at /\ ledger' = Evict(Append(Without(ledger, Entry(i)), r))
    <3>1. r.at \in Nat /\ Known(i).at \in Nat
      BY <1>1, <1>2, <1>5 DEF IssueEntries
    <3>2. Known(i).at < d.at
      BY <1>1, <2>4, <3>1
    <3> QED
      BY <1>1, <2>4, <3>2 DEF r
  <2> QED
    BY <2>1, <2>2, <2>3, <2>4
<1>6. CASE ~Tracked(i)
  <2>1. \/ ledger' = ledger
        \/ ledger' = Evict(Append(Without(ledger, Entry(i)), r))
    BY <1>1, <1>4, <1>6 DEF ObserveIssue
  <2> QED
    BY <1>1, <1>6, <2>1 DEF r
<1> QED
  BY <1>5, <1>6

\* What observe does with a pull request: nothing, if the report is older or would undo a
\* close of its second; else the entry is the report.
LEMMA ObservePullShape ==
  ASSUME Typed, NEW d \in PullPosts, ObservePull(d.pull, d.at, d.open)
  PROVE  \/ /\ pulls' = pulls /\ PullEntry(d.pull) # {}
            /\ \/ d.at < PullKnown(d.pull).at
               \/ d.at = PullKnown(d.pull).at /\ ~PullKnown(d.pull).open /\ d.open
         \/ \E e \in PullEntries :
              /\ e = [pull |-> d.pull, at |-> d.at, open |-> d.open]
              /\ pulls' = Evict(Append(Without(pulls, PullEntry(d.pull)), e))
              /\ PullEntry(d.pull) # {} =>
                   /\ PullKnown(d.pull).at <= d.at
                   /\ d.at = PullKnown(d.pull).at => PullKnown(d.pull).open \/ ~d.open
<1>1. d.pull \in Pulls /\ d.at \in Nat /\ d.open \in BOOLEAN
  BY DEF PullPosts
<1>2. [pull |-> d.pull, at |-> d.at, open |-> d.open] \in PullEntries
  BY <1>1 DEF PullEntries
<1>3. PullEntry(d.pull) # {} => PullKnown(d.pull).at \in Nat
  BY PullKnownShape DEF PullEntries
<1>4. CASE PullEntry(d.pull) # {} /\ Outdated(d.pull, d.at, d.open)
  BY <1>4 DEF ObservePull, Outdated
<1>5. CASE ~(PullEntry(d.pull) # {} /\ Outdated(d.pull, d.at, d.open))
  <2>1. pulls' = Evict(Append(Without(pulls, PullEntry(d.pull)),
                              [pull |-> d.pull, at |-> d.at, open |-> d.open]))
    BY <1>5 DEF ObservePull
  <2>2. PullEntry(d.pull) # {} =>
          /\ PullKnown(d.pull).at <= d.at
          /\ d.at = PullKnown(d.pull).at => PullKnown(d.pull).open \/ ~d.open
    BY <1>1, <1>3, <1>5 DEF Outdated
  <2> QED
    BY <1>2, <2>1, <2>2
<1> QED
  BY <1>4, <1>5

\* What is left of a ledger over its capacity: its last entries.
LEMMA EvictShape ==
  ASSUME Capacity \in Nat \ {0}, NEW S, NEW s \in Seq(S)
  PROVE  /\ Evict(s) \in Seq(S) /\ Len(Evict(s)) <= Capacity
         /\ \E x \in Nat : \A p \in DOMAIN Evict(s) :
              p \in Nat /\ p + x \in DOMAIN s /\ Evict(s)[p] = s[p + x]
<1>1. PICK n \in Nat : n = Len(s)
  OBVIOUS
<1>2. PICK c \in Nat \ {0} : c = Capacity
  OBVIOUS
<1>3. CASE n > c
  <2>1. n - c \in 0..Len(s) /\ Evict(s) = SubSeq(s, (n - c) + 1, Len(s)) /\ n - c \in Nat
    BY <1>1, <1>2, <1>3 DEF Evict
  <2>2. /\ Evict(s) \in Seq(S) /\ Len(Evict(s)) = Len(s) - (n - c)
        /\ \A p \in 1..(Len(s) - (n - c)) : Evict(s)[p] = s[p + (n - c)]
    BY <2>1, WithoutFirst
  <2>3. Len(s) - (n - c) = c
    BY <1>1, <1>2
  <2>4. DOMAIN Evict(s) = 1..c
    BY <2>2, <2>3
  <2>5. \A p \in 1..c : p \in Nat /\ p + (n - c) \in DOMAIN s
    BY <1>1, <1>2, <1>3
  <2>6. \A p \in DOMAIN Evict(s) :
          p \in Nat /\ p + (n - c) \in DOMAIN s /\ Evict(s)[p] = s[p + (n - c)]
    BY <2>2, <2>3, <2>4, <2>5
  <2> QED
    BY <1>2, <2>1, <2>2, <2>3, <2>6
<1>4. CASE ~(n > c)
  <2>1. Evict(s) = s
    BY <1>1, <1>2, <1>4 DEF Evict
  <2>2. \A p \in DOMAIN s : p \in Nat /\ p + 0 \in DOMAIN s /\ s[p] = s[p + 0]
    OBVIOUS
  <2>3. Len(s) <= Capacity
    BY <1>1, <1>2, <1>4
  <2>4. 0 \in Nat
    OBVIOUS
  <2> QED
    BY <2>1, <2>2, <2>3, <2>4
<1> QED
  BY <1>3, <1>4

\* What an order of a finite set is.
LEMMA OrderShape ==
  ASSUME NEW S, IsFiniteSet(S), NEW s \in Orders(S)
  PROVE  /\ s \in Seq(S) /\ DOMAIN s = 1..Len(s) /\ Len(s) \in Nat
         /\ \A k \in DOMAIN s : s[k] \in S
         /\ \A j, k \in DOMAIN s : s[j] = s[k] => j = k
<1>1. PICK n \in Nat : n = Cardinality(S)
  BY FS_CardinalityType
<1>2. s \in [1..n -> S] /\ \A j, k \in DOMAIN s : s[j] = s[k] => j = k
  BY <1>1 DEF Orders
<1>3. s \in Seq(S) /\ DOMAIN s = 1..n
  BY <1>2, IsASeq
<1> QED
  BY <1>2, <1>3

-----------------------------------------------------------------------------
(* What the actions do.                                                    *)

\* None is no issue and no pull request.
LEMMA NoneApart == None \notin IssueStates /\ None \notin PullStates /\ None \notin Outcomes
  BY NoneAssumption

\* What the opening of an issue is: x is what it becomes, and S what is posted: that it is
\* opened, and labeled.
IssueOpens(i, x, S) ==
  /\ issue[i] = None /\ issue' = [issue EXCEPT ![i] = x] /\ posted' = posted \cup S
  /\ x.stateAt = now /\ x.labelsAt = now /\ x.updated = now
  /\ \A d \in S :
       /\ d \in IssuePosts /\ d.type = "issues" /\ d.issue = i /\ d.at = now
       /\ d.nth = x.changes /\ d.open = x.open /\ d.labels = x.labels
  /\ \E d \in S : d.action \in StateActions /\ d.action \in LabelActions

\* What a change of an issue is: x is what it becomes, d what is posted.
IssueBecomes(i, x, d) ==
  /\ issue[i] # None /\ issue' = [issue EXCEPT ![i] = x] /\ posted' = posted \cup {d}
  /\ d.type = "issues" /\ d.issue = i /\ d.at = now /\ d.open = x.open /\ d.labels = x.labels
  /\ x.updated = now /\ x.changes = issue[i].changes + 1 /\ d.nth = x.changes
  /\ x.before = IF now \in {issue[i].stateAt, issue[i].labelsAt} THEN issue[i].before
                ELSE [open |-> issue[i].open, labels |-> issue[i].labels]
  /\ \/ /\ d.action \in StateActions /\ d.action \notin LabelActions
        /\ x.stateAt = now /\ x.labelsAt = issue[i].labelsAt /\ x.labels = issue[i].labels
     \/ /\ d.action \in LabelActions /\ d.action \notin StateActions
        /\ x.labelsAt = now /\ x.stateAt = issue[i].stateAt /\ x.open = issue[i].open

\* The payload of a change or a comment.
LEMMA PayloadShape ==
  ASSUME now \in Nat, NEW type \in {"issues", "issue_comment"},
         NEW action \in {"opened", "closed", "reopened", "labeled", "unlabeled", "created"},
         NEW i \in Issues, NEW x, x.open \in BOOLEAN, x.labels \in SUBSET Labels,
         NEW label \in Labels \cup {"none"}, NEW nth \in Nat, NEW sender \in People
  PROVE  LET d == Payload(type, action, i, x, label, nth, sender) IN
         /\ d \in IssuePosts /\ d.type = type /\ d.action = action /\ d.issue = i
         /\ d.at = now /\ d.nth = nth /\ d.open = x.open /\ d.labels = x.labels
<1> DEFINE d == Payload(type, action, i, x, label, nth, sender)
<1>1. d = [type |-> type, action |-> action, issue |-> i, open |-> x.open,
           labels |-> x.labels, label |-> label, at |-> now, nth |-> nth, sender |-> sender]
  BY DEF Payload
<1> HIDE DEF d
<1>2. d \in IssuePosts
  BY <1>1 DEF IssuePosts
<1> QED
  BY <1>1, <1>2 DEF d

\* An issue is opened as Open opens it.
LEMMA OpenShape ==
  ASSUME Typed, NEW i \in Issues, NEW labels \in SUBSET Labels, NEW sender \in People,
         issue[i] = None, Open(i, labels, sender)
  PROVE  \E x \in IssueStates : \E S :
           IssueOpens(i, x, S) /\ UNCHANGED <<setup, now, pull, router>>
<1> DEFINE shown == [open |-> TRUE, labels |-> labels]
           x == [open |-> TRUE, labels |-> labels, before |-> shown,
                 stateAt |-> now, labelsAt |-> now, updated |-> now, changes |-> 1]
           o == Payload("issues", "opened", i, shown, "none", 1, sender)
           l(a) == Payload("issues", "labeled", i, shown, a, 1, sender)
<1>1. PICK told \in SUBSET labels :
        /\ issue' = [issue EXCEPT ![i] = x] /\ posted' = posted \cup {o} \cup {l(a) : a \in told}
        /\ UNCHANGED <<setup, now, pull, router>>
  BY DEF Open
<1>2. now \in Nat
  BY DEF Typed
<1>3. shown.open = TRUE /\ shown.labels = labels /\ shown \in [open : BOOLEAN, labels : SUBSET Labels]
  OBVIOUS
<1> HIDE DEF shown
<1> HIDE DEF x
<1>4. /\ o \in IssuePosts /\ o.type = "issues" /\ o.issue = i /\ o.at = now
      /\ o.nth = 1 /\ o.open = TRUE /\ o.labels = labels /\ o.action = "opened"
  BY <1>2, <1>3, PayloadShape
<1>5. \A a \in told :
        /\ l(a) \in IssuePosts /\ l(a).type = "issues" /\ l(a).issue = i /\ l(a).at = now
        /\ l(a).nth = 1 /\ l(a).open = TRUE /\ l(a).labels = labels
  BY <1>2, <1>3, PayloadShape
<1>6. x \in IssueStates
  BY <1>2, <1>3 DEF IssueStates, x
<1>7. x.stateAt = now /\ x.labelsAt = now /\ x.updated = now /\ x.changes = 1 /\ x.open = TRUE
      /\ x.labels = labels
  BY DEF x
<1> HIDE DEF o, l
<1> DEFINE S == {o} \cup {l(a) : a \in told}
<1>8. posted' = posted \cup S
  BY <1>1
<1>9. \A d \in S :
        /\ d \in IssuePosts /\ d.type = "issues" /\ d.issue = i /\ d.at = now
        /\ d.nth = x.changes /\ d.open = x.open /\ d.labels = x.labels
  BY <1>4, <1>5, <1>7
<1>10. o \in S /\ o.action \in StateActions /\ o.action \in LabelActions
  BY <1>4 DEF StateActions, LabelActions
<1> HIDE DEF S
<1>11. IssueOpens(i, x, S)
  BY <1>1, <1>7, <1>8, <1>9, <1>10 DEF IssueOpens
<1> QED
  BY <1>1, <1>6, <1>11

\* A change as Change makes it: the record of what the issue becomes, and the payload.
LEMMA ChangeShape ==
  ASSUME Typed, NEW i \in Issues, NEW open \in BOOLEAN, NEW labels \in SUBSET Labels,
         NEW label \in Labels \cup {"none"}, NEW sender \in People, issue[i] # None,
         NEW action \in {"closed", "reopened", "labeled", "unlabeled"},
         action \in {"closed", "reopened"} => labels = issue[i].labels,
         action \in {"labeled", "unlabeled"} => open = issue[i].open,
         Change(i, action, open, labels, label, sender)
  PROVE  \E x \in IssueStates : \E d \in IssuePosts :
           IssueBecomes(i, x, d) /\ UNCHANGED <<setup, now, pull, router>>
<1> DEFINE old == issue[i]
           before == IF now \in {old.stateAt, old.labelsAt} THEN old.before
                     ELSE [open |-> old.open, labels |-> old.labels]
           stateAt == IF action \in StateActions THEN now ELSE old.stateAt
           labelsAt == IF action \in LabelActions THEN now ELSE old.labelsAt
           x == [open |-> open, labels |-> labels, before |-> before, stateAt |-> stateAt,
                 labelsAt |-> labelsAt, updated |-> now, changes |-> old.changes + 1]
           d == Payload("issues", action, i, x, label, x.changes, sender)
<1>1. now \in Nat /\ old \in IssueStates
  BY DEF Typed
<1>2. /\ old.open \in BOOLEAN /\ old.labels \in SUBSET Labels /\ old.changes \in Nat
      /\ old.before \in [open : BOOLEAN, labels : SUBSET Labels]
      /\ old.stateAt \in Nat /\ old.labelsAt \in Nat
  BY <1>1 DEF IssueStates
<1>3. before \in [open : BOOLEAN, labels : SUBSET Labels]
  BY <1>2
<1>4. stateAt \in Nat /\ labelsAt \in Nat /\ old.changes + 1 \in Nat
  BY <1>1, <1>2 DEF StateActions, LabelActions
<1>5. /\ issue' = [issue EXCEPT ![i] = x] /\ posted' = posted \cup {d}
      /\ UNCHANGED <<setup, now, pull, router>>
  BY Zenon DEF Change
<1>6. \/ /\ action \in StateActions /\ action \notin LabelActions
         /\ stateAt = now /\ labelsAt = old.labelsAt /\ labels = old.labels
      \/ /\ action \in LabelActions /\ action \notin StateActions
         /\ labelsAt = now /\ stateAt = old.stateAt /\ open = old.open
  BY DEF StateActions, LabelActions
<1> HIDE DEF before, stateAt, labelsAt
<1>7. x \in IssueStates
  BY <1>1, <1>3, <1>4 DEF IssueStates
<1>8. /\ x.open = open /\ x.labels = labels /\ x.before = before /\ x.stateAt = stateAt
      /\ x.labelsAt = labelsAt /\ x.updated = now /\ x.changes = old.changes + 1
  OBVIOUS
<1> HIDE DEF x
<1>9. /\ d \in IssuePosts /\ d.type = "issues" /\ d.action = action /\ d.issue = i
      /\ d.at = now /\ d.nth = x.changes /\ d.open = x.open /\ d.labels = x.labels
  BY <1>1, <1>4, <1>8, PayloadShape
<1> HIDE DEF d
<1>10. x.before = IF now \in {issue[i].stateAt, issue[i].labelsAt} THEN issue[i].before
                  ELSE [open |-> issue[i].open, labels |-> issue[i].labels]
  BY <1>8 DEF before
<1>11. IssueBecomes(i, x, d)
  BY <1>5, <1>6, <1>8, <1>9, <1>10 DEF IssueBecomes
<1> QED
  BY <1>5, <1>7, <1>9, <1>11

\* Whatever happens to an issue opens or changes it so.
LEMMA ChangeIssueShape ==
  ASSUME Typed, NEW i \in Issues, NEW sender \in People, ChangeIssue(i, sender)
  PROVE  /\ \/ \E x \in IssueStates : \E S : IssueOpens(i, x, S)
            \/ \E x \in IssueStates : \E d \in IssuePosts : IssueBecomes(i, x, d)
         /\ UNCHANGED <<setup, now, pull, router>>
<1>1. issue[i] # None => issue[i].open \in BOOLEAN /\ issue[i].labels \in SUBSET Labels
  BY DEF Typed, IssueStates
<1>2. CASE issue[i] = None
  <2>1. PICK labels \in SUBSET Labels : Open(i, labels, sender)
    BY <1>2 DEF ChangeIssue
  <2> QED
    BY <1>2, <2>1, OpenShape
<1>3. CASE issue[i] # None
  <2> DEFINE y == issue[i]
  <2>1. \/ Change(i, "closed", FALSE, y.labels, "none", sender)
        \/ Change(i, "reopened", TRUE, y.labels, "none", sender)
        \/ \E l \in Labels \ y.labels :
             Change(i, "labeled", y.open, y.labels \cup {l}, l, sender)
        \/ \E l \in y.labels : Change(i, "unlabeled", y.open, y.labels \ {l}, l, sender)
    BY <1>3 DEF ChangeIssue
  <2>2. CASE Change(i, "closed", FALSE, y.labels, "none", sender)
    BY <1>1, <1>3, <2>2, ChangeShape
  <2>3. CASE Change(i, "reopened", TRUE, y.labels, "none", sender)
    BY <1>1, <1>3, <2>3, ChangeShape
  <2>4. ASSUME NEW l \in Labels, Change(i, "labeled", y.open, y.labels \cup {l}, l, sender)
        PROVE  \E x \in IssueStates : \E d \in IssuePosts :
                 IssueBecomes(i, x, d) /\ UNCHANGED <<setup, now, pull, router>>
    <3>1. PICK ls \in SUBSET Labels : ls = y.labels \cup {l}
      BY <1>1, <1>3
    <3> QED
      BY <1>1, <1>3, <2>4, <3>1, ChangeShape
  <2>5. ASSUME NEW l \in Labels, Change(i, "unlabeled", y.open, y.labels \ {l}, l, sender)
        PROVE  \E x \in IssueStates : \E d \in IssuePosts :
                 IssueBecomes(i, x, d) /\ UNCHANGED <<setup, now, pull, router>>
    <3>1. PICK ls \in SUBSET Labels : ls = y.labels \ {l}
      BY <1>1, <1>3
    <3> QED
      BY <1>1, <1>3, <2>5, <3>1, ChangeShape
  <2> QED
    BY <1>1, <1>3, <2>1, <2>2, <2>3, <2>4, <2>5
<1> QED
  BY <1>2, <1>3

\* What a comment is: d, which shows the issue, or what it was before the changes of this
\* second, or what one of them left.
IssueIsShown(i, d) ==
  /\ issue[i] # None
  /\ issue' = [issue EXCEPT ![i] = [issue[i] EXCEPT !.updated = now]]
  /\ posted' = posted \cup {d} /\ d.type = "issue_comment" /\ d.issue = i /\ d.at = now
  /\ d.nth = 0
  /\ \/ d.open = issue[i].open /\ d.labels = issue[i].labels
     \/ /\ now \in {issue[i].stateAt, issue[i].labelsAt}
        /\ d.open = issue[i].before.open /\ d.labels = issue[i].before.labels
     \/ \E c \in OfIssues(posted) :
          c.issue = i /\ c.at = now /\ d.open = c.open /\ d.labels = c.labels

\* Every comment is one.
LEMMA CommentShape ==
  ASSUME Typed, NEW i \in Issues, NEW sender \in People, Comment(i, sender)
  PROVE  \E d \in IssuePosts : IssueIsShown(i, d) /\ UNCHANGED <<setup, now, pull, router>>
<1> DEFINE y == issue[i]
<1>1. y # None /\ y \in IssueStates /\ now \in Nat /\ posted \subseteq Posts
  BY DEF Typed, Comment
<1>2. /\ y.open \in BOOLEAN /\ y.labels \in SUBSET Labels
      /\ y.before \in [open : BOOLEAN, labels : SUBSET Labels]
  BY <1>1 DEF IssueStates
<1> DEFINE left == {c \in posted : c.type = "issues" /\ c.issue = i /\ c.at = now}
           shown == {[open |-> y.open, labels |-> y.labels]}
                    \cup (IF now \in {y.stateAt, y.labelsAt} THEN {y.before} ELSE {})
                    \cup {[open |-> c.open, labels |-> c.labels] : c \in left}
<1>3. PICK s \in shown :
        posted' = posted \cup {Payload("issue_comment", "created", i, s, "none", 0, sender)}
  BY Zenon DEF Comment
<1>4. \A c \in left : /\ c \in OfIssues(posted) /\ c.issue = i /\ c.at = now
                      /\ c.open \in BOOLEAN /\ c.labels \in SUBSET Labels
  <2>1. \A c \in left : c \in IssuePosts
    BY <1>1, Kinds
  <2> QED
    BY <2>1 DEF OfIssues, IssuePosts
<1> HIDE DEF left
<1>5. s \in [open : BOOLEAN, labels : SUBSET Labels]
  BY <1>2, <1>4
<1>6. \/ s.open = y.open /\ s.labels = y.labels
      \/ now \in {y.stateAt, y.labelsAt} /\ s.open = y.before.open /\ s.labels = y.before.labels
      \/ \E c \in OfIssues(posted) :
           c.issue = i /\ c.at = now /\ s.open = c.open /\ s.labels = c.labels
  BY <1>2, <1>4
<1> DEFINE d == Payload("issue_comment", "created", i, s, "none", 0, sender)
<1> HIDE DEF shown
<1>7. /\ d \in IssuePosts /\ d.type = "issue_comment" /\ d.issue = i /\ d.at = now
      /\ d.nth = 0 /\ d.open = s.open /\ d.labels = s.labels
  <2>1. s.open \in BOOLEAN /\ s.labels \in SUBSET Labels
    BY <1>5
  <2> QED
    BY <1>1, <2>1, PayloadShape
<1>8. /\ issue' = [issue EXCEPT ![i] = [issue[i] EXCEPT !.updated = now]]
      /\ UNCHANGED <<setup, now, pull, router>>
  BY DEF Comment
<1>9. posted' = posted \cup {d}
  BY <1>3
<1> HIDE DEF d
<1>10. IssueIsShown(i, d)
  BY <1>1, <1>6, <1>7, <1>8, <1>9 DEF IssueIsShown
<1> QED
  BY <1>7, <1>8, <1>10

\* A change of a pull request: x is what it becomes, d what is posted.
LEMMA ChangePullShape ==
  ASSUME Typed, NEW p \in Pulls, NEW sender \in People, ChangePull(p, sender)
  PROVE  \E x \in PullStates : \E d \in PullPosts :
           /\ pull' = [pull EXCEPT ![p] = x] /\ posted' = posted \cup {d}
           /\ d.pull = p /\ d.at = now /\ d.open = x.open /\ x.updated = now
           /\ UNCHANGED <<setup, now, issue, router>>
<1> DEFINE posts(action, open, merged) ==
             /\ pull' = [pull EXCEPT ![p] = [open |-> open, merged |-> merged, updated |-> now]]
             /\ posted' = posted \cup {[type |-> "pull_request", action |-> action, pull |-> p,
                  open |-> open, merged |-> merged, at |-> now, sender |-> sender]}
<1>1. /\ \/ posts("opened", TRUE, FALSE)
         \/ \E m \in BOOLEAN : posts("closed", FALSE, m)
         \/ posts("reopened", TRUE, FALSE)
      /\ UNCHANGED <<setup, now, issue, router>>
  BY DEF ChangePull
<1>2. \E action \in {"opened", "closed", "reopened"} : \E open, merged \in BOOLEAN :
        posts(action, open, merged)
  BY <1>1
<1>3. PICK action \in {"opened", "closed", "reopened"}, open \in BOOLEAN, merged \in BOOLEAN :
        posts(action, open, merged)
  BY <1>2
<1> DEFINE x == [open |-> open, merged |-> merged, updated |-> now]
           d == [type |-> "pull_request", action |-> action, pull |-> p,
                 open |-> open, merged |-> merged, at |-> now, sender |-> sender]
<1>4. x \in PullStates /\ d \in PullPosts
  BY DEF PullStates, PullPosts, Typed
<1>5. d.pull = p /\ d.at = now /\ d.open = x.open /\ x.updated = now
  OBVIOUS
<1>6. pull' = [pull EXCEPT ![p] = x] /\ posted' = posted \cup {d}
  BY <1>3
<1> HIDE DEF x, d
<1> QED
  BY <1>1, <1>4, <1>5, <1>6

\* A failed run posts one delivery.
LEMMA CiFailsShape ==
  ASSUME Typed, NEW ps \in SUBSET Pulls, NEW sender \in People, CiFails(ps, sender)
  PROVE  \E d \in RunPosts :
           posted' = posted \cup {d} /\ UNCHANGED <<setup, now, issue, pull, router>>
<1>1. [type |-> "workflow_run", pulls |-> ps, sender |-> sender] \in RunPosts
  BY DEF RunPosts
<1> QED
  BY <1>1 DEF CiFails

\* The targets of a wake are issues of the repository.
LEMMA TargetsHere ==
  ASSUME Typed, NEW p
  PROVE  OpenHandoffs \subseteq Here /\ Targets(p) \subseteq OpenHandoffs /\ Here \subseteq Issues
  BY SetupTypes DEF Targets, OpenHandoffs

\* A wake on the captain's pull request adds wakes of issues.
LEMMA WakeShape ==
  ASSUME Typed, NEW d \in Posts, NEW p, WakeOnOwnPull(p, d)
  PROVE  /\ waiting \subseteq waiting' /\ waiting' \subseteq Wakes
         /\ \A w \in waiting' \ waiting : w.issue \in Targets(p) /\ w.by = d
<1> DEFINE T == {i \in Targets(p) : ReasonToDrop(i) # "do_not_work"
                                    /\ d.sender \in {"captain", "trusted"}}
<1>1. waiting' = waiting \cup {[issue |-> i, by |-> d] : i \in T}
  BY DEF WakeOnOwnPull
<1>2. T \subseteq Targets(p) /\ T \subseteq Issues
  BY TargetsHere
<1>3. waiting \subseteq Wakes
  BY DEF Typed
<1> HIDE DEF T
<1>4. \A i \in T : [issue |-> i, by |-> d] \in Wakes
  BY <1>2 DEF Wakes
<1> QED
  BY <1>1, <1>2, <1>3, <1>4

\* A delivery changes the ledger of its kind alone, and adds wakes.
LEMMA DeliverShape ==
  ASSUME Typed, NEW d \in posted, Deliver(d)
  PROVE  /\ d \in Posts
         /\ \/ d \in IssuePosts /\ ObserveIssue(Report(d)) /\ pulls' = pulls
            \/ d \in PullPosts /\ ObservePull(d.pull, d.at, d.open) /\ ledger' = ledger
            \/ d \in RunPosts /\ ledger' = ledger /\ pulls' = pulls
         /\ waiting \subseteq waiting' /\ waiting' \subseteq Wakes
         /\ heard' = {h \in heard \cup {d} : Remembered(h) /\ ~Undoes(d, h)}
         /\ UNCHANGED <<github, outcome, restarts>>
<1>1. d \in Posts /\ waiting \subseteq Wakes
  BY DEF Typed
<1>2. /\ heard' = {h \in heard \cup {d} : Remembered(h) /\ ~Undoes(d, h)}
      /\ UNCHANGED <<github, outcome, restarts>>
  BY DEF Deliver
<1>3. CASE IssueDelivery(d)
  <2>1. d.type \in {"issues", "issue_comment"} /\ ObserveIssue(Report(d)) /\ pulls' = pulls
        /\ (waiting' = waiting \/ waiting' = waiting \cup {[issue |-> d.issue, by |-> d]})
    BY <1>3 DEF IssueDelivery
  <2>2. d \in IssuePosts
    BY <1>1, <2>1, Kinds
  <2>3. [issue |-> d.issue, by |-> d] \in Wakes
    BY <1>1, <2>2 DEF Wakes, IssuePosts
  <2>4. waiting \subseteq waiting' /\ waiting' \subseteq Wakes
    BY <1>1, <2>1, <2>3
  <2> QED
    BY <1>1, <1>2, <2>1, <2>2, <2>4
<1>4. CASE PullDelivery(d)
  <2>1. d.type = "pull_request" /\ ObservePull(d.pull, d.at, d.open) /\ ledger' = ledger
        /\ (waiting' = waiting \/ WakeOnOwnPull(d.pull, d))
    BY <1>4 DEF PullDelivery
  <2>2. d \in PullPosts
    BY <1>1, <2>1, Kinds
  <2>3. waiting \subseteq waiting' /\ waiting' \subseteq Wakes
    BY <1>1, <2>1, WakeShape
  <2> QED
    BY <1>1, <1>2, <2>1, <2>2, <2>3
<1>5. CASE RunDelivery(d)
  <2>1. d.type = "workflow_run" /\ ledger' = ledger /\ pulls' = pulls
        /\ (waiting' = waiting \/ \E p \in RunPulls(d.pulls) : WakeOnOwnPull(p, d))
    BY <1>5 DEF RunDelivery
  <2>2. d \in RunPosts
    BY <1>1, <2>1, Kinds
  <2>3. waiting \subseteq waiting' /\ waiting' \subseteq Wakes
    BY <1>1, <2>1, WakeShape
  <2> QED
    BY <1>1, <1>2, <2>1, <2>2, <2>3
<1> QED
  BY <1>3, <1>4, <1>5 DEF Deliver

\* What a restart warms the ledger of issues with: what GitHub lists, an entry an issue.
LEMMA WarmIssues ==
  ASSUME Typed, Restart
  PROVE  /\ ledger' \in Seq(IssueEntries) /\ Len(ledger') <= Capacity
         /\ \A j, k \in DOMAIN ledger' : ledger'[j].issue = ledger'[k].issue => j = k
         /\ \A k \in DOMAIN ledger' : LET e == ledger'[k] IN
              /\ issue[e.issue] # None /\ e.at = issue[e.issue].updated
              /\ e.open = issue[e.issue].open /\ e.labels = issue[e.issue].labels
<1> DEFINE listing(repos) == {i \in UNION repos : issue[i] # None /\ issue[i].open
                                                  /\ "handoff" \in issue[i].labels}
           entry(i) == [issue |-> i, at |-> issue[i].updated, open |-> TRUE,
                        labels |-> issue[i].labels, stateFirst |-> FALSE, labelsFirst |-> FALSE]
<1>1. PICK repos \in SUBSET {Here, Issues \ Here} :
        \E order \in Orders(listing(repos)) :
          ledger' = Evict([k \in DOMAIN order |-> entry(order[k])])
  BY Zenon DEF Restart
<1>2. PICK listed : listed = listing(repos)
  OBVIOUS
<1>3. PICK order \in Orders(listed) : ledger' = Evict([k \in DOMAIN order |-> entry(order[k])])
  BY <1>1, <1>2
<1>4. listed \subseteq Issues
  BY <1>2, SetupTypes
<1>5. \A i \in listed : issue[i] \in IssueStates /\ issue[i] # None /\ issue[i].open
  BY <1>2, <1>4 DEF Typed
<1>6. IsFiniteSet(listed)
  BY <1>4, GithubAssumption, FS_Subset
<1>7. /\ order \in Seq(listed) /\ DOMAIN order = 1..Len(order) /\ Len(order) \in Nat
      /\ \A k \in DOMAIN order : order[k] \in listed
      /\ \A j, k \in DOMAIN order : order[j] = order[k] => j = k
  BY <1>6, OrderShape
<1>8. \A i \in listed :
        /\ entry(i) \in IssueEntries /\ entry(i).issue = i /\ entry(i).at = issue[i].updated
        /\ entry(i).open = issue[i].open /\ entry(i).labels = issue[i].labels
  BY <1>4, <1>5 DEF IssueEntries, IssueStates
<1> HIDE DEF entry
<1>9. PICK s : s = [k \in DOMAIN order |-> entry(order[k])]
  OBVIOUS
<1>10. s \in [1..Len(order) -> IssueEntries] /\ DOMAIN s = DOMAIN order
       /\ \A k \in DOMAIN s : s[k] = entry(order[k])
  BY <1>7, <1>8, <1>9
<1>11. s \in Seq(IssueEntries)
  BY <1>7, <1>10, IsASeq
<1>12. /\ Evict(s) \in Seq(IssueEntries) /\ Len(Evict(s)) <= Capacity
       /\ \E x \in Nat : \A p \in DOMAIN Evict(s) :
            p \in Nat /\ p + x \in DOMAIN s /\ Evict(s)[p] = s[p + x]
  BY <1>11, SetupTypes, EvictShape
<1>13. ledger' = Evict(s)
  BY <1>3, <1>9
<1>14. PICK x \in Nat : \A p \in DOMAIN ledger' :
         p \in Nat /\ p + x \in DOMAIN s /\ ledger'[p] = s[p + x]
  BY <1>12, <1>13
<1>15. \A p \in DOMAIN ledger' :
         /\ p \in Nat /\ p + x \in DOMAIN order /\ ledger'[p] = entry(order[p + x])
         /\ order[p + x] \in listed
  BY <1>7, <1>10, <1>14
<1>16. ASSUME NEW j \in DOMAIN ledger', NEW k \in DOMAIN ledger',
              ledger'[j].issue = ledger'[k].issue
       PROVE  j = k
  <2>1. order[j + x] = order[k + x]
    BY <1>8, <1>15, <1>16
  <2>2. j + x = k + x /\ j \in Nat /\ k \in Nat
    BY <1>7, <1>15, <2>1
  <2> QED
    BY <2>2
<1>17. ASSUME NEW k \in DOMAIN ledger'
       PROVE  LET e == ledger'[k] IN
              /\ issue[e.issue] # None /\ e.at = issue[e.issue].updated
              /\ e.open = issue[e.issue].open /\ e.labels = issue[e.issue].labels
  <2>1. PICK i \in listed : ledger'[k] = entry(i)
    BY <1>15
  <2> QED
    BY <1>5, <1>8, <2>1
<1> QED
  BY <1>12, <1>13, <1>16, <1>17

\* The same for the ledger of pull requests.
LEMMA WarmPulls ==
  ASSUME Typed, Restart
  PROVE  /\ pulls' \in Seq(PullEntries) /\ Len(pulls') <= Capacity
         /\ \A j, k \in DOMAIN pulls' : pulls'[j].pull = pulls'[k].pull => j = k
         /\ \A k \in DOMAIN pulls' : LET e == pulls'[k] IN
              pull[e.pull] # None /\ e.at = pull[e.pull].updated /\ e.open
<1> DEFINE listed == {p \in Pulls : pull[p] # None /\ pull[p].open}
           entry(p) == [pull |-> p, at |-> pull[p].updated, open |-> TRUE]
<1>1. \/ pulls' = <<>>
      \/ \E order \in Orders(listed) : pulls' = Evict([k \in DOMAIN order |-> entry(order[k])])
  BY Zenon DEF Restart
<1>2. Capacity \in Nat \ {0}
  BY SetupTypes
<1>3. CASE pulls' = <<>>
  <2>1. pulls' \in Seq(PullEntries) /\ Len(pulls') = 0 /\ DOMAIN pulls' = {}
    BY <1>3
  <2> QED
    BY <1>2, <2>1
<1>4. ASSUME NEW order \in Orders(listed), pulls' = Evict([k \in DOMAIN order |-> entry(order[k])])
      PROVE  /\ pulls' \in Seq(PullEntries) /\ Len(pulls') <= Capacity
             /\ \A j, k \in DOMAIN pulls' : pulls'[j].pull = pulls'[k].pull => j = k
             /\ \A k \in DOMAIN pulls' : LET e == pulls'[k] IN
                  pull[e.pull] # None /\ e.at = pull[e.pull].updated /\ e.open
  <2>1. listed \subseteq Pulls /\ \A p \in listed : pull[p] \in PullStates /\ pull[p] # None
    BY DEF Typed
  <2>2. IsFiniteSet(listed)
    BY <2>1, GithubAssumption, FS_Subset
  <2> HIDE DEF listed
  <2>3. /\ order \in Seq(listed) /\ DOMAIN order = 1..Len(order) /\ Len(order) \in Nat
        /\ \A k \in DOMAIN order : order[k] \in listed
        /\ \A j, k \in DOMAIN order : order[j] = order[k] => j = k
    BY <2>2, OrderShape
  <2>4. \A p \in listed :
          /\ entry(p) \in PullEntries /\ entry(p).pull = p /\ entry(p).at = pull[p].updated
          /\ entry(p).open
    BY <2>1 DEF PullEntries, PullStates
  <2> HIDE DEF entry
  <2>5. PICK s : s = [k \in DOMAIN order |-> entry(order[k])]
    OBVIOUS
  <2>6. s \in [1..Len(order) -> PullEntries] /\ DOMAIN s = DOMAIN order
        /\ \A k \in DOMAIN s : s[k] = entry(order[k])
    BY <2>3, <2>4, <2>5
  <2>7. s \in Seq(PullEntries)
    BY <2>3, <2>6, IsASeq
  <2>8. /\ Evict(s) \in Seq(PullEntries) /\ Len(Evict(s)) <= Capacity
        /\ \E x \in Nat : \A p \in DOMAIN Evict(s) :
             p \in Nat /\ p + x \in DOMAIN s /\ Evict(s)[p] = s[p + x]
    BY <1>2, <2>7, EvictShape
  <2>9. pulls' = Evict(s)
    BY <1>4, <2>5
  <2>10. PICK x \in Nat : \A p \in DOMAIN pulls' :
           p \in Nat /\ p + x \in DOMAIN s /\ pulls'[p] = s[p + x]
    BY <2>8, <2>9
  <2>11. \A p \in DOMAIN pulls' :
           /\ p \in Nat /\ p + x \in DOMAIN order /\ pulls'[p] = entry(order[p + x])
           /\ order[p + x] \in listed
    BY <2>3, <2>6, <2>10
  <2>12. ASSUME NEW j \in DOMAIN pulls', NEW k \in DOMAIN pulls', pulls'[j].pull = pulls'[k].pull
         PROVE  j = k
    <3>1. order[j + x] = order[k + x]
      BY <2>4, <2>11, <2>12
    <3>2. j + x = k + x /\ j \in Nat /\ k \in Nat
      BY <2>3, <2>11, <3>1
    <3> QED
      BY <3>2
  <2>13. ASSUME NEW k \in DOMAIN pulls'
         PROVE  LET e == pulls'[k] IN
                pull[e.pull] # None /\ e.at = pull[e.pull].updated /\ e.open
    <3>1. PICK p \in listed : pulls'[k] = entry(p)
      BY <2>11
    <3> QED
      BY <2>1, <2>4, <3>1
  <2> QED
    BY <2>8, <2>9, <2>12, <2>13
<1> QED
  BY <1>1, <1>3, <1>4

-----------------------------------------------------------------------------
(* Types.                                                                  *)

\* At the start nothing is known.
LEMMA TypedInit == Init => Typed
<1> SUFFICES ASSUME Init PROVE Typed
  OBVIOUS
<1>1. Capacity \in Nat
  BY GithubAssumption DEF Init, Capacity
<1>2. ledger \in Seq(IssueEntries) /\ Len(ledger) <= Capacity /\ DOMAIN ledger = {}
  BY <1>1 DEF Init
<1>3. pulls \in Seq(PullEntries) /\ Len(pulls) <= Capacity /\ DOMAIN pulls = {}
  BY <1>1 DEF Init
<1>4. issue \in [Issues -> IssueStates \cup {None}] /\ pull \in [Pulls -> PullStates \cup {None}]
  BY DEF Init
<1>5. /\ setup \in Setups /\ now \in Nat /\ restarts \in Nat
      /\ posted \subseteq Posts /\ heard \subseteq posted /\ waiting \subseteq Wakes
      /\ outcome \in Outcomes \cup {None}
  BY DEF Init
<1> QED
  BY <1>2, <1>3, <1>4, <1>5 DEF Typed

\* The router's own variables keep their types when GitHub alone moves.
LEMMA TypedGithub ==
  ASSUME Typed, UNCHANGED <<setup, router>>, now' \in Nat,
         issue' \in [Issues -> IssueStates \cup {None}],
         pull' \in [Pulls -> PullStates \cup {None}],
         posted' \subseteq Posts, posted \subseteq posted'
  PROVE  Typed'
<1>1. Capacity' = Capacity
  BY DEF Capacity
<1>2. /\ setup' = setup /\ restarts' = restarts /\ ledger' = ledger /\ pulls' = pulls
      /\ waiting' = waiting /\ outcome' = outcome /\ heard' = heard
  BY DEF router
<1> QED
  BY <1>1, <1>2 DEF Typed

\* Every step keeps the types.
LEMMA TypedNext == Typed /\ [Next]_vars => Typed'
<1> SUFFICES ASSUME Typed, [Next]_vars PROVE Typed'
  OBVIOUS
<1>0. /\ now \in Nat /\ issue \in [Issues -> IssueStates \cup {None}]
      /\ pull \in [Pulls -> PullStates \cup {None}] /\ posted \subseteq Posts
  BY DEF Typed
<1>1. CASE UNCHANGED vars
  BY <1>0, <1>1, TypedGithub DEF vars, github
<1>2. CASE Tick
  <2>1. now' \in Nat /\ UNCHANGED <<setup, issue, pull, posted, router>>
    BY <1>0, <1>2 DEF Tick
  <2> QED
    BY <1>0, <2>1, TypedGithub
<1>3. ASSUME NEW s \in Senders, NEW i \in Issues, ChangeIssue(i, s)
      PROVE  Typed'
  <2>1. PICK x \in IssueStates :
          (\E S : IssueOpens(i, x, S)) \/ \E d \in IssuePosts : IssueBecomes(i, x, d)
    BY <1>3, SetupTypes, ChangeIssueShape
  <2>2. issue' = [issue EXCEPT ![i] = x] /\ posted \subseteq posted' /\ posted' \subseteq Posts
    BY <1>0, <2>1 DEF IssueOpens, IssueBecomes, Posts
  <2>3. UNCHANGED <<setup, now, pull, router>>
    BY <1>3, SetupTypes, ChangeIssueShape
  <2>4. issue' \in [Issues -> IssueStates \cup {None}]
    BY <1>0, <2>2
  <2> QED
    BY <1>0, <2>2, <2>3, <2>4, TypedGithub
<1>4. ASSUME NEW s \in Senders, NEW i \in Issues, Comment(i, s)
      PROVE  Typed'
  <2>1. PICK d \in IssuePosts : IssueIsShown(i, d) /\ UNCHANGED <<setup, now, pull, router>>
    BY <1>4, SetupTypes, CommentShape
  <2>2. issue[i] # None /\ issue' = [issue EXCEPT ![i] = [issue[i] EXCEPT !.updated = now]]
        /\ posted' = posted \cup {d}
    BY <2>1 DEF IssueIsShown
  <2>3. [issue[i] EXCEPT !.updated = now] \in IssueStates
    BY <1>0, <2>2 DEF IssueStates
  <2>4. issue' \in [Issues -> IssueStates \cup {None}] /\ posted' \subseteq Posts
    BY <1>0, <2>2, <2>3 DEF Posts
  <2> QED
    BY <1>0, <2>1, <2>2, <2>4, TypedGithub
<1>5. ASSUME NEW s \in Senders, NEW p \in setup.pulls, ChangePull(p, s)
      PROVE  Typed'
  <2>1. p \in Pulls /\ s \in People
    BY SetupTypes
  <2>2. PICK x \in PullStates, d \in PullPosts :
          /\ pull' = [pull EXCEPT ![p] = x] /\ posted' = posted \cup {d}
          /\ UNCHANGED <<setup, now, issue, router>>
    BY <1>5, <2>1, ChangePullShape
  <2>3. pull' \in [Pulls -> PullStates \cup {None}] /\ posted' \subseteq Posts
    BY <1>0, <2>2 DEF Posts
  <2> QED
    BY <1>0, <2>2, <2>3, TypedGithub
<1>6. ASSUME NEW s \in Senders, NEW ps \in SUBSET setup.pulls, CiFails(ps, s)
      PROVE  Typed'
  <2>1. ps \in SUBSET Pulls /\ s \in People
    BY SetupTypes
  <2>2. PICK d \in RunPosts :
          posted' = posted \cup {d} /\ UNCHANGED <<setup, now, issue, pull, router>>
    BY <1>6, <2>1, CiFailsShape
  <2>3. posted' \subseteq Posts
    BY <1>0, <2>2 DEF Posts
  <2> QED
    BY <1>0, <2>2, <2>3, TypedGithub
<1>7. ASSUME NEW d \in posted, Deliver(d)
      PROVE  Typed'
  <2>1. /\ d \in Posts
        /\ \/ d \in IssuePosts /\ ObserveIssue(Report(d)) /\ pulls' = pulls
           \/ d \in PullPosts /\ ObservePull(d.pull, d.at, d.open) /\ ledger' = ledger
           \/ d \in RunPosts /\ ledger' = ledger /\ pulls' = pulls
        /\ waiting' \subseteq Wakes
        /\ heard' = {h \in heard \cup {d} : Remembered(h) /\ ~Undoes(d, h)}
        /\ UNCHANGED <<github, outcome, restarts>>
    BY <1>7, DeliverShape
  <2>2. /\ setup' = setup /\ now' = now /\ issue' = issue /\ pull' = pull /\ posted' = posted
        /\ outcome' = outcome /\ restarts' = restarts /\ Capacity' = Capacity
    BY <2>1 DEF github, Capacity
  <2>3. heard' \subseteq posted'
    BY <2>1, <2>2 DEF Typed
  <2>4. /\ ledger \in Seq(IssueEntries) /\ Len(ledger) <= Capacity
        /\ \A j, k \in DOMAIN ledger : ledger[j].issue = ledger[k].issue => j = k
    BY DEF Typed
  <2>5. /\ pulls \in Seq(PullEntries) /\ Len(pulls) <= Capacity
        /\ \A j, k \in DOMAIN pulls : pulls[j].pull = pulls[k].pull => j = k
    BY DEF Typed
  <2>6. /\ ledger' \in Seq(IssueEntries) /\ Len(ledger') <= Capacity
        /\ \A j, k \in DOMAIN ledger' : ledger'[j].issue = ledger'[k].issue => j = k
    <3>1. CASE d \in IssuePosts /\ ObserveIssue(Report(d))
      <4>1. \/ ledger' = ledger
            \/ \E e \in IssueEntries :
                 ledger' = Evict(Append(Without(ledger, Entry(e.issue)), e))
        BY <3>1, ObserveIssueShape
      <4> QED
        BY <2>4, <4>1, PutIssue DEF IssueLedgerWith
    <3>2. CASE ledger' = ledger
      BY <2>4, <3>2
    <3> QED
      BY <2>1, <3>1, <3>2
  <2>7. /\ pulls' \in Seq(PullEntries) /\ Len(pulls') <= Capacity
        /\ \A j, k \in DOMAIN pulls' : pulls'[j].pull = pulls'[k].pull => j = k
    <3>1. CASE d \in PullPosts /\ ObservePull(d.pull, d.at, d.open)
      <4>1. \/ pulls' = pulls
            \/ \E e \in PullEntries :
                 /\ e = [pull |-> d.pull, at |-> d.at, open |-> d.open]
                 /\ pulls' = Evict(Append(Without(pulls, PullEntry(d.pull)), e))
        BY <3>1, ObservePullShape
      <4>2. \/ pulls' = pulls
            \/ \E e \in PullEntries :
                 pulls' = Evict(Append(Without(pulls, PullEntry(e.pull)), e))
        BY <4>1
      <4> QED
        BY <2>5, <4>2, PutPull DEF PullLedgerWith
    <3>2. CASE pulls' = pulls
      BY <2>5, <3>2
    <3> QED
      BY <2>1, <3>1, <3>2
  <2> QED
    BY <2>1, <2>2, <2>3, <2>6, <2>7 DEF Typed
<1>8. ASSUME NEW w \in waiting, Dispatch(w)
      PROVE  Typed'
  <2>1. /\ waiting' = waiting \ {w}
        /\ UNCHANGED <<github, ledger, pulls, heard, restarts>>
        /\ \E how \in {"woken", "dropped"} : outcome' = [wake |-> w, how |-> how]
    BY <1>8 DEF Dispatch
  <2>2. waiting' \subseteq Wakes /\ outcome' \in Outcomes
    BY <2>1 DEF Typed, Outcomes
  <2>3. /\ setup' = setup /\ now' = now /\ issue' = issue /\ pull' = pull /\ posted' = posted
        /\ ledger' = ledger /\ pulls' = pulls /\ heard' = heard /\ restarts' = restarts
        /\ Capacity' = Capacity
    BY <2>1 DEF github, Capacity
  <2> QED
    BY <2>2, <2>3 DEF Typed
<1>9. CASE Restart
  <2>1. /\ restarts' = restarts + 1 /\ waiting' = {} /\ outcome' = None /\ UNCHANGED github
        /\ heard' \subseteq posted
    BY <1>9 DEF Restart
  <2>2. /\ setup' = setup /\ now' = now /\ issue' = issue /\ pull' = pull /\ posted' = posted
        /\ Capacity' = Capacity
    BY <2>1 DEF github, Capacity
  <2>3. restarts' \in Nat
    BY <2>1 DEF Typed
  <2> QED
    BY <1>9, <2>1, <2>2, <2>3, WarmIssues, WarmPulls DEF Typed
<1> QED
  BY <1>1, <1>2, <1>3, <1>4, <1>5, <1>6, <1>7, <1>8, <1>9 DEF Next

\* The types always hold.
LEMMA TypedHolds == Spec => []Typed
  BY TypedInit, TypedNext, PTL DEF Spec

\* A set whose elements are all one has at most one.
LEMMA AtMostOne ==
  ASSUME NEW S, \A x, y \in S : x = y
  PROVE  Cardinality(S) <= 1
<1>1. CASE S = {}
  BY <1>1, FS_EmptySet
<1>2. CASE S # {}
  <2>1. PICK x \in S : TRUE
    BY <1>2
  <2>2. S = {x}
    BY <2>1
  <2> QED
    BY <2>2, FS_Singleton
<1> QED
  BY <1>1, <1>2

\* Every delivery leaves the ledgers within their capacity (LEDGER_CAPACITY), with one
\* entry an issue and one a pull request, whatever arrives in whatever order.
THEOREM TypeCorrect == Spec => []TypeOK
<1>1. Typed => TypeOK
  <2> SUFFICES ASSUME Typed PROVE TypeOK
    OBVIOUS
  <2>1. \A i \in Issues : Cardinality(Entry(i)) <= 1
    BY KnownShape, AtMostOne
  <2>2. \A p \in Pulls : Cardinality(PullEntry(p)) <= 1
    BY PullKnownShape, AtMostOne
  <2> QED
    BY <2>1, <2>2 DEF Typed, TypeOK
<1> QED
  BY <1>1, TypedHolds, PTL

-----------------------------------------------------------------------------
(* The pull requests.                                                      *)

\* The steps, by what they may change.
LEMMA StepShape ==
  ASSUME Typed, [Next]_vars
  PROVE  \/ UNCHANGED <<issue, pull, posted, ledger, pulls, heard>> /\ now <= now'
         \/ \E i \in Issues : \E x \in IssueStates : \E S :
              IssueOpens(i, x, S) /\ UNCHANGED <<setup, now, pull, router>>
         \/ \E i \in Issues : \E x \in IssueStates : \E d \in IssuePosts :
              IssueBecomes(i, x, d) /\ UNCHANGED <<setup, now, pull, router>>
         \/ \E i \in Issues : \E d \in IssuePosts :
              IssueIsShown(i, d) /\ UNCHANGED <<setup, now, pull, router>>
         \/ \E p \in Pulls : \E x \in PullStates : \E d \in PullPosts :
              /\ pull' = [pull EXCEPT ![p] = x] /\ posted' = posted \cup {d}
              /\ d.pull = p /\ d.at = now /\ d.open = x.open /\ x.updated = now
              /\ UNCHANGED <<setup, now, issue, router>>
         \/ \E d \in RunPosts :
              posted' = posted \cup {d} /\ UNCHANGED <<setup, now, issue, pull, router>>
         \/ \E d \in posted : Deliver(d)
         \/ Restart
<1>1. now \in Nat
  BY DEF Typed
<1>2. CASE UNCHANGED vars
  BY <1>1, <1>2 DEF vars, github, router
<1>3. CASE Tick
  BY <1>1, <1>3 DEF Tick, router
<1>4. ASSUME NEW s \in Senders, NEW i \in Issues, ChangeIssue(i, s)
      PROVE  /\ \/ \E x \in IssueStates : \E S : IssueOpens(i, x, S)
                \/ \E x \in IssueStates : \E d \in IssuePosts : IssueBecomes(i, x, d)
             /\ UNCHANGED <<setup, now, pull, router>>
  BY <1>4, SetupTypes, ChangeIssueShape
<1>5. ASSUME NEW s \in Senders, NEW i \in Issues, Comment(i, s)
      PROVE  \E d \in IssuePosts : IssueIsShown(i, d) /\ UNCHANGED <<setup, now, pull, router>>
  BY <1>5, SetupTypes, CommentShape
<1>6. ASSUME NEW s \in Senders, NEW p \in setup.pulls, ChangePull(p, s)
      PROVE  /\ p \in Pulls
             /\ \E x \in PullStates : \E d \in PullPosts :
                  /\ pull' = [pull EXCEPT ![p] = x] /\ posted' = posted \cup {d}
                  /\ d.pull = p /\ d.at = now /\ d.open = x.open /\ x.updated = now
                  /\ UNCHANGED <<setup, now, issue, router>>
  <2>1. p \in Pulls /\ s \in People
    BY SetupTypes
  <2> QED
    BY <1>6, <2>1, ChangePullShape
<1>7. ASSUME NEW s \in Senders, NEW ps \in SUBSET setup.pulls, CiFails(ps, s)
      PROVE  \E d \in RunPosts :
               posted' = posted \cup {d} /\ UNCHANGED <<setup, now, issue, pull, router>>
  <2>1. ps \in SUBSET Pulls /\ s \in People
    BY SetupTypes
  <2> QED
    BY <1>7, <2>1, CiFailsShape
<1>8. ASSUME NEW w \in waiting, Dispatch(w)
      PROVE  UNCHANGED <<issue, pull, posted, ledger, pulls, heard>> /\ now <= now'
  BY <1>1, <1>8 DEF Dispatch, github
<1> QED
  BY <1>2, <1>3, <1>4, <1>5, <1>6, <1>7, <1>8 DEF Next

\* Only one kind each.
LEMMA KindsApart ==
  /\ \A d \in IssuePosts : d \notin PullPosts /\ d \notin RunPosts
  /\ \A d \in PullPosts : d \notin IssuePosts /\ d \notin RunPosts
  /\ \A d \in RunPosts : d \notin IssuePosts /\ d \notin PullPosts
  BY DEF IssuePosts, PullPosts, RunPosts

\* A ledger of nothing heard of nothing.
LEMMA PullInit == Init => PullInv
<1> SUFFICES ASSUME Init PROVE PullInv
  OBVIOUS
<1>1. /\ heard = {} /\ posted = {} /\ DOMAIN pulls = {}
      /\ \A p \in Pulls : pull[p] = None
  BY DEF Init
<1> QED
  BY <1>1 DEF PullInv, HeardIsHeld, PostShowsPull, PullEntryHeard, OfIssues, OfPulls

\* What is heard stays about what the ledgers hold.
LEMMA HeldNext ==
  ASSUME Typed, HeardIsHeld, [Next]_vars
  PROVE  HeardIsHeld'
<1>1. CASE UNCHANGED <<ledger, pulls, heard>>
  BY <1>1 DEF HeardIsHeld, OfIssues, OfPulls, Tracked, Entry, PullEntry
<1>2. ASSUME \A h \in heard' : Remembered(h)
      PROVE  HeardIsHeld'
  <2>1. ASSUME NEW d \in heard', d \in IssuePosts
        PROVE  \E k \in DOMAIN ledger' : ledger'[k].issue = d.issue
    <3>1. d.type # "pull_request"
      BY <2>1 DEF IssuePosts
    <3> QED
      BY <1>2, <3>1 DEF Remembered
  <2>2. ASSUME NEW d \in heard', d \in PullPosts
        PROVE  \E k \in DOMAIN pulls' : pulls'[k].pull = d.pull
    <3>1. d.type \notin {"issues", "issue_comment"}
      BY <2>2 DEF PullPosts
    <3> QED
      BY <1>2, <3>1 DEF Remembered
  <2> QED
    BY <2>1, <2>2 DEF HeardIsHeld, OfIssues, OfPulls, Tracked, Entry, PullEntry
<1>3. ASSUME NEW d \in posted, Deliver(d)
      PROVE  HeardIsHeld'
  BY <1>2, <1>3 DEF Deliver
<1>4. CASE Restart
  BY <1>2, <1>4 DEF Restart
<1> QED
  BY <1>1, <1>3, <1>4, StepShape DEF router

\* What GitHub posts keeps showing the pull requests.
LEMMA PostPullNext ==
  ASSUME Typed, PostShowsPull, [Next]_vars
  PROVE  PostShowsPull'
<1> DEFINE Shows(n, f, D) ==
             /\ \A p \in Pulls : f[p] # None => f[p].updated <= n
             /\ \A d \in D : f[d.pull] # None /\ d.at <= f[d.pull].updated
             /\ \A p \in Pulls : f[p] # None /\ ~f[p].open =>
                  \E d \in D : d.pull = p /\ d.at = f[p].updated /\ ~d.open
<1>1. Shows(now, pull, posted \cap PullPosts)
  BY DEF PostShowsPull, OfPulls
<1>2. SUFFICES Shows(now', pull', posted' \cap PullPosts)
  BY DEF PostShowsPull, OfPulls
<1>3. /\ now \in Nat /\ pull \in [Pulls -> PullStates \cup {None}]
      /\ \A p \in Pulls : pull[p] # None => pull[p].updated \in Nat
      /\ \A d \in PullPosts : d.pull \in Pulls /\ d.at \in Nat
  BY DEF Typed, PullStates, PullPosts
<1>4. CASE UNCHANGED <<pull, posted>> /\ now' \in Nat /\ now <= now'
  <2>1. \A p \in Pulls : pull[p] # None => pull[p].updated <= now'
    BY <1>1, <1>3, <1>4
  <2> QED
    BY <1>1, <1>4, <2>1
<1>5. ASSUME NEW S, \A d \in S : d \notin PullPosts,
             posted' = posted \cup S, UNCHANGED <<now, pull>>
      PROVE  Shows(now', pull', posted' \cap PullPosts)
  <2>1. posted' \cap PullPosts = posted \cap PullPosts
    BY <1>5
  <2> QED
    BY <1>1, <1>5, <2>1
<1>6. ASSUME NEW p \in Pulls, NEW x \in PullStates, NEW d \in PullPosts,
             pull' = [pull EXCEPT ![p] = x], posted' = posted \cup {d}, now' = now,
             d.pull = p, d.at = now, d.open = x.open, x.updated = now
      PROVE  Shows(now', pull', posted' \cap PullPosts)
  <2>1. x # None
    BY NoneApart
  <2>2. pull'[p] = x /\ \A q \in Pulls \ {p} : pull'[q] = pull[q]
    BY <1>3, <1>6
  <2>3. posted' \cap PullPosts = (posted \cap PullPosts) \cup {d}
    BY <1>6
  <2>4. \A q \in Pulls : pull'[q] # None => pull'[q].updated <= now'
    BY <1>1, <1>3, <1>6, <2>2
  <2>5. ASSUME NEW c \in posted' \cap PullPosts
        PROVE  pull'[c.pull] # None /\ c.at <= pull'[c.pull].updated
    <3>1. CASE c = d
      BY <1>3, <1>6, <2>1, <2>2, <3>1
    <3>2. CASE c # d
      <4>1. c \in posted \cap PullPosts /\ c.pull \in Pulls /\ c.at \in Nat
        BY <1>3, <2>3, <3>2
      <4>2. pull[c.pull] # None /\ c.at <= pull[c.pull].updated
            /\ pull[c.pull].updated <= now /\ pull[c.pull].updated \in Nat
        BY <1>1, <1>3, <4>1
      <4>3. c.at <= now
        BY <1>3, <4>1, <4>2
      <4> QED
        BY <1>6, <2>1, <2>2, <4>1, <4>2, <4>3
    <3> QED
      BY <3>1, <3>2
  <2>6. ASSUME NEW q \in Pulls, pull'[q] # None, ~pull'[q].open
        PROVE  \E c \in posted' \cap PullPosts :
                 c.pull = q /\ c.at = pull'[q].updated /\ ~c.open
    <3>1. CASE q = p
      BY <1>6, <2>2, <2>3, <2>6, <3>1
    <3>2. CASE q # p
      BY <1>1, <2>2, <2>3, <2>6, <3>2
    <3> QED
      BY <3>1, <3>2
  <2> QED
    BY <2>4, <2>5, <2>6
<1>7. ASSUME NEW d \in posted, Deliver(d)
      PROVE  UNCHANGED <<pull, posted, now>>
  BY <1>7 DEF Deliver, github
<1>8. CASE Restart
  BY <1>1, <1>8 DEF Restart, github
<1>9. now' \in Nat
  BY TypedNext DEF Typed
<1> QED
  <2>1. CASE UNCHANGED <<issue, pull, posted, ledger, pulls, heard>> /\ now <= now'
    BY <1>4, <1>9, <2>1
  <2>2. ASSUME NEW i \in Issues, NEW x \in IssueStates, NEW d \in IssuePosts,
               IssueBecomes(i, x, d), UNCHANGED <<setup, now, pull, router>>
        PROVE  Shows(now', pull', posted' \cap PullPosts)
    <3>1. posted' = posted \cup {d} /\ UNCHANGED <<now, pull>>
      BY <2>2 DEF IssueBecomes
    <3>2. posted' \cap PullPosts = posted \cap PullPosts
      BY <3>1, KindsApart
    <3> QED
      BY <1>1, <3>1, <3>2
  <2>3. ASSUME NEW i \in Issues, NEW d \in IssuePosts,
               IssueIsShown(i, d), UNCHANGED <<setup, now, pull, router>>
        PROVE  Shows(now', pull', posted' \cap PullPosts)
    BY <1>5, <2>3, KindsApart DEF IssueIsShown
  <2>4. ASSUME NEW d \in RunPosts, posted' = posted \cup {d},
               UNCHANGED <<setup, now, issue, pull, router>>
        PROVE  Shows(now', pull', posted' \cap PullPosts)
    BY <1>5, <2>4, KindsApart
  <2>5. ASSUME NEW d \in posted, Deliver(d)
        PROVE  Shows(now', pull', posted' \cap PullPosts)
    BY <1>1, <1>7, <2>5
  <2>6. ASSUME NEW i \in Issues, NEW x \in IssueStates, NEW S,
               IssueOpens(i, x, S), UNCHANGED <<setup, now, pull, router>>
        PROVE  Shows(now', pull', posted' \cap PullPosts)
    BY <1>5, <2>6, KindsApart DEF IssueOpens
  <2> HIDE DEF Shows
  <2> QED
    BY <1>6, <1>8, <2>1, <2>2, <2>3, <2>4, <2>5, <2>6, StepShape

\* What an entry of the pull ledger has heard.
PullHeard(e, D) ==
  \A d \in D : d.pull = e.pull => d.at <= e.at /\ (d.at = e.at /\ ~d.open => ~e.open)

\* An entry is no earlier than what was heard, and no more open.
LEMMA PullEntryNext ==
  ASSUME Typed, PullInv, [Next]_vars
  PROVE  PullEntryHeard'
<1> DEFINE H == heard \cap PullPosts
<1>1. /\ HeardIsHeld /\ PostShowsPull
      /\ \A k \in DOMAIN pulls :
           /\ pull[pulls[k].pull] # None /\ pulls[k].at <= pull[pulls[k].pull].updated
           /\ PullHeard(pulls[k], H)
  BY DEF PullInv, PullEntryHeard, PullHeard, OfPulls
<1>2. SUFFICES \A k \in DOMAIN pulls' :
                 /\ pull'[pulls'[k].pull] # None
                 /\ pulls'[k].at <= pull'[pulls'[k].pull].updated
                 /\ PullHeard(pulls'[k], heard' \cap PullPosts)
  BY DEF PullEntryHeard, PullHeard, OfPulls
<1>3. /\ now \in Nat /\ pull \in [Pulls -> PullStates \cup {None}] /\ pulls \in Seq(PullEntries)
      /\ \A p \in Pulls : pull[p] # None => pull[p].updated \in Nat
      /\ \A d \in PullPosts : d.pull \in Pulls /\ d.at \in Nat /\ d.open \in BOOLEAN
  BY DEF Typed, PullStates, PullPosts
<1>4. \A k \in DOMAIN pulls : pulls[k] \in PullEntries /\ pulls[k].pull \in Pulls
                              /\ pulls[k].at \in Nat /\ pulls[k].open \in BOOLEAN
  <2>1. \A k \in DOMAIN pulls : pulls[k] \in PullEntries
    BY <1>3, ElementOfSeq
  <2> QED
    BY <2>1 DEF PullEntries
<1>5. CASE UNCHANGED <<pull, pulls, heard>>
  BY <1>1, <1>5
<1>6. ASSUME NEW p \in Pulls, NEW x \in PullStates,
             pull' = [pull EXCEPT ![p] = x], x.updated = now, UNCHANGED <<pulls, heard>>
      PROVE  \A k \in DOMAIN pulls' :
               /\ pull'[pulls'[k].pull] # None
               /\ pulls'[k].at <= pull'[pulls'[k].pull].updated
               /\ PullHeard(pulls'[k], heard' \cap PullPosts)
  <2>1. x # None /\ pull'[p] = x /\ \A q \in Pulls \ {p} : pull'[q] = pull[q]
    BY <1>3, <1>6, NoneApart
  <2>2. ASSUME NEW k \in DOMAIN pulls
        PROVE  pull'[pulls[k].pull] # None /\ pulls[k].at <= pull'[pulls[k].pull].updated
    <3>1. CASE pulls[k].pull = p
      <4>1. pull[p] # None /\ pulls[k].at <= pull[p].updated /\ pull[p].updated <= now
        BY <1>1, <3>1 DEF PostShowsPull
      <4> QED
        BY <1>3, <1>4, <1>6, <2>1, <3>1, <4>1
    <3>2. CASE pulls[k].pull # p
      BY <1>1, <1>4, <2>1, <3>2
    <3> QED
      BY <3>1, <3>2
  <2> QED
    BY <1>1, <1>6, <2>2
<1>7. ASSUME NEW d \in posted, Deliver(d)
      PROVE  \A k \in DOMAIN pulls' :
               /\ pull'[pulls'[k].pull] # None
               /\ pulls'[k].at <= pull'[pulls'[k].pull].updated
               /\ PullHeard(pulls'[k], heard' \cap PullPosts)
  <2>1. /\ d \in Posts
        /\ \/ d \in IssuePosts /\ ObserveIssue(Report(d)) /\ pulls' = pulls
           \/ d \in PullPosts /\ ObservePull(d.pull, d.at, d.open) /\ ledger' = ledger
           \/ d \in RunPosts /\ ledger' = ledger /\ pulls' = pulls
        /\ heard' = {h \in heard \cup {d} : Remembered(h) /\ ~Undoes(d, h)}
        /\ pull' = pull
    BY <1>7, DeliverShape DEF github
  <2>2. CASE d \notin PullPosts
    <3>1. heard' \cap PullPosts \subseteq H /\ pulls' = pulls
      BY <2>1, <2>2
    <3> QED
      BY <1>1, <2>1, <3>1 DEF PullHeard
  <2>3. CASE d \in PullPosts
    <3>1. ObservePull(d.pull, d.at, d.open) /\ heard' \cap PullPosts \subseteq H \cup {d}
      BY <2>1, <2>3, KindsApart
    <3>2. pull[d.pull] # None /\ d.at <= pull[d.pull].updated
      BY <1>1, <2>3 DEF PostShowsPull, OfPulls
    <3>3. CASE /\ pulls' = pulls /\ PullEntry(d.pull) # {}
               /\ \/ d.at < PullKnown(d.pull).at
                  \/ d.at = PullKnown(d.pull).at /\ ~PullKnown(d.pull).open /\ d.open
      <4>1. ASSUME NEW k \in DOMAIN pulls
            PROVE  PullHeard(pulls[k], H \cup {d})
        <5>1. CASE pulls[k].pull = d.pull
          <6>1. PullKnown(d.pull) = pulls[k]
            BY <5>1, PullKnownShape
          <6>2. d.at <= pulls[k].at /\ (d.at = pulls[k].at => d.open)
            BY <1>3, <1>4, <2>3, <3>3, <6>1
          <6> QED
            BY <1>1, <6>2 DEF PullHeard
        <5>2. CASE pulls[k].pull # d.pull
          BY <1>1, <5>2 DEF PullHeard
        <5> QED
          BY <5>1, <5>2
      <4> QED
        BY <1>1, <2>1, <3>1, <3>3, <4>1 DEF PullHeard
    <3>4. ASSUME NEW e \in PullEntries, e = [pull |-> d.pull, at |-> d.at, open |-> d.open],
                 pulls' = Evict(Append(Without(pulls, PullEntry(d.pull)), e)),
                 PullEntry(d.pull) # {} =>
                   /\ PullKnown(d.pull).at <= d.at
                   /\ d.at = PullKnown(d.pull).at => PullKnown(d.pull).open \/ ~d.open
          PROVE  \A k \in DOMAIN pulls' :
                   /\ pull'[pulls'[k].pull] # None
                   /\ pulls'[k].at <= pull'[pulls'[k].pull].updated
                   /\ PullHeard(pulls'[k], heard' \cap PullPosts)
      <4>1. e.pull = d.pull /\ e.at = d.at /\ e.open = d.open
        BY <3>4
      <4>2. \A k \in DOMAIN pulls' : pulls'[k] = e \/
              (pulls'[k].pull # e.pull /\ \E j \in DOMAIN pulls : pulls'[k] = pulls[j])
        <5>1. pulls' = Evict(Append(Without(pulls, PullEntry(e.pull)), e))
          BY <3>4, <4>1
        <5>2. PullLedgerWith(pulls', e)
          BY <5>1, PutPull
        <5> QED
          BY <5>2 DEF PullLedgerWith
      <4>3. PullHeard(e, H \cup {d})
        <5>1. ASSUME NEW h \in H, h.pull = e.pull
              PROVE  h.at <= e.at /\ (h.at = e.at /\ ~h.open => ~e.open)
          <6>1. PullEntry(h.pull) # {} /\ h \in PullPosts
            BY <1>1 DEF HeardIsHeld, OfPulls
          <6>2. PICK k \in DOMAIN pulls : pulls[k] = PullKnown(d.pull) /\ pulls[k].pull = d.pull
            BY <4>1, <5>1, <6>1, PullKnownShape
          <6>3. h.at <= pulls[k].at /\ (h.at = pulls[k].at /\ ~h.open => ~pulls[k].open)
            BY <1>1, <4>1, <5>1, <6>2 DEF PullHeard
          <6>4. pulls[k].at <= d.at /\ (d.at = pulls[k].at => pulls[k].open \/ ~d.open)
            BY <3>4, <4>1, <5>1, <6>1, <6>2
          <6>5. h.at \in Nat /\ pulls[k].at \in Nat /\ d.at \in Nat
            BY <1>3, <1>4, <2>3, <6>1
          <6>6. h.at <= d.at /\ (h.at = d.at => h.at = pulls[k].at /\ d.at = pulls[k].at)
            BY <6>3, <6>4, <6>5
          <6>7. h.at = d.at /\ ~h.open => ~d.open
            BY <6>3, <6>4, <6>6
          <6> QED
            BY <4>1, <6>6, <6>7
        <5>2. d.at <= e.at /\ (~d.open => ~e.open)
          BY <1>3, <2>3, <4>1
        <5> QED
          BY <5>1, <5>2 DEF PullHeard
      <4>4. ASSUME NEW k \in DOMAIN pulls'
            PROVE  /\ pull[pulls'[k].pull] # None
                   /\ pulls'[k].at <= pull[pulls'[k].pull].updated
                   /\ PullHeard(pulls'[k], H \cup {d})
        <5>1. CASE pulls'[k] = e
          BY <3>2, <4>1, <4>3, <5>1
        <5>2. CASE pulls'[k].pull # e.pull /\ \E j \in DOMAIN pulls : pulls'[k] = pulls[j]
          BY <1>1, <4>1, <5>2 DEF PullHeard
        <5> QED
          BY <4>2, <5>1, <5>2
      <4> QED
        BY <2>1, <3>1, <4>4 DEF PullHeard
    <3> QED
      BY <1>1, <2>1, <2>3, <3>1, <3>3, <3>4, ObservePullShape
  <2> QED
    BY <2>2, <2>3
<1>8. ASSUME Restart
      PROVE  \A k \in DOMAIN pulls' :
               /\ pull'[pulls'[k].pull] # None
               /\ pulls'[k].at <= pull'[pulls'[k].pull].updated
               /\ PullHeard(pulls'[k], heard' \cap PullPosts)
  <2>1. pull' = pull
    BY <1>8 DEF Restart, github
  <2>2. \A d \in heard' \cap PullPosts : d.at < pull[d.pull].updated
    BY <1>8 DEF Restart, PullPosts
  <2>3. \A k \in DOMAIN pulls' :
          /\ pull[pulls'[k].pull] # None /\ pulls'[k].at = pull[pulls'[k].pull].updated
          /\ pulls'[k] \in PullEntries
    BY <1>8, WarmPulls, ElementOfSeq
  <2>4. ASSUME NEW k \in DOMAIN pulls', NEW d \in heard' \cap PullPosts, d.pull = pulls'[k].pull
        PROVE  d.at <= pulls'[k].at /\ d.at # pulls'[k].at
    <3>1. d.at < pulls'[k].at /\ d.at \in Nat /\ pulls'[k].at \in Nat
      BY <1>3, <2>2, <2>3, <2>4 DEF PullEntries
    <3> QED
      BY <3>1
  <2>5. \A k \in DOMAIN pulls' : pulls'[k].at <= pull[pulls'[k].pull].updated
    BY <2>3 DEF PullEntries
  <2> QED
    BY <2>1, <2>3, <2>4, <2>5 DEF PullHeard
<1> QED
  BY <1>5, <1>6, <1>7, <1>8, StepShape DEF router

\* What holds of the pull requests always holds.
LEMMA PullHolds == Spec => [](Typed /\ PullInv)
<1>1. Init => Typed /\ PullInv
  BY TypedInit, PullInit
<1>2. Typed /\ PullInv /\ [Next]_vars => (Typed /\ PullInv)'
  <2> SUFFICES ASSUME Typed, PullInv, [Next]_vars PROVE Typed' /\ PullInv'
    OBVIOUS
  <2>1. Typed'
    BY TypedNext
  <2>2. HeardIsHeld' /\ PostShowsPull'
    BY HeldNext, PostPullNext DEF PullInv
  <2>3. PullEntryHeard'
    BY PullEntryNext
  <2> QED
    BY <2>1, <2>2, <2>3 DEF PullInv
<1> QED
  BY <1>1, <1>2, PTL DEF Spec

\* An entry that heard every change since its second holds the pull request open only if
\* it is.
LEMMA PullTruth ==
  ASSUME Typed, PullInv
  PROVE  PullHeldOpenIsOpen
<1> SUFFICES ASSUME NEW p \in Pulls, PullEntry(p) # {}, PullKnown(p).open, PullUpToDate(p)
             PROVE  pull[p].open
  BY DEF PullHeldOpenIsOpen
<1>1. PICK k \in DOMAIN pulls : pulls[k] = PullKnown(p) /\ pulls[k].pull = p
  BY PullKnownShape
<1>2. /\ pull[p] # None /\ pulls[k].at <= pull[p].updated
      /\ \A d \in heard \cap PullPosts : d.pull = p =>
           d.at <= pulls[k].at /\ (d.at = pulls[k].at /\ ~d.open => ~pulls[k].open)
  BY <1>1 DEF PullInv, PullEntryHeard, OfPulls
<1>3. pulls[k].at \in Nat /\ pull[p].updated \in Nat
  BY <1>1, <1>2, PullKnownShape DEF PullEntries, Typed, PullStates
<1>4. SUFFICES ASSUME ~pull[p].open PROVE FALSE
  OBVIOUS
<1>5. PICK d \in posted \cap PullPosts : d.pull = p /\ d.at = pull[p].updated /\ ~d.open
  BY <1>2, <1>4 DEF PullInv, PostShowsPull, OfPulls
<1>6. d.type = "pull_request" /\ d.at >= PullKnown(p).at
  BY <1>1, <1>2, <1>3, <1>5 DEF PullPosts
<1>7. d \in heard
  BY <1>5, <1>6 DEF PullUpToDate
<1>8. d.at = pulls[k].at
  BY <1>1, <1>2, <1>3, <1>5, <1>7
<1> QED
  BY <1>1, <1>2, <1>5, <1>7, <1>8

\* Late, repeated, lost or reordered deliveries, evictions and restarts never make the
\* route hold a pull request open whose close it heard: the later report wins, and of one
\* second the close (PullLedger.observe).
THEOREM OpenPullsAreOpen == Spec => []PullHeldOpenIsOpen
  BY PullHolds, PullTruth, PTL

-----------------------------------------------------------------------------
(* The issues.                                                             *)

\* At the start no issue is opened, and nothing is posted.
LEMMA IssueInit == Init => IssueInv
<1> SUFFICES ASSUME Init PROVE IssueInv
  OBVIOUS
<1>1. /\ heard = {} /\ posted = {} /\ DOMAIN ledger = {}
      /\ \A i \in Issues : issue[i] = None
  BY DEF Init
<1> QED
  BY <1>1 DEF IssueInv, GithubInv, HeardIsHeld, EntryShowsIssue, EntryHeard, OfIssues,
       OfPulls, StateChanges, LabelChanges

\* A delivery more among those about issues.
LEMMA OneMore ==
  ASSUME NEW D, NEW d \in IssuePosts
  PROVE  /\ OfIssues(D \cup {d}) = OfIssues(D) \cup {d}
         /\ d.type = "issues" /\ d.action \in StateActions =>
              StateChanges(D \cup {d}) = StateChanges(D) \cup {d}
         /\ ~(d.type = "issues" /\ d.action \in StateActions) =>
              StateChanges(D \cup {d}) = StateChanges(D)
         /\ d.type = "issues" /\ d.action \in LabelActions =>
              LabelChanges(D \cup {d}) = LabelChanges(D) \cup {d}
         /\ ~(d.type = "issues" /\ d.action \in LabelActions) =>
              LabelChanges(D \cup {d}) = LabelChanges(D)
<1>1. OfIssues(D \cup {d}) = OfIssues(D) \cup {d}
  BY DEF OfIssues
<1> QED
  BY <1>1 DEF StateChanges, LabelChanges

\* The changes are among the deliveries about issues, whose times are numbers.
LEMMA ChangesAre ==
  ASSUME NEW D
  PROVE  /\ StateChanges(D) \subseteq OfIssues(D) /\ LabelChanges(D) \subseteq OfIssues(D)
         /\ \A d \in OfIssues(D) :
              d \in IssuePosts /\ d.at \in Nat /\ d.nth \in Nat /\ d.issue \in Issues
  BY DEF OfIssues, StateChanges, LabelChanges, IssuePosts

\* A change that is no earlier than the last is the last then.
LEMMA NewLast ==
  ASSUME NEW C, NEW i, NEW d, d.issue = i, d.at <= d.at, d.nth <= d.nth,
         \A c \in C : c.issue = i => c.at <= d.at /\ c.nth <= d.nth
  PROVE  IsLast(d, C \cup {d}, i)
  BY DEF IsLast

\* Deliveries about other issues change nothing, nor does time.
LEMMA OtherIssue ==
  ASSUME NEW i, NEW x \in IssueStates, NEW n \in Nat, NEW m \in Nat, n <= m, NEW D,
         IssueShows(i, x, n, D), NEW S, \A d \in S : d.issue # i
  PROVE  IssueShows(i, x, m, D \cup S)
<1> DEFINE E == D \cup S
<1>1. x.updated <= m
  BY DEF IssueShows, IssueStates
<1>2. \A c \in OfIssues(E) : c.issue = i => c \in OfIssues(D)
  BY DEF OfIssues
<1>3. \A c \in StateChanges(E) : c.issue = i => c \in StateChanges(D)
  BY <1>2 DEF StateChanges
<1>4. \A c \in LabelChanges(E) : c.issue = i => c \in LabelChanges(D)
  BY <1>2 DEF LabelChanges
<1>5. StateChanges(D) \subseteq StateChanges(E) /\ LabelChanges(D) \subseteq LabelChanges(E)
  BY DEF StateChanges, LabelChanges, OfIssues
<1> HIDE DEF E
<1>6. \E c : IsLast(c, StateChanges(E), i) /\ c.at = x.stateAt /\ c.open = x.open
  BY <1>3, <1>5 DEF IssueShows, IsLast
<1>7. \E c : IsLast(c, LabelChanges(E), i) /\ c.at = x.labelsAt /\ c.labels = x.labels
  BY <1>4, <1>5 DEF IssueShows, IsLast
<1>8. IssueShows(i, x, m, E)
  BY <1>1, <1>2, <1>6, <1>7 DEF IssueShows
<1> QED
  BY <1>8 DEF E

\* An issue that is opened is what the deliveries of its opening show.
LEMMA OpenedShows ==
  ASSUME NEW i, NEW x \in IssueStates, NEW n \in Nat, NEW D, NEW S,
         \A c \in OfIssues(D) : c.issue # i,
         \A d \in S :
           /\ d \in IssuePosts /\ d.type = "issues" /\ d.issue = i /\ d.at = n
           /\ d.nth = x.changes /\ d.open = x.open /\ d.labels = x.labels,
         \E d \in S : d.action \in StateActions /\ d.action \in LabelActions,
         x.stateAt = n, x.labelsAt = n, x.updated = n
  PROVE  IssueShows(i, x, n, D \cup S)
<1> DEFINE E == D \cup S
<1>1. \A c \in OfIssues(E) : c.issue = i => c \in S
  BY DEF OfIssues
<1>2. StateChanges(E) \subseteq OfIssues(E) /\ LabelChanges(E) \subseteq OfIssues(E)
  BY ChangesAre
<1>3. PICK d \in S : d.action \in StateActions /\ d.action \in LabelActions
  OBVIOUS
<1>4. d \in StateChanges(E) /\ d \in LabelChanges(E) /\ d.issue = i
  BY <1>3 DEF StateChanges, LabelChanges, OfIssues
<1>5. x.changes \in Nat /\ n <= n /\ ~(n > n) /\ x.changes <= x.changes
  BY DEF IssueStates
<1> HIDE DEF E
<1>6. \A c \in OfIssues(E) : c.issue = i =>
        c.at = n /\ c.nth = x.changes /\ c.open = x.open /\ c.labels = x.labels
  BY <1>1
<1>7. IsLast(d, StateChanges(E), i) /\ IsLast(d, LabelChanges(E), i)
  BY <1>2, <1>3, <1>4, <1>5, <1>6 DEF IsLast
<1>8. /\ d.at = x.stateAt /\ d.open = x.open /\ d.at = x.labelsAt /\ d.labels = x.labels
  BY <1>3
<1>9. IssueShows(i, x, n, E)
  BY <1>5, <1>6, <1>7, <1>8 DEF IssueShows
<1> QED
  BY <1>9 DEF E

\* A change of whether an issue is open is its last, and leaves its labels.
LEMMA StateChangeShows ==
  ASSUME NEW i, NEW y \in IssueStates, NEW x \in IssueStates, NEW n \in Nat, NEW D,
         IssueShows(i, y, n, D), NEW d \in IssuePosts,
         d.type = "issues", d.action \in StateActions, d.action \notin LabelActions,
         d.issue = i, d.at = n, d.open = x.open, d.labels = x.labels, x.updated = n,
         x.before = IF n \in {y.stateAt, y.labelsAt} THEN y.before
                    ELSE [open |-> y.open, labels |-> y.labels],
         x.changes = y.changes + 1, d.nth = x.changes,
         x.stateAt = n, x.labelsAt = y.labelsAt, x.labels = y.labels
  PROVE  IssueShows(i, x, n, D \cup {d})
<1> DEFINE E == D \cup {d}
<1>1. OfIssues(E) = OfIssues(D) \cup {d} /\ StateChanges(E) = StateChanges(D) \cup {d}
      /\ LabelChanges(E) = LabelChanges(D)
  BY OneMore
<1>2. StateChanges(D) \subseteq OfIssues(D) /\ LabelChanges(D) \subseteq OfIssues(D)
      /\ \A c \in OfIssues(D) : c.at \in Nat /\ c.nth \in Nat
  BY ChangesAre
<1>3. /\ y.updated \in Nat /\ y.stateAt \in Nat /\ y.labelsAt \in Nat /\ y.changes \in Nat
      /\ y.updated <= n /\ y.labelsAt <= n /\ y.stateAt <= n
  BY DEF IssueStates, IssueShows
<1>4. \A c \in OfIssues(D) : c.issue = i =>
        c.at <= n /\ c.nth <= d.nth /\ c.nth <= x.changes /\ c.nth # d.nth
  BY <1>2, <1>3 DEF IssueShows
<1>5. /\ x.stateAt <= x.updated /\ x.labelsAt <= x.updated /\ x.updated <= n
      /\ x.stateAt > x.labelsAt => x.before.labels = x.labels
      /\ x.labelsAt > x.stateAt => x.before.open = x.open
  <2>1. y.stateAt > y.labelsAt => y.before.labels = y.labels
    BY DEF IssueShows
  <2>2. x.stateAt > x.labelsAt => x.before.labels = x.labels
    <3> SUFFICES ASSUME n > y.labelsAt PROVE x.before.labels = y.labels
      OBVIOUS
    <3>1. CASE n = y.stateAt
      BY <2>1, <3>1
    <3>2. CASE n # y.stateAt
      BY <1>3, <3>2
    <3> QED
      BY <3>1, <3>2
  <2> QED
    BY <1>3, <2>2
<1>6. d.at <= d.at /\ d.nth <= d.nth /\ d.at <= n /\ ~(d.at > n) /\ d.nth <= x.changes
  BY <1>3
<1> HIDE DEF E
<1>7. \A c \in OfIssues(E) : c.issue = i =>
        /\ c.at <= x.updated /\ c.nth <= x.changes
        /\ c.at > x.stateAt => c.open = x.open
        /\ c.at > x.labelsAt => c.labels = x.labels
  <2>1. \A c \in OfIssues(D) : c.issue = i => (c.at > y.labelsAt => c.labels = y.labels)
    BY DEF IssueShows
  <2> QED
    BY <1>1, <1>2, <1>4, <1>6, <2>1
<1>8. \A b, c \in OfIssues(E) :
        b.issue = i /\ c.issue = i /\ b.type = "issues" /\ c.type = "issues" /\ b.nth = c.nth
        => b.open = c.open /\ b.labels = c.labels
  <2>1. \A b, c \in OfIssues(D) :
          b.issue = i /\ c.issue = i /\ b.type = "issues" /\ c.type = "issues" /\ b.nth = c.nth
          => b.open = c.open /\ b.labels = c.labels
    BY DEF IssueShows
  <2> QED
    BY <1>1, <1>4, <2>1
<1>9. IsLast(d, StateChanges(E), i) /\ d.at = x.stateAt /\ d.open = x.open
  <2>1. \A c \in StateChanges(D) : c.issue = i => c.at <= d.at /\ c.nth <= d.nth
    BY <1>2, <1>4
  <2>2. IsLast(d, StateChanges(D) \cup {d}, i)
    BY <1>6, <2>1, NewLast
  <2> QED
    BY <1>1, <2>2
<1>10. \E c : IsLast(c, LabelChanges(E), i) /\ c.at = x.labelsAt /\ c.labels = x.labels
  BY <1>1 DEF IssueShows
<1>11. IssueShows(i, x, n, E)
  BY <1>5, <1>7, <1>8, <1>9, <1>10 DEF IssueShows
<1> QED
  BY <1>11 DEF E

\* The same for a change of the labels.
LEMMA LabelChangeShows ==
  ASSUME NEW i, NEW y \in IssueStates, NEW x \in IssueStates, NEW n \in Nat, NEW D,
         IssueShows(i, y, n, D), NEW d \in IssuePosts,
         d.type = "issues", d.action \in LabelActions, d.action \notin StateActions,
         d.issue = i, d.at = n, d.open = x.open, d.labels = x.labels, x.updated = n,
         x.before = IF n \in {y.stateAt, y.labelsAt} THEN y.before
                    ELSE [open |-> y.open, labels |-> y.labels],
         x.changes = y.changes + 1, d.nth = x.changes,
         x.labelsAt = n, x.stateAt = y.stateAt, x.open = y.open
  PROVE  IssueShows(i, x, n, D \cup {d})
<1> DEFINE E == D \cup {d}
<1>1. OfIssues(E) = OfIssues(D) \cup {d} /\ StateChanges(E) = StateChanges(D)
      /\ LabelChanges(E) = LabelChanges(D) \cup {d}
  BY OneMore
<1>2. StateChanges(D) \subseteq OfIssues(D) /\ LabelChanges(D) \subseteq OfIssues(D)
      /\ \A c \in OfIssues(D) : c.at \in Nat /\ c.nth \in Nat
  BY ChangesAre
<1>3. /\ y.updated \in Nat /\ y.stateAt \in Nat /\ y.labelsAt \in Nat /\ y.changes \in Nat
      /\ y.updated <= n /\ y.labelsAt <= n /\ y.stateAt <= n
  BY DEF IssueStates, IssueShows
<1>4. \A c \in OfIssues(D) : c.issue = i =>
        c.at <= n /\ c.nth <= d.nth /\ c.nth <= x.changes /\ c.nth # d.nth
  BY <1>2, <1>3 DEF IssueShows
<1>5. /\ x.stateAt <= x.updated /\ x.labelsAt <= x.updated /\ x.updated <= n
      /\ x.stateAt > x.labelsAt => x.before.labels = x.labels
      /\ x.labelsAt > x.stateAt => x.before.open = x.open
  <2>1. y.labelsAt > y.stateAt => y.before.open = y.open
    BY DEF IssueShows
  <2>2. x.labelsAt > x.stateAt => x.before.open = x.open
    <3> SUFFICES ASSUME n > y.stateAt PROVE x.before.open = y.open
      OBVIOUS
    <3>1. CASE n = y.labelsAt
      BY <2>1, <3>1
    <3>2. CASE n # y.labelsAt
      BY <1>3, <3>2
    <3> QED
      BY <3>1, <3>2
  <2> QED
    BY <1>3, <2>2
<1>6. d.at <= d.at /\ d.nth <= d.nth /\ d.at <= n /\ ~(d.at > n) /\ d.nth <= x.changes
  BY <1>3
<1> HIDE DEF E
<1>7. \A c \in OfIssues(E) : c.issue = i =>
        /\ c.at <= x.updated /\ c.nth <= x.changes
        /\ c.at > x.stateAt => c.open = x.open
        /\ c.at > x.labelsAt => c.labels = x.labels
  <2>1. \A c \in OfIssues(D) : c.issue = i => (c.at > y.stateAt => c.open = y.open)
    BY DEF IssueShows
  <2> QED
    BY <1>1, <1>2, <1>4, <1>6, <2>1
<1>8. \A b, c \in OfIssues(E) :
        b.issue = i /\ c.issue = i /\ b.type = "issues" /\ c.type = "issues" /\ b.nth = c.nth
        => b.open = c.open /\ b.labels = c.labels
  <2>1. \A b, c \in OfIssues(D) :
          b.issue = i /\ c.issue = i /\ b.type = "issues" /\ c.type = "issues" /\ b.nth = c.nth
          => b.open = c.open /\ b.labels = c.labels
    BY DEF IssueShows
  <2> QED
    BY <1>1, <1>4, <2>1
<1>9. IsLast(d, LabelChanges(E), i) /\ d.at = x.labelsAt /\ d.labels = x.labels
  <2>1. \A c \in LabelChanges(D) : c.issue = i => c.at <= d.at /\ c.nth <= d.nth
    BY <1>2, <1>4
  <2>2. IsLast(d, LabelChanges(D) \cup {d}, i)
    BY <1>6, <2>1, NewLast
  <2> QED
    BY <1>1, <2>2
<1>10. \E c : IsLast(c, StateChanges(E), i) /\ c.at = x.stateAt /\ c.open = x.open
  BY <1>1 DEF IssueShows
<1>11. IssueShows(i, x, n, E)
  BY <1>5, <1>7, <1>8, <1>9, <1>10 DEF IssueShows
<1> QED
  BY <1>11 DEF E

\* A comment shows the issue, or what it was before the changes of this second, or what one
\* of them left, and so what they left alone.
LEMMA CommentShows ==
  ASSUME NEW i, NEW y \in IssueStates, NEW n \in Nat, NEW D,
         IssueShows(i, y, n, D), NEW d \in IssuePosts,
         d.type = "issue_comment", d.issue = i, d.at = n, d.nth = 0,
         \/ d.open = y.open /\ d.labels = y.labels
         \/ /\ n \in {y.stateAt, y.labelsAt}
            /\ d.open = y.before.open /\ d.labels = y.before.labels
         \/ \E c \in OfIssues(D) :
              c.issue = i /\ c.at = n /\ d.open = c.open /\ d.labels = c.labels
  PROVE  IssueShows(i, [y EXCEPT !.updated = n], n, D \cup {d})
<1> DEFINE E == D \cup {d}
           x == [y EXCEPT !.updated = n]
<1>1. OfIssues(E) = OfIssues(D) \cup {d} /\ StateChanges(E) = StateChanges(D)
      /\ LabelChanges(E) = LabelChanges(D)
  BY OneMore
<1>2. \A c \in OfIssues(D) : c.at \in Nat
  BY ChangesAre
<1>3. /\ y.updated \in Nat /\ y.stateAt \in Nat /\ y.labelsAt \in Nat /\ y.changes \in Nat
      /\ y.stateAt <= y.updated /\ y.labelsAt <= y.updated /\ y.updated <= n
  BY DEF IssueStates, IssueShows
<1>4. /\ x.open = y.open /\ x.labels = y.labels /\ x.before = y.before /\ x.updated = n
      /\ x.stateAt = y.stateAt /\ x.labelsAt = y.labelsAt /\ x.changes = y.changes
  BY DEF IssueStates
<1> HIDE DEF E, x
<1>5. (d.at > y.stateAt => d.open = y.open) /\ (d.at > y.labelsAt => d.labels = y.labels)
  <2>1. (y.stateAt > y.labelsAt => y.before.labels = y.labels)
        /\ (y.labelsAt > y.stateAt => y.before.open = y.open)
    BY DEF IssueShows
  <2>2. \A c \in OfIssues(D) : c.issue = i =>
          /\ c.at > y.stateAt => c.open = y.open
          /\ c.at > y.labelsAt => c.labels = y.labels
    BY DEF IssueShows
  <2> QED
    BY <1>3, <2>1, <2>2
<1>6. \A c \in OfIssues(E) : c.issue = i =>
        /\ c.at <= x.updated /\ c.nth <= x.changes
        /\ c.at > x.stateAt => c.open = x.open
        /\ c.at > x.labelsAt => c.labels = x.labels
  <2>1. \A c \in OfIssues(D) : c.issue = i =>
          /\ c.at <= y.updated /\ c.nth <= y.changes
          /\ c.at > y.stateAt => c.open = y.open
          /\ c.at > y.labelsAt => c.labels = y.labels
    BY DEF IssueShows
  <2> QED
    BY <1>1, <1>2, <1>3, <1>4, <1>5, <2>1
<1>7. /\ x.stateAt <= x.updated /\ x.labelsAt <= x.updated /\ x.updated <= n
      /\ x.stateAt > x.labelsAt => x.before.labels = x.labels
      /\ x.labelsAt > x.stateAt => x.before.open = x.open
  BY <1>3, <1>4 DEF IssueShows
<1>8. \A b, c \in OfIssues(E) :
        b.issue = i /\ c.issue = i /\ b.type = "issues" /\ c.type = "issues" /\ b.nth = c.nth
        => b.open = c.open /\ b.labels = c.labels
  <2>1. \A b, c \in OfIssues(D) :
          b.issue = i /\ c.issue = i /\ b.type = "issues" /\ c.type = "issues" /\ b.nth = c.nth
          => b.open = c.open /\ b.labels = c.labels
    BY DEF IssueShows
  <2> QED
    BY <1>1, <2>1
<1>9. /\ \E c : IsLast(c, StateChanges(E), i) /\ c.at = x.stateAt /\ c.open = x.open
      /\ \E c : IsLast(c, LabelChanges(E), i) /\ c.at = x.labelsAt /\ c.labels = x.labels
  BY <1>1, <1>4 DEF IssueShows
<1>10. IssueShows(i, x, n, E)
  BY <1>6, <1>7, <1>8, <1>9 DEF IssueShows
<1> QED
  BY <1>10 DEF E, x

\* What GitHub posts keeps showing the issues.
LEMMA GithubNext ==
  ASSUME Typed, GithubInv, [Next]_vars
  PROVE  GithubInv'
<1> DEFINE Holds(i, f, n, D) ==
             IF f[i] = None THEN \A d \in OfIssues(D) : d.issue # i
                            ELSE IssueShows(i, f[i], n, D)
<1>1. \A i \in Issues : Holds(i, issue, now, posted)
  BY DEF GithubInv
<1>2. SUFFICES ASSUME NEW j \in Issues PROVE Holds(j, issue', now', posted')
  BY DEF GithubInv, OfIssues, StateChanges, LabelChanges, IssueShows, IsLast
<1>3. now \in Nat /\ issue \in [Issues -> IssueStates \cup {None}] /\ now' \in Nat
  BY TypedNext DEF Typed
<1>4. issue[j] # None => issue[j] \in IssueStates
  BY <1>3
<1>5. ASSUME NEW d \in IssuePosts, d.issue # j, issue'[j] = issue[j], now' = now,
             posted' = posted \cup {d}
      PROVE  Holds(j, issue', now', posted')
  <2>1. CASE issue[j] = None
    <3>1. \A c \in OfIssues(posted') : c.issue # j
      BY <1>1, <1>5, <2>1 DEF OfIssues
    <3> QED
      BY <1>5, <2>1, <3>1
  <2>2. CASE issue[j] # None
    <3>1. IssueShows(j, issue[j], now, posted)
      BY <1>1, <2>2
    <3>2. now <= now
      BY <1>3
    <3>3. IssueShows(j, issue[j], now, posted \cup {d})
      BY <1>3, <1>4, <1>5, <2>2, <3>1, <3>2, OtherIssue
    <3> QED
      BY <1>5, <2>2, <3>3
  <2> QED
    BY <2>1, <2>2
<1>6. ASSUME OfIssues(posted') = OfIssues(posted), issue'[j] = issue[j], now <= now'
      PROVE  Holds(j, issue', now', posted')
  <2>1. StateChanges(posted') = StateChanges(posted) /\ LabelChanges(posted') = LabelChanges(posted)
    BY <1>6 DEF StateChanges, LabelChanges
  <2>2. CASE issue[j] = None
    BY <1>1, <1>6, <2>2
  <2>3. CASE issue[j] # None
    <3>1. IssueShows(j, issue[j], now, posted)
      BY <1>1, <2>3
    <3>2. issue[j].updated <= now'
      BY <1>3, <1>4, <1>6, <2>3, <3>1 DEF IssueShows, IssueStates
    <3>3. IssueShows(j, issue[j], now', posted')
      BY <1>6, <2>1, <3>1, <3>2 DEF IssueShows
    <3> QED
      BY <1>6, <2>3, <3>3
  <2> QED
    BY <2>2, <2>3
<1>7. ASSUME NEW i \in Issues, NEW x \in IssueStates, NEW d \in IssuePosts,
             IssueBecomes(i, x, d), now' = now
      PROVE  Holds(j, issue', now', posted')
  <2>1. /\ issue[i] # None /\ issue' = [issue EXCEPT ![i] = x] /\ posted' = posted \cup {d}
        /\ d.issue = i
    BY <1>7 DEF IssueBecomes
  <2>2. CASE i # j
    <3>1. issue'[j] = issue[j]
      BY <1>3, <2>1, <2>2
    <3> QED
      BY <1>5, <1>7, <2>1, <2>2, <3>1
  <2>3. CASE i = j
    <3>1. issue'[j] = x /\ x # None
      BY <1>3, <2>1, <2>3, NoneApart
    <3> DEFINE y == issue[j]
    <3>2. y \in IssueStates /\ IssueShows(j, y, now, posted)
      BY <1>1, <1>4, <2>1, <2>3
    <3>3. /\ d.type = "issues" /\ d.issue = j /\ d.at = now /\ d.open = x.open
          /\ d.labels = x.labels /\ x.updated = now
          /\ x.before = IF now \in {y.stateAt, y.labelsAt} THEN y.before
                        ELSE [open |-> y.open, labels |-> y.labels]
          /\ x.changes = y.changes + 1 /\ d.nth = x.changes
          /\ \/ /\ d.action \in StateActions /\ d.action \notin LabelActions
                /\ x.stateAt = now /\ x.labelsAt = y.labelsAt /\ x.labels = y.labels
             \/ /\ d.action \in LabelActions /\ d.action \notin StateActions
                /\ x.labelsAt = now /\ x.stateAt = y.stateAt /\ x.open = y.open
      BY <1>7, <2>3 DEF IssueBecomes
    <3> HIDE DEF y
    <3>4. IssueShows(j, x, now, posted \cup {d})
      <4>1. CASE d.action \in StateActions
        BY <1>3, <3>2, <3>3, <4>1, StateChangeShows
      <4>2. CASE d.action \notin StateActions
        BY <1>3, <3>2, <3>3, <4>2, LabelChangeShows
      <4> QED
        BY <4>1, <4>2
    <3> QED
      BY <1>7, <2>1, <3>1, <3>4
  <2> QED
    BY <2>2, <2>3
<1>8. ASSUME NEW i \in Issues, NEW d \in IssuePosts, IssueIsShown(i, d), now' = now
      PROVE  Holds(j, issue', now', posted')
  <2>1. /\ issue[i] # None /\ issue' = [issue EXCEPT ![i] = [issue[i] EXCEPT !.updated = now]]
        /\ posted' = posted \cup {d} /\ d.issue = i
    BY <1>8 DEF IssueIsShown
  <2>2. CASE i # j
    <3>1. issue'[j] = issue[j]
      BY <1>3, <2>1, <2>2
    <3> QED
      BY <1>5, <1>8, <2>1, <2>2, <3>1
  <2>3. CASE i = j
    <3> DEFINE y == issue[j]
               x == [y EXCEPT !.updated = now]
    <3>1. y \in IssueStates /\ IssueShows(j, y, now, posted)
      BY <1>1, <1>4, <2>1, <2>3
    <3>2. issue'[j] = x
      BY <1>3, <2>1, <2>3
    <3>3. x \in IssueStates
      BY <1>3, <3>1 DEF IssueStates
    <3>4. /\ d.type = "issue_comment" /\ d.issue = j /\ d.at = now /\ d.nth = 0
          /\ \/ d.open = y.open /\ d.labels = y.labels
             \/ /\ now \in {y.stateAt, y.labelsAt}
                /\ d.open = y.before.open /\ d.labels = y.before.labels
             \/ \E c \in OfIssues(posted) :
                  c.issue = j /\ c.at = now /\ d.open = c.open /\ d.labels = c.labels
      BY <1>8, <2>3 DEF IssueIsShown
    <3> HIDE DEF y
    <3>5. IssueShows(j, x, now, posted \cup {d})
      BY <1>3, <3>1, <3>4, CommentShows
    <3>6. x # None
      BY <3>3, NoneApart
    <3> HIDE DEF x
    <3> QED
      BY <1>8, <2>1, <3>2, <3>5, <3>6
  <2> QED
    BY <2>2, <2>3
<1>9. ASSUME NEW d \in PullPosts \cup RunPosts, posted' = posted \cup {d}
      PROVE  OfIssues(posted') = OfIssues(posted)
  BY <1>9, KindsApart DEF OfIssues
<1>10. now <= now
  BY <1>3
<1>11. ASSUME NEW d \in posted, Deliver(d)
       PROVE  UNCHANGED <<issue, posted, now>>
  BY <1>11 DEF Deliver, github
<1>12. CASE Restart
  <2>1. UNCHANGED <<issue, posted, now>>
    BY <1>12 DEF Restart, github
  <2> QED
    BY <1>6, <1>10, <2>1
<1>13. ASSUME NEW i \in Issues, NEW x \in IssueStates, NEW S,
              IssueOpens(i, x, S), now' = now
       PROVE  Holds(j, issue', now', posted')
  <2>1. /\ issue[i] = None /\ issue' = [issue EXCEPT ![i] = x] /\ posted' = posted \cup S
        /\ \A d \in S : d \in IssuePosts /\ d.issue = i
    BY <1>13 DEF IssueOpens
  <2>2. CASE i # j
    <3>1. issue'[j] = issue[j]
      BY <1>3, <2>1, <2>2
    <3>2. CASE issue[j] = None
      <4>1. \A c \in OfIssues(posted') : c.issue # j
        BY <1>1, <2>1, <2>2, <3>2 DEF OfIssues
      <4> QED
        BY <3>1, <3>2, <4>1
    <3>3. CASE issue[j] # None
      <4>1. now <= now
        BY <1>3
      <4>2. IssueShows(j, issue[j], now, posted \cup S)
        BY <1>1, <1>3, <1>4, <2>1, <2>2, <3>3, <4>1, OtherIssue
      <4> QED
        BY <1>13, <2>1, <3>1, <3>3, <4>2
    <3> QED
      BY <3>2, <3>3
  <2>3. CASE i = j
    <3>1. issue'[j] = x /\ x # None
      BY <1>3, <2>1, <2>3, NoneApart
    <3>2. \A c \in OfIssues(posted) : c.issue # j
      BY <1>1, <2>1, <2>3
    <3>3. IssueShows(j, x, now, posted \cup S)
      BY <1>3, <1>13, <2>3, <3>2, OpenedShows DEF IssueOpens
    <3> QED
      BY <1>13, <2>1, <3>1, <3>3
  <2> QED
    BY <2>2, <2>3
<1> HIDE DEF Holds
<1> QED
  BY <1>6, <1>7, <1>8, <1>9, <1>10, <1>11, <1>12, <1>13, StepShape

\* An entry fits an issue x if it is no later than its last update, and shows what it is
\* when it is later than its last change.
Fits(e, x) ==
  /\ e.at <= x.updated
  /\ e.at > x.stateAt => e.open = x.open
  /\ e.at > x.labelsAt => e.labels = x.labels

\* The entries of the ledger keep fitting the issues.
LEMMA EntryFitsNext ==
  ASSUME Typed, GithubInv, EntryShowsIssue, [Next]_vars
  PROVE  EntryShowsIssue'
<1>1. \A k \in DOMAIN ledger :
        issue[ledger[k].issue] # None /\ Fits(ledger[k], issue[ledger[k].issue])
  BY DEF EntryShowsIssue, Fits
<1>2. SUFFICES ASSUME NEW k \in DOMAIN ledger'
               PROVE  issue'[ledger'[k].issue] # None
                      /\ Fits(ledger'[k], issue'[ledger'[k].issue])
  BY DEF EntryShowsIssue, Fits
<1>3. /\ now \in Nat /\ issue \in [Issues -> IssueStates \cup {None}]
      /\ ledger \in Seq(IssueEntries)
  BY DEF Typed
<1>4. \A j \in DOMAIN ledger : ledger[j] \in IssueEntries
  BY <1>3, ElementOfSeq
<1>5. \A e \in IssueEntries : e.issue \in Issues /\ e.at \in Nat
  BY DEF IssueEntries
<1>6. \A x \in IssueStates : x.updated \in Nat /\ x.stateAt \in Nat /\ x.labelsAt \in Nat
  BY DEF IssueStates
<1>7. CASE UNCHANGED <<issue, ledger>>
  BY <1>1, <1>7
<1>8. ASSUME NEW i \in Issues, NEW x \in IssueStates, NEW d \in IssuePosts,
             IssueBecomes(i, x, d), ledger' = ledger
      PROVE  issue'[ledger'[k].issue] # None /\ Fits(ledger'[k], issue'[ledger'[k].issue])
  <2> DEFINE e == ledger[k]
             y == issue[i]
  <2>1. e \in IssueEntries /\ issue[e.issue] # None /\ Fits(e, issue[e.issue])
    BY <1>1, <1>4, <1>8
  <2>2. issue' = [issue EXCEPT ![i] = x]
    BY <1>8 DEF IssueBecomes
  <2>3. CASE e.issue # i
    BY <1>3, <1>5, <1>8, <2>1, <2>2, <2>3
  <2>4. CASE e.issue = i
    <3>1. issue'[i] = x /\ x # None /\ y # None /\ y \in IssueStates
      BY <1>3, <2>1, <2>2, <2>4, NoneApart
    <3>2. /\ x.updated = now
          /\ \/ x.stateAt = now /\ x.labelsAt = y.labelsAt /\ x.labels = y.labels
             \/ x.labelsAt = now /\ x.stateAt = y.stateAt /\ x.open = y.open
      BY <1>8, <3>1 DEF IssueBecomes
    <3>3. y.updated <= now /\ e.at <= y.updated
      BY <2>1, <2>4, <3>1 DEF GithubInv, IssueShows, Fits
    <3>4. e.at <= now /\ e.at \in Nat
      BY <1>3, <1>5, <1>6, <2>1, <3>1, <3>3
    <3>5. Fits(e, y)
      BY <2>1, <2>4
    <3> HIDE DEF e, y
    <3>6. Fits(e, x)
      BY <1>3, <3>2, <3>4, <3>5 DEF Fits
    <3> QED
      BY <1>8, <2>4, <3>1, <3>6 DEF e
  <2> QED
    BY <2>3, <2>4
<1>9. ASSUME NEW i \in Issues, NEW d \in IssuePosts, IssueIsShown(i, d), ledger' = ledger
      PROVE  issue'[ledger'[k].issue] # None /\ Fits(ledger'[k], issue'[ledger'[k].issue])
  <2> DEFINE e == ledger[k]
             y == issue[i]
             x == [y EXCEPT !.updated = now]
  <2>1. e \in IssueEntries /\ issue[e.issue] # None /\ Fits(e, issue[e.issue])
    BY <1>1, <1>4, <1>9
  <2>2. issue' = [issue EXCEPT ![i] = x] /\ y # None /\ y \in IssueStates
    BY <1>3, <1>9 DEF IssueIsShown
  <2>3. CASE e.issue # i
    BY <1>3, <1>5, <1>9, <2>1, <2>2, <2>3
  <2>4. CASE e.issue = i
    <3>1. x.updated = now /\ x.open = y.open /\ x.labels = y.labels
          /\ x.stateAt = y.stateAt /\ x.labelsAt = y.labelsAt /\ x \in IssueStates
      BY <1>3, <2>2 DEF IssueStates
    <3>2. issue'[i] = x /\ x # None
      BY <1>3, <2>2, <3>1, NoneApart
    <3>3. y.updated <= now /\ e.at <= y.updated
      BY <2>1, <2>2, <2>4 DEF GithubInv, IssueShows, Fits
    <3>4. e.at <= now
      BY <1>3, <1>5, <1>6, <2>1, <2>2, <3>3
    <3>5. Fits(e, y)
      BY <2>1, <2>4
    <3> HIDE DEF e, x, y
    <3>6. Fits(e, x)
      BY <3>1, <3>4, <3>5 DEF Fits
    <3> QED
      BY <1>9, <2>4, <3>2, <3>6 DEF e
  <2> QED
    BY <2>3, <2>4
<1>10. ASSUME NEW d \in posted, Deliver(d)
       PROVE  issue'[ledger'[k].issue] # None /\ Fits(ledger'[k], issue'[ledger'[k].issue])
  <2>1. /\ \/ d \in IssuePosts /\ ObserveIssue(Report(d))
           \/ ledger' = ledger
        /\ issue' = issue
    BY <1>10, DeliverShape DEF github
  <2>2. CASE ledger' = ledger
    BY <1>1, <2>1, <2>2
  <2>3. ASSUME d \in IssuePosts, NEW e \in IssueEntries, e.issue = d.issue, e.at = d.at,
               ledger' = Evict(Append(Without(ledger, Entry(d.issue)), e)),
               \/ e = Report(d)
               \/ /\ Tracked(d.issue) /\ Known(d.issue).at = d.at
                  /\ e = SettleTie(Known(d.issue), Report(d))
        PROVE  issue'[ledger'[k].issue] # None /\ Fits(ledger'[k], issue'[ledger'[k].issue])
    <3> DEFINE x == issue[d.issue]
    <3>1. d.issue \in Issues /\ d \in OfIssues(posted)
      BY <2>3 DEF OfIssues, IssuePosts
    <3>2. x # None /\ IssueShows(d.issue, x, now, posted)
      BY <3>1 DEF GithubInv
    <3>3. /\ d.at <= x.updated
          /\ d.at > x.stateAt => d.open = x.open
          /\ d.at > x.labelsAt => d.labels = x.labels
      BY <3>1, <3>2 DEF IssueShows
    <3>4. Report(d).open = d.open /\ Report(d).labels = d.labels
      BY DEF Report
    <3>5. Fits(e, x)
      <4>1. CASE e = Report(d)
        BY <2>3, <3>3, <3>4, <4>1 DEF Fits
      <4>2. CASE /\ Tracked(d.issue) /\ Known(d.issue).at = d.at
                 /\ e = SettleTie(Known(d.issue), Report(d))
        <5>1. Fits(Known(d.issue), x)
          BY <1>1, <4>2, KnownShape
        <5>2. (e.open = d.open \/ e.open = Known(d.issue).open)
              /\ (e.labels = d.labels \/ e.labels = Known(d.issue).labels)
          BY <3>4, <4>2 DEF SettleTie, Report
        <5> QED
          BY <2>3, <3>3, <4>2, <5>1, <5>2 DEF Fits
      <4> QED
        BY <2>3, <4>1, <4>2
    <3>6. IssueLedgerWith(ledger', e)
      BY <2>3, PutIssue
    <3>7. ledger'[k] = e
          \/ (ledger'[k].issue # e.issue /\ \E j \in DOMAIN ledger : ledger'[k] = ledger[j])
      BY <3>6 DEF IssueLedgerWith
    <3> HIDE DEF x
    <3>8. CASE ledger'[k] = e
      BY <2>1, <2>3, <3>2, <3>5, <3>8 DEF x
    <3>9. CASE \E j \in DOMAIN ledger : ledger'[k] = ledger[j]
      BY <1>1, <2>1, <3>9
    <3> QED
      BY <3>7, <3>8, <3>9
  <2> QED
    BY <2>1, <2>2, <2>3, ObserveIssueShape
<1>11. CASE Restart
  <2>1. issue' = issue
    BY <1>11 DEF Restart, github
  <2>2. LET e == ledger'[k] IN
          /\ issue[e.issue] # None /\ e.at = issue[e.issue].updated
          /\ e.open = issue[e.issue].open /\ e.labels = issue[e.issue].labels
    BY <1>11, WarmIssues
  <2>3. ledger'[k] \in IssueEntries
    BY <1>11, WarmIssues, ElementOfSeq
  <2>4. ledger'[k].at <= ledger'[k].at
    BY <1>5, <2>3
  <2> QED
    BY <2>1, <2>2, <2>4 DEF Fits
<1>12. ASSUME NEW i \in Issues, NEW x \in IssueStates, NEW S, IssueOpens(i, x, S),
              ledger' = ledger
       PROVE  issue'[ledger'[k].issue] # None /\ Fits(ledger'[k], issue'[ledger'[k].issue])
  <2>1. ledger[k] \in IssueEntries /\ issue[ledger[k].issue] # None
    BY <1>1, <1>4, <1>12
  <2>2. issue' = [issue EXCEPT ![i] = x] /\ issue[i] = None
    BY <1>12 DEF IssueOpens
  <2>3. ledger[k].issue # i
    BY <2>1, <2>2
  <2>4. issue'[ledger[k].issue] = issue[ledger[k].issue]
    BY <1>3, <1>5, <2>1, <2>2, <2>3
  <2> QED
    BY <1>1, <1>12, <2>4
<1> QED
  BY <1>7, <1>8, <1>9, <1>10, <1>11, <1>12, StepShape DEF router

\* Less heard, of more posted, is heard too.
LEMMA LessHeard ==
  ASSUME NEW e, NEW H, NEW G, G \subseteq H, NEW D, NEW E, D \subseteq E, HasHeard(e, H, D)
  PROVE  HasHeard(e, G, E)
<1>1. OfIssues(G) \subseteq OfIssues(H)
  BY DEF OfIssues
<1>2. StateChanges(G) \subseteq StateChanges(H) /\ LabelChanges(G) \subseteq LabelChanges(H)
  BY <1>1 DEF StateChanges, LabelChanges
<1>3. StateChanges(D) \subseteq StateChanges(E) /\ LabelChanges(D) \subseteq LabelChanges(E)
  BY DEF StateChanges, LabelChanges, OfIssues
<1>4. \A d : /\ Surpassed(d, StateChanges(D)) => Surpassed(d, StateChanges(E))
             /\ Surpassed(d, LabelChanges(D)) => Surpassed(d, LabelChanges(E))
  BY <1>3 DEF Surpassed
<1> QED
  BY <1>1, <1>2, <1>4 DEF HasHeard

\* An entry has heard a delivery about another issue, and one that is older.
LEMMA HeardOneMore ==
  ASSUME NEW e, NEW H, NEW D, HasHeard(e, H, D), NEW d, d \in IssuePosts =>
           \/ d.issue # e.issue
           \/ d.at <= e.at /\ d.at # e.at
  PROVE  HasHeard(e, H \cup {d}, D)
<1>1. \A c \in OfIssues(H \cup {d}) : c \in OfIssues(H) \/ c = d
  BY DEF OfIssues
<1>2. \A c \in StateChanges(H \cup {d}) : c \in StateChanges(H) \/ c = d
  BY DEF OfIssues, StateChanges
<1>3. \A c \in LabelChanges(H \cup {d}) : c \in LabelChanges(H) \/ c = d
  BY DEF OfIssues, LabelChanges
<1>4. StateChanges(H \cup {d}) \subseteq IssuePosts /\ LabelChanges(H \cup {d}) \subseteq IssuePosts
      /\ OfIssues(H \cup {d}) \subseteq IssuePosts
  BY DEF OfIssues, StateChanges, LabelChanges
<1> QED
  BY <1>1, <1>2, <1>3, <1>4 DEF HasHeard

\* A report that is taken has heard its delivery, and all that was heard before, but for what
\* its arrival undoes.
LEMMA ReportHeard ==
  ASSUME Typed, GithubInv, HeardIsHeld, EntryHeard,
         NEW d \in posted, d \in IssuePosts, NEW e \in IssueEntries,
         e.issue = d.issue, e.at = d.at,
         \/ (Tracked(d.issue) => Known(d.issue).at < d.at) /\ e = Report(d)
         \/ /\ Tracked(d.issue) /\ Known(d.issue).at = d.at
            /\ e = SettleTie(Known(d.issue), Report(d))
  PROVE  HasHeard(e, {h \in heard \cup {d} : ~Undoes(d, h)}, posted)
<1> DEFINE i == d.issue
           old == Known(i)
           H == {h \in heard \cup {d} : ~Undoes(d, h)}
<1>1. heard \subseteq posted /\ i \in Issues
  BY DEF Typed, IssuePosts
<1>2. \A c \in OfIssues(heard) : c.issue = i => Tracked(i)
  BY DEF HeardIsHeld
<1>3. Tracked(i) => old \in IssueEntries /\ old.issue = i /\ HasHeard(old, heard, posted)
  BY KnownShape DEF EntryHeard
<1>4. \A c \in OfIssues(heard) : c.at \in Nat
  BY ChangesAre
<1>5. d.at \in Nat /\ (Tracked(i) => old.at \in Nat)
  BY <1>3 DEF IssuePosts, IssueEntries
<1>6. Tracked(i) => old.at <= d.at
  BY <1>5
<1>7. \A c \in OfIssues(heard) : c.issue = i => c.at <= d.at
  BY <1>2, <1>3, <1>4, <1>5, <1>6 DEF HasHeard
<1>8. \A c \in OfIssues(H) : c \in OfIssues(heard) \/ c = d
  BY DEF OfIssues
<1>9. \A c \in OfIssues(H) : c.issue = e.issue => c.at <= e.at
  BY <1>5, <1>7, <1>8
<1>10. Report(d).open = d.open /\ Report(d).labels = d.labels
       /\ (Report(d).stateFirst <=> d \in StateChanges(posted))
       /\ (Report(d).labelsFirst <=> d \in LabelChanges(posted))
  BY DEF Report, StateChanges, LabelChanges, OfIssues
<1>11. ASSUME NEW c \in StateChanges(H), c.issue = e.issue, c.at = e.at
      PROVE  e.stateFirst /\ (e.open = c.open \/ Surpassed(c, StateChanges(posted)))
  <2>1. c \in StateChanges(posted) /\ ~Undoes(d, c) /\ (c # d => c \in StateChanges(heard))
    BY <1>1, <1>11 DEF StateChanges, OfIssues
  <2>2. d \in StateChanges(posted) => c.open = d.open \/ Surpassed(c, StateChanges(posted))
    <3> SUFFICES ASSUME d \in StateChanges(posted) PROVE c.open = d.open \/ Surpassed(c, StateChanges(posted))
      OBVIOUS
    <3>1. /\ c.type = "issues" /\ d.type = "issues" /\ c.issue = i /\ c.at = d.at
          /\ c.action \in StateActions /\ d.action \in StateActions
          /\ c \in OfIssues(posted) /\ d \in OfIssues(posted)
          /\ c.nth \in Nat /\ d.nth \in Nat
      BY <1>11, <2>1, ChangesAre DEF StateChanges
    <3>2. ~(d.nth < c.nth)
      BY <2>1, <3>1 DEF Undoes
    <3>3. CASE d.nth = c.nth
      <4>1. IssueShows(i, issue[i], now, posted)
        BY <1>1, <3>1 DEF GithubInv
      <4> QED
        BY <3>1, <3>3, <4>1 DEF IssueShows
    <3>4. CASE d.nth > c.nth
      BY <3>1, <3>4 DEF Surpassed
    <3> QED
      BY <3>1, <3>2, <3>3, <3>4
  <2>3. CASE e = Report(d)
    <3>1. d \in StateChanges(posted)
      <4>1. CASE c = d
        BY <2>1, <4>1
      <4>2. CASE c # d
        <5>1. c \in StateChanges(heard) /\ c \in OfIssues(heard)
          BY <2>1, <4>2 DEF StateChanges
        <5>2. Tracked(i) /\ c.at <= old.at
          BY <1>2, <1>3, <1>11, <5>1 DEF HasHeard
        <5>3. ~(old.at < d.at)
          BY <1>4, <1>5, <1>11, <5>1, <5>2
        <5>4. Tracked(i) /\ old.at = d.at /\ e = SettleTie(old, Report(d))
          BY <5>2, <5>3
        <5>5. HasHeard(old, heard, posted) /\ c.at = old.at /\ c.issue = old.issue
          BY <1>3, <1>11, <5>4
        <5>6. old.stateFirst
          BY <5>1, <5>5 DEF HasHeard
        <5>7. e.stateFirst
          BY <5>4, <5>6 DEF SettleTie, Report
        <5> QED
          BY <1>10, <2>3, <5>7
      <4> QED
        BY <4>1, <4>2
    <3> QED
      BY <1>10, <2>2, <2>3, <3>1
  <2>4. CASE Tracked(i) /\ old.at = d.at /\ e = SettleTie(old, Report(d))
    <3>1. /\ e.stateFirst = (old.stateFirst \/ Report(d).stateFirst)
          /\ e.open = IF old.stateFirst /\ ~Report(d).stateFirst THEN old.open ELSE d.open
      BY <1>10, <2>4 DEF SettleTie, Report
    <3>2. CASE d \in StateChanges(posted)
      BY <1>10, <2>2, <3>1, <3>2
    <3>3. CASE d \notin StateChanges(posted)
      <4>1. c \in StateChanges(heard)
        BY <2>1, <3>3
      <4>2. HasHeard(old, heard, posted) /\ c.at = old.at /\ c.issue = old.issue
        BY <1>3, <1>11, <2>4
      <4>3. old.stateFirst /\ (old.open = c.open \/ Surpassed(c, StateChanges(posted)))
        BY <4>1, <4>2 DEF HasHeard
      <4> QED
        BY <1>10, <3>1, <3>3, <4>3
    <3> QED
      BY <3>2, <3>3
  <2> QED
    BY <2>3, <2>4
<1>12. ASSUME NEW c \in LabelChanges(H), c.issue = e.issue, c.at = e.at
      PROVE  e.labelsFirst /\ (e.labels = c.labels \/ Surpassed(c, LabelChanges(posted)))
  <2>1. c \in LabelChanges(posted) /\ ~Undoes(d, c) /\ (c # d => c \in LabelChanges(heard))
    BY <1>1, <1>12 DEF LabelChanges, OfIssues
  <2>2. d \in LabelChanges(posted) => c.labels = d.labels \/ Surpassed(c, LabelChanges(posted))
    <3> SUFFICES ASSUME d \in LabelChanges(posted) PROVE c.labels = d.labels \/ Surpassed(c, LabelChanges(posted))
      OBVIOUS
    <3>1. /\ c.type = "issues" /\ d.type = "issues" /\ c.issue = i /\ c.at = d.at
          /\ c.action \in LabelActions /\ d.action \in LabelActions
          /\ c \in OfIssues(posted) /\ d \in OfIssues(posted)
          /\ c.nth \in Nat /\ d.nth \in Nat
      BY <1>12, <2>1, ChangesAre DEF LabelChanges
    <3>2. ~(d.nth < c.nth)
      BY <2>1, <3>1 DEF Undoes
    <3>3. CASE d.nth = c.nth
      <4>1. IssueShows(i, issue[i], now, posted)
        BY <1>1, <3>1 DEF GithubInv
      <4> QED
        BY <3>1, <3>3, <4>1 DEF IssueShows
    <3>4. CASE d.nth > c.nth
      BY <3>1, <3>4 DEF Surpassed
    <3> QED
      BY <3>1, <3>2, <3>3, <3>4
  <2>3. CASE e = Report(d)
    <3>1. d \in LabelChanges(posted)
      <4>1. CASE c = d
        BY <2>1, <4>1
      <4>2. CASE c # d
        <5>1. c \in LabelChanges(heard) /\ c \in OfIssues(heard)
          BY <2>1, <4>2 DEF LabelChanges
        <5>2. Tracked(i) /\ c.at <= old.at
          BY <1>2, <1>3, <1>12, <5>1 DEF HasHeard
        <5>3. ~(old.at < d.at)
          BY <1>4, <1>5, <1>12, <5>1, <5>2
        <5>4. Tracked(i) /\ old.at = d.at /\ e = SettleTie(old, Report(d))
          BY <5>2, <5>3
        <5>5. HasHeard(old, heard, posted) /\ c.at = old.at /\ c.issue = old.issue
          BY <1>3, <1>12, <5>4
        <5>6. old.labelsFirst
          BY <5>1, <5>5 DEF HasHeard
        <5>7. e.labelsFirst
          BY <5>4, <5>6 DEF SettleTie, Report
        <5> QED
          BY <1>10, <2>3, <5>7
      <4> QED
        BY <4>1, <4>2
    <3> QED
      BY <1>10, <2>2, <2>3, <3>1
  <2>4. CASE Tracked(i) /\ old.at = d.at /\ e = SettleTie(old, Report(d))
    <3>1. /\ e.labelsFirst = (old.labelsFirst \/ Report(d).labelsFirst)
          /\ e.labels = IF old.labelsFirst /\ ~Report(d).labelsFirst THEN old.labels ELSE d.labels
      BY <1>10, <2>4 DEF SettleTie, Report
    <3>2. CASE d \in LabelChanges(posted)
      BY <1>10, <2>2, <3>1, <3>2
    <3>3. CASE d \notin LabelChanges(posted)
      <4>1. c \in LabelChanges(heard)
        BY <2>1, <3>3
      <4>2. HasHeard(old, heard, posted) /\ c.at = old.at /\ c.issue = old.issue
        BY <1>3, <1>12, <2>4
      <4>3. old.labelsFirst /\ (old.labels = c.labels \/ Surpassed(c, LabelChanges(posted)))
        BY <4>1, <4>2 DEF HasHeard
      <4> QED
        BY <1>10, <3>1, <3>3, <4>3
    <3> QED
      BY <3>2, <3>3
  <2> QED
    BY <2>3, <2>4
<1> HIDE DEF H
<1>13. HasHeard(e, H, posted)
  BY <1>9, <1>11, <1>12 DEF HasHeard
<1> QED
  BY <1>13 DEF H

\* The entries of the ledger keep up with what is heard.
LEMMA EntryHeardNext ==
  ASSUME Typed, GithubInv, HeardIsHeld, EntryHeard, [Next]_vars
  PROVE  EntryHeard'
<1>1. \A k \in DOMAIN ledger : HasHeard(ledger[k], heard, posted)
  BY DEF EntryHeard
<1>2. SUFFICES ASSUME NEW k \in DOMAIN ledger' PROVE HasHeard(ledger'[k], heard', posted')
  BY DEF EntryHeard, HasHeard, OfIssues, StateChanges, LabelChanges, Surpassed
<1>3. ledger \in Seq(IssueEntries) /\ \A j \in DOMAIN ledger : ledger[j] \in IssueEntries
  BY ElementOfSeq DEF Typed
<1>4. CASE UNCHANGED <<ledger, heard>> /\ posted \subseteq posted'
  BY <1>1, <1>4, LessHeard
<1>5. ASSUME NEW d \in posted, Deliver(d)
      PROVE  HasHeard(ledger'[k], heard', posted')
  <2> DEFINE H == {h \in heard \cup {d} : ~Undoes(d, h)}
  <2>1. /\ \/ d \in IssuePosts /\ ObserveIssue(Report(d))
           \/ d \notin IssuePosts /\ ledger' = ledger
        /\ heard' \subseteq H /\ posted' = posted
    BY <1>5, DeliverShape, KindsApart DEF github
  <2>2. H \subseteq heard \cup {d}
    OBVIOUS
  <2> HIDE DEF H
  <2>3. HasHeard(ledger'[k], H, posted) \/ HasHeard(ledger'[k], heard \cup {d}, posted)
        => HasHeard(ledger'[k], heard', posted')
    BY <2>1, <2>2, LessHeard
  <2>4. CASE d \notin IssuePosts /\ ledger' = ledger
    BY <1>1, <2>3, <2>4, HeardOneMore
  <2>5. ASSUME d \in IssuePosts, ledger' = ledger,
               Tracked(d.issue) => d.at < Known(d.issue).at
        PROVE  HasHeard(ledger'[k], heard', posted')
    <3>1. CASE ledger[k].issue = d.issue
      <4>1. Tracked(d.issue) /\ Known(d.issue) = ledger[k]
        BY <2>5, <3>1, KnownShape
      <4>2. d.at < ledger[k].at /\ d.at \in Nat /\ ledger[k].at \in Nat
        BY <1>3, <2>5, <4>1 DEF IssuePosts, IssueEntries
      <4>3. d.at <= ledger[k].at /\ d.at # ledger[k].at
        BY <4>2
      <4> QED
        BY <1>1, <2>3, <2>5, <4>3, HeardOneMore
    <3>2. CASE ledger[k].issue # d.issue
      BY <1>1, <2>3, <2>5, <3>2, HeardOneMore
    <3> QED
      BY <3>1, <3>2
  <2>6. ASSUME d \in IssuePosts, NEW e \in IssueEntries, e.issue = d.issue, e.at = d.at,
               ledger' = Evict(Append(Without(ledger, Entry(d.issue)), e)),
               \/ (Tracked(d.issue) => Known(d.issue).at < d.at) /\ e = Report(d)
               \/ /\ Tracked(d.issue) /\ Known(d.issue).at = d.at
                  /\ e = SettleTie(Known(d.issue), Report(d))
        PROVE  HasHeard(ledger'[k], heard', posted')
    <3>1. HasHeard(e, H, posted)
      BY <2>6, ReportHeard DEF H
    <3>2. IssueLedgerWith(ledger', e)
      BY <2>6, PutIssue
    <3>3. ledger'[k] = e
          \/ (ledger'[k].issue # e.issue /\ \E j \in DOMAIN ledger : ledger'[k] = ledger[j])
      BY <3>2 DEF IssueLedgerWith
    <3>4. CASE ledger'[k].issue # e.issue /\ \E j \in DOMAIN ledger : ledger'[k] = ledger[j]
      BY <1>1, <2>3, <2>6, <3>4, HeardOneMore
    <3> QED
      BY <2>3, <3>1, <3>3, <3>4
  <2> QED
    BY <2>1, <2>4, <2>5, <2>6, ObserveIssueShape
<1>6. CASE Restart
  <2> DEFINE e == ledger'[k]
             x == issue[e.issue]
  <2>1. e \in IssueEntries /\ x # None /\ e.at = x.updated
    BY <1>6, WarmIssues, ElementOfSeq
  <2>2. heard' \subseteq posted /\ \A d \in heard' :
          d.type = "issues" => d.at < issue[d.issue].updated
    BY <1>6 DEF Restart
  <2>3. e.issue \in Issues /\ e.at \in Nat
    BY <2>1 DEF IssueEntries
  <2>4. IssueShows(e.issue, x, now, posted)
    BY <2>1, <2>3 DEF GithubInv
  <2> HIDE DEF x, e
  <2>5. \A d \in OfIssues(heard') : d.issue = e.issue => d.at <= e.at
    BY <2>1, <2>2, <2>4 DEF IssueShows, OfIssues
  <2>6. \A d \in OfIssues(heard') : d.issue = e.issue /\ d.type = "issues" => d.at # e.at
    <3> SUFFICES ASSUME NEW d \in OfIssues(heard'), d.issue = e.issue, d.type = "issues"
                 PROVE  d.at # e.at
      OBVIOUS
    <3>1. d.at < e.at /\ d.at \in Nat
      BY <2>1, <2>2 DEF OfIssues, IssuePosts, x
    <3> QED
      BY <2>3, <3>1
  <2>7. HasHeard(e, heard', posted')
    BY <2>5, <2>6 DEF HasHeard, StateChanges, LabelChanges
  <2> QED
    BY <2>7 DEF e
<1>7. ASSUME NEW D, posted' = posted \cup D, UNCHANGED router
      PROVE  HasHeard(ledger'[k], heard', posted')
  BY <1>4, <1>7 DEF router
<1> QED
  BY <1>4, <1>5, <1>6, <1>7, StepShape DEF IssueOpens, IssueBecomes, IssueIsShown

\* What holds of the issues always holds.
LEMMA IssueHolds == Spec => [](Typed /\ IssueInv /\ PullInv)
<1>1. Init => Typed /\ IssueInv
  BY TypedInit, IssueInit
<1>2. Typed /\ IssueInv /\ [Next]_vars => (Typed /\ IssueInv)'
  <2> SUFFICES ASSUME Typed, IssueInv, [Next]_vars PROVE Typed' /\ IssueInv'
    OBVIOUS
  <2>1. Typed'
    BY TypedNext
  <2>2. HeardIsHeld' /\ GithubInv'
    BY HeldNext, GithubNext DEF IssueInv
  <2>3. EntryShowsIssue'
    BY EntryFitsNext DEF IssueInv
  <2>4. EntryHeard'
    BY EntryHeardNext DEF IssueInv
  <2> QED
    BY <2>1, <2>2, <2>3, <2>4 DEF IssueInv
<1> QED
  BY <1>1, <1>2, PullHolds, PTL DEF Spec

\* An entry that heard every change since its second, the later ones of one second last, is
\* the truth: it has heard the last change of the state if that is not older, and shows what
\* that left if it is; and so with the labels.
LEMMA EntryTruth ==
  ASSUME Typed, IssueInv
  PROVE  EntryIsCurrent
<1> SUFFICES ASSUME NEW i \in Issues, Tracked(i)
             PROVE  /\ UpToDateWith(i, StateActions) => Known(i).open = issue[i].open
                    /\ UpToDateWith(i, LabelActions) => Known(i).labels = issue[i].labels
  BY DEF EntryIsCurrent, UpToDateWith
<1> DEFINE e == Known(i)
           x == issue[i]
<1>1. e \in IssueEntries /\ e.issue = i /\ \E k \in DOMAIN ledger : ledger[k] = e
  BY KnownShape
<1>2. x # None /\ (e.at > x.stateAt => e.open = x.open)
      /\ (e.at > x.labelsAt => e.labels = x.labels)
  BY <1>1 DEF IssueInv, EntryShowsIssue
<1>3. IssueShows(i, x, now, posted)
  BY <1>2 DEF IssueInv, GithubInv
<1>4. HasHeard(e, heard, posted)
  BY <1>1 DEF IssueInv, EntryHeard
<1>5. x.stateAt \in Nat /\ x.labelsAt \in Nat /\ e.at \in Nat
  BY <1>1, <1>2 DEF Typed, IssueStates, IssueEntries
<1> HIDE DEF e, x
<1>6. ASSUME UpToDateWith(i, StateActions)
      PROVE  e.open = x.open
  <2>1. CASE e.at > x.stateAt
    BY <1>2, <2>1
  <2>2. CASE ~(e.at > x.stateAt)
    <3>1. PICK d : IsLast(d, StateChanges(posted), i) /\ d.at = x.stateAt /\ d.open = x.open
      BY <1>3 DEF IssueShows
    <3>2. d \in OfIssues(posted) /\ d.type = "issues" /\ d.action \in StateActions
          /\ d \in StateChanges(posted) /\ d.issue = i /\ d.nth \in Nat
      BY <3>1, ChangesAre DEF IsLast, StateChanges
    <3>3. d.at >= e.at
      BY <1>5, <2>2, <3>1
    <3>4. d \in heard
      BY <1>6, <3>2, <3>3 DEF UpToDateWith, OfIssues, e
    <3>5. d \in OfIssues(heard) /\ d \in StateChanges(heard)
      BY <3>2, <3>4 DEF OfIssues, StateChanges
    <3>6. d.at = e.at
      BY <1>1, <1>4, <1>5, <2>2, <3>1, <3>2, <3>5 DEF HasHeard
    <3>7. e.open = d.open \/ Surpassed(d, StateChanges(posted))
      BY <1>1, <1>4, <3>2, <3>5, <3>6 DEF HasHeard
    <3>8. ~Surpassed(d, StateChanges(posted))
      <4> SUFFICES ASSUME NEW c \in StateChanges(posted), c.issue = i, c.nth > d.nth PROVE FALSE
        BY <3>2 DEF Surpassed
      <4>1. c.nth <= d.nth /\ c.nth \in Nat
        BY <3>1, ChangesAre DEF IsLast
      <4> QED
        BY <3>2, <4>1
    <3> QED
      BY <3>1, <3>7, <3>8
  <2> QED
    BY <2>1, <2>2
<1>7. ASSUME UpToDateWith(i, LabelActions)
      PROVE  e.labels = x.labels
  <2>1. CASE e.at > x.labelsAt
    BY <1>2, <2>1
  <2>2. CASE ~(e.at > x.labelsAt)
    <3>1. PICK d : IsLast(d, LabelChanges(posted), i) /\ d.at = x.labelsAt /\ d.labels = x.labels
      BY <1>3 DEF IssueShows
    <3>2. d \in OfIssues(posted) /\ d.type = "issues" /\ d.action \in LabelActions
          /\ d \in LabelChanges(posted) /\ d.issue = i /\ d.nth \in Nat
      BY <3>1, ChangesAre DEF IsLast, LabelChanges
    <3>3. d.at >= e.at
      BY <1>5, <2>2, <3>1
    <3>4. d \in heard
      BY <1>7, <3>2, <3>3 DEF UpToDateWith, OfIssues, e
    <3>5. d \in OfIssues(heard) /\ d \in LabelChanges(heard)
      BY <3>2, <3>4 DEF OfIssues, LabelChanges
    <3>6. d.at = e.at
      BY <1>1, <1>4, <1>5, <2>2, <3>1, <3>2, <3>5 DEF HasHeard
    <3>7. e.labels = d.labels \/ Surpassed(d, LabelChanges(posted))
      BY <1>1, <1>4, <3>2, <3>5, <3>6 DEF HasHeard
    <3>8. ~Surpassed(d, LabelChanges(posted))
      <4> SUFFICES ASSUME NEW c \in LabelChanges(posted), c.issue = i, c.nth > d.nth PROVE FALSE
        BY <3>2 DEF Surpassed
      <4>1. c.nth <= d.nth /\ c.nth \in Nat
        BY <3>1, ChangesAre DEF IsLast
      <4> QED
        BY <3>2, <4>1
    <3> QED
      BY <3>1, <3>7, <3>8
  <2> QED
    BY <2>1, <2>2
<1> QED
  BY <1>6, <1>7 DEF e, x

\* The ledger is right about the state, or the labels, of every issue whose changes since the
\* entry's second it heard, however many there were in a second: out of order but for the
\* changes of one second, repeated, after an eviction or a restart, with comments of the same
\* second in between (IssueLedger.observe, _settle_tie).
THEOREM EntriesAreCurrent == Spec => []EntryIsCurrent
<1>1. Typed /\ IssueInv => EntryIsCurrent
  BY EntryTruth
<1> QED
  BY <1>1, IssueHolds, PTL

\* A wake launched on an issue the ledger is up to date with is wanted then (recheck,
\* reason_to_drop).
THEOREM WakesAreWanted == Spec => WokenIsWanted
<1> DEFINE Wakened(i) ==
             (\E w \in waiting \ waiting' :
                w.issue = i /\ outcome' = [wake |-> w, how |-> "woken"])
             => (UpToDate(i) => Wanted(i))
<1>1. Typed /\ IssueInv /\ [Next]_vars => [\A i \in Issues : Wakened(i)]_vars
  <2> SUFFICES ASSUME Typed, IssueInv, Next, NEW i \in Issues,
                      NEW w \in waiting, w \notin waiting', w.issue = i,
                      outcome' = [wake |-> w, how |-> "woken"], UpToDate(i)
               PROVE  Wanted(i)
    OBVIOUS
  <2>1. waiting \subseteq Wakes
    BY DEF Typed
  <2>2. Known(i).open = issue[i].open /\ Known(i).labels = issue[i].labels /\ Tracked(i)
    BY EntryTruth DEF EntryIsCurrent, UpToDate, UpToDateWith
  <2>3. [wake |-> w, how |-> "woken"] \in Outcomes
    BY <2>1 DEF Outcomes
  <2>4. outcome' # None
    BY <2>3, NoneApart
  <2>5. \A d \in posted : ~Deliver(d)
    BY DeliverShape
  <2>6. ~Restart
    BY <2>4 DEF Restart
  <2>7. waiting' # waiting
    OBVIOUS
  <2>8. PICK v \in waiting : Dispatch(v)
    <3>1. Tick => waiting' = waiting
      BY DEF Tick, router
    <3>2. ASSUME NEW s \in Senders, NEW j \in Issues, ChangeIssue(j, s) \/ Comment(j, s)
          PROVE  waiting' = waiting
      <4>1. s \in People
        BY SetupTypes
      <4> QED
        BY <3>2, <4>1, ChangeIssueShape, CommentShape DEF router
    <3>3. ASSUME NEW s \in Senders, NEW p, ChangePull(p, s)
          PROVE  waiting' = waiting
      BY <3>3 DEF ChangePull, router
    <3>4. ASSUME NEW s \in Senders, NEW ps, CiFails(ps, s)
          PROVE  waiting' = waiting
      BY <3>4 DEF CiFails, router
    <3> QED
      BY <2>5, <2>6, <2>7, <3>1, <3>2, <3>3, <3>4 DEF Next
  <2>9. outcome' = [wake |-> v, how |-> IF ReasonToDrop(v.issue) = "none" THEN "woken"
                                        ELSE "dropped"]
        /\ waiting' = waiting \ {v}
    BY <2>8 DEF Dispatch
  <2>10. v = w /\ ReasonToDrop(i) = "none"
    BY <2>9
  <2>11. Known(i).open /\ "DoNotWork" \notin Known(i).labels /\ "handoff" \in Known(i).labels
    BY <2>2, <2>10 DEF ReasonToDrop
  <2>12. issue[i] # None
    <3>1. \E k \in DOMAIN ledger : ledger[k].issue = i
      BY <2>2, KnownShape
    <3> QED
      BY <3>1 DEF IssueInv, EntryShowsIssue
  <2> QED
    BY <2>2, <2>11, <2>12 DEF Wanted
<1> QED
  BY <1>1, IssueHolds, PTL DEF Spec, WokenIsWanted

\* The only open handoff that a pull request may be about is the one it is about.
LEMMA TargetIsAbout ==
  ASSUME Typed, IssueInv, NEW p, NEW i \in Targets(p)
  PROVE  IsAbout(p, i)
<1> DEFINE chosen == IF Named[p] # {} THEN OpenHandoffs \cap Named[p] ELSE OpenHandoffs
<1>1. Cardinality(chosen) = 1 /\ i \in chosen
  BY DEF Targets
<1>2. IsFiniteSet(chosen)
  <2>1. chosen \subseteq Issues
    BY TargetsHere
  <2> QED
    BY <2>1, GithubAssumption, FS_Subset
<1>3. Named[p] # {} => i \in Named[p]
  BY <1>1
<1> HIDE DEF chosen
<1>4. chosen = {i}
  <2>1. \E c : chosen = {c}
    BY <1>1, <1>2, FS_Singleton
  <2> QED
    BY <1>1, <2>1
<1>5. ASSUME NEW j \in Here \ {i}, UpToDate(j), issue[j].open, "handoff" \in issue[j].labels
      PROVE  Named[p] # {} /\ j \notin Named[p]
  <2>1. j \in Here /\ j \in Issues
    BY <1>5, SetupTypes
  <2>2. Tracked(j) /\ Known(j).open = issue[j].open /\ Known(j).labels = issue[j].labels
    BY <1>5, <2>1, EntryTruth DEF EntryIsCurrent, UpToDate, UpToDateWith
  <2>3. j \in OpenHandoffs
    BY <1>5, <2>1, <2>2 DEF OpenHandoffs
  <2>4. j \notin chosen
    BY <1>4, <1>5
  <2> QED
    BY <2>3, <2>4 DEF chosen
<1> QED
  BY <1>3, <1>5 DEF IsAbout

\* A pull request's wake is never a guess: it is on the issue it is about; and a failed run's
\* is on known pull requests, one of them the captain's, open as far as was heard, and about
\* the issue woken (_merge_target, _normalize_workflow_run).
THEOREM WakesAreNoGuess == Spec => NeverAGuess
<1> DEFINE Sure(w, d) ==
             /\ d.type = "pull_request" /\ Deliver(d) => IsAbout(d.pull, w.issue)
             /\ d.type = "workflow_run" /\ Deliver(d) =>
                  /\ \A p \in d.pulls : PullEntry(p) # {}
                  /\ \E p \in d.pulls \cap Own :
                       (PullUpToDate(p) => pull[p].open) /\ IsAbout(p, w.issue)
<1>1. ASSUME Typed, IssueInv, PullInv, NEW w \in waiting' \ waiting, NEW d \in posted
      PROVE  Sure(w, d)
  <2>1. ASSUME d.type = "pull_request", Deliver(d)
        PROVE  IsAbout(d.pull, w.issue)
    <3>1. d \in Posts
      BY <1>1 DEF Typed
    <3>2. PullDelivery(d)
      BY <2>1 DEF Deliver, IssueDelivery, RunDelivery
    <3>3. WakeOnOwnPull(d.pull, d)
      BY <3>2 DEF PullDelivery
    <3>4. w.issue \in Targets(d.pull)
      BY <1>1, <3>1, <3>3, WakeShape
    <3> QED
      BY <1>1, <3>4, TargetIsAbout
  <2>2. ASSUME d.type = "workflow_run", Deliver(d)
        PROVE  /\ \A p \in d.pulls : PullEntry(p) # {}
               /\ \E p \in d.pulls \cap Own :
                    (PullUpToDate(p) => pull[p].open) /\ IsAbout(p, w.issue)
    <3>1. d \in Posts /\ d \in RunPosts
      BY <1>1, <2>2, Kinds DEF Typed
    <3>2. RunDelivery(d)
      BY <2>2 DEF Deliver, IssueDelivery, PullDelivery
    <3>3. PICK p \in RunPulls(d.pulls) : WakeOnOwnPull(p, d)
      BY <3>2 DEF RunDelivery
    <3>4. /\ p \in d.pulls \cap Own /\ \A q \in d.pulls : PullEntry(q) # {}
          /\ PullKnown(p).open
      BY <3>3 DEF RunPulls
    <3>5. p \in Pulls /\ PullEntry(p) # {}
      BY <3>1, <3>4 DEF RunPosts
    <3>6. PullUpToDate(p) => pull[p].open
      BY <1>1, <3>4, <3>5, PullTruth DEF PullHeldOpenIsOpen
    <3>7. w.issue \in Targets(p)
      BY <1>1, <3>1, <3>3, WakeShape
    <3>8. IsAbout(p, w.issue)
      BY <1>1, <3>7, TargetIsAbout
    <3> QED
      BY <3>4, <3>6, <3>8
  <2> QED
    BY <2>1, <2>2
<1>2. Typed /\ IssueInv /\ PullInv /\ [Next]_vars =>
        [\A w \in waiting' \ waiting : \A d \in posted : Sure(w, d)]_vars
  BY <1>1
<1> QED
  BY <1>2, IssueHolds, PTL DEF Spec, NeverAGuess

=============================================================================
