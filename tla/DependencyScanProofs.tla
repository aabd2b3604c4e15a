------------------------ MODULE DependencyScanProofs ------------------------
(***************************************************************************)
(* Proofs about DependencyScan, for every finite set of groups a report    *)
(* may hold, whatever order they are printed in, and any number of scans   *)
(* that fail, runs that die and changes by people.                         *)
(***************************************************************************)
EXTENDS DependencyScan, FiniteSetTheorems, SequenceTheorems, WellFoundedInduction, TLAPS

-----------------------------------------------------------------------------
(* Induction.                                                              *)

\* A set of numbers has a smallest one.
LEMMA Smallest ==
  ASSUME NEW T \in SUBSET Nat, T # {}
  PROVE  \E x \in T : \A y \in T : x <= y
<1> DEFINE R == OpToRel(<, Nat)
<1>1. \A x, y \in Nat : <<x, y>> \in R <=> x < y
  BY DEF OpToRel
<1>2. IsWellFoundedOn(R, Nat)
  BY NatLessThanWellFounded
<1> HIDE DEF R
<1>3. PICK x \in T : \A y \in T : ~(<<y, x>> \in R)
  BY <1>2, WFMin
<1>4. \A y \in T : ~(y < x)
  BY <1>1, <1>3
<1>5. \A y \in T : x <= y
  BY <1>4
<1> QED
  BY <1>5

\* What holds of the start, and of the next if it holds of one, holds up to n.
LEMMA UpTo ==
  ASSUME NEW n \in Nat, NEW T, 0 \in T, \A k \in 0..(n - 1) : k \in T => k + 1 \in T
  PROVE  0..n \subseteq T
<1> DEFINE U == (0..n) \ T
<1> SUFFICES ASSUME U # {} PROVE FALSE
  OBVIOUS
<1>1. PICK x \in U : \A y \in U : x <= y
  <2>1. U \in SUBSET Nat
    OBVIOUS
  <2> HIDE DEF U
  <2> QED
    BY <2>1, Smallest
<1>2. x \in 1..n /\ x - 1 \in 0..(n - 1) /\ (x - 1) + 1 = x
  BY <1>1
<1>3. x - 1 \in T
  BY <1>1, <1>2
<1> QED
  BY <1>1, <1>2, <1>3

-----------------------------------------------------------------------------
(* Names and ratings.                                                      *)

\* The preferred identifier is the first of them.
LEMMA PrimaryIs ==
  ASSUME NEW ids \in SUBSET Nat, ids # {}
  PROVE  /\ PrimaryId(ids) \in ids /\ \A j \in ids : PrimaryId(ids) <= j
         /\ \A i \in ids : (\A j \in ids : i <= j) => PrimaryId(ids) = i
<1>1. \E i \in ids : \A j \in ids : i <= j
  BY Smallest
<1>2. PrimaryId(ids) \in ids /\ \A j \in ids : PrimaryId(ids) <= j
  BY <1>1 DEF PrimaryId
<1>3. ASSUME NEW i \in ids, \A j \in ids : i <= j
      PROVE  PrimaryId(ids) = i
  <2>1. PrimaryId(ids) \in Nat /\ i \in Nat /\ PrimaryId(ids) <= i /\ i <= PrimaryId(ids)
    BY <1>2, <1>3
  <2> QED
    BY <2>1
<1> QED
  BY <1>2, <1>3

\* The ratings are ranked, from critical on.
LEMMA Ranks ==
  /\ RankOf \in [Ratings -> Nat]
  /\ \A r, s \in Ratings : RankOf[r] = RankOf[s] => r = s
  /\ "unknown" \in Ratings
  /\ \A s \in Ratings : Pages(s) <=> RankOf[s] <= 2
<1>1. DOMAIN SEVERITY_ORDER = 1..7
  BY DEF SEVERITY_ORDER
<1>2. \A i, j \in 1..7 : SEVERITY_ORDER[i] = SEVERITY_ORDER[j] => i = j
  BY DEF SEVERITY_ORDER
<1>3. \A i \in 1..7 : SEVERITY_ORDER[i] \in {"critical", "high"} <=> i <= 2
  BY DEF SEVERITY_ORDER
<1>4. \A s \in Ratings : \E i \in 1..7 : SEVERITY_ORDER[i] = s
  BY <1>1 DEF Ratings
<1>5. \A i \in 1..7 : SEVERITY_ORDER[i] \in Ratings
  BY <1>1 DEF Ratings
<1>6. \A i \in 1..7 : RankOf[SEVERITY_ORDER[i]] = i
  BY <1>1, <1>2, <1>5 DEF RankOf
<1>7. SEVERITY_ORDER[7] = "unknown"
  BY DEF SEVERITY_ORDER
<1>8. RankOf \in [Ratings -> Nat]
  <2>1. DOMAIN RankOf = Ratings
    BY DEF RankOf
  <2>2. RankOf = [s \in Ratings |-> RankOf[s]]
    BY DEF RankOf
  <2>3. \A s \in Ratings : RankOf[s] \in Nat
    BY <1>4, <1>6
  <2> QED
    BY <2>2, <2>3
<1> QED
  BY <1>3, <1>4, <1>5, <1>6, <1>7, <1>8 DEF Pages

\* The worst of some ratings is one of them, and no other is as bad.
LEMMA WorstIs ==
  ASSUME NEW S \in SUBSET Ratings, S # {}
  PROVE  /\ Worst(S) \in S /\ \A t \in S : RankOf[Worst(S)] <= RankOf[t]
         /\ \A s \in S : (\A t \in S : RankOf[s] <= RankOf[t]) => Worst(S) = s
<1> DEFINE T == {RankOf[s] : s \in S}
<1>1. T \in SUBSET Nat /\ T # {}
  BY Ranks
<1>2. PICK x \in T : \A y \in T : x <= y
  BY <1>1, Smallest
<1>3. \E s \in S : \A t \in S : RankOf[s] <= RankOf[t]
  BY <1>2
<1>4. Worst(S) \in S /\ \A t \in S : RankOf[Worst(S)] <= RankOf[t]
  BY <1>3 DEF Worst
<1>5. ASSUME NEW s \in S, \A t \in S : RankOf[s] <= RankOf[t]
      PROVE  Worst(S) = s
  <2>1. RankOf[s] <= RankOf[Worst(S)] /\ RankOf[Worst(S)] <= RankOf[s]
    BY <1>4, <1>5
  <2> QED
    BY <1>4, <2>1, Ranks
<1> QED
  BY <1>4, <1>5

-----------------------------------------------------------------------------
(* The problems that some groups tell of.                                  *)

\* No group of S shares a name with another of G.
Closed(S, G) == \A g \in S, h \in G \ S : g.names \cap h.names = {}

\* A problem is some of the groups, closed, and none of its parts is.
LEMMA ProblemShape ==
  ASSUME NEW G, NEW S
  PROVE  S \in ProblemsIn(G) <=>
           /\ S \in SUBSET G /\ S # {} /\ Closed(S, G)
           /\ \A T \in SUBSET G : T # {} /\ Closed(T, G) /\ T \subseteq S => T = S
  BY DEF ProblemsIn, Closed

\* What two closed sets share is closed, and what one has beyond the other.
LEMMA ClosedParts ==
  ASSUME NEW G, NEW S \in SUBSET G, NEW T \in SUBSET G, Closed(S, G), Closed(T, G)
  PROVE  Closed(S \cap T, G) /\ Closed(S \ T, G)
  BY DEF Closed

\* Every group is of a problem.
LEMMA ProblemOf ==
  ASSUME NEW G, NEW g \in G
  PROVE  \E S \in ProblemsIn(G) : g \in S
<1> DEFINE C == {S \in SUBSET G : g \in S /\ Closed(S, G)}
           I == {x \in G : \A S \in C : x \in S}
<1>1. g \in I
  OBVIOUS
<1>2. Closed(I, G)
  BY DEF Closed
<1>3. ASSUME NEW T \in SUBSET G, T # {}, Closed(T, G), T \subseteq I
      PROVE  T = I
  <2>1. CASE g \in T
    BY <1>3, <2>1
  <2>2. CASE g \notin T
    <3>1. Closed(I \ T, G)
      BY <1>2, <1>3, ClosedParts
    <3>2. I \ T \in C
      BY <1>1, <2>2, <3>1
    <3> QED
      BY <1>3, <3>2
  <2> QED
    BY <2>1, <2>2
<1>4. I \in SUBSET G /\ I # {}
  BY <1>1
<1> HIDE DEF I
<1>5. I \in ProblemsIn(G)
  BY <1>2, <1>3, <1>4, ProblemShape
<1> QED
  BY <1>1, <1>5

\* Two problems share neither a group nor a name.
LEMMA ProblemsApart ==
  ASSUME NEW G, NEW S \in ProblemsIn(G), NEW T \in ProblemsIn(G), S # T
  PROVE  S \cap T = {} /\ \A g \in S, h \in T : g.names \cap h.names = {}
<1>1. /\ S \in SUBSET G /\ S # {} /\ Closed(S, G)
      /\ \A R \in SUBSET G : R # {} /\ Closed(R, G) /\ R \subseteq S => R = S
  BY ProblemShape
<1>2. /\ T \in SUBSET G /\ T # {} /\ Closed(T, G)
      /\ \A R \in SUBSET G : R # {} /\ Closed(R, G) /\ R \subseteq T => R = T
  BY ProblemShape
<1>3. Closed(S \cap T, G)
  BY <1>1, <1>2, ClosedParts
<1>4. S \cap T = {}
  <2>1. S \cap T \in SUBSET G /\ S \cap T \subseteq S /\ S \cap T \subseteq T
    BY <1>1
  <2>2. S \cap T # {} => S \cap T = S /\ S \cap T = T
    BY <1>1, <1>2, <1>3, <2>1
  <2> QED
    BY <2>2
<1> QED
  BY <1>1, <1>2, <1>4 DEF Closed

\* The problems of G that group g shares a name with.
TwinsOf(G, g) == {S \in ProblemsIn(G) : \E h \in S : g.names \cap h.names # {}}

\* One more group: it joins the problems it shares a name with into one.
LEMMA OneMoreGroup ==
  ASSUME NEW G, NEW g, g \notin G
  PROVE  ProblemsIn(G \cup {g}) =
           (ProblemsIn(G) \ TwinsOf(G, g)) \cup {(UNION TwinsOf(G, g)) \cup {g}}
<1> DEFINE H == G \cup {g}
           U == (UNION TwinsOf(G, g)) \cup {g}
<1>1. \A S \in ProblemsIn(G) :
        /\ S \in SUBSET G /\ S # {} /\ Closed(S, G)
        /\ \A T \in SUBSET G : T # {} /\ Closed(T, G) /\ T \subseteq S => T = S
  BY ProblemShape
<1>2. TwinsOf(G, g) \subseteq ProblemsIn(G)
      /\ \A S \in ProblemsIn(G) :
           S \in TwinsOf(G, g) <=> \E h \in S : g.names \cap h.names # {}
  BY DEF TwinsOf
<1>3. U \in SUBSET H /\ g \in U /\ \A x \in U : x # g => \E S \in TwinsOf(G, g) : x \in S
  BY <1>1, <1>2
<1>4. \A S \in TwinsOf(G, g) : S \subseteq U
  OBVIOUS
<1> HIDE DEF U
<1>5. ASSUME NEW S \in ProblemsIn(G) \ TwinsOf(G, g)
      PROVE  S \in ProblemsIn(H)
  <2>1. S \in SUBSET H /\ S # {} /\ Closed(S, H)
    BY <1>1, <1>2 DEF Closed
  <2>2. ASSUME NEW T \in SUBSET H, T # {}, Closed(T, H), T \subseteq S
        PROVE  T = S
    <3>1. T \in SUBSET G /\ Closed(T, G)
      BY <1>1, <2>2 DEF Closed
    <3> QED
      BY <1>1, <2>2, <3>1
  <2> HIDE DEF H
  <2> QED
    BY <2>1, <2>2, ProblemShape
<1>6. U \in ProblemsIn(H)
  <2>1. Closed(U, H)
    <3> SUFFICES ASSUME NEW x \in U, NEW h \in H \ U PROVE x.names \cap h.names = {}
      BY DEF Closed
    <3>1. h \in G
      BY <1>3
    <3>2. PICK R \in ProblemsIn(G) : h \in R
      BY <3>1, ProblemOf
    <3>3. R \notin TwinsOf(G, g)
      BY <1>4, <3>2
    <3>4. CASE x = g
      BY <1>2, <3>2, <3>3, <3>4
    <3>5. CASE x # g
      <4>1. PICK S \in TwinsOf(G, g) : x \in S
        BY <1>3, <3>5
      <4>2. S \in ProblemsIn(G) /\ S # R
        BY <1>2, <3>3, <4>1
      <4> QED
        BY <3>2, <4>1, <4>2, ProblemsApart
    <3> QED
      BY <3>4, <3>5
  <2>2. ASSUME NEW V \in SUBSET H, V # {}, Closed(V, H), V \subseteq U
        PROVE  V = U
    <3>1. Closed(V \cap G, G)
      BY <2>2 DEF Closed
    <3>2. ASSUME NEW S \in ProblemsIn(G), V \cap S # {}
          PROVE  S \subseteq V
      <4>1. V \cap G \in SUBSET G /\ S \in SUBSET G /\ (V \cap G) \cap S = V \cap S
        BY <1>1
      <4>2. Closed(V \cap S, G)
        BY <1>1, <3>1, <4>1, ClosedParts
      <4>3. V \cap S = S
        BY <1>1, <3>2, <4>2
      <4> QED
        BY <4>3
    <3>3. g \in V
      <4> SUFFICES ASSUME g \notin V PROVE FALSE
        OBVIOUS
      <4>1. PICK x \in V : x \in U /\ x # g
        BY <2>2
      <4>2. PICK S \in TwinsOf(G, g) : x \in S
        BY <1>3, <4>1
      <4>3. S \in ProblemsIn(G) /\ S \subseteq V
        BY <1>2, <3>2, <4>1, <4>2
      <4>4. PICK h \in S : g.names \cap h.names # {}
        BY <1>2, <4>2
      <4>5. h \in V /\ g \in H \ V
        BY <4>3, <4>4
      <4>6. h.names \cap g.names = {}
        BY <2>2, <4>5 DEF Closed
      <4> QED
        BY <4>4, <4>6
    <3>4. ASSUME NEW S \in TwinsOf(G, g)
          PROVE  S \subseteq V
      <4>1. PICK h \in S : g.names \cap h.names # {}
        BY <1>2
      <4>2. h \in H
        BY <1>1, <1>2
      <4>3. h \in V
        BY <2>2, <3>3, <4>1, <4>2 DEF Closed
      <4> QED
        BY <1>2, <3>2, <4>3
    <3> QED
      BY <1>3, <2>2, <3>3, <3>4
  <2>3. U # {}
    BY <1>3
  <2> HIDE DEF H
  <2> QED
    BY <1>3, <2>1, <2>2, <2>3, ProblemShape
<1>7. ASSUME NEW C \in ProblemsIn(H)
      PROVE  C = U \/ C \in ProblemsIn(G) \ TwinsOf(G, g)
  <2>1. C \in SUBSET H /\ C # {}
    BY ProblemShape
  <2>2. PICK x \in C : TRUE
    BY <2>1
  <2>3. x \in U \/ \E S \in ProblemsIn(G) \ TwinsOf(G, g) : x \in S
    <3>1. CASE x = g
      BY <1>3, <3>1
    <3>2. CASE x # g
      <4>1. x \in G
        BY <2>1, <2>2, <3>2
      <4>2. PICK S \in ProblemsIn(G) : x \in S
        BY <4>1, ProblemOf
      <4> QED
        BY <1>4, <4>2
    <3> QED
      BY <3>1, <3>2
  <2> HIDE DEF H
  <2> QED
    BY <1>5, <1>6, <2>2, <2>3, ProblemsApart
<1> QED
  BY <1>5, <1>6, <1>7 DEF U

-----------------------------------------------------------------------------
(* What a report is parsed into.                                           *)

\* The first of the firsts of some sets of numbers is the first of all.
LEMMA FirstOfFirsts ==
  ASSUME NEW F \in SUBSET (SUBSET Nat), F # {}, \A X \in F : X # {}
  PROVE  PrimaryId({PrimaryId(X) : X \in F}) = PrimaryId(UNION F)
<1> DEFINE P == {PrimaryId(X) : X \in F}
           i == PrimaryId(UNION F)
<1>1. \A X \in F : PrimaryId(X) \in X /\ \A j \in X : PrimaryId(X) <= j
  BY PrimaryIs
<1>2. UNION F \in SUBSET Nat /\ UNION F # {}
  OBVIOUS
<1>3. i \in UNION F /\ \A j \in UNION F : i <= j
  BY <1>2, PrimaryIs
<1>4. P \in SUBSET Nat /\ P # {} /\ P \subseteq UNION F
  <2>1. \A X \in F : PrimaryId(X) \in UNION F
    BY <1>1
  <2>2. P \subseteq UNION F
    BY <2>1
  <2>3. P # {}
    OBVIOUS
  <2> HIDE DEF P
  <2> QED
    BY <1>2, <2>2, <2>3
<1> HIDE DEF i
<1>5. i \in P
  <2>1. PICK X \in F : i \in X
    BY <1>3
  <2>2. PrimaryId(X) \in UNION F /\ PrimaryId(X) <= i
    BY <1>1, <2>1
  <2>3. PrimaryId(X) \in Nat /\ i \in Nat /\ i <= PrimaryId(X)
    BY <1>2, <1>3, <2>2
  <2>4. PrimaryId(X) = i
    BY <2>2, <2>3
  <2> QED
    BY <2>4
<1>6. \A j \in P : i <= j
  BY <1>3, <1>4
<1> HIDE DEF P
<1>7. PrimaryId(P) = i
  BY <1>4, <1>5, <1>6, PrimaryIs
<1> QED
  BY <1>7 DEF P, i

\* The worst of the worsts of some sets of ratings is the worst of all.
LEMMA WorstOfWorsts ==
  ASSUME NEW F \in SUBSET (SUBSET Ratings), F # {}, \A X \in F : X # {}
  PROVE  Worst({Worst(X) : X \in F}) = Worst(UNION F)
<1> DEFINE W == {Worst(X) : X \in F}
           w == Worst(UNION F)
<1>1. \A X \in F : Worst(X) \in X /\ \A t \in X : RankOf[Worst(X)] <= RankOf[t]
  BY WorstIs
<1>2. UNION F \in SUBSET Ratings /\ UNION F # {}
  OBVIOUS
<1>3. w \in UNION F /\ \A t \in UNION F : RankOf[w] <= RankOf[t]
  BY <1>2, WorstIs
<1>4. W \in SUBSET Ratings /\ W # {} /\ W \subseteq UNION F
  BY <1>1
<1> HIDE DEF w
<1>5. w \in W
  <2>1. PICK X \in F : w \in X
    BY <1>3
  <2>2. Worst(X) \in UNION F /\ RankOf[Worst(X)] <= RankOf[w]
    BY <1>1, <2>1
  <2>3. RankOf[w] <= RankOf[Worst(X)] /\ w \in Ratings /\ Worst(X) \in Ratings
    BY <1>2, <1>3, <2>2
  <2>4. Worst(X) = w
    BY <2>2, <2>3, Ranks
  <2> QED
    BY <2>4
<1>6. \A t \in W : RankOf[w] <= RankOf[t]
  BY <1>3, <1>4
<1> HIDE DEF W
<1>7. Worst(W) = w
  BY <1>4, <1>5, <1>6, WorstIs
<1> QED
  BY <1>7 DEF W, w

\* The world as its type says.
WorldOK == world \in [Groups -> Evidence \cup {None}]

\* A group has names, an identifier among them.
LEMMA GroupShape ==
  ASSUME NEW g \in Groups
  PROVE  /\ g.ids \in SUBSET Nat /\ g.ids # {} /\ g.ids \subseteq g.names
         /\ g.names \subseteq Nat /\ g.names \subseteq Names
<1>1. g.ids # {} /\ g.ids \subseteq g.names /\ g.names \subseteq Nat
  BY ScanAssumption
<1>2. g.names \subseteq Names
  BY DEF Names
<1> QED
  BY <1>1, <1>2

\* A group that is reported is rated.
LEMMA SeverityShape ==
  ASSUME WorldOK, NEW g \in Present
  PROVE  SeverityOf(world[g]) \in Ratings
<1>1. world[g] \in Evidence
  BY DEF WorldOK, Present
<1>2. world[g] \in SUBSET Ratings
  BY <1>1, ScanAssumption
<1>3. CASE world[g] = {}
  BY <1>3, Ranks DEF SeverityOf
<1>4. CASE world[g] # {}
  BY <1>2, <1>4, WorstIs DEF SeverityOf
<1> QED
  BY <1>3, <1>4

IdsOf(S) == UNION {g.ids : g \in S}
NamesOf(S) == UNION {g.names : g \in S}
RatingsOf(S) == {SeverityOf(world[g]) : g \in S}

\* What is found of some groups has one of their identifiers, their names and a rating.
LEMMA FindingShape ==
  ASSUME WorldOK, NEW S \in SUBSET Present, S # {}
  PROVE  /\ IdsOf(S) \in SUBSET Nat /\ IdsOf(S) # {} /\ IdsOf(S) \subseteq NamesOf(S)
         /\ NamesOf(S) \subseteq Names
         /\ RatingsOf(S) \in SUBSET Ratings /\ RatingsOf(S) # {}
         /\ FindingOf(S) = [id |-> PrimaryId(IdsOf(S)), names |-> NamesOf(S),
                            rating |-> Worst(RatingsOf(S))]
         /\ FindingOf(S).id \in IdsOf(S) /\ FindingOf(S).rating \in Ratings
<1>1. S \subseteq Groups
  BY DEF Present
<1>2. \A g \in S : /\ g.ids \in SUBSET Nat /\ g.ids # {} /\ g.ids \subseteq g.names
                   /\ g.names \subseteq Names
  BY <1>1, GroupShape
<1>3. IdsOf(S) \in SUBSET Nat /\ IdsOf(S) # {} /\ IdsOf(S) \subseteq NamesOf(S)
  BY <1>2 DEF IdsOf, NamesOf
<1>4. NamesOf(S) \subseteq Names
  BY <1>2 DEF NamesOf
<1>5. \A g \in S : SeverityOf(world[g]) \in Ratings
  BY SeverityShape
<1>6. RatingsOf(S) \in SUBSET Ratings /\ RatingsOf(S) # {}
  BY <1>5 DEF RatingsOf
<1>7. FindingOf(S) = [id |-> PrimaryId(IdsOf(S)), names |-> NamesOf(S),
                      rating |-> Worst(RatingsOf(S))]
  BY DEF FindingOf, IdsOf, NamesOf, RatingsOf
<1>8. PrimaryId(IdsOf(S)) \in IdsOf(S)
  BY <1>3, PrimaryIs
<1>9. Worst(RatingsOf(S)) \in Ratings
  BY <1>6, WorstIs
<1> QED
  BY <1>3, <1>4, <1>6, <1>7, <1>8, <1>9

\* What some groups should be found as.
FindingsOf(G) == {FindingOf(S) : S \in ProblemsIn(G)}

\* A finding taken in with those it is related to is what the joined problem is found as.
LEMMA MergedIs ==
  ASSUME WorldOK, NEW g \in Present, NEW TW \in SUBSET (SUBSET Present), \A S \in TW : S # {}
  PROVE  Merged({FindingOf(S) : S \in TW}, AdvisoryOf(g)) = FindingOf((UNION TW) \cup {g})
<1> DEFINE U == (UNION TW) \cup {g}
           a == AdvisoryOf(g)
           M == {FindingOf(S) : S \in TW}
<1>1. U \in SUBSET Present /\ U # {}
  OBVIOUS
<1>2. \A S \in TW : S \in SUBSET Present /\ S # {}
  OBVIOUS
<1>3. \A S \in TW :
        /\ IdsOf(S) \in SUBSET Nat /\ IdsOf(S) # {}
        /\ RatingsOf(S) \in SUBSET Ratings /\ RatingsOf(S) # {}
        /\ FindingOf(S).id = PrimaryId(IdsOf(S)) /\ FindingOf(S).names = NamesOf(S)
        /\ FindingOf(S).rating = Worst(RatingsOf(S))
  BY <1>2, FindingShape
<1>4. /\ g.ids \in SUBSET Nat /\ g.ids # {}
      /\ a.id = PrimaryId(g.ids) /\ a.names = g.names /\ a.rating = SeverityOf(world[g])
  BY GroupShape DEF AdvisoryOf, Present
<1>5. SeverityOf(world[g]) \in Ratings
  BY SeverityShape
<1>6. FindingOf(U) = [id |-> PrimaryId(IdsOf(U)), names |-> NamesOf(U),
                      rating |-> Worst(RatingsOf(U))]
  BY <1>1, FindingShape
<1> HIDE DEF a
<1>7. PrimaryId({b.id : b \in M \cup {a}}) = PrimaryId(IdsOf(U))
  <2> DEFINE F == {IdsOf(S) : S \in TW} \cup {g.ids}
  <2>1. F \in SUBSET (SUBSET Nat) /\ F # {} /\ \A X \in F : X # {}
    BY <1>3, <1>4
  <2>2. UNION F = IdsOf(U)
    <3>1. \A i : i \in UNION F <=> i \in g.ids \/ \E S \in TW : i \in IdsOf(S)
      OBVIOUS
    <3>2. \A i : i \in IdsOf(U) <=> i \in g.ids \/ \E S \in TW : i \in IdsOf(S)
      BY DEF IdsOf
    <3> HIDE DEF F
    <3> QED
      BY <3>1, <3>2
  <2>3. {PrimaryId(X) : X \in F} = {b.id : b \in M \cup {a}}
    <3>1. \A X \in F : \E b \in M \cup {a} : PrimaryId(X) = b.id
      BY <1>3, <1>4
    <3>2. \A b \in M \cup {a} : \E X \in F : PrimaryId(X) = b.id
      BY <1>3, <1>4
    <3> QED
      BY <3>1, <3>2
  <2> HIDE DEF F
  <2> QED
    BY <2>1, <2>2, <2>3, FirstOfFirsts
<1>8. UNION {b.names : b \in M \cup {a}} = NamesOf(U)
  <2>1. UNION {b.names : b \in M \cup {a}} = (UNION {NamesOf(S) : S \in TW}) \cup g.names
    BY <1>3, <1>4
  <2>2. NamesOf(U) = (UNION {NamesOf(S) : S \in TW}) \cup g.names
    BY DEF NamesOf
  <2> QED
    BY <2>1, <2>2
<1>9. Worst({b.rating : b \in M \cup {a}}) = Worst(RatingsOf(U))
  <2> DEFINE F == {RatingsOf(S) : S \in TW} \cup {{SeverityOf(world[g])}}
  <2>1. F \in SUBSET (SUBSET Ratings) /\ F # {} /\ \A X \in F : X # {}
    BY <1>3, <1>5
  <2>2. UNION F = RatingsOf(U)
    <3> DEFINE A == {RatingsOf(S) : S \in TW}
               B == {SeverityOf(world[g])}
    <3>1. RatingsOf(U) = (UNION A) \cup B
      BY DEF RatingsOf
    <3> HIDE DEF A, B
    <3>2. UNION (A \cup {B}) = (UNION A) \cup B
      OBVIOUS
    <3> QED
      BY <3>1, <3>2 DEF A, B
  <2>3. Worst({SeverityOf(world[g])}) = SeverityOf(world[g])
    BY DEF Worst
  <2>4. {Worst(X) : X \in F} = {b.rating : b \in M \cup {a}}
    <3>1. \A X \in F : \E b \in M \cup {a} : Worst(X) = b.rating
      BY <1>3, <1>4, <2>3
    <3>2. \A b \in M \cup {a} : \E X \in F : Worst(X) = b.rating
      BY <1>3, <1>4, <2>3
    <3> QED
      BY <3>1, <3>2
  <2> HIDE DEF F
  <2> QED
    BY <2>1, <2>2, <2>4, WorstOfWorsts
<1> QED
  BY <1>6, <1>7, <1>8, <1>9 DEF Merged, a

\* One more group of a report: the findings stay what its groups should be found as.
LEMMA AbsorbStep ==
  ASSUME WorldOK, NEW G \in SUBSET Present, NEW g \in Present \ G
  PROVE  Absorb(FindingsOf(G), AdvisoryOf(g)) = FindingsOf(G \cup {g})
<1> DEFINE K == FindingsOf(G)
           a == AdvisoryOf(g)
           TW == TwinsOf(G, g)
           twins == {b \in K : Related(a, b)}
<1>1. \A S \in ProblemsIn(G) : S \in SUBSET Present /\ S # {}
  BY ProblemShape
<1>2. TW \subseteq ProblemsIn(G)
      /\ \A S \in ProblemsIn(G) : S \in TW <=> \E h \in S : g.names \cap h.names # {}
  BY DEF TwinsOf
<1>3. ASSUME NEW S \in ProblemsIn(G)
      PROVE  Related(a, FindingOf(S)) <=> S \in TW
  <2>1. a.names = g.names /\ FindingOf(S).names = UNION {h.names : h \in S}
    BY DEF AdvisoryOf, FindingOf
  <2>2. g.names \cap (UNION {h.names : h \in S}) # {} <=> \E h \in S : g.names \cap h.names # {}
    OBVIOUS
  <2> QED
    BY <1>2, <2>1, <2>2 DEF Related
<1>4. twins = {FindingOf(S) : S \in TW}
  BY <1>2, <1>3 DEF FindingsOf
<1>5. K \ twins = {FindingOf(S) : S \in ProblemsIn(G) \ TW}
  BY <1>2, <1>3 DEF FindingsOf
<1>6. Merged(twins, a) = FindingOf((UNION TW) \cup {g})
  <2>1. TW \in SUBSET (SUBSET Present) /\ \A S \in TW : S # {}
    BY <1>1, <1>2
  <2> HIDE DEF TW, twins
  <2> QED
    BY <1>4, <2>1, MergedIs
<1>7. ProblemsIn(G \cup {g}) = (ProblemsIn(G) \ TW) \cup {(UNION TW) \cup {g}}
  BY OneMoreGroup
<1>8. FindingsOf(G \cup {g}) =
        {FindingOf(S) : S \in ProblemsIn(G) \ TW} \cup {FindingOf((UNION TW) \cup {g})}
  BY <1>7 DEF FindingsOf
<1>9. Absorb(K, a) = (K \ twins) \cup {Merged(twins, a)}
  BY DEF Absorb
<1> QED
  BY <1>5, <1>6, <1>8, <1>9

\* The order a report is printed in: every group once.
LEMMA PrintedShape ==
  ASSUME NEW printed \in SetToSeqs(Present)
  PROVE  /\ Len(printed) \in Nat /\ printed \in [1..Len(printed) -> Present]
         /\ \A i, j \in 1..Len(printed) : i # j => printed[i] # printed[j]
         /\ {printed[i] : i \in 1..Len(printed)} = Present
<1>1. IsFiniteSet(Present)
  <2>1. Present \in SUBSET Groups
    BY DEF Present
  <2> QED
    BY <2>1, ScanAssumption, FS_Subset
<1>2. PICK n \in Nat : n = Cardinality(Present)
  BY <1>1, FS_CardinalityType
<1>3. printed \in [1..n -> Present] /\ \A i, j \in 1..n : i # j => printed[i] # printed[j]
  BY <1>2 DEF SetToSeqs
<1>4. Len(printed) = n
  BY <1>3
<1>5. printed \in Surjection(1..n, Present)
  <2>1. printed \in Injection(1..n, Present)
    BY <1>3 DEF Injection, IsInjective
  <2>2. Cardinality(1..n) = n
    <3>1. Cardinality(1..n) = IF 1 > n THEN 0 ELSE n - 1 + 1
      BY FS_Interval
    <3> QED
      BY <3>1
  <2> QED
    BY <1>1, <1>2, <2>1, <2>2, FS_Injection
<1>6. \A g \in Present : \E i \in 1..n : printed[i] = g
  BY <1>5 DEF Surjection
<1>7. {printed[i] : i \in 1..n} = Present
  BY <1>3, <1>6
<1> QED
  BY <1>3, <1>4, <1>7

\* Without a group there is no problem.
LEMMA NothingFound == FindingsOf({}) = {}
  BY DEF FindingsOf, ProblemsIn

\* Whatever order the groups are printed in, each problem is found once.
LEMMA ParseFinds ==
  ASSUME WorldOK, NEW printed \in SetToSeqs(Present)
  PROVE  Parse(printed) = FindingsOf(Present)
<1>1. PICK n \in Nat : n = Len(printed)
  BY PrintedShape
<1>2. /\ printed \in [1..n -> Present]
      /\ \A i, j \in 1..n : i # j => printed[i] # printed[j]
      /\ {printed[i] : i \in 1..n} = Present
  BY <1>1, PrintedShape
<1> DEFINE First(k) == {printed[i] : i \in 1..k}
           Eqn(f) == f = [k \in 0..n |-> IF k = 0 THEN {}
                                          ELSE Absorb(f[k - 1], AdvisoryOf(printed[k]))]
           kept == CHOOSE f : Eqn(f)
<1>3. ASSUME NEW k \in 1..n
      PROVE  Absorb(FindingsOf(First(k - 1)), AdvisoryOf(printed[k])) = FindingsOf(First(k))
  <2>1. k \in 1..n /\ k - 1 \in 0..n /\ 1..k = (1..(k - 1)) \cup {k}
    BY <1>3
  <2>2. First(k - 1) \in SUBSET Present /\ printed[k] \in Present \ First(k - 1)
    <3>1. \A i \in 1..(k - 1) : i \in 1..n /\ i # k
      BY <2>1
    <3> QED
      BY <1>2, <2>1, <3>1
  <2>3. First(k) = First(k - 1) \cup {printed[k]}
    BY <2>1
  <2> HIDE DEF First
  <2> QED
    BY <2>2, <2>3, AbsorbStep
<1>4. First(0) = {} /\ First(n) = Present
  BY <1>2
<1> HIDE DEF First
<1>5. Eqn(kept)
  <2> DEFINE f == [k \in 0..n |-> FindingsOf(First(k))]
  <2>1. ASSUME NEW k \in 0..n
        PROVE  f[k] = IF k = 0 THEN {} ELSE Absorb(f[k - 1], AdvisoryOf(printed[k]))
    <3>1. CASE k = 0
      BY <1>4, <3>1, NothingFound
    <3>2. CASE k # 0
      <4>1. k \in 1..n /\ k - 1 \in 0..n
        BY <3>2
      <4>2. f[k] = FindingsOf(First(k)) /\ f[k - 1] = FindingsOf(First(k - 1))
        BY <4>1
      <4> QED
        BY <1>3, <3>2, <4>1, <4>2
    <3> QED
      BY <3>1, <3>2
  <2>2. f = [k \in 0..n |-> f[k]]
    OBVIOUS
  <2> HIDE DEF f
  <2>3. Eqn(f)
    BY <2>1, <2>2
  <2> QED
    BY <2>3
<1> HIDE DEF kept
<1>6. kept[0] = {}
  BY <1>5
<1>7. \A k \in 1..n : kept[k] = Absorb(kept[k - 1], AdvisoryOf(printed[k]))
  <2>1. \A k \in 0..n : kept[k] = IF k = 0 THEN {} ELSE Absorb(kept[k - 1], AdvisoryOf(printed[k]))
    BY <1>5, Zenon
  <2>2. \A k \in 1..n : k \in 0..n /\ k # 0
    OBVIOUS
  <2> QED
    BY <2>1, <2>2
<1> DEFINE T == {k \in 0..n : kept[k] = FindingsOf(First(k))}
<1>8. 0 \in T
  BY <1>4, <1>6, NothingFound
<1>9. \A k \in 0..(n - 1) : k \in T => k + 1 \in T
  <2> SUFFICES ASSUME NEW k \in 0..(n - 1), kept[k] = FindingsOf(First(k))
               PROVE  kept[k + 1] = FindingsOf(First(k + 1))
    OBVIOUS
  <2>1. k + 1 \in 1..n /\ (k + 1) - 1 = k
    OBVIOUS
  <2>2. kept[k + 1] = Absorb(kept[(k + 1) - 1], AdvisoryOf(printed[k + 1]))
    BY <1>7, <2>1
  <2>3. Absorb(FindingsOf(First((k + 1) - 1)), AdvisoryOf(printed[k + 1]))
          = FindingsOf(First(k + 1))
    BY <1>3, <2>1
  <2> QED
    BY <2>1, <2>2, <2>3
<1>10. n \in T
  <2> HIDE DEF T
  <2>1. 0..n \subseteq T
    BY <1>8, <1>9, UpTo
  <2> QED
    BY <2>1
<1>11. kept[n] = FindingsOf(Present)
  BY <1>4, <1>10
<1>12. Parse(printed) = kept[n]
  BY <1>1 DEF Parse, kept
<1> QED
  BY <1>11, <1>12

-----------------------------------------------------------------------------
(* The inductive invariant.                                                *)

\* The findings as the report's parsing leaves them: no two of them share a name.
FoundOK(found) ==
  /\ \A f \in found : f.id \in f.names /\ f.names \subseteq Names /\ f.rating \in Ratings
  /\ \A f, g \in found : f # g => f.names \cap g.names = {}

\* The marker of some findings.
MarkerOf(found) ==
  [n \in Names |-> IF \E f \in found : f.id = n THEN (CHOOSE f \in found : f.id = n).rating
                   ELSE None]

IssueWith(Markers) ==
  [open : BOOLEAN, labels : SUBSET {"needs-human", "needs-capital"}, marker : Markers]
IssuesOK(i) ==
  /\ i = [t \in Titles |-> i[t]]
  /\ i["advisories"] \in IssueWith(Marker) /\ i["error"] \in IssueWith(BOOLEAN)

\* The run's fields.  What a scan found is of what there was; a run that failed found nothing.
RunOK ==
  /\ run = [step |-> run.step, seen |-> run.seen, looked |-> run.looked, found |-> run.found,
            failed |-> run.failed, todo |-> run.todo, announced |-> run.announced,
            paged |-> run.paged]
  /\ run.step \in {"idle", "scan", "file", "done", "dead"}
  /\ IssuesOK(run.seen) /\ FoundOK(run.found)
  /\ run.announced \subseteq run.found /\ run.paged \subseteq Paging(run.announced)
  /\ run.step \in {"file", "done"} =>
       run.failed = ~run.looked /\ run.looked \in BOOLEAN /\ (run.failed => run.found = {})
  /\ run.step = "file" /\ run.looked => run.found = FindingsOf(Present)

StateOK ==
  /\ WorldOK /\ IssuesOK(issue) /\ RunOK
  /\ faults \in 0..MaxFaults /\ touches \in 0..MaxTouches
  /\ paged \subseteq Names /\ standing \subseteq Names /\ touched \in BOOLEAN
  /\ touched => standing = {}

\* What an issue says is paging has paged.
SaidIsPaged(i) == i.open => \A n \in Names : Pages(i.marker[n]) => n \in paged

\* A marker that says some of what another does, or nothing.
PartOf(marker, whole) == \A n \in Names : marker[n] \in {whole[n], None}

\* During a scan, what was read is what there is, unless a person changed it; and what was
\* read to be paging has paged.
SeenOK ==
  run.step = "scan" =>
    LET seen == run.seen["advisories"]
        mine == issue["advisories"]
    IN  /\ ~touched => run.seen = issue
        /\ mine.open => seen.open /\ PartOf(mine.marker, seen.marker)
        /\ SaidIsPaged(seen)

ToAdvisories(do) == Call(do, "advisories", LabelsFor(run.announced), MarkerOf(run.found))
ToError(do) == Call(do, "error", {"needs-capital"}, TRUE)

AllPaged == \A f \in Paging(run.found) : f.names \subseteq paged

AdvisoriesLeft ==
  {<<>>, <<ToAdvisories("create")>>, <<ToAdvisories("body")>>,
   <<ToAdvisories("label"), ToAdvisories("body")>>,
   <<ToAdvisories("unlabel"), ToAdvisories("label"), ToAdvisories("body")>>}
ErrorLeft ==
  {<<>>, <<ToError("create")>>, <<ToError("body")>>, <<ToError("label"), ToError("body")>>,
   <<ToError("unlabel"), ToError("label"), ToError("body")>>,
   <<Call("close", "error", {}, FALSE)>>}

\* The calls left to the advisories issue, and how it stands before them.
AdvisoriesOK(a) ==
  LET mine == issue["advisories"]
  IN  /\ run.failed => a = <<>>
      /\ ~run.failed /\ a = <<>> =>
           /\ ~touched /\ run.found # {} => mine.open
           /\ mine.open => \/ mine.marker = MarkerOf(run.found)
                           \/ touched /\ PartOf(mine.marker, MarkerOf(run.found))
      /\ a # <<>> /\ a # <<ToAdvisories("create")>> /\ ~touched => mine.open
      /\ ~run.failed /\ a \in {<<>>, <<ToAdvisories("body")>>} => AllPaged
      /\ a = <<ToAdvisories("label"), ToAdvisories("body")>> =>
           "needs-human" \notin LabelsFor(run.announced) \cap mine.labels

\* The same of the error issue.
ErrorOK(e) ==
  /\ e = <<>> /\ ~touched => issue["error"].open = run.failed
  /\ e = <<Call("close", "error", {}, FALSE)>> => ~run.failed
  /\ e \notin {<<>>, <<Call("close", "error", {}, FALSE)>>} =>
       run.failed /\ (e # <<ToError("create")>> /\ ~touched => issue["error"].open)

TodoOK ==
  run.step = "file" =>
    \E a \in AdvisoriesLeft, e \in ErrorLeft :
      run.todo = a \o e /\ AdvisoriesOK(a) /\ ErrorOK(e)

\* What is found to be paging has paged, or is announced; and what is announced as paging
\* is no name of what stands.
NewsOK ==
  run.step = "file" =>
    /\ \A f \in Paging(run.found) : f \in run.announced \/ f.names \subseteq paged
    /\ \A f \in Paging(run.announced) : f.names \cap standing = {}

\* What stands is on the open issue, as paging.
StandingOK ==
  \A n \in standing :
    /\ issue["advisories"].open
    /\ \/ Pages(issue["advisories"].marker[n])
       \/ run.step = "file" /\ ~run.failed /\ issue["advisories"].marker = MarkerOf(run.found)
    /\ run.step = "file" /\ ~run.failed => \E f \in Paging(run.found) : n \in f.names

ScanInv ==
  /\ StateOK /\ SeenOK /\ SaidIsPaged(issue["advisories"])
  /\ TodoOK /\ NewsOK /\ StandingOK /\ HeartbeatMeansFiled

-----------------------------------------------------------------------------
(* What a plan is made of.                                                 *)

\* What pages is a rating.
LEMMA PagesRated == \A s : Pages(s) => s \in Ratings /\ s # None
<1>1. {"critical", "high"} \subseteq Ratings
  <2>1. DOMAIN SEVERITY_ORDER = 1..7
    BY DEF SEVERITY_ORDER
  <2>2. SEVERITY_ORDER[1] = "critical" /\ SEVERITY_ORDER[2] = "high"
    BY DEF SEVERITY_ORDER
  <2> QED
    BY <2>1, <2>2 DEF Ratings
<1> QED
  BY <1>1, ScanAssumption DEF Pages

\* What problems are found as are findings apart.
LEMMA FindingsApart ==
  ASSUME WorldOK, NEW G \in SUBSET Present
  PROVE  FoundOK(FindingsOf(G))
<1>1. \A S \in ProblemsIn(G) : S \in SUBSET Present /\ S # {}
  BY ProblemShape
<1>2. ASSUME NEW f \in FindingsOf(G)
      PROVE  f.id \in f.names /\ f.names \subseteq Names /\ f.rating \in Ratings
  <2>1. PICK S \in ProblemsIn(G) : f = FindingOf(S)
    BY DEF FindingsOf
  <2>2. /\ IdsOf(S) \subseteq NamesOf(S) /\ NamesOf(S) \subseteq Names
        /\ f.names = NamesOf(S) /\ f.id \in IdsOf(S) /\ f.rating \in Ratings
    BY <1>1, <2>1, FindingShape
  <2> QED
    BY <2>2
<1>3. ASSUME NEW f \in FindingsOf(G), NEW e \in FindingsOf(G), f # e
      PROVE  f.names \cap e.names = {}
  <2>1. PICK S \in ProblemsIn(G) : f = FindingOf(S)
    BY DEF FindingsOf
  <2>2. PICK T \in ProblemsIn(G) : e = FindingOf(T)
    BY DEF FindingsOf
  <2>3. S # T
    BY <1>3, <2>1, <2>2
  <2>4. \A g \in S, h \in T : g.names \cap h.names = {}
    BY <2>3, ProblemsApart
  <2>5. f.names = UNION {g.names : g \in S} /\ e.names = UNION {h.names : h \in T}
    BY <2>1, <2>2 DEF FindingOf
  <2> QED
    BY <2>4, <2>5
<1> QED
  BY <1>2, <1>3 DEF FoundOK

\* The marker has each finding under its key, and nothing else.
LEMMA MarkerShape ==
  ASSUME NEW F, FoundOK(F)
  PROVE  /\ MarkerOf(F) \in Marker
         /\ \A f \in F : f.id \in Names /\ MarkerOf(F)[f.id] = f.rating
         /\ \A n \in Names : MarkerOf(F)[n] # None =>
              \E f \in F : f.id = n /\ MarkerOf(F)[n] = f.rating
<1>1. /\ \A f \in F : f.id \in f.names /\ f.names \subseteq Names /\ f.rating \in Ratings
      /\ \A f, g \in F : f # g => f.names \cap g.names = {}
  BY DEF FoundOK
<1>2. \A f, g \in F : f.id = g.id => f = g
  BY <1>1
<1>3. ASSUME NEW n \in Names
      PROVE  /\ MarkerOf(F)[n] \in Ratings \cup {None}
             /\ \A f \in F : f.id = n => MarkerOf(F)[n] = f.rating
             /\ MarkerOf(F)[n] # None => \E f \in F : f.id = n /\ MarkerOf(F)[n] = f.rating
  <2>1. MarkerOf(F)[n] = IF \E f \in F : f.id = n
                         THEN (CHOOSE f \in F : f.id = n).rating ELSE None
    BY DEF MarkerOf
  <2>2. CASE \E f \in F : f.id = n
    <3>1. PICK c \in F : c = CHOOSE f \in F : f.id = n
      BY <2>2
    <3>2. c.id = n
      BY <2>2, <3>1
    <3>3. MarkerOf(F)[n] = c.rating
      BY <2>1, <2>2, <3>1
    <3> QED
      BY <1>1, <1>2, <3>2, <3>3
  <2>3. CASE ~\E f \in F : f.id = n
    BY <2>1, <2>3
  <2> QED
    BY <2>2, <2>3
<1>4. MarkerOf(F) \in Marker
  <2>1. MarkerOf(F) = [n \in Names |-> MarkerOf(F)[n]]
    BY DEF MarkerOf
  <2> QED
    BY <1>3, <2>1 DEF Marker
<1> QED
  BY <1>1, <1>3, <1>4

\* The page's label is for findings that page; without news there is no label.
LEMMA LabelsShape ==
  ASSUME NEW A
  PROVE  /\ LabelsFor(A) \subseteq {"needs-human", "needs-capital"}
         /\ "needs-human" \in LabelsFor(A) <=> Paging(A) # {}
         /\ LabelsFor(A) = {} <=> A = {}
  BY DEF LabelsFor, Paging

\* What was read, as a marker.
LEMMA KnownShape ==
  ASSUME IssuesOK(run.seen)
  PROVE  /\ known \in Marker
         /\ run.seen["advisories"].open => known = run.seen["advisories"].marker
         /\ ~run.seen["advisories"].open => \A n \in Names : known[n] = None
<1>1. run.seen["advisories"].marker \in Marker
  BY DEF IssuesOK, IssueWith
<1> QED
  BY <1>1 DEF known, Marker

\* A finding is filed at the worst of what its names are in the marker with.
LEMMA FiledShape ==
  ASSUME known \in Marker, NEW f, f.names \subseteq Names
  PROVE  /\ FiledAs(f) = {} => FiledAt(f) = None
         /\ FiledAs(f) # {} => /\ FiledAt(f) \in Ratings
                               /\ \E n \in FiledAs(f) : FiledAt(f) = known[n]
         /\ \A n \in f.names : Pages(known[n]) => Pages(FiledAt(f))
<1>1. \A n \in Names : known[n] \in Ratings \cup {None}
  BY DEF Marker
<1>2. FiledAs(f) \subseteq f.names /\ \A n \in f.names : n \in FiledAs(f) <=> known[n] # None
  BY DEF FiledAs
<1>3. CASE FiledAs(f) = {}
  <2>1. FiledAt(f) = None
    BY <1>3 DEF FiledAt
  <2>2. \A n \in f.names : known[n] = None
    BY <1>2, <1>3
  <2> QED
    BY <1>3, <2>1, <2>2, PagesRated
<1>4. CASE FiledAs(f) # {}
  <2> DEFINE R == {known[n] : n \in FiledAs(f)}
  <2>1. R \in SUBSET Ratings /\ R # {}
    BY <1>1, <1>2, <1>4
  <2>2. FiledAt(f) = Worst(R)
    BY <1>4 DEF FiledAt
  <2>3. FiledAt(f) \in R /\ \A t \in R : RankOf[FiledAt(f)] <= RankOf[t]
    <3> HIDE DEF R
    <3> QED
      BY <2>1, <2>2, WorstIs
  <2>4. ASSUME NEW n \in f.names, Pages(known[n])
        PROVE  Pages(FiledAt(f))
    <3>1. known[n] \in R
      BY <1>2, <2>4, PagesRated
    <3>2. RankOf[known[n]] <= 2 /\ RankOf[FiledAt(f)] <= RankOf[known[n]]
      BY <2>1, <2>3, <2>4, <3>1, Ranks
    <3>3. RankOf[known[n]] \in Nat /\ RankOf[FiledAt(f)] \in Nat /\ FiledAt(f) \in Ratings
      <4> HIDE DEF R
      <4> QED
        BY <2>1, <2>3, <3>1, Ranks
    <3>4. RankOf[FiledAt(f)] <= 2
      BY <3>2, <3>3
    <3> QED
      BY <3>3, <3>4, Ranks
  <2> QED
    BY <1>4, <2>1, <2>3, <2>4
<1> QED
  BY <1>3, <1>4

\* The marker a verdict asks for, and what the marker of a scan that failed keeps.
LEMMA CurrentIs ==
  ASSUME NEW F
  PROVE  /\ Current(F, FALSE) = MarkerOf(F)
         /\ known \in Marker => Current({}, TRUE) = known
<1>1. Current(F, FALSE) = MarkerOf(F)
  BY DEF Current, MarkerOf
<1>2. Current({}, TRUE) = [n \in Names |-> known[n]]
  BY DEF Current
<1> QED
  BY <1>1, <1>2 DEF Marker

\* Nothing added, re-rated, renamed or resolved: the marker is as it should be.
LEMMA QuietIsCurrent ==
  ASSUME NEW F, FoundOK(F), known \in Marker, Added(F) = {}, Rerated(F) = {}, Renamed(F) = {},
         Resolved(F, FALSE) = {}
  PROVE  known = MarkerOf(F)
<1>1. \A f \in F : f.id \in f.names /\ f.names \subseteq Names /\ f.rating \in Ratings
  BY DEF FoundOK
<1>2. \A f \in F : FiledAt(f) # None /\ FiledAt(f) = f.rating /\ FiledAs(f) \subseteq {f.id}
  BY DEF Added, Rerated, Renamed
<1>3. \A f \in F : known[f.id] = f.rating
  <2> SUFFICES ASSUME NEW f \in F PROVE known[f.id] = f.rating
    OBVIOUS
  <2>1. FiledAs(f) # {} => \E n \in FiledAs(f) : FiledAt(f) = known[n]
    BY <1>1, FiledShape
  <2>2. FiledAs(f) = {} => FiledAt(f) = None
    BY <1>1, FiledShape
  <2> QED
    BY <1>2, <2>1, <2>2
<1>4. ASSUME NEW n \in Names, known[n] # None
      PROVE  \E f \in F : f.id = n
  <2>1. \E f \in F : n \in f.names
    <3> SUFFICES ASSUME \A f \in F : n \notin f.names PROVE FALSE
      OBVIOUS
    <3>1. Current(F, FALSE)[n] = None
      BY <1>1 DEF Current
    <3> QED
      BY <1>4, <3>1 DEF Resolved
  <2>2. PICK f \in F : n \in f.names
    BY <2>1
  <2>3. n \in FiledAs(f)
    BY <1>4, <2>2 DEF FiledAs
  <2> QED
    BY <1>2, <2>2, <2>3
<1>5. ASSUME NEW n \in Names
      PROVE  known[n] = MarkerOf(F)[n]
  <2>1. CASE \E f \in F : f.id = n
    BY <1>3, <2>1, MarkerShape
  <2>2. CASE ~\E f \in F : f.id = n
    BY <1>4, <2>2, MarkerShape
  <2> QED
    BY <2>1, <2>2
<1>6. MarkerOf(F) \in Marker
  BY MarkerShape
<1> QED
  BY <1>5, <1>6 DEF Marker

\* A scan that failed plans nothing about the findings.
LEMMA FailedPlan ==
  ASSUME known \in Marker
  PROVE  AdvisoriesPlan({}, TRUE) = <<>> /\ Announced({}) = {}
<1>1. Added({}) = {} /\ Rerated({}) = {} /\ Renamed({}) = {} /\ Escalated({}) = {}
  BY DEF Added, Rerated, Renamed, Escalated
<1>2. Resolved({}, TRUE) = {}
  BY CurrentIs DEF Resolved
<1> QED
  BY <1>1, <1>2 DEF AdvisoriesPlan, Announced

\* Two elements and one.
LEMMA TwoAndOne ==
  ASSUME NEW x, NEW y, NEW z
  PROVE  <<x, y>> \o <<z>> = <<x, y, z>>
<1> DEFINE s == <<x, y>> \o <<z>>
           t == <<x, y, z>>
<1>1. s \in Seq({x, y, z}) /\ t \in Seq({x, y, z})
  OBVIOUS
<1>2. Len(s) = 3 /\ Len(t) = 3
  OBVIOUS
<1>3. s[1] = x /\ s[2] = y /\ s[3] = z
  OBVIOUS
<1>4. t[1] = x /\ t[2] = y /\ t[3] = z
  OBVIOUS
<1> HIDE DEF s, t
<1>5. \A i \in 1..3 : s[i] = t[i]
  BY <1>3, <1>4
<1>6. \A i \in 1..Len(s) : s[i] = t[i]
  BY <1>2, <1>5
<1>7. s = t
  BY <1>1, <1>2, <1>6, SeqEqual
<1> QED
  BY <1>7 DEF s, t

\* Lists of one, two and three elements are told apart.
LEMMA ListsApart ==
  ASSUME NEW x, NEW y, NEW z, NEW u, NEW v
  PROVE  /\ <<x>> # <<>> /\ <<x, y>> # <<>> /\ <<x, y, z>> # <<>>
         /\ <<x>> = <<u>> => x = u
         /\ <<x, y>> # <<u>> /\ <<x, y, z>> # <<u>> /\ <<x, y, z>> # <<u, v>>
<1>1. Len(<<>>) = 0 /\ Len(<<x>>) = 1 /\ Len(<<x, y>>) = 2 /\ Len(<<x, y, z>>) = 3
  OBVIOUS
<1>2. Len(<<u>>) = 1 /\ Len(<<u, v>>) = 2
  OBVIOUS
<1>3. <<x>>[1] = x /\ <<u>>[1] = u
  OBVIOUS
<1>4. <<x>> = <<u>> => x = u
  <2> SUFFICES ASSUME <<x>> = <<u>> PROVE x = u
    OBVIOUS
  <2>1. <<x>>[1] = <<u>>[1]
    BY Zenon
  <2> QED
    BY <1>3, <2>1, Zenon
<1>5. 0 # 1 /\ 0 # 2 /\ 0 # 3 /\ 1 # 2 /\ 1 # 3 /\ 2 # 3
  OBVIOUS
<1> QED
  BY <1>1, <1>2, <1>4, <1>5, Zenon

\* What a verdict plans: nothing when the marker is as it should be, or one call or three.
LEMMA VerdictPlan ==
  ASSUME NEW F, FoundOK(F), known \in Marker
  PROVE  LET To(do) == Call(do, "advisories", LabelsFor(Announced(F)), MarkerOf(F))
             p == AdvisoriesPlan(F, FALSE)
         IN  \/ p = <<>> /\ known = MarkerOf(F) /\ Announced(F) = {}
             \/ ~run.seen["advisories"].open /\ p = <<To("create")>>
             \/ run.seen["advisories"].open /\ Announced(F) = {} /\ p = <<To("body")>>
             \/ run.seen["advisories"].open /\ p = <<To("unlabel"), To("label"), To("body")>>
<1> DEFINE To(do) == Call(do, "advisories", LabelsFor(Announced(F)), MarkerOf(F))
           p == AdvisoriesPlan(F, FALSE)
           quiet == Added(F) = {} /\ Rerated(F) = {} /\ Renamed(F) = {}
                      /\ Resolved(F, FALSE) = {}
<1>1. p = IF quiet THEN <<>>
          ELSE IF run.seen["advisories"].open
          THEN Update("advisories", LabelsFor(Announced(F)), MarkerOf(F))
          ELSE <<To("create")>>
  BY CurrentIs DEF AdvisoriesPlan
<1>2. Update("advisories", LabelsFor(Announced(F)), MarkerOf(F)) =
        IF Announced(F) = {} THEN <<To("body")>>
        ELSE <<To("unlabel"), To("label"), To("body")>>
  <2>1. CASE Announced(F) = {}
    <3>1. LabelsFor(Announced(F)) = {}
      BY <2>1, LabelsShape
    <3>2. Update("advisories", LabelsFor(Announced(F)), MarkerOf(F)) = <<>> \o <<To("body")>>
      BY <3>1 DEF Update
    <3> QED
      BY <2>1, <3>2
  <2>2. CASE Announced(F) # {}
    <3>1. LabelsFor(Announced(F)) # {}
      BY <2>2, LabelsShape
    <3>2. Update("advisories", LabelsFor(Announced(F)), MarkerOf(F)) =
            <<To("unlabel"), To("label")>> \o <<To("body")>>
      BY <3>1 DEF Update
    <3>3. Update("advisories", LabelsFor(Announced(F)), MarkerOf(F)) =
            <<To("unlabel"), To("label"), To("body")>>
      BY <3>2, TwoAndOne
    <3> QED
      BY <2>2, <3>3
  <2> QED
    BY <2>1, <2>2
<1>3. CASE quiet
  <2>1. known = MarkerOf(F)
    BY <1>3, QuietIsCurrent
  <2>2. Announced(F) = {}
    BY <1>3 DEF Announced, Escalated
  <2> QED
    BY <1>1, <1>3, <2>1, <2>2
<1>4. CASE ~quiet
  <2> HIDE DEF quiet, To
  <2>1. CASE run.seen["advisories"].open
    BY <1>1, <1>2, <1>4, <2>1 DEF To
  <2>2. CASE ~run.seen["advisories"].open
    BY <1>1, <1>4, <2>2 DEF To
  <2> QED
    BY <2>1, <2>2
<1> QED
  BY <1>3, <1>4

\* What is planned about the error issue.
LEMMA ErrorPlanIs ==
  ASSUME NEW failed \in BOOLEAN, IssuesOK(run.seen)
  PROVE  LET there == run.seen["error"].open
             p == ErrorPlan(failed)
         IN  \/ p = <<>> /\ there = failed
             \/ failed /\ ~there /\ p = <<ToError("create")>>
             \/ ~failed /\ there /\ p = <<Call("close", "error", {}, FALSE)>>
             \/ failed /\ there /\ p = <<ToError("unlabel"), ToError("label"), ToError("body")>>
<1>1. Update("error", {"needs-capital"}, TRUE) =
        <<ToError("unlabel"), ToError("label")>> \o <<ToError("body")>>
  BY DEF Update, ToError
<1>2. \A x, y, z : <<x, y>> \o <<z>> = <<x, y, z>>
  BY TwoAndOne
<1>3. Update("error", {"needs-capital"}, TRUE) =
        <<ToError("unlabel"), ToError("label"), ToError("body")>>
  BY <1>1, <1>2, Zenon
<1>4. run.seen["error"].open \in BOOLEAN
  BY DEF IssuesOK, IssueWith
<1>5. ErrorPlan(failed) =
        IF ~run.seen["error"].open THEN IF failed THEN <<ToError("create")>> ELSE <<>>
        ELSE IF ~failed THEN <<Call("close", "error", {}, FALSE)>>
        ELSE IF ~run.seen["error"].marker
        THEN <<ToError("unlabel"), ToError("label"), ToError("body")>> ELSE <<>>
  BY <1>3, Zenon DEF ErrorPlan, ToError
<1> QED
  BY <1>4, <1>5

-----------------------------------------------------------------------------
(* Every step keeps the invariant.                                         *)

\* What should be found depends on the world alone.
LEMMA SameWorld ==
  ASSUME world' = world
  PROVE  FindingsOf(Present)' = FindingsOf(Present)
<1>1. Present' = Present
  BY DEF Present
<1>2. FindingsOf(Present)' = FindingsOf(Present')
  BY DEF FindingsOf, FindingOf, SeverityOf, ProblemsIn
<1> QED
  BY <1>1, <1>2

\* No issue, and no run, as the program starts with them.
LEMMA NothingYet ==
  /\ IssuesOK(NoIssue) /\ FoundOK({})
  /\ ~NoIssue["advisories"].open /\ ~NoIssue["error"].open
<1>1. NoMarker("error") \in BOOLEAN /\ NoMarker("advisories") \in Marker
  BY DEF NoMarker, Marker
<1>2. IssuesOK(NoIssue)
  BY <1>1 DEF IssuesOK, IssueWith, NoIssue, Titles
<1>3. ~NoIssue["advisories"].open /\ ~NoIssue["error"].open
  BY DEF NoIssue, Titles
<1> QED
  BY <1>2, <1>3 DEF FoundOK

\* What the scan starts from.
LEMMA InitInv == ScanInit => ScanInv
<1> SUFFICES ASSUME ScanInit PROVE ScanInv
  OBVIOUS
<1>1. /\ world = NoRead /\ issue = NoIssue /\ run = NoRun /\ faults = 0 /\ touches = 0
      /\ paged = {} /\ standing = {} /\ touched = FALSE
  BY DEF ScanInit
<1>2. WorldOK
  BY <1>1 DEF WorldOK, NoRead
<1>3. RunOK
  BY <1>1, NothingYet DEF RunOK, NoRun, Paging
<1>4. StateOK
  <2>1. IssuesOK(issue)
    BY <1>1, NothingYet, Zenon
  <2>2. faults \in 0..MaxFaults /\ touches \in 0..MaxTouches
    BY <1>1, ScanAssumption
  <2> QED
    BY <1>1, <1>2, <1>3, <2>1, <2>2 DEF StateOK
<1>5. SaidIsPaged(issue["advisories"])
  BY <1>1, NothingYet DEF SaidIsPaged
<1>6. run.step = "idle"
  BY <1>1 DEF NoRun
<1> QED
  BY <1>1, <1>4, <1>5, <1>6
  DEF ScanInv, SeenOK, TodoOK, NewsOK, StandingOK, HeartbeatMeansFiled

\* What the error issue asks for is planned.
LEMMA ErrorPlanOK ==
  ASSUME ScanInv, run.step = "scan", issue' = issue, touched' = touched,
         NEW failed \in BOOLEAN, run'.failed = failed, NEW p, p = ErrorPlan(failed)
  PROVE  p \in ErrorLeft /\ ErrorOK(p)'
<1> DEFINE there == run.seen["error"].open
           x == Call("close", "error", {}, FALSE)
<1>1. \/ p = <<>> /\ there = failed
      \/ failed /\ ~there /\ p = <<ToError("create")>>
      \/ ~failed /\ there /\ p = <<x>>
      \/ failed /\ there /\ p = <<ToError("unlabel"), ToError("label"), ToError("body")>>
  <2>1. IssuesOK(run.seen)
    BY DEF ScanInv, StateOK, RunOK
  <2> QED
    BY <2>1, ErrorPlanIs
<1>2. ~touched => issue["error"].open = there
  BY DEF ScanInv, SeenOK
<1>3. ToError("create") # x
  BY DEF ToError, Call
<1> HIDE DEF x
<1>4. p \in ErrorLeft
  BY <1>1 DEF ErrorLeft, x
<1>5. ErrorOK(p)'
  <2>1. CASE p = <<>> /\ there = failed
    BY <1>2, <2>1 DEF ErrorOK, x
  <2>2. CASE failed /\ ~there /\ p = <<ToError("create")>>
    <3>1. p # <<>> /\ p # <<x>>
      BY <1>3, <2>2, ListsApart, Zenon
    <3> QED
      BY <2>2, <3>1 DEF ErrorOK, x
  <2>3. CASE ~failed /\ there /\ p = <<x>>
    BY <2>3 DEF ErrorOK, x
  <2>4. CASE failed /\ there /\ p = <<ToError("unlabel"), ToError("label"), ToError("body")>>
    <3>1. p # <<>> /\ p # <<x>>
      <4>1. \A a, b, c, d : <<a, b, c>> # <<>> /\ <<a, b, c>> # <<d>>
        BY ListsApart, Zenon
      <4> QED
        BY <2>4, <4>1, Zenon
    <3> QED
      BY <1>2, <2>4, <3>1 DEF ErrorOK, x
  <2> QED
    BY <1>1, <2>1, <2>2, <2>3, <2>4
<1> QED
  BY <1>4, <1>5

\* What the findings ask for is planned.
LEMMA VerdictPlanOK ==
  ASSUME ScanInv, run.step = "scan", issue' = issue, touched' = touched,
         NEW F, FoundOK(F), run'.found = F, run'.failed = FALSE, run'.announced = Announced(F),
         \A f \in Paging(F) : f \in Announced(F) \/ f.names \subseteq paged',
         NEW a, a = AdvisoriesPlan(F, FALSE)
  PROVE  a \in AdvisoriesLeft' /\ AdvisoriesOK(a)'
<1> DEFINE To(do) == Call(do, "advisories", LabelsFor(Announced(F)), MarkerOf(F))
           seen == run.seen["advisories"]
           mine == issue["advisories"]
           c == To("create")
           b == To("body")
           l == To("label")
           u == To("unlabel")
<1>1. IssuesOK(run.seen) /\ IssuesOK(issue)
  BY DEF ScanInv, StateOK, RunOK
<1>2. known \in Marker /\ (seen.open => known = seen.marker)
      /\ (~seen.open => \A n \in Names : known[n] = None)
  BY <1>1, KnownShape
<1>3. ~touched => seen = mine
  BY DEF ScanInv, SeenOK
<1>4. mine.marker \in Marker /\ mine.open \in BOOLEAN
  BY <1>1 DEF IssuesOK, IssueWith
<1>5. \/ a = <<>> /\ known = MarkerOf(F) /\ Announced(F) = {}
      \/ ~seen.open /\ a = <<c>>
      \/ seen.open /\ Announced(F) = {} /\ a = <<b>>
      \/ seen.open /\ a = <<u, l, b>>
  BY <1>2, VerdictPlan
<1>6. /\ ToAdvisories("create")' = c /\ ToAdvisories("body")' = b
      /\ ToAdvisories("label")' = l /\ ToAdvisories("unlabel")' = u
  BY DEF ToAdvisories
<1>7. c # b
  BY DEF Call
<1> HIDE DEF c, b, l, u
<1>8. \A x, y, z, v, w : /\ <<x>> # <<>> /\ <<x, y, z>> # <<>> /\ <<x, y, z>> # <<v>>
                         /\ <<x>> # <<v, w>> /\ <<x, y, z>> # <<v, w>>
                         /\ (<<x>> = <<v>> => x = v)
  BY ListsApart, Zenon
<1>9. a \in AdvisoriesLeft'
  BY <1>5, <1>6, Zenon DEF AdvisoriesLeft
<1>10. Announced(F) = {} => AllPaged'
  BY DEF AllPaged
<1>11. AdvisoriesOK(a)' <=>
         /\ a = <<>> =>
              /\ ~touched /\ F # {} => mine.open
              /\ mine.open => \/ mine.marker = MarkerOf(F)
                              \/ touched /\ PartOf(mine.marker, MarkerOf(F))
         /\ a # <<>> /\ a # <<c>> /\ ~touched => mine.open
         /\ a = <<>> \/ a = <<b>> => AllPaged'
         /\ a = <<l, b>> => "needs-human" \notin LabelsFor(Announced(F)) \cap mine.labels
  BY <1>6, Zenon DEF AdvisoriesOK
<1> SUFFICES AdvisoriesOK(a)'
  BY <1>9
<1>12. CASE a = <<>> /\ known = MarkerOf(F) /\ Announced(F) = {}
  <2>1. a # <<b>> /\ a # <<l, b>>
    BY <1>8, <1>12, ListsApart, Zenon
  <2>2. ~touched /\ F # {} => mine.open
    <3> SUFFICES ASSUME ~touched, NEW f \in F PROVE mine.open
      OBVIOUS
    <3>1. f.id \in Names /\ known[f.id] = f.rating
      BY <1>12, MarkerShape
    <3>2. f.rating \in Ratings /\ None \notin Ratings
      BY ScanAssumption DEF FoundOK
    <3> QED
      BY <1>2, <1>3, <3>1, <3>2
  <2>3. mine.open => \/ mine.marker = MarkerOf(F)
                     \/ touched /\ PartOf(mine.marker, MarkerOf(F))
    <3> SUFFICES ASSUME mine.open
                 PROVE  \/ mine.marker = MarkerOf(F)
                        \/ touched /\ PartOf(mine.marker, MarkerOf(F))
      OBVIOUS
    <3>1. seen.open /\ PartOf(mine.marker, seen.marker)
      BY DEF ScanInv, SeenOK
    <3>2. CASE touched
      BY <1>2, <1>12, <3>1, <3>2
    <3>3. CASE ~touched
      BY <1>2, <1>3, <1>12, <3>1, <3>3
    <3> QED
      BY <3>2, <3>3
  <2> QED
    BY <1>10, <1>11, <1>12, <2>1, <2>2, <2>3
<1>13. CASE ~seen.open /\ a = <<c>>
  <2>1. <<c>> # <<>> /\ <<c>> # <<b>> /\ <<c>> # <<l, b>>
    BY <1>7, <1>8, Zenon
  <2>2. a # <<>> /\ a = <<c>> /\ a # <<b>> /\ a # <<l, b>>
    BY <1>13, <2>1, Zenon
  <2> QED
    BY <1>11, <2>2, Zenon
<1>14. CASE seen.open /\ Announced(F) = {} /\ a = <<b>>
  <2>1. <<b>> # <<>> /\ <<b>> # <<l, b>>
    BY <1>8, Zenon
  <2>2. a # <<>> /\ a # <<l, b>>
    BY <1>14, <2>1, Zenon
  <2>3. AllPaged' /\ (~touched => mine.open)
    BY <1>3, <1>10, <1>14, Zenon
  <2> QED
    BY <1>11, <2>2, <2>3, Zenon
<1>15. CASE seen.open /\ a = <<u, l, b>>
  <2>1. a # <<>> /\ a # <<c>> /\ a # <<b>> /\ a # <<l, b>>
    <3>1. <<u, l, b>> # <<>> /\ <<u, l, b>> # <<l, b>>
      BY <1>8, Zenon
    <3>2. <<u, l, b>> # <<c>> /\ <<u, l, b>> # <<b>>
      BY <1>8, Zenon
    <3> QED
      BY <1>15, <3>1, <3>2, Zenon
  <2>2. ~touched => mine.open
    BY <1>3, <1>15, Zenon
  <2> QED
    BY <1>11, <2>1, <2>2, Zenon
<1> QED
  BY <1>5, <1>12, <1>13, <1>14, <1>15

\* A scan that ends, in a verdict or in an error, leaves a plan that is as it should be.
LEMMA DecideInv ==
  ASSUME ScanInv, run.step = "scan", NEW exit, NEW parsed, NEW looked \in BOOLEAN,
         Decide(exit, parsed, looked), UNCHANGED <<world, issue, touches, touched>>,
         faults' \in 0..MaxFaults,
         \/ looked /\ parsed = FindingsOf(Present) /\ ReachedVerdict(exit, parsed)
         \/ ~looked /\ parsed = {} /\ ~ReachedVerdict(exit, parsed)
  PROVE  ScanInv'
<1> DEFINE failed == ~looked
           F == IF failed THEN {} ELSE parsed
           A == Announced(F)
<1>0. PICK a, e : a = AdvisoriesPlan(F, failed) /\ e = ErrorPlan(failed)
  OBVIOUS
<1>1. run' = [NoRun EXCEPT !.step = "file", !.looked = looked, !.found = F,
                           !.failed = failed, !.todo = a \o e, !.announced = A]
      /\ standing' = (IF failed THEN standing
                      ELSE standing \cap UNION {f.names : f \in Paging(F)})
      /\ paged' = paged \cup PagedOf(F)
  <2>1. ~ReachedVerdict(exit, parsed) = failed
    OBVIOUS
  <2> QED
    BY <1>0, <2>1 DEF Decide
<1>2. world' = world /\ issue' = issue /\ touches' = touches /\ touched' = touched
  OBVIOUS
<1>3. /\ WorldOK /\ IssuesOK(issue) /\ RunOK /\ IssuesOK(run.seen)
      /\ touches \in 0..MaxTouches /\ paged \subseteq Names /\ standing \subseteq Names
      /\ touched \in BOOLEAN /\ (touched => standing = {})
  BY DEF ScanInv, StateOK, RunOK
<1>4. FoundOK(F) /\ (looked => F = FindingsOf(Present)) /\ (failed => F = {})
  <2>1. FoundOK(FindingsOf(Present)) /\ FoundOK({})
    BY <1>3, FindingsApart, NothingYet
  <2> QED
    BY <2>1
<1>5. known \in Marker /\ (run.seen["advisories"].open => known = run.seen["advisories"].marker)
      /\ (~run.seen["advisories"].open => \A n \in Names : known[n] = None)
  BY <1>3, KnownShape
<1>6. \A n \in Names : Pages(known[n]) => n \in paged
  <2>1. SaidIsPaged(run.seen["advisories"])
    BY DEF ScanInv, SeenOK
  <2> QED
    BY <1>5, <2>1, PagesRated DEF SaidIsPaged
<1>7. \A f \in F : /\ f.id \in f.names /\ f.names \subseteq Names /\ f.rating \in Ratings
  BY <1>4 DEF FoundOK
<1>8. A \subseteq F
  BY DEF Announced, Added, Escalated, Rerated
<1> HIDE DEF F
<1>9. ASSUME NEW f \in Paging(F)
      PROVE  f \in A \/ f.names \subseteq paged'
  <2> SUFFICES ASSUME f \notin A PROVE f.names \subseteq paged'
    OBVIOUS
  <2>1. f \in F /\ Pages(f.rating)
    BY DEF Paging
  <2>2. f \notin Added(F) /\ f \notin Escalated(F)
    BY DEF Announced
  <2>3. FiledAt(f) # None
    BY <2>1, <2>2 DEF Added
  <2>4. Pages(FiledAt(f))
    <3>1. CASE FiledAt(f) = f.rating
      BY <2>1, <3>1
    <3>2. CASE FiledAt(f) # f.rating
      <4>1. f \in Rerated(F)
        BY <2>1, <2>3, <3>2 DEF Rerated
      <4> QED
        BY <2>1, <2>2, <4>1 DEF Escalated
    <3> QED
      BY <3>1, <3>2
  <2>5. PICK n \in FiledAs(f) : FiledAt(f) = known[n]
    BY <1>5, <1>7, <2>1, <2>3, FiledShape
  <2>6. n \in f.names /\ n \in paged
    BY <1>6, <1>7, <2>1, <2>4, <2>5 DEF FiledAs
  <2>7. f.names \subseteq PagedOf(F)
    BY <2>6 DEF PagedOf
  <2> QED
    BY <1>1, <2>7
<1>10. ASSUME NEW f \in Paging(A)
       PROVE  f.names \cap standing' = {}
  <2> SUFFICES ASSUME NEW n \in f.names, n \in standing' PROVE FALSE
    OBVIOUS
  <2>1. n \in standing
    BY <1>1
  <2>2. f \in A /\ f \in F /\ n \in Names
    BY <1>7, <1>8 DEF Paging
  <2>3. issue["advisories"].open /\ Pages(issue["advisories"].marker[n]) /\ run.seen = issue
    BY <1>3, <2>1 DEF ScanInv, StandingOK, SeenOK
  <2>4. Pages(known[n])
    BY <1>5, <2>3
  <2>5. Pages(FiledAt(f))
    BY <1>5, <1>7, <2>2, <2>4, FiledShape
  <2>6. f \notin Added(F)
    BY <2>5, PagesRated DEF Added
  <2>7. f \notin Escalated(F)
    BY <2>5 DEF Escalated
  <2> QED
    BY <2>2, <2>6, <2>7 DEF Announced
<1>11. PagedOf(F) \subseteq Names
  BY <1>7 DEF PagedOf, Paging
<1>12. /\ run' = [step |-> "file", seen |-> NoIssue, looked |-> looked, found |-> F,
                  failed |-> failed, todo |-> a \o e, announced |-> A, paged |-> {}]
  BY <1>1 DEF NoRun
<1> HIDE DEF A
<1>13. /\ run'.step = "file" /\ run'.seen = NoIssue /\ run'.looked = looked /\ run'.found = F
       /\ run'.failed = failed /\ run'.todo = a \o e /\ run'.announced = A /\ run'.paged = {}
  BY <1>12
<1>14. RunOK'
  <2>1. FindingsOf(Present)' = FindingsOf(Present)
    BY <1>2, SameWorld
  <2>2. IssuesOK(run'.seen) /\ FoundOK(run'.found)
    BY <1>4, <1>13, NothingYet, Zenon
  <2> QED
    BY <1>4, <1>8, <1>12, <1>13, <2>1, <2>2 DEF RunOK
<1>15. StateOK'
  <2>1. WorldOK' /\ IssuesOK(issue)'
    BY <1>2, <1>3 DEF WorldOK
  <2>2. paged' \subseteq Names /\ standing' \subseteq Names /\ (touched' => standing' = {})
    BY <1>1, <1>2, <1>3, <1>11
  <2> QED
    BY <1>2, <1>3, <1>14, <2>1, <2>2 DEF StateOK
<1>16. SaidIsPaged(issue["advisories"])'
  <2>1. SaidIsPaged(issue["advisories"])
    BY DEF ScanInv
  <2> QED
    BY <1>1, <1>2, <2>1 DEF SaidIsPaged
<1>17. a \in AdvisoriesLeft' /\ AdvisoriesOK(a)'
  <2>1. CASE failed
    <3>1. a = <<>>
      BY <1>0, <1>4, <1>5, <2>1, FailedPlan
    <3>2. <<ToAdvisories("label")', ToAdvisories("body")'>> # <<>>
      BY ListsApart, Zenon
    <3>3. a \in AdvisoriesLeft'
      BY <3>1 DEF AdvisoriesLeft
    <3>4. AdvisoriesOK(a)'
      BY <1>13, <2>1, <3>1, <3>2, Zenon DEF AdvisoriesOK
    <3> QED
      BY <3>3, <3>4
  <2>2. CASE ~failed
    BY <1>0, <1>2, <1>4, <1>9, <1>13, <2>2, VerdictPlanOK DEF A
  <2> QED
    BY <2>1, <2>2
<1>18. e \in ErrorLeft' /\ ErrorOK(e)'
  <2>1. e \in ErrorLeft /\ ErrorOK(e)'
    <3>1. failed \in BOOLEAN /\ run'.failed = failed
      BY <1>13
    <3> HIDE DEF failed
    <3> QED
      BY <1>0, <1>2, <3>1, ErrorPlanOK
  <2> QED
    BY <2>1 DEF ErrorLeft, ToError
<1>19. TodoOK'
  BY <1>13, <1>17, <1>18 DEF TodoOK
<1>20. NewsOK'
  BY <1>9, <1>10, <1>13 DEF NewsOK
<1>21. StandingOK'
  <2> SUFFICES ASSUME NEW n \in standing'
               PROVE  /\ issue'["advisories"].open /\ Pages(issue'["advisories"].marker[n])
                      /\ ~failed => \E f \in Paging(F) : n \in f.names
    BY <1>13 DEF StandingOK
  <2>1. n \in standing
    BY <1>1
  <2>2. issue["advisories"].open /\ Pages(issue["advisories"].marker[n])
    BY <2>1 DEF ScanInv, StandingOK
  <2> QED
    BY <1>1, <1>2, <2>2
<1> QED
  BY <1>13, <1>15, <1>16, <1>19, <1>20, <1>21 DEF ScanInv, SeenOK, HeartbeatMeansFiled

\* The scan ends with a report, whose findings are what they should be.
LEMMA ScanInvStep ==
  ASSUME ScanInv, Scan
  PROVE  ScanInv'
<1>1. WorldOK /\ faults \in 0..MaxFaults
  BY DEF ScanInv, StateOK
<1>2. PICK printed \in SetToSeqs(Present) :
        Decide(IF Present = {} THEN 0 ELSE 1, Parse(printed), TRUE)
  BY DEF Scan
<1>3. Parse(printed) = FindingsOf(Present)
  BY <1>1, ParseFinds
<1>4. PICK exit : exit = (IF Present = {} THEN 0 ELSE 1)
  OBVIOUS
<1>5. PICK parsed : parsed = FindingsOf(Present)
  OBVIOUS
<1>6. Decide(exit, parsed, TRUE)
  BY <1>2, <1>3, <1>4, <1>5
<1>7. Present = {} <=> FindingsOf(Present) = {}
  <2>1. Present = {} => FindingsOf(Present) = {}
    BY NothingFound
  <2>2. ASSUME NEW g \in Present
        PROVE  FindingsOf(Present) # {}
    BY ProblemOf DEF FindingsOf
  <2> QED
    BY <2>1, <2>2
<1>8. ReachedVerdict(exit, parsed)
  BY <1>4, <1>5, <1>7 DEF ReachedVerdict
<1>9. run.step = "scan" /\ UNCHANGED <<world, issue, touches, touched>> /\ faults' = faults
  BY DEF Scan
<1> QED
  BY <1>1, <1>5, <1>6, <1>8, <1>9, DecideInv

\* The scan ends in an error.
LEMMA ScanFailsInvStep ==
  ASSUME ScanInv, ScanFails
  PROVE  ScanInv'
<1>1. PICK exit \in {1, 127} : Decide(exit, {}, FALSE)
  BY DEF ScanFails
<1>2. ~ReachedVerdict(exit, {})
  BY DEF ReachedVerdict
<1>3. run.step = "scan" /\ UNCHANGED <<world, issue, touches, touched>>
  BY DEF ScanFails
<1>4. faults' \in 0..MaxFaults
  <2>1. faults \in 0..MaxFaults
    BY DEF ScanInv, StateOK
  <2>2. faults < MaxFaults /\ faults' = faults + 1
    BY DEF ScanFails
  <2> QED
    BY <2>1, <2>2, ScanAssumption
<1> QED
  BY <1>1, <1>2, <1>3, <1>4, DecideInv

\* What OSV knows changes while no plan is being carried out.
LEMMA WorldChangesInvStep ==
  ASSUME ScanInv, WorldChanges
  PROVE  ScanInv'
<1>1. /\ run.step # "file"
      /\ UNCHANGED <<issue, run, faults, touches, paged, standing, touched>>
  BY DEF WorldChanges
<1>2. PICK g \in Groups, e \in Evidence \cup {None} : world' = [world EXCEPT ![g] = e]
  BY DEF WorldChanges
<1>3. WorldOK'
  BY <1>2 DEF ScanInv, StateOK, WorldOK
<1>4. RunOK'
  <2>1. RunOK
    BY DEF ScanInv, StateOK
  <2> QED
    BY <1>1, <2>1 DEF RunOK
<1>5. StateOK'
  BY <1>1, <1>3, <1>4 DEF ScanInv, StateOK
<1>6. SeenOK' /\ SaidIsPaged(issue["advisories"])'
  BY <1>1 DEF ScanInv, SeenOK, SaidIsPaged
<1>7. TodoOK' /\ NewsOK'
  BY <1>1 DEF TodoOK, NewsOK
<1>8. StandingOK' /\ HeartbeatMeansFiled'
  BY <1>1 DEF ScanInv, StandingOK, HeartbeatMeansFiled
<1> QED
  BY <1>5, <1>6, <1>7, <1>8 DEF ScanInv

\* A run reads the issues as they are.
LEMMA BeginInvStep ==
  ASSUME ScanInv, Begin
  PROVE  ScanInv'
<1>1. /\ run' = [NoRun EXCEPT !.step = "scan", !.seen = issue]
      /\ touched' = FALSE /\ UNCHANGED <<world, issue, faults, touches, paged, standing>>
      /\ run.step # "file"
  BY DEF Begin
<1>2. run' = [step |-> "scan", seen |-> issue, looked |-> FALSE, found |-> {},
              failed |-> FALSE, todo |-> <<>>, announced |-> {}, paged |-> {}]
  BY <1>1 DEF NoRun
<1>3. /\ WorldOK /\ IssuesOK(issue) /\ SaidIsPaged(issue["advisories"])
      /\ faults \in 0..MaxFaults /\ touches \in 0..MaxTouches
      /\ paged \subseteq Names /\ standing \subseteq Names
  BY DEF ScanInv, StateOK
<1>4. RunOK'
  BY <1>2, <1>3, NothingYet DEF RunOK, Paging
<1>5. StateOK'
  BY <1>1, <1>3, <1>4 DEF StateOK, WorldOK
<1>6. SaidIsPaged(issue["advisories"])'
  BY <1>1, <1>3 DEF SaidIsPaged
<1>7. SeenOK'
  BY <1>1, <1>2, <1>3 DEF SeenOK, SaidIsPaged, PartOf
<1>8. run'.step = "scan"
  BY <1>2
<1>9. StandingOK'
  BY <1>1, <1>8 DEF ScanInv, StandingOK
<1> QED
  BY <1>5, <1>6, <1>7, <1>8, <1>9 DEF ScanInv, TodoOK, NewsOK, HeartbeatMeansFiled

\* What a person does to an issue: it says no more than it did; one that is open was open,
\* or is reopened between two runs, and what it says then has paged.
LEMMA TouchShape ==
  ASSUME IssuesOK(issue), NEW t \in Titles, Touch(t)
  PROVE  LET mine == issue["advisories"]
             mine2 == issue'["advisories"]
         IN  /\ IssuesOK(issue') /\ mine2.labels = mine.labels
             /\ PartOf(mine2.marker, mine.marker)
             /\ paged \subseteq paged' /\ paged' \subseteq paged \cup Names
             /\ run.step \in {"scan", "file"} => paged' = paged /\ (mine2.open => mine.open)
             /\ mine2.open /\ ~mine.open =>
                  \A n \in Names : Pages(mine2.marker[n]) => n \in paged'
<1>1. issue = [x \in Titles |-> issue[x]]
  BY DEF IssuesOK
<1>2. issue["advisories"] \in IssueWith(Marker) /\ issue["error"] \in IssueWith(BOOLEAN)
  BY DEF IssuesOK
<1>3. "advisories" \in Titles /\ "error" \in Titles /\ "advisories" # "error"
      /\ (t = "advisories" \/ t = "error")
  BY DEF Titles
<1>4. \A m : PartOf(m, m)
  BY DEF PartOf
<1>5. ASSUME NEW to \in BOOLEAN, issue' = [issue EXCEPT ![t].open = to]
      PROVE  /\ IssuesOK(issue')
             /\ issue'["advisories"] =
                  IF t = "advisories" THEN [issue["advisories"] EXCEPT !.open = to]
                  ELSE issue["advisories"]
             /\ issue'["advisories"].labels = issue["advisories"].labels
             /\ issue'["advisories"].marker = issue["advisories"].marker
             /\ t = "advisories" => issue'["advisories"].open = to
  <2>1. \A x \in Titles : issue'[x] = IF x = t THEN [issue[x] EXCEPT !.open = to] ELSE issue[x]
    BY <1>1, <1>5
  <2>2. issue' = [x \in Titles |-> issue'[x]]
    BY <1>1, <1>5
  <2>3. issue'["advisories"] \in IssueWith(Marker) /\ issue'["error"] \in IssueWith(BOOLEAN)
    BY <1>2, <1>3, <1>5, <2>1 DEF IssueWith
  <2> QED
    BY <1>2, <1>3, <2>1, <2>2, <2>3 DEF IssuesOK, IssueWith
<1>6. CASE issue' = [issue EXCEPT ![t].open = FALSE] /\ UNCHANGED paged
  BY <1>2, <1>3, <1>4, <1>5, <1>6
<1>7. CASE Reopen(t)
  <2>1. /\ run.step \notin {"scan", "file"} /\ issue' = [issue EXCEPT ![t].open = TRUE]
        /\ paged' = IF t = "error" THEN paged
                    ELSE paged \cup {n \in Names : Pages(issue[t].marker[n])}
    BY <1>7 DEF Reopen
  <2> QED
    BY <1>3, <1>4, <1>5, <2>1
<1>8. ASSUME UNCHANGED paged, issue[t].open, NEW part \in PartsOf(t, issue[t].marker),
             issue' = [issue EXCEPT ![t].marker = part]
      PROVE  /\ IssuesOK(issue')
             /\ issue'["advisories"].labels = issue["advisories"].labels
             /\ issue'["advisories"].open = issue["advisories"].open
             /\ PartOf(issue'["advisories"].marker, issue["advisories"].marker)
  <2>1. \A x \in Titles : issue'[x] = IF x = t THEN [issue[x] EXCEPT !.marker = part] ELSE issue[x]
    BY <1>1, <1>8
  <2>2. issue' = [x \in Titles |-> issue'[x]]
    BY <1>1, <1>8
  <2>3. CASE t = "error"
    <3>1. part \in BOOLEAN
      BY <1>8, <2>3 DEF PartsOf
    <3>2. issue'["error"] \in IssueWith(BOOLEAN)
      BY <1>2, <1>3, <2>1, <2>3, <3>1 DEF IssueWith
    <3> QED
      BY <1>2, <1>3, <1>4, <2>1, <2>2, <2>3, <3>2 DEF IssuesOK
  <2>4. CASE t = "advisories"
    <3>1. PICK kept \in SUBSET Names :
            part = [n \in Names |-> IF n \in kept THEN issue["advisories"].marker[n] ELSE None]
      BY <1>3, <1>8, <2>4 DEF PartsOf
    <3>2. issue["advisories"].marker \in [Names -> Ratings \cup {None}]
      BY <1>2 DEF IssueWith, Marker
    <3>3. part \in Marker /\ PartOf(part, issue["advisories"].marker)
      BY <3>1, <3>2 DEF Marker, PartOf
    <3>4. /\ issue'["advisories"] = [issue["advisories"] EXCEPT !.marker = part]
          /\ issue'["error"] = issue["error"]
      BY <1>3, <2>1, <2>4
    <3>5. /\ issue'["advisories"] \in IssueWith(Marker)
          /\ issue'["advisories"].marker = part
          /\ issue'["advisories"].labels = issue["advisories"].labels
          /\ issue'["advisories"].open = issue["advisories"].open
      BY <1>2, <3>3, <3>4 DEF IssueWith
    <3> QED
      BY <1>2, <2>2, <3>3, <3>4, <3>5 DEF IssuesOK
  <2> QED
    BY <1>3, <2>3, <2>4
<1>9. CASE /\ issue[t].open /\ UNCHANGED paged
           /\ \E part \in PartsOf(t, issue[t].marker) : issue' = [issue EXCEPT ![t].marker = part]
  BY <1>2, <1>8, <1>9
<1>10. \/ issue' = [issue EXCEPT ![t].open = FALSE] /\ UNCHANGED paged
       \/ Reopen(t)
       \/ /\ issue[t].open /\ UNCHANGED paged
          /\ \E part \in PartsOf(t, issue[t].marker) : issue' = [issue EXCEPT ![t].marker = part]
  BY DEF Touch, Edit
<1> QED
  BY <1>6, <1>7, <1>9, <1>10

\* A person changes an issue: less is asked of the run then, and nothing stands.
LEMMA TouchInvStep ==
  ASSUME ScanInv, NEW t \in Titles, Touch(t)
  PROVE  ScanInv'
<1> DEFINE mine == issue["advisories"]
           mine2 == issue'["advisories"]
<1>1. /\ WorldOK /\ IssuesOK(issue) /\ RunOK /\ paged \subseteq Names
      /\ faults \in 0..MaxFaults /\ touches \in 0..MaxTouches
  BY DEF ScanInv, StateOK
<1>2. /\ touches < MaxTouches /\ touches' = touches + 1 /\ touched' = TRUE /\ standing' = {}
      /\ UNCHANGED <<world, run, faults>>
  BY DEF Touch
<1>3. /\ IssuesOK(issue') /\ mine2.labels = mine.labels
      /\ PartOf(mine2.marker, mine.marker)
      /\ paged \subseteq paged' /\ paged' \subseteq paged \cup Names
      /\ run.step \in {"scan", "file"} => paged' = paged /\ (mine2.open => mine.open)
      /\ mine2.open /\ ~mine.open => \A n \in Names : Pages(mine2.marker[n]) => n \in paged'
  BY <1>1, TouchShape
<1>4. RunOK'
  <2>1. FindingsOf(Present)' = FindingsOf(Present)
    BY <1>2, SameWorld
  <2> QED
    BY <1>1, <1>2, <2>1 DEF RunOK
<1>5. StateOK'
  <2>1. touches' \in 0..MaxTouches
    BY <1>1, <1>2, ScanAssumption
  <2>2. WorldOK' /\ IssuesOK(issue)'
    BY <1>1, <1>2, <1>3 DEF WorldOK
  <2>3. paged' \subseteq Names
    BY <1>1, <1>3
  <2> QED
    BY <1>1, <1>2, <1>4, <2>1, <2>2, <2>3 DEF StateOK
<1>6. \A n \in Names : Pages(mine2.marker[n]) => mine2.marker[n] = mine.marker[n]
  BY <1>3, PagesRated DEF PartOf
<1>7. SaidIsPaged(issue["advisories"])'
  <2>1. SaidIsPaged(mine)
    BY DEF ScanInv
  <2> SUFFICES ASSUME mine2.open, NEW n \in Names, Pages(mine2.marker[n]) PROVE n \in paged'
    BY DEF SaidIsPaged
  <2> QED
    BY <1>3, <1>6, <2>1 DEF SaidIsPaged
<1>8. SeenOK'
  <2> SUFFICES ASSUME run.step = "scan" PROVE SeenOK'
    BY <1>2 DEF SeenOK
  <2> DEFINE seen == run.seen["advisories"]
  <2>1. (mine.open => seen.open /\ PartOf(mine.marker, seen.marker)) /\ SaidIsPaged(seen)
    BY DEF ScanInv, SeenOK
  <2>2. paged' = paged /\ (mine2.open => mine.open)
    BY <1>3
  <2>3. mine2.open => seen.open /\ PartOf(mine2.marker, seen.marker)
    BY <1>3, <2>1, <2>2 DEF PartOf
  <2> QED
    BY <1>2, <2>1, <2>2, <2>3 DEF SeenOK, SaidIsPaged
<1>9. TodoOK'
  <2> SUFFICES ASSUME run.step = "file" PROVE TodoOK'
    BY <1>2 DEF TodoOK
  <2>1. PICK a \in AdvisoriesLeft, e \in ErrorLeft :
          run.todo = a \o e /\ AdvisoriesOK(a) /\ ErrorOK(e)
    BY DEF ScanInv, TodoOK
  <2>2. \A d : ToAdvisories(d)' = ToAdvisories(d)
    BY <1>2 DEF ToAdvisories
  <2>3. a \in AdvisoriesLeft' /\ e \in ErrorLeft'
    BY <2>1, <2>2 DEF AdvisoriesLeft, ErrorLeft, ToError
  <2>4. ErrorOK(e)'
    BY <1>2, <2>1 DEF ErrorOK, ToError
  <2>5. AdvisoriesOK(a)'
    <3>1. paged' = paged /\ (mine2.open => mine.open)
      BY <1>3
    <3>2. AllPaged' <=> AllPaged
      BY <1>2, <3>1 DEF AllPaged
    <3>3. mine.marker = MarkerOf(run.found) \/ PartOf(mine.marker, MarkerOf(run.found))
            => PartOf(mine2.marker, MarkerOf(run.found))
      BY <1>3 DEF PartOf
    <3> QED
      BY <1>2, <1>3, <2>1, <2>2, <3>1, <3>2, <3>3 DEF AdvisoriesOK
  <2> QED
    BY <1>2, <2>1, <2>3, <2>4, <2>5 DEF TodoOK
<1>10. NewsOK'
  BY <1>2, <1>3 DEF ScanInv, NewsOK
<1> QED
  BY <1>2, <1>5, <1>7, <1>8, <1>9, <1>10 DEF ScanInv, StandingOK, HeartbeatMeansFiled

\* A run dies: what still stands is in the marker, under the key it has now.
LEMMA DieInvStep ==
  ASSUME ScanInv, Die
  PROVE  ScanInv'
<1>1. /\ run' = [NoRun EXCEPT !.step = "dead"] /\ faults < MaxFaults /\ faults' = faults + 1
      /\ standing' = (IF run.step = "file" /\ ~run.failed
                      THEN standing \cap {f.id : f \in run.found} ELSE standing)
      /\ UNCHANGED <<world, issue, touches, paged, touched>>
  BY DEF Die
<1>2. run' = [step |-> "dead", seen |-> NoIssue, looked |-> FALSE, found |-> {},
              failed |-> FALSE, todo |-> <<>>, announced |-> {}, paged |-> {}]
  BY <1>1 DEF NoRun
<1>3. /\ WorldOK /\ IssuesOK(issue) /\ RunOK /\ SaidIsPaged(issue["advisories"])
      /\ faults \in 0..MaxFaults /\ touches \in 0..MaxTouches /\ touched \in BOOLEAN
      /\ paged \subseteq Names /\ standing \subseteq Names /\ (touched => standing = {})
  BY DEF ScanInv, StateOK
<1>4. RunOK'
  BY <1>2, NothingYet DEF RunOK, Paging
<1>5. StateOK'
  <2>1. faults' \in 0..MaxFaults
    BY <1>1, <1>3, ScanAssumption
  <2>2. standing' \subseteq standing
    BY <1>1
  <2> QED
    BY <1>1, <1>3, <1>4, <2>1, <2>2 DEF StateOK, WorldOK
<1>6. SaidIsPaged(issue["advisories"])'
  BY <1>1, <1>3 DEF SaidIsPaged
<1>7. run'.step = "dead"
  BY <1>2
<1>8. StandingOK'
  <2> SUFFICES ASSUME NEW n \in standing'
               PROVE  issue["advisories"].open /\ Pages(issue["advisories"].marker[n])
    BY <1>1, <1>7 DEF StandingOK
  <2>1. /\ n \in standing /\ issue["advisories"].open
        /\ \/ Pages(issue["advisories"].marker[n])
           \/ run.step = "file" /\ ~run.failed
                /\ issue["advisories"].marker = MarkerOf(run.found)
        /\ run.step = "file" /\ ~run.failed => \E f \in Paging(run.found) : n \in f.names
    BY <1>1 DEF ScanInv, StandingOK
  <2>2. CASE Pages(issue["advisories"].marker[n])
    BY <2>1, <2>2
  <2>3. CASE run.step = "file" /\ ~run.failed
               /\ issue["advisories"].marker = MarkerOf(run.found)
    <3>1. PICK f \in Paging(run.found) : n \in f.names
      BY <2>1, <2>3
    <3>2. PICK g \in run.found : n = g.id
      BY <1>1, <2>3
    <3>3. FoundOK(run.found) /\ f \in run.found /\ Pages(f.rating)
      BY <1>3 DEF RunOK, Paging
    <3>4. f = g
      BY <3>1, <3>2, <3>3 DEF FoundOK
    <3>5. MarkerOf(run.found)[n] = f.rating
      BY <3>2, <3>3, <3>4, MarkerShape
    <3> QED
      BY <2>1, <2>3, <3>3, <3>5
  <2> QED
    BY <2>1, <2>2, <2>3
<1> QED
  BY <1>5, <1>6, <1>7, <1>8 DEF ScanInv, SeenOK, TodoOK, NewsOK, HeartbeatMeansFiled

\* The calls a plan may hold.
PlanCalls ==
  {ToAdvisories("create"), ToAdvisories("body"), ToAdvisories("label"), ToAdvisories("unlabel"),
   ToError("create"), ToError("body"), ToError("label"), ToError("unlabel"),
   Call("close", "error", {}, FALSE)}

\* Both parts of a plan are lists of calls.
LEMMA PlanParts ==
  ASSUME NEW a \in AdvisoriesLeft, NEW e \in ErrorLeft
  PROVE  a \in Seq(PlanCalls) /\ e \in Seq(PlanCalls)
<1>1. \A S : \A x, y, z \in S : /\ <<>> \in Seq(S) /\ <<x>> \in Seq(S) /\ <<x, y>> \in Seq(S)
                                /\ <<x, y, z>> \in Seq(S)
  OBVIOUS
<1>2. PICK ac, ab, al, au : /\ ac = ToAdvisories("create") /\ ab = ToAdvisories("body")
                            /\ al = ToAdvisories("label") /\ au = ToAdvisories("unlabel")
  OBVIOUS
<1>3. PICK ec, eb, el, eu, ex : /\ ec = ToError("create") /\ eb = ToError("body")
                                /\ el = ToError("label") /\ eu = ToError("unlabel")
                                /\ ex = Call("close", "error", {}, FALSE)
  OBVIOUS
<1>4. /\ ac \in PlanCalls /\ ab \in PlanCalls /\ al \in PlanCalls /\ au \in PlanCalls
      /\ ec \in PlanCalls /\ eb \in PlanCalls /\ el \in PlanCalls /\ eu \in PlanCalls
      /\ ex \in PlanCalls
  BY <1>2, <1>3 DEF PlanCalls
<1>5. a \in {<<>>, <<ac>>, <<ab>>, <<al, ab>>, <<au, al, ab>>}
  BY <1>2 DEF AdvisoriesLeft
<1>6. e \in {<<>>, <<ec>>, <<eb>>, <<el, eb>>, <<eu, el, eb>>, <<ex>>}
  BY <1>3 DEF ErrorLeft
<1>7. a \in Seq(PlanCalls)
  BY <1>1, <1>4, <1>5, Zenon
<1>8. e \in Seq(PlanCalls)
  BY <1>1, <1>4, <1>6, Zenon
<1> QED
  BY <1>7, <1>8

\* Taking the first of two lists' calls.
LEMMA FirstOf ==
  ASSUME NEW S, NEW e \in Seq(S)
  PROVE  /\ <<>> \o e = e
         /\ \A s \in Seq(S) : s \o e = <<>> => s = <<>> /\ e = <<>>
         /\ \A x \in S : Head(<<x>> \o e) = x /\ Tail(<<x>> \o e) = e
         /\ \A x, y \in S : Head(<<x, y>> \o e) = x /\ Tail(<<x, y>> \o e) = <<y>> \o e
         /\ \A x, y, z \in S :
              Head(<<x, y, z>> \o e) = x /\ Tail(<<x, y, z>> \o e) = <<y, z>> \o e
<1>1. <<>> \o e = e
  OBVIOUS
<1>2. ASSUME NEW s \in Seq(S), s \o e = <<>>
      PROVE  s = <<>> /\ e = <<>>
  <2>1. Len(s \o e) = Len(s) + Len(e) /\ Len(s) \in Nat /\ Len(e) \in Nat
    OBVIOUS
  <2>2. Len(s) = 0 /\ Len(e) = 0
    BY <1>2, <2>1
  <2> QED
    BY <2>2
<1>3. \A x \in S : Head(<<x>> \o e) = x /\ Tail(<<x>> \o e) = e
  OBVIOUS
<1>4. \A x, y \in S : Head(<<x, y>> \o e) = x /\ Tail(<<x, y>> \o e) = <<y>> \o e
  OBVIOUS
<1>5. \A x, y, z \in S : Head(<<x, y, z>> \o e) = x /\ Tail(<<x, y, z>> \o e) = <<y, z>> \o e
  OBVIOUS
<1> QED
  BY <1>1, <1>2, <1>3, <1>4, <1>5

\* A run finishes: with no call left, what it found is filed and has paged.
LEMMA FinishInvStep ==
  ASSUME ScanInv, Finish
  PROVE  ScanInv'
<1> DEFINE F == run.found
           mine == issue["advisories"]
<1>1. /\ run.step = "file" /\ run.todo = <<>>
      /\ run' = [run EXCEPT !.step = "done", !.announced = {}, !.paged = {}]
      /\ IF run.failed THEN UNCHANGED <<paged, standing>>
         ELSE /\ paged' = PagedOf(F)
              /\ standing' = IF touched THEN {} ELSE {f.id : f \in Paging(F)}
      /\ UNCHANGED <<world, issue, faults, touches, touched>>
  BY DEF Finish
<1>2. /\ WorldOK /\ IssuesOK(issue) /\ RunOK /\ SaidIsPaged(mine)
      /\ faults \in 0..MaxFaults /\ touches \in 0..MaxTouches /\ touched \in BOOLEAN
      /\ paged \subseteq Names /\ standing \subseteq Names /\ (touched => standing = {})
  BY DEF ScanInv, StateOK
<1>3. /\ run = [step |-> run.step, seen |-> run.seen, looked |-> run.looked, found |-> F,
                failed |-> run.failed, todo |-> run.todo, announced |-> run.announced,
                paged |-> run.paged]
      /\ IssuesOK(run.seen) /\ FoundOK(F)
      /\ run.failed = ~run.looked /\ run.looked \in BOOLEAN /\ (run.failed => F = {})
  BY <1>1, <1>2 DEF RunOK
<1>4. run' = [step |-> "done", seen |-> run.seen, looked |-> run.looked, found |-> F,
              failed |-> run.failed, todo |-> <<>>, announced |-> {}, paged |-> {}]
  BY <1>1, <1>3
<1>5. AdvisoriesOK(<<>>) /\ ErrorOK(<<>>)
  <2>1. PICK a \in AdvisoriesLeft, e \in ErrorLeft :
          run.todo = a \o e /\ AdvisoriesOK(a) /\ ErrorOK(e)
    BY <1>1 DEF ScanInv, TodoOK
  <2>2. a \in Seq(PlanCalls) /\ e \in Seq(PlanCalls)
    BY PlanParts
  <2>3. a = <<>> /\ e = <<>>
    BY <1>1, <2>1, <2>2, FirstOf
  <2> QED
    BY <2>1, <2>3
<1>6. /\ ~run.failed => /\ ~touched /\ F # {} => mine.open
                        /\ mine.open => \/ mine.marker = MarkerOf(F)
                                        \/ touched /\ PartOf(mine.marker, MarkerOf(F))
                        /\ AllPaged
      /\ ~touched => issue["error"].open = run.failed
  BY <1>5 DEF AdvisoriesOK, ErrorOK
<1>7. \A f \in F : f.id \in f.names /\ f.names \subseteq Names
  BY <1>3 DEF FoundOK
<1>8. ASSUME NEW f \in Paging(F), ~run.failed
      PROVE  f.names \subseteq PagedOf(F) /\ f.names \cap PagedOf(F) # {}
  <2>1. f.names \subseteq paged /\ f.id \in f.names
    BY <1>6, <1>7, <1>8 DEF AllPaged, Paging
  <2>2. f.names \cap paged # {}
    BY <2>1
  <2> QED
    BY <2>1, <2>2 DEF PagedOf
<1>9. RunOK'
  <2>1. run'.step = "done"
    BY <1>4
  <2> QED
    BY <1>3, <1>4, <2>1 DEF RunOK, Paging
<1>10. StateOK'
  <2>1. paged' \subseteq Names /\ standing' \subseteq Names
    BY <1>1, <1>2, <1>7 DEF PagedOf, Paging
  <2>2. touched' => standing' = {}
    BY <1>1, <1>2
  <2> QED
    BY <1>1, <1>2, <1>9, <2>1, <2>2 DEF StateOK, WorldOK
<1>11. SaidIsPaged(issue["advisories"])'
  <2>1. CASE run.failed
    BY <1>1, <1>2, <2>1 DEF SaidIsPaged
  <2>2. CASE ~run.failed
    <3> SUFFICES ASSUME mine.open, NEW n \in Names, Pages(mine.marker[n])
                 PROVE  n \in PagedOf(F)
      BY <1>1, <2>2 DEF SaidIsPaged
    <3>1. mine.marker = MarkerOf(F) \/ PartOf(mine.marker, MarkerOf(F))
      BY <1>6, <2>2
    <3>2. mine.marker[n] = MarkerOf(F)[n]
      BY <3>1, PagesRated DEF PartOf
    <3>3. PICK f \in F : f.id = n /\ MarkerOf(F)[n] = f.rating
      BY <1>3, <3>2, PagesRated, MarkerShape
    <3>4. f \in Paging(F) /\ n \in f.names
      BY <1>7, <3>2, <3>3 DEF Paging
    <3> QED
      BY <1>8, <2>2, <3>4
  <2> QED
    BY <2>1, <2>2
<1>12. run'.step = "done" /\ run'.failed = run.failed /\ run'.looked = run.looked
       /\ run'.found = F
  BY <1>4
<1>13. StandingOK'
  <2> SUFFICES ASSUME NEW n \in standing'
               PROVE  mine.open /\ Pages(mine.marker[n])
    BY <1>1, <1>12 DEF StandingOK
  <2>1. CASE run.failed
    BY <1>1, <2>1 DEF ScanInv, StandingOK
  <2>2. CASE ~run.failed
    <3>1. ~touched
      BY <1>1, <2>2
    <3>2. PICK f \in Paging(F) : n = f.id
      BY <1>1, <2>2, <3>1
    <3>3. f \in F /\ Pages(f.rating)
      BY <3>2 DEF Paging
    <3>4. mine.open /\ mine.marker = MarkerOf(F)
      BY <1>6, <2>2, <3>1, <3>3
    <3>5. MarkerOf(F)[n] = f.rating
      BY <1>3, <3>2, <3>3, MarkerShape
    <3> QED
      BY <3>3, <3>4, <3>5
  <2> QED
    BY <2>1, <2>2
<1>14. HeartbeatMeansFiled'
  <2> SUFFICES ASSUME ~touched
               PROVE  IF run.failed THEN issue["error"].open
                      ELSE /\ run.looked /\ ~issue["error"].open
                           /\ F # {} => mine.open
                           /\ mine.open =>
                                \A n \in Names :
                                  mine.marker[n] = IF \E f \in F : f.id = n
                                                   THEN (CHOOSE f \in F : f.id = n).rating ELSE None
                           /\ \A f \in F : Pages(f.rating) => f.names \cap paged' # {}
    BY <1>1, <1>12 DEF HeartbeatMeansFiled
  <2>1. CASE run.failed
    BY <1>6, <2>1
  <2>2. CASE ~run.failed
    <3>1. mine.open => mine.marker = MarkerOf(F)
      BY <1>6, <2>2
    <3>2. \A n \in Names : MarkerOf(F)[n] = IF \E f \in F : f.id = n
                                            THEN (CHOOSE f \in F : f.id = n).rating ELSE None
      BY DEF MarkerOf
    <3>3. \A f \in F : Pages(f.rating) => f.names \cap paged' # {}
      BY <1>1, <1>8, <2>2 DEF Paging
    <3>4. run.looked /\ ~issue["error"].open /\ (F # {} => mine.open)
      BY <1>3, <1>6, <2>2
    <3> QED
      BY <2>2, <3>1, <3>2, <3>3, <3>4
  <2> QED
    BY <2>1, <2>2
<1> QED
  BY <1>10, <1>11, <1>12, <1>13, <1>14 DEF ScanInv, SeenOK, TodoOK, NewsOK

\* What a call changes: the issue it is made on, as its kind says.
LEMMA CallEffect ==
  ASSUME IssuesOK(issue), Apply, NEW call, call = Head(run.todo), call.on \in Titles,
         call.labels \subseteq {"needs-human", "needs-capital"},
         call.on = "error" => call.marker \in BOOLEAN,
         call.on = "advisories" => call.marker \in Marker,
         call.do \in {"create", "unlabel", "label", "body", "close"}
  PROVE  LET old == issue[call.on]
             new == issue'[call.on]
         IN  /\ IssuesOK(issue')
             /\ \A t \in Titles : t # call.on => issue'[t] = issue[t]
             /\ call.do = "create" => new.open /\ new.marker = call.marker
             /\ call.do = "close" => ~new.open
             /\ call.do \notin {"create", "close"} => new.open = old.open
             /\ call.do = "body" => new.marker = call.marker
             /\ call.do \in {"label", "unlabel"} => new.marker = old.marker
             /\ call.do = "unlabel" => new.labels = old.labels \ call.labels
<1> DEFINE old == issue[call.on]
           new == issue'[call.on]
           update == CASE call.do = "create" -> [open |-> TRUE, labels |-> call.labels,
                                                 marker |-> call.marker]
                       [] call.do = "unlabel" -> [old EXCEPT !.labels = @ \ call.labels]
                       [] call.do = "label" -> [old EXCEPT !.labels = @ \cup call.labels]
                       [] call.do = "body" -> [old EXCEPT !.marker = call.marker]
                       [] call.do = "close" -> [old EXCEPT !.open = FALSE]
<1>1. issue = [t \in Titles |-> issue[t]]
  BY DEF IssuesOK
<1>2. issue["advisories"] \in IssueWith(Marker) /\ issue["error"] \in IssueWith(BOOLEAN)
  BY DEF IssuesOK
<1>3. issue' = CASE call.do = "create" ->
                      [issue EXCEPT ![call.on] = [open |-> TRUE, labels |-> call.labels,
                                                  marker |-> call.marker]]
                 [] call.do = "unlabel" -> [issue EXCEPT ![call.on].labels = @ \ call.labels]
                 [] call.do = "label" -> [issue EXCEPT ![call.on].labels = @ \cup call.labels]
                 [] call.do = "body" -> [issue EXCEPT ![call.on].marker = call.marker]
                 [] call.do = "close" -> [issue EXCEPT ![call.on].open = FALSE]
  BY DEF Apply
<1>4. issue' = [issue EXCEPT ![call.on] = update]
  <2>1. CASE call.do = "create"
    BY <1>3, <2>1
  <2>2. CASE call.do = "unlabel"
    BY <1>3, <2>2
  <2>3. CASE call.do = "label"
    BY <1>3, <2>3
  <2>4. CASE call.do = "body"
    BY <1>3, <2>4
  <2>5. CASE call.do = "close"
    BY <1>3, <2>5
  <2> QED
    BY <2>1, <2>2, <2>3, <2>4, <2>5
<1> HIDE DEF update
<1>5. /\ issue' = [t \in Titles |-> issue'[t]] /\ new = update
      /\ \A t \in Titles : t # call.on => issue'[t] = issue[t]
  BY <1>1, <1>4
<1>6. ASSUME NEW M, old \in IssueWith(M), call.marker \in M
      PROVE  /\ new \in IssueWith(M)
             /\ call.do = "create" => new.open /\ new.marker = call.marker
             /\ call.do = "close" => ~new.open
             /\ call.do \notin {"create", "close"} => new.open = old.open
             /\ call.do = "body" => new.marker = call.marker
             /\ call.do \in {"label", "unlabel"} => new.marker = old.marker
             /\ call.do = "unlabel" => new.labels = old.labels \ call.labels
  <2> HIDE DEF old, new
  <2>0. new = update
    BY <1>5
  <2>1. CASE call.do = "create"
    <3>1. new = [open |-> TRUE, labels |-> call.labels, marker |-> call.marker]
      BY <2>0, <2>1 DEF update
    <3> QED
      BY <1>6, <2>1, <3>1 DEF IssueWith
  <2>2. CASE call.do = "unlabel"
    <3>1. new = [old EXCEPT !.labels = @ \ call.labels]
      BY <2>0, <2>2 DEF update
    <3> QED
      BY <1>6, <2>2, <3>1 DEF IssueWith
  <2>3. CASE call.do = "label"
    <3>1. new = [old EXCEPT !.labels = @ \cup call.labels]
      BY <2>0, <2>3 DEF update
    <3> QED
      BY <1>6, <2>3, <3>1 DEF IssueWith
  <2>4. CASE call.do = "body"
    <3>1. new = [old EXCEPT !.marker = call.marker]
      BY <2>0, <2>4 DEF update
    <3> QED
      BY <1>6, <2>4, <3>1 DEF IssueWith
  <2>5. CASE call.do = "close"
    <3>1. new = [old EXCEPT !.open = FALSE]
      BY <2>0, <2>5 DEF update
    <3> QED
      BY <1>6, <2>5, <3>1 DEF IssueWith
  <2> QED
    BY <2>1, <2>2, <2>3, <2>4, <2>5
<1>7. CASE call.on = "advisories"
  <2>1. old \in IssueWith(Marker) /\ call.marker \in Marker
    BY <1>2, <1>7
  <2>2. new \in IssueWith(Marker)
    BY <1>6, <2>1
  <2>3. issue'["error"] = issue["error"]
    BY <1>5, <1>7 DEF Titles
  <2>4. IssuesOK(issue')
    BY <1>2, <1>5, <1>7, <2>2, <2>3 DEF IssuesOK
  <2> QED
    BY <1>5, <1>6, <2>1, <2>4
<1>8. CASE call.on = "error"
  <2>1. old \in IssueWith(BOOLEAN) /\ call.marker \in BOOLEAN
    BY <1>2, <1>8
  <2>2. new \in IssueWith(BOOLEAN)
    BY <1>6, <2>1
  <2>3. issue'["advisories"] = issue["advisories"]
    BY <1>5, <1>8 DEF Titles
  <2>4. IssuesOK(issue')
    BY <1>2, <1>5, <1>8, <2>2, <2>3 DEF IssuesOK
  <2> QED
    BY <1>5, <1>6, <2>1, <2>4
<1> QED
  BY <1>7, <1>8 DEF Titles

\* The next call of the plan, and what is left after it.
LEMMA NextCall ==
  ASSUME ScanInv, run.step = "file", run.todo # <<>>
  PROVE  \E b \in AdvisoriesLeft, d \in ErrorLeft :
           /\ Tail(run.todo) = b \o d
           /\ \/ /\ ErrorOK(d)
                 /\ LET To(do) == ToAdvisories(do)
                        call == Head(run.todo)
                    IN  \/ call = To("create") /\ AdvisoriesOK(<<call>>) /\ b = <<>>
                        \/ call = To("body") /\ AdvisoriesOK(<<call>>) /\ b = <<>>
                        \/ /\ call = To("label") /\ AdvisoriesOK(<<call, To("body")>>)
                           /\ b = <<To("body")>>
                        \/ /\ call = To("unlabel")
                           /\ AdvisoriesOK(<<call, To("label"), To("body")>>)
                           /\ b = <<To("label"), To("body")>>
              \/ /\ AdvisoriesOK(<<>>) /\ b = <<>>
                 /\ LET To(do) == ToError(do)
                        call == Head(run.todo)
                        close == Call("close", "error", {}, FALSE)
                    IN  \/ call \in {To("create"), To("body"), close} /\ ErrorOK(<<call>>)
                           /\ d = <<>>
                        \/ /\ call = To("label") /\ ErrorOK(<<call, To("body")>>)
                           /\ d = <<To("body")>>
                        \/ /\ call = To("unlabel")
                           /\ ErrorOK(<<call, To("label"), To("body")>>)
                           /\ d = <<To("label"), To("body")>>
<1>1. PICK a \in AdvisoriesLeft, e \in ErrorLeft :
        run.todo = a \o e /\ AdvisoriesOK(a) /\ ErrorOK(e)
  BY DEF ScanInv, TodoOK
<1>2. a \in Seq(PlanCalls) /\ e \in Seq(PlanCalls)
  BY PlanParts
<1>3. \A x, y, z \in PlanCalls :
        /\ Head(<<x>> \o e) = x /\ Tail(<<x>> \o e) = e
        /\ Head(<<x, y>> \o e) = x /\ Tail(<<x, y>> \o e) = <<y>> \o e
        /\ Head(<<x, y, z>> \o e) = x /\ Tail(<<x, y, z>> \o e) = <<y, z>> \o e
  <2>1. \A x \in PlanCalls : Head(<<x>> \o e) = x /\ Tail(<<x>> \o e) = e
    BY <1>2, FirstOf, Zenon
  <2>2. \A x, y \in PlanCalls :
          Head(<<x, y>> \o e) = x /\ Tail(<<x, y>> \o e) = <<y>> \o e
    BY <1>2, FirstOf, Zenon
  <2>3. \A x, y, z \in PlanCalls :
          Head(<<x, y, z>> \o e) = x /\ Tail(<<x, y, z>> \o e) = <<y, z>> \o e
    BY <1>2, FirstOf, Zenon
  <2> QED
    BY <2>1, <2>2, <2>3, Zenon
<1>4. <<>> \o e = e /\ <<>> \o <<>> = <<>>
      /\ \A x : <<>> \o <<x>> = <<x>> /\ \A y : <<>> \o <<x, y>> = <<x, y>>
  <2>1. \A S : \A s \in Seq(S) : <<>> \o s = s
    BY FirstOf
  <2>2. \A x, y : <<x>> \in Seq({x, y}) /\ <<x, y>> \in Seq({x, y}) /\ <<>> \in Seq({x, y})
    OBVIOUS
  <2>3. <<>> \o e = e
    BY <1>2, <2>1
  <2>4. ASSUME NEW x, NEW y
        PROVE  <<>> \o <<>> = <<>> /\ <<>> \o <<x>> = <<x>> /\ <<>> \o <<x, y>> = <<x, y>>
    BY <2>1, <2>2, Zenon
  <2> QED
    BY <2>3, <2>4, Zenon
<1>5. \A x, y, z : /\ Head(<<x>>) = x /\ Tail(<<x>>) = <<>>
                   /\ Head(<<x, y>>) = x /\ Tail(<<x, y>>) = <<y>>
                   /\ Head(<<x, y, z>>) = x /\ Tail(<<x, y, z>>) = <<y, z>>
  OBVIOUS
<1> DEFINE ac == ToAdvisories("create")
           ab == ToAdvisories("body")
           al == ToAdvisories("label")
           au == ToAdvisories("unlabel")
           ec == ToError("create")
           eb == ToError("body")
           el == ToError("label")
           eu == ToError("unlabel")
           ex == Call("close", "error", {}, FALSE)
<1>6. /\ ac \in PlanCalls /\ ab \in PlanCalls /\ al \in PlanCalls /\ au \in PlanCalls
      /\ ec \in PlanCalls /\ eb \in PlanCalls /\ el \in PlanCalls /\ eu \in PlanCalls
      /\ ex \in PlanCalls
  BY DEF PlanCalls
<1>7. AdvisoriesLeft = {<<>>, <<ac>>, <<ab>>, <<al, ab>>, <<au, al, ab>>}
      /\ ErrorLeft = {<<>>, <<ec>>, <<eb>>, <<el, eb>>, <<eu, el, eb>>, <<ex>>}
  BY DEF AdvisoriesLeft, ErrorLeft
<1> HIDE DEF ac, ab, al, au, ec, eb, el, eu, ex
<1> SUFFICES
      \E b \in AdvisoriesLeft, d \in ErrorLeft :
        /\ Tail(run.todo) = b \o d
        /\ \/ /\ ErrorOK(d)
              /\ LET call == Head(run.todo)
                 IN  \/ call = ac /\ AdvisoriesOK(<<call>>) /\ b = <<>>
                     \/ call = ab /\ AdvisoriesOK(<<call>>) /\ b = <<>>
                     \/ call = al /\ AdvisoriesOK(<<call, ab>>) /\ b = <<ab>>
                     \/ call = au /\ AdvisoriesOK(<<call, al, ab>>) /\ b = <<al, ab>>
           \/ /\ AdvisoriesOK(<<>>) /\ b = <<>>
              /\ LET call == Head(run.todo)
                 IN  \/ call \in {ec, eb, ex} /\ ErrorOK(<<call>>) /\ d = <<>>
                     \/ call = el /\ ErrorOK(<<call, eb>>) /\ d = <<eb>>
                     \/ call = eu /\ ErrorOK(<<call, el, eb>>) /\ d = <<el, eb>>
  BY DEF ac, ab, al, au, ec, eb, el, eu, ex
<1> DEFINE call == Head(run.todo)
<1>8. CASE a = <<ac>>
  <2>1. call = ac /\ Tail(run.todo) = e
    BY <1>1, <1>3, <1>6, <1>8
  <2>2. Tail(run.todo) = <<>> \o e /\ AdvisoriesOK(<<call>>) /\ <<>> \in AdvisoriesLeft
    BY <1>1, <1>4, <1>7, <1>8, <2>1, Zenon
  <2> QED
    BY <1>1, <2>1, <2>2, Zenon
<1>9. CASE a = <<ab>>
  <2>1. call = ab /\ Tail(run.todo) = e
    BY <1>1, <1>3, <1>6, <1>9
  <2>2. Tail(run.todo) = <<>> \o e /\ AdvisoriesOK(<<call>>) /\ <<>> \in AdvisoriesLeft
    BY <1>1, <1>4, <1>7, <1>9, <2>1, Zenon
  <2> QED
    BY <1>1, <2>1, <2>2, Zenon
<1>10. CASE a = <<al, ab>>
  <2>1. call = al /\ Tail(run.todo) = <<ab>> \o e
    BY <1>1, <1>3, <1>6, <1>10
  <2>2. AdvisoriesOK(<<call, ab>>) /\ <<ab>> \in AdvisoriesLeft
    BY <1>1, <1>7, <1>10, <2>1, Zenon
  <2> QED
    BY <1>1, <2>1, <2>2, Zenon
<1>11. CASE a = <<au, al, ab>>
  <2>1. call = au /\ Tail(run.todo) = <<al, ab>> \o e
    BY <1>1, <1>3, <1>6, <1>11
  <2>2. AdvisoriesOK(<<call, al, ab>>) /\ <<al, ab>> \in AdvisoriesLeft
    BY <1>1, <1>7, <1>11, <2>1, Zenon
  <2> QED
    BY <1>1, <2>1, <2>2, Zenon
<1>12. CASE a = <<>>
  <2>1. run.todo = e /\ AdvisoriesOK(<<>>) /\ <<>> \in AdvisoriesLeft
    BY <1>1, <1>4, <1>7, <1>12, Zenon
  <2>2. ASSUME NEW x \in {ec, eb, ex}, e = <<x>>
        PROVE  \E b \in AdvisoriesLeft, d \in ErrorLeft :
                 /\ Tail(run.todo) = b \o d /\ AdvisoriesOK(<<>>) /\ b = <<>>
                 /\ call \in {ec, eb, ex} /\ ErrorOK(<<call>>) /\ d = <<>>
    <3>1. call = x /\ Tail(run.todo) = <<>>
      BY <1>5, <2>1, <2>2, Zenon
    <3>2. Tail(run.todo) = <<>> \o <<>> /\ ErrorOK(<<call>>) /\ <<>> \in ErrorLeft
      BY <1>1, <1>4, <1>7, <2>2, <3>1, Zenon
    <3> QED
      BY <2>1, <2>2, <3>1, <3>2, Zenon
  <2>3. CASE e = <<el, eb>>
    <3>1. call = el /\ Tail(run.todo) = <<eb>>
      BY <1>5, <2>1, <2>3, Zenon
    <3>2. Tail(run.todo) = <<>> \o <<eb>> /\ ErrorOK(<<call, eb>>) /\ <<eb>> \in ErrorLeft
      BY <1>1, <1>4, <1>7, <2>3, <3>1, Zenon
    <3> QED
      BY <2>1, <3>1, <3>2, Zenon
  <2>4. CASE e = <<eu, el, eb>>
    <3>1. call = eu /\ Tail(run.todo) = <<el, eb>>
      <4>1. Head(<<eu, el, eb>>) = eu /\ Tail(<<eu, el, eb>>) = <<el, eb>>
        BY <1>5, Zenon
      <4> QED
        BY <2>1, <2>4, <4>1, Zenon
    <3>2. Tail(run.todo) = <<>> \o <<el, eb>> /\ ErrorOK(<<call, el, eb>>)
          /\ <<el, eb>> \in ErrorLeft
      BY <1>1, <1>4, <1>7, <2>4, <3>1, Zenon
    <3> QED
      BY <2>1, <3>1, <3>2, Zenon
  <2>5. e = <<el, eb>> \/ e = <<eu, el, eb>> \/ \E x \in {ec, eb, ex} : e = <<x>>
    <3>1. e # <<>>
      BY <2>1
    <3> QED
      BY <1>7, <3>1, Zenon
  <2> QED
    BY <2>2, <2>3, <2>4, <2>5, Zenon
<1> QED
  BY <1>7, <1>8, <1>9, <1>10, <1>11, <1>12, Zenon

\* A call leaves the rest of the plan as it should be, and so the rest of the state.
LEMMA ApplyRest ==
  ASSUME ScanInv, Apply, IssuesOK(issue'),
         NEW told, told = (IF PageSent(Head(run.todo)) THEN Paging(run.announced) ELSE {}),
         NEW b \in AdvisoriesLeft, NEW d \in ErrorLeft, Tail(run.todo) = b \o d,
         AdvisoriesOK(b)', ErrorOK(d)', SaidIsPaged(issue["advisories"])',
         \A n \in standing :
           /\ issue'["advisories"].open
           /\ \/ Pages(issue'["advisories"].marker[n])
              \/ ~run.failed /\ issue'["advisories"].marker = MarkerOf(run.found)
  PROVE  ScanInv'
<1>1. /\ run.step = "file" /\ run' = [run EXCEPT !.todo = Tail(@), !.paged = @ \cup told]
      /\ paged' = paged \cup UNION {f.names : f \in told}
      /\ UNCHANGED <<world, faults, touches, standing, touched>>
  BY DEF Apply
<1>2. /\ WorldOK /\ RunOK /\ faults \in 0..MaxFaults /\ touches \in 0..MaxTouches
      /\ paged \subseteq Names /\ standing \subseteq Names
      /\ touched \in BOOLEAN /\ (touched => standing = {})
  BY DEF ScanInv, StateOK
<1>3. /\ run = [step |-> run.step, seen |-> run.seen, looked |-> run.looked,
                found |-> run.found, failed |-> run.failed, todo |-> run.todo,
                announced |-> run.announced, paged |-> run.paged]
      /\ IssuesOK(run.seen) /\ FoundOK(run.found) /\ run.announced \subseteq run.found
      /\ run.paged \subseteq Paging(run.announced)
      /\ run.failed = ~run.looked /\ run.looked \in BOOLEAN
      /\ (run.failed => run.found = {})
      /\ (run.looked => run.found = FindingsOf(Present))
  BY <1>1, <1>2 DEF RunOK
<1>4. run' = [step |-> "file", seen |-> run.seen, looked |-> run.looked, found |-> run.found,
              failed |-> run.failed, todo |-> b \o d, announced |-> run.announced,
              paged |-> run.paged \cup told]
  BY <1>1, <1>3
<1>5. /\ run'.step = "file" /\ run'.seen = run.seen /\ run'.looked = run.looked
      /\ run'.found = run.found /\ run'.failed = run.failed /\ run'.todo = b \o d
      /\ run'.announced = run.announced /\ run'.paged = run.paged \cup told
  BY <1>4
<1>6. told \subseteq Paging(run.announced) /\ told \subseteq run.found
  BY <1>3 DEF Paging
<1>7. RunOK'
  <2>1. FindingsOf(Present)' = FindingsOf(Present)
    BY <1>1, SameWorld
  <2>2. run'.paged \subseteq Paging(run'.announced)
    BY <1>3, <1>5, <1>6
  <2>3. IssuesOK(run'.seen) /\ FoundOK(run'.found)
    BY <1>3, <1>5, Zenon
  <2> QED
    BY <1>3, <1>4, <1>5, <2>1, <2>2, <2>3 DEF RunOK
<1>8. StateOK'
  <2>1. paged' \subseteq Names
    BY <1>1, <1>2, <1>3, <1>6 DEF FoundOK
  <2> QED
    BY <1>1, <1>2, <1>7, <2>1 DEF StateOK, WorldOK
<1>9. TodoOK'
  <2>1. \A x : ToAdvisories(x)' = ToAdvisories(x)
    BY <1>5 DEF ToAdvisories
  <2>2. b \in AdvisoriesLeft' /\ d \in ErrorLeft'
    BY <2>1 DEF AdvisoriesLeft, ErrorLeft, ToError
  <2> QED
    BY <1>5, <2>2 DEF TodoOK
<1>10. NewsOK'
  BY <1>1, <1>5 DEF ScanInv, NewsOK
<1>11. StandingOK'
  BY <1>1, <1>5 DEF ScanInv, StandingOK
<1> QED
  BY <1>5, <1>8, <1>9, <1>10, <1>11 DEF ScanInv, SeenOK, HeartbeatMeansFiled

\* What is asked of each rest of the plan, call by call.
AdvisoriesAre ==
  LET To(do) == ToAdvisories(do)
      mine == issue["advisories"]
      there == ~run.failed /\ (~touched => mine.open)
  IN  /\ AdvisoriesOK(<<>>) <=>
           (~run.failed => /\ ~touched /\ run.found # {} => mine.open
                           /\ mine.open => \/ mine.marker = MarkerOf(run.found)
                                           \/ touched /\ PartOf(mine.marker, MarkerOf(run.found))
                           /\ AllPaged)
      /\ AdvisoriesOK(<<To("create")>>) <=> ~run.failed
      /\ AdvisoriesOK(<<To("body")>>) <=> there /\ AllPaged
      /\ AdvisoriesOK(<<To("label"), To("body")>>) <=>
           there /\ "needs-human" \notin LabelsFor(run.announced) \cap mine.labels
      /\ AdvisoriesOK(<<To("unlabel"), To("label"), To("body")>>) <=> there

\* What AdvisoriesOK asks, call by call.
LEMMA AdvisoriesOnce == AdvisoriesAre
<1> DEFINE c == ToAdvisories("create")
           b == ToAdvisories("body")
           l == ToAdvisories("label")
           u == ToAdvisories("unlabel")
           mine == issue["advisories"]
<1>1. c # b
  BY DEF ToAdvisories, Call
<1>2. \A a : AdvisoriesOK(a) <=>
        /\ run.failed => a = <<>>
        /\ ~run.failed /\ a = <<>> =>
             /\ ~touched /\ run.found # {} => mine.open
             /\ mine.open => \/ mine.marker = MarkerOf(run.found)
                             \/ touched /\ PartOf(mine.marker, MarkerOf(run.found))
        /\ a # <<>> /\ a # <<c>> /\ ~touched => mine.open
        /\ ~run.failed /\ (a = <<>> \/ a = <<b>>) => AllPaged
        /\ a = <<l, b>> => "needs-human" \notin LabelsFor(run.announced) \cap mine.labels
  BY DEF AdvisoriesOK
<1> HIDE DEF c, b, l, u
<1>3. /\ <<c>> # <<>> /\ <<b>> # <<>> /\ <<l, b>> # <<>> /\ <<u, l, b>> # <<>>
      /\ <<b>> # <<c>> /\ <<l, b>> # <<c>> /\ <<u, l, b>> # <<c>>
      /\ <<c>> # <<b>> /\ <<l, b>> # <<b>> /\ <<u, l, b>> # <<b>>
  BY <1>1, ListsApart, Zenon
<1>4. <<c>> # <<l, b>> /\ <<b>> # <<l, b>> /\ <<u, l, b>> # <<l, b>>
  BY ListsApart, Zenon
<1>5. AdvisoriesOK(<<>>) <=>
        (~run.failed => /\ ~touched /\ run.found # {} => mine.open
                        /\ mine.open => \/ mine.marker = MarkerOf(run.found)
                                        \/ touched /\ PartOf(mine.marker, MarkerOf(run.found))
                        /\ AllPaged)
  <2>1. <<>> # <<l, b>> /\ <<>> # <<c>>
    BY <1>3, Zenon
  <2> QED
    BY <1>2, <2>1, Zenon
<1>6. AdvisoriesOK(<<c>>) <=> ~run.failed
  BY <1>2, <1>3, <1>4, Zenon
<1>7. AdvisoriesOK(<<b>>) <=> ~run.failed /\ (~touched => mine.open) /\ AllPaged
  BY <1>2, <1>3, <1>4, Zenon
<1>8. AdvisoriesOK(<<l, b>>) <=>
        ~run.failed /\ (~touched => mine.open)
        /\ "needs-human" \notin LabelsFor(run.announced) \cap mine.labels
  BY <1>2, <1>3, <1>4, Zenon
<1>9. AdvisoriesOK(<<u, l, b>>) <=> ~run.failed /\ (~touched => mine.open)
  BY <1>2, <1>3, <1>4, Zenon
<1> QED
  BY <1>5, <1>6, <1>7, <1>8, <1>9, Zenon DEF AdvisoriesAre, c, b, l, u

\* The same of the error issue's.
ErrorIs ==
  LET To(do) == ToError(do)
      there == run.failed /\ (~touched => issue["error"].open)
  IN  /\ ErrorOK(<<>>) <=> (~touched => issue["error"].open = run.failed)
      /\ ErrorOK(<<To("create")>>) <=> run.failed
      /\ ErrorOK(<<Call("close", "error", {}, FALSE)>>) <=> ~run.failed
      /\ ErrorOK(<<To("body")>>) <=> there
      /\ ErrorOK(<<To("label"), To("body")>>) <=> there
      /\ ErrorOK(<<To("unlabel"), To("label"), To("body")>>) <=> there

\* What ErrorOK asks, call by call.
LEMMA ErrorOnce == ErrorIs
<1> DEFINE c == ToError("create")
           b == ToError("body")
           l == ToError("label")
           u == ToError("unlabel")
           x == Call("close", "error", {}, FALSE)
<1>1. c # b /\ c # x /\ b # x
  BY DEF ToError, Call
<1>2. \A e : ErrorOK(e) <=>
        /\ e = <<>> /\ ~touched => issue["error"].open = run.failed
        /\ e = <<x>> => ~run.failed
        /\ e # <<>> /\ e # <<x>> =>
             run.failed /\ (e # <<c>> /\ ~touched => issue["error"].open)
  BY DEF ErrorOK
<1> HIDE DEF c, b, l, u, x
<1>3. /\ <<c>> # <<>> /\ <<b>> # <<>> /\ <<l, b>> # <<>> /\ <<u, l, b>> # <<>> /\ <<x>> # <<>>
      /\ <<c>> # <<x>> /\ <<b>> # <<x>> /\ <<l, b>> # <<x>> /\ <<u, l, b>> # <<x>>
      /\ <<b>> # <<c>> /\ <<l, b>> # <<c>> /\ <<u, l, b>> # <<c>> /\ <<x>> # <<c>>
  BY <1>1, ListsApart, Zenon
<1>4. ErrorOK(<<>>) <=> (~touched => issue["error"].open = run.failed)
  BY <1>2, <1>3, Zenon
<1>5. ErrorOK(<<c>>) <=> run.failed
  BY <1>2, <1>3, Zenon
<1>6. ErrorOK(<<x>>) <=> ~run.failed
  BY <1>2, <1>3, Zenon
<1>7. ErrorOK(<<b>>) <=> run.failed /\ (~touched => issue["error"].open)
  BY <1>2, <1>3, Zenon
<1>8. ErrorOK(<<l, b>>) <=> run.failed /\ (~touched => issue["error"].open)
  BY <1>2, <1>3, Zenon
<1>9. ErrorOK(<<u, l, b>>) <=> run.failed /\ (~touched => issue["error"].open)
  BY <1>2, <1>3, Zenon
<1> QED
  BY <1>4, <1>5, <1>6, <1>7, <1>8, <1>9, Zenon DEF ErrorIs, c, b, l, u, x

\* A call is made: the label pages for what is announced, before the marker tells of it.
LEMMA ApplyInvStep ==
  ASSUME ScanInv, Apply
  PROVE  ScanInv'
<1> DEFINE F == run.found
           mine == issue["advisories"]
           mine2 == issue'["advisories"]
           close == Call("close", "error", {}, FALSE)
<1>1. /\ run.step = "file" /\ run.todo # <<>>
      /\ UNCHANGED <<world, faults, touches, standing, touched>>
  BY DEF Apply
<1>2. PICK call, told :
        /\ call = Head(run.todo)
        /\ told = (IF PageSent(call) THEN Paging(run.announced) ELSE {})
  OBVIOUS
<1>3. /\ run' = [run EXCEPT !.todo = Tail(@), !.paged = @ \cup told]
      /\ paged' = paged \cup UNION {f.names : f \in told}
  BY <1>2 DEF Apply
<1>4. /\ RunOK /\ IssuesOK(issue) /\ SaidIsPaged(mine)
  BY DEF ScanInv, StateOK
<1>5. FoundOK(F) /\ MarkerOf(F) \in Marker
  BY <1>4, MarkerShape DEF RunOK
<1>6. /\ run'.found = F /\ run'.failed = run.failed /\ run'.announced = run.announced
      /\ touched' = touched /\ paged \subseteq paged'
  BY <1>1, <1>3, <1>4 DEF RunOK
<1>7. \A x : ToAdvisories(x)' = ToAdvisories(x)
  BY <1>6 DEF ToAdvisories
<1>8. \A n \in standing :
        /\ mine.open
        /\ \/ Pages(mine.marker[n])
           \/ ~run.failed /\ mine.marker = MarkerOf(F)
  BY DEF ScanInv, StandingOK
<1>9. \A f \in Paging(F) : f \in run.announced \/ f.names \subseteq paged
  BY <1>1 DEF ScanInv, NewsOK
<1>10. PICK b \in AdvisoriesLeft, d \in ErrorLeft :
         /\ Tail(run.todo) = b \o d
         /\ \/ /\ ErrorOK(d)
               /\ LET To(do) == ToAdvisories(do)
                  IN  \/ call = To("create") /\ AdvisoriesOK(<<call>>) /\ b = <<>>
                      \/ call = To("body") /\ AdvisoriesOK(<<call>>) /\ b = <<>>
                      \/ /\ call = To("label") /\ AdvisoriesOK(<<call, To("body")>>)
                         /\ b = <<To("body")>>
                      \/ /\ call = To("unlabel")
                         /\ AdvisoriesOK(<<call, To("label"), To("body")>>)
                         /\ b = <<To("label"), To("body")>>
            \/ /\ AdvisoriesOK(<<>>) /\ b = <<>>
               /\ LET To(do) == ToError(do)
                  IN  \/ call \in {To("create"), To("body"), close} /\ ErrorOK(<<call>>)
                         /\ d = <<>>
                      \/ /\ call = To("label") /\ ErrorOK(<<call, To("body")>>)
                         /\ d = <<To("body")>>
                      \/ /\ call = To("unlabel")
                         /\ ErrorOK(<<call, To("label"), To("body")>>)
                         /\ d = <<To("label"), To("body")>>
  BY <1>1, <1>2, NextCall
<1>11. ASSUME ErrorOK(d), IssuesOK(issue'), issue'["error"] = issue["error"],
              AdvisoriesOK(b)', SaidIsPaged(issue["advisories"])',
              mine.open => mine2.open,
              mine2.marker \in {mine.marker, MarkerOf(F)}, ~run.failed
       PROVE  ScanInv'
  <2>1. ErrorOK(d)'
    BY <1>6, <1>11 DEF ErrorOK, ToError
  <2>2. \A n \in standing : /\ mine2.open
                            /\ \/ Pages(mine2.marker[n])
                               \/ ~run.failed /\ mine2.marker = MarkerOf(F)
    BY <1>8, <1>11
  <2> QED
    BY <1>2, <1>10, <1>11, <2>1, <2>2, ApplyRest
<1>12. ASSUME call.on = "error", AdvisoriesOK(<<>>), b = <<>>, IssuesOK(issue'),
              issue'["advisories"] = issue["advisories"], ErrorOK(d)'
       PROVE  ScanInv'
  <2>1. ~PageSent(call)
    BY <1>12 DEF PageSent
  <2>2. paged' = paged
    BY <1>2, <1>3, <2>1
  <2>3. AdvisoriesOK(b)'
    <3>1. AllPaged' = AllPaged
      BY <1>6, <2>2 DEF AllPaged
    <3> QED
      BY <1>6, <1>7, <1>12, <3>1 DEF AdvisoriesOK
  <2>4. SaidIsPaged(issue["advisories"])'
    BY <1>4, <1>12, <2>2 DEF SaidIsPaged
  <2> QED
    BY <1>2, <1>8, <1>10, <1>12, <2>3, <2>4, ApplyRest
<1>13. AdvisoriesAre /\ AdvisoriesAre' /\ ErrorIs /\ ErrorIs'
  BY AdvisoriesOnce, ErrorOnce, PTL
<1>14. \A x : ToError(x)' = ToError(x)
  BY DEF ToError
<1>15. ASSUME NEW do \in {"create", "unlabel", "label", "body"}, call = ToAdvisories(do)
       PROVE  /\ call.do = do /\ call.on = "advisories" /\ call.marker = MarkerOf(F)
              /\ call.labels = LabelsFor(run.announced)
              /\ IssuesOK(issue') /\ issue'["error"] = issue["error"]
              /\ do = "create" => mine2.open /\ mine2.marker = MarkerOf(F)
              /\ do # "create" => mine2.open = mine.open
              /\ do = "body" => mine2.marker = MarkerOf(F)
              /\ do \in {"label", "unlabel"} => mine2.marker = mine.marker
              /\ do = "unlabel" => mine2.labels = mine.labels \ LabelsFor(run.announced)
  <2>1. /\ call.do = do /\ call.on = "advisories" /\ call.marker = MarkerOf(F)
        /\ call.labels = LabelsFor(run.announced)
    BY <1>15 DEF ToAdvisories, Call
  <2>2. call.labels \subseteq {"needs-human", "needs-capital"}
    BY <2>1, LabelsShape
  <2>3. /\ IssuesOK(issue')
        /\ \A t \in Titles : t # "advisories" => issue'[t] = issue[t]
        /\ do = "create" => mine2.open /\ mine2.marker = MarkerOf(F)
        /\ do \notin {"create", "close"} => mine2.open = mine.open
        /\ do = "body" => mine2.marker = MarkerOf(F)
        /\ do \in {"label", "unlabel"} => mine2.marker = mine.marker
        /\ do = "unlabel" => mine2.labels = mine.labels \ LabelsFor(run.announced)
    <3>1. call.on \in Titles /\ call.do \in {"create", "unlabel", "label", "body", "close"}
          /\ (call.on = "error" => call.marker \in BOOLEAN)
          /\ (call.on = "advisories" => call.marker \in Marker)
      BY <1>5, <2>1 DEF Titles
    <3> HIDE DEF mine, mine2, F
    <3>2. LET old == issue[call.on]
              new == issue'[call.on]
          IN  /\ IssuesOK(issue')
              /\ \A t \in Titles : t # call.on => issue'[t] = issue[t]
              /\ call.do = "create" => new.open /\ new.marker = call.marker
              /\ call.do = "close" => ~new.open
              /\ call.do \notin {"create", "close"} => new.open = old.open
              /\ call.do = "body" => new.marker = call.marker
              /\ call.do \in {"label", "unlabel"} => new.marker = old.marker
              /\ call.do = "unlabel" => new.labels = old.labels \ call.labels
      BY <1>2, <1>4, <2>2, <3>1, CallEffect
    <3> QED
      BY <2>1, <3>2 DEF mine, mine2
  <2> QED
    BY <2>1, <2>3 DEF Titles
<1>16. ASSUME told = Paging(run.announced)
       PROVE  AllPaged'
  <2> SUFFICES ASSUME NEW f \in Paging(F) PROVE f.names \subseteq paged'
    BY <1>6 DEF AllPaged
  <2>1. CASE f \in run.announced
    BY <1>3, <1>16, <2>1 DEF Paging
  <2>2. CASE f.names \subseteq paged
    BY <1>6, <2>2
  <2> QED
    BY <1>9, <2>1, <2>2
<1>17. ASSUME AllPaged', mine2.marker = MarkerOf(F)
       PROVE  SaidIsPaged(issue["advisories"])'
  <2> SUFFICES ASSUME NEW n \in Names, Pages(MarkerOf(F)[n]) PROVE n \in paged'
    BY <1>17 DEF SaidIsPaged
  <2>1. PICK f \in F : f.id = n /\ MarkerOf(F)[n] = f.rating
    BY <1>5, PagesRated, MarkerShape
  <2>2. f \in Paging(F) /\ n \in f.names
    BY <1>5, <2>1 DEF FoundOK, Paging
  <2> QED
    BY <1>6, <1>17, <2>2 DEF AllPaged
<1>18. SaidIsPaged(mine) /\ mine2.open = mine.open /\ mine2.marker = mine.marker
         => SaidIsPaged(issue["advisories"])'
  BY <1>6 DEF SaidIsPaged
<1>19. AllPaged => AllPaged'
  BY <1>6 DEF AllPaged
<1>20. CASE call = ToAdvisories("create") /\ AdvisoriesOK(<<call>>) /\ b = <<>> /\ ErrorOK(d)
  <2>1. /\ call.do = "create" /\ call.on = "advisories"
        /\ call.labels = LabelsFor(run.announced)
        /\ IssuesOK(issue') /\ issue'["error"] = issue["error"]
        /\ mine2.open /\ mine2.marker = MarkerOf(F)
    BY <1>15, <1>20
  <2>2. told = Paging(run.announced)
    BY <1>2, <2>1, LabelsShape DEF PageSent
  <2>3. AllPaged' /\ SaidIsPaged(issue["advisories"])'
    BY <1>16, <1>17, <2>1, <2>2
  <2>4. ~run.failed
    BY <1>13, <1>20 DEF AdvisoriesAre
  <2>5. AdvisoriesOK(b)'
    BY <1>6, <1>13, <1>20, <2>1, <2>3 DEF AdvisoriesAre
  <2> QED
    BY <1>11, <1>20, <2>1, <2>3, <2>4, <2>5
<1>21. CASE call = ToAdvisories("body") /\ AdvisoriesOK(<<call>>) /\ b = <<>> /\ ErrorOK(d)
  <2>1. /\ IssuesOK(issue') /\ issue'["error"] = issue["error"]
        /\ mine2.open = mine.open /\ mine2.marker = MarkerOf(F)
    BY <1>15, <1>21
  <2>2. ~run.failed /\ (~touched => mine.open) /\ AllPaged
    BY <1>13, <1>21 DEF AdvisoriesAre
  <2>3. AllPaged' /\ SaidIsPaged(issue["advisories"])'
    BY <1>17, <1>19, <2>1, <2>2
  <2>4. AdvisoriesOK(b)'
    BY <1>6, <1>13, <1>21, <2>1, <2>2, <2>3 DEF AdvisoriesAre
  <2> QED
    BY <1>11, <1>21, <2>1, <2>2, <2>3, <2>4
<1>22. CASE /\ call = ToAdvisories("label") /\ AdvisoriesOK(<<call, ToAdvisories("body")>>)
            /\ b = <<ToAdvisories("body")>> /\ ErrorOK(d)
  <2>1. /\ call.do = "label" /\ call.on = "advisories"
        /\ call.labels = LabelsFor(run.announced)
        /\ IssuesOK(issue') /\ issue'["error"] = issue["error"]
        /\ mine2.open = mine.open /\ mine2.marker = mine.marker
    BY <1>15, <1>22
  <2>2. /\ ~run.failed /\ (~touched => mine.open)
        /\ "needs-human" \notin LabelsFor(run.announced) \cap mine.labels
    BY <1>13, <1>22 DEF AdvisoriesAre
  <2>3. told = Paging(run.announced)
    BY <1>2, <2>1, <2>2, LabelsShape DEF PageSent
  <2>4. AllPaged' /\ SaidIsPaged(issue["advisories"])'
    BY <1>4, <1>16, <1>18, <2>1, <2>3
  <2>5. AdvisoriesOK(b)'
    BY <1>6, <1>7, <1>13, <1>22, <2>1, <2>2, <2>4 DEF AdvisoriesAre
  <2> QED
    BY <1>11, <1>22, <2>1, <2>2, <2>4, <2>5
<1>23. CASE /\ call = ToAdvisories("unlabel")
            /\ AdvisoriesOK(<<call, ToAdvisories("label"), ToAdvisories("body")>>)
            /\ b = <<ToAdvisories("label"), ToAdvisories("body")>> /\ ErrorOK(d)
  <2>1. /\ IssuesOK(issue') /\ issue'["error"] = issue["error"]
        /\ mine2.open = mine.open /\ mine2.marker = mine.marker
        /\ mine2.labels = mine.labels \ LabelsFor(run.announced)
    BY <1>15, <1>23
  <2>2. ~run.failed /\ (~touched => mine.open)
    BY <1>13, <1>23 DEF AdvisoriesAre
  <2>3. SaidIsPaged(issue["advisories"])'
    BY <1>4, <1>18, <2>1
  <2>4. AdvisoriesOK(b)'
    BY <1>6, <1>7, <1>13, <1>23, <2>1, <2>2 DEF AdvisoriesAre
  <2> QED
    BY <1>11, <1>23, <2>1, <2>2, <2>3, <2>4
<1>24. ASSUME NEW do \in {"create", "unlabel", "label", "body"},
              call = ToError(do) \/ call = close
       PROVE  /\ call.on = "error" /\ IssuesOK(issue')
              /\ issue'["advisories"] = issue["advisories"]
              /\ call = ToError("create") => issue'["error"].open
              /\ call = close => ~issue'["error"].open
              /\ call \in {ToError("body"), ToError("label"), ToError("unlabel")} =>
                   issue'["error"].open = issue["error"].open
  <2>1. /\ call.on = "error" /\ call.marker \in BOOLEAN
        /\ call.labels \subseteq {"needs-human", "needs-capital"}
        /\ call.do \in {"create", "unlabel", "label", "body", "close"}
        /\ call = ToError("create") => call.do = "create"
        /\ call = close => call.do = "close"
        /\ call \in {ToError("body"), ToError("label"), ToError("unlabel")} =>
             call.do \notin {"create", "close"}
    <3>1. /\ \A x : ToError(x).do = x /\ ToError(x).on = "error"
                     /\ ToError(x).marker = TRUE /\ ToError(x).labels = {"needs-capital"}
          /\ close.do = "close" /\ close.on = "error" /\ close.marker = FALSE
          /\ close.labels = {}
      BY DEF ToError, Call
    <3> HIDE DEF close
    <3>2. CASE call = close
      BY <3>1, <3>2
    <3>3. CASE call = ToError(do)
      BY <1>24, <3>1, <3>3
    <3> QED
      BY <1>24, <3>2, <3>3
  <2>2. call.on \in Titles /\ call.on # "advisories" /\ "advisories" \in Titles
    BY <2>1 DEF Titles
  <2> HIDE DEF close
  <2>3. LET old == issue[call.on]
            new == issue'[call.on]
        IN  /\ IssuesOK(issue')
            /\ \A t \in Titles : t # call.on => issue'[t] = issue[t]
            /\ call.do = "create" => new.open /\ new.marker = call.marker
            /\ call.do = "close" => ~new.open
            /\ call.do \notin {"create", "close"} => new.open = old.open
            /\ call.do = "body" => new.marker = call.marker
            /\ call.do \in {"label", "unlabel"} => new.marker = old.marker
            /\ call.do = "unlabel" => new.labels = old.labels \ call.labels
    BY <1>2, <1>4, <2>1, <2>2, CallEffect
  <2> QED
    BY <2>1, <2>2, <2>3
<1>25. CASE /\ AdvisoriesOK(<<>>) /\ b = <<>> /\ ErrorOK(<<call>>) /\ d = <<>>
            /\ call \in {ToError("create"), ToError("body"), close}
  <2>1. /\ call.on = "error" /\ IssuesOK(issue')
        /\ issue'["advisories"] = issue["advisories"]
        /\ call = ToError("create") => issue'["error"].open
        /\ call = close => ~issue'["error"].open
        /\ call = ToError("body") => issue'["error"].open = issue["error"].open
    BY <1>24, <1>25
  <2>2. issue'["error"].open \in BOOLEAN /\ run.failed \in BOOLEAN
    <3>1. issue'["error"].open \in BOOLEAN
      BY <2>1 DEF IssuesOK, IssueWith
    <3>2. run.failed \in BOOLEAN
      BY <1>1, <1>4 DEF RunOK
    <3> QED
      BY <3>1, <3>2
  <2>3. ~touched => issue'["error"].open = run.failed
    <3>1. CASE call = ToError("create")
      <4>1. run.failed
        BY <1>13, <1>25, <3>1 DEF ErrorIs
      <4> QED
        BY <2>1, <2>2, <3>1, <4>1
    <3>2. CASE call = ToError("body")
      <4>1. run.failed /\ (~touched => issue["error"].open)
        BY <1>13, <1>25, <3>2 DEF ErrorIs
      <4> QED
        BY <2>1, <2>2, <3>2, <4>1
    <3>3. CASE call = close
      <4>1. ~run.failed
        BY <1>13, <1>25, <3>3 DEF ErrorIs
      <4> QED
        BY <2>1, <2>2, <3>3, <4>1
    <3> QED
      BY <1>25, <3>1, <3>2, <3>3
  <2>4. ErrorOK(d)'
    BY <1>6, <1>13, <1>25, <2>3 DEF ErrorIs
  <2> QED
    BY <1>12, <1>25, <2>1, <2>4
<1>26. CASE /\ AdvisoriesOK(<<>>) /\ b = <<>> /\ call = ToError("label")
            /\ ErrorOK(<<call, ToError("body")>>) /\ d = <<ToError("body")>>
  <2>1. /\ call.on = "error" /\ IssuesOK(issue')
        /\ issue'["advisories"] = issue["advisories"]
        /\ issue'["error"].open = issue["error"].open
    BY <1>24, <1>26
  <2>2. ErrorOK(d)'
    BY <1>6, <1>13, <1>14, <1>26, <2>1 DEF ErrorIs
  <2> QED
    BY <1>12, <1>26, <2>1, <2>2
<1>27. CASE /\ AdvisoriesOK(<<>>) /\ b = <<>> /\ call = ToError("unlabel")
            /\ ErrorOK(<<call, ToError("label"), ToError("body")>>)
            /\ d = <<ToError("label"), ToError("body")>>
  <2>1. /\ call.on = "error" /\ IssuesOK(issue')
        /\ issue'["advisories"] = issue["advisories"]
        /\ issue'["error"].open = issue["error"].open
    BY <1>24, <1>27
  <2>2. ErrorOK(d)'
    BY <1>6, <1>13, <1>14, <1>27, <2>1 DEF ErrorIs
  <2> QED
    BY <1>12, <1>27, <2>1, <2>2
<1> HIDE DEF F, mine, mine2, close
<1> QED
  BY <1>10, <1>20, <1>21, <1>22, <1>23, <1>25, <1>26, <1>27, Zenon

\* Nothing happens.
LEMMA StutterInvStep ==
  ASSUME ScanInv, UNCHANGED scanVars
  PROVE  ScanInv'
<1>1. UNCHANGED <<world, issue, run, faults, touches, paged, standing, touched>>
  BY DEF scanVars
<1>2. \A x : ToAdvisories(x)' = ToAdvisories(x)
  BY <1>1 DEF ToAdvisories
<1>3. AllPaged' <=> AllPaged
  BY <1>1 DEF AllPaged
<1>4. StateOK'
  <2>1. FindingsOf(Present)' = FindingsOf(Present)
    BY <1>1, SameWorld
  <2>2. RunOK'
    BY <1>1, <2>1 DEF ScanInv, StateOK, RunOK
  <2> QED
    BY <1>1, <2>2 DEF ScanInv, StateOK, WorldOK
<1>5. TodoOK'
  <2> SUFFICES ASSUME run.step = "file" PROVE TodoOK'
    BY <1>1 DEF TodoOK
  <2>1. PICK a \in AdvisoriesLeft, e \in ErrorLeft :
          run.todo = a \o e /\ AdvisoriesOK(a) /\ ErrorOK(e)
    BY DEF ScanInv, TodoOK
  <2>2. a \in AdvisoriesLeft' /\ e \in ErrorLeft'
    BY <1>2 DEF AdvisoriesLeft, ErrorLeft, ToError
  <2>3. AdvisoriesOK(a)' /\ ErrorOK(e)'
    BY <1>1, <1>2, <1>3, <2>1 DEF AdvisoriesOK, ErrorOK, ToError
  <2> QED
    BY <1>1, <2>1, <2>2, <2>3 DEF TodoOK
<1> QED
  BY <1>1, <1>4, <1>5
  DEF ScanInv, SeenOK, SaidIsPaged, NewsOK, StandingOK, HeartbeatMeansFiled

\* Every state of the scan is as the invariant says.
LEMMA InvAlways == ScanSpec => []ScanInv
<1>1. ScanInit => ScanInv
  BY InitInv
<1>2. ScanInv /\ [ScanNext]_scanVars => ScanInv'
  <2> SUFFICES ASSUME ScanInv, [ScanNext]_scanVars PROVE ScanInv'
    OBVIOUS
  <2>1. CASE WorldChanges
    BY <2>1, WorldChangesInvStep
  <2>2. CASE \E t \in Titles : Touch(t)
    BY <2>2, TouchInvStep
  <2>3. CASE Begin
    BY <2>3, BeginInvStep
  <2>4. CASE Scan
    BY <2>4, ScanInvStep
  <2>5. CASE ScanFails
    BY <2>5, ScanFailsInvStep
  <2>6. CASE Apply
    BY <2>6, ApplyInvStep
  <2>7. CASE Die
    BY <2>7, DieInvStep
  <2>8. CASE Finish
    BY <2>8, FinishInvStep
  <2>9. CASE UNCHANGED scanVars
    BY <2>9, StutterInvStep
  <2> QED
    BY <2>1, <2>2, <2>3, <2>4, <2>5, <2>6, <2>7, <2>8, <2>9 DEF ScanNext, RunStep
<1> QED
  BY <1>1, <1>2, PTL DEF ScanSpec

-----------------------------------------------------------------------------
(* The properties.                                                         *)

\* The state stays of its type.
THEOREM TypeCorrect == ScanSpec => []TypeOK
<1>1. ScanInv => TypeOK
  <2> SUFFICES ASSUME ScanInv PROVE TypeOK
    OBVIOUS
  <2>1. /\ WorldOK /\ IssuesOK(issue) /\ RunOK
        /\ faults \in 0..MaxFaults /\ touches \in 0..MaxTouches
        /\ paged \subseteq Names /\ standing \subseteq Names /\ touched \in BOOLEAN
    BY DEF ScanInv, StateOK
  <2>2. \A t \in Titles :
          /\ issue[t].open \in BOOLEAN /\ issue[t].labels \subseteq {"needs-human", "needs-capital"}
          /\ issue[t].marker \in IF t = "error" THEN BOOLEAN ELSE Marker
    BY <2>1 DEF IssuesOK, IssueWith, Titles
  <2>3. /\ run.step \in {"idle", "scan", "file", "done", "dead"}
        /\ \A f \in run.found : f.id \in f.names /\ f.names \subseteq Names /\ f.rating \in Ratings
    BY <2>1 DEF RunOK, FoundOK
  <2> QED
    BY <2>1, <2>2, <2>3 DEF TypeOK, WorldOK
<1> QED
  BY <1>1, InvAlways, PTL

\* Each problem is found once, whatever order the report is printed in
\* (parse_osv_scanner's merge).
THEOREM EachFoundOnce == ScanSpec => []OneFindingEach
<1>1. ScanInv => OneFindingEach
  BY DEF ScanInv, StateOK, RunOK, OneFindingEach, FindingsOf
<1> QED
  BY <1>1, InvAlways, PTL

\* A run that answers the heartbeat has filed and paged what it found, and a run that
\* reached no verdict left the error issue open (build_plans, and the order of its calls).
THEOREM AnswerIsFiled == ScanSpec => []HeartbeatMeansFiled
<1>1. ScanInv => HeartbeatMeansFiled
  BY DEF ScanInv
<1> QED
  BY <1>1, InvAlways, PTL

\* What paged and still stands does not page again (build_plans' escalations, and the
\* names a finding was filed under).
THEOREM NothingPagesTwice == ScanSpec => []NoRepeatPage
<1>1. ScanInv => NoRepeatPage
  <2> SUFFICES ASSUME ScanInv, run.step = "file", NEW f \in run.paged
               PROVE  f.names \cap standing = {}
    BY DEF NoRepeatPage
  <2>1. f \in Paging(run.announced)
    BY DEF ScanInv, StateOK, RunOK
  <2> QED
    BY <2>1 DEF ScanInv, NewsOK
<1> QED
  BY <1>1, InvAlways, PTL

=============================================================================
