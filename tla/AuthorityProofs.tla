-------------------------- MODULE AuthorityProofs --------------------------
(* What the sticky authority of a scope keeps for every set of paths and    *)
(* markets, every cap and every timeout.                                    *)
EXTENDS AuthorityElection, WellFoundedInduction, TLAPS

-----------------------------------------------------------------------------
(* The inductive invariant.                                                 *)

Stamp == Nat \cup {None}

AuthState ==
  [leader : Path \cup {None}, seen : [Path -> Stamp], samples : [Path -> Seq(Int)],
   window : Nat, ordinals : Seq(Path), markets : [Market -> MarketState \cup {None}],
   order : Seq(Market)]

TypeOK ==
  /\ a \in AuthState
  /\ follows \in [Market -> Path \cup {None}]
  /\ spoke \in [Path -> 0..Now]
  /\ probation \in [Market -> [bad : 0..Now, based : BOOLEAN] \cup {None}]
  /\ refused \in [Market -> 0..Now \cup {None}]

\* Every path the authority tracks has a label, its leader among them, and it tracks none
\* before it has one; it last saw each when a message of it last reached admission.
Labelled(b) ==
  /\ \A p \in Path : b.seen[p] # None => p \in Range(b.ordinals)
  /\ IF b.leader = None THEN \A p \in Path : b.seen[p] = None ELSE b.seen[b.leader] # None
HeardLast == \A p \in Path : spoke[p] = LastSeen(a, p)

\* The path the authority admitted last, where it remembers one, is the one followed.
FollowsAdmitted == \A m \in Market : last_admitted(a, m) \in {None, follows[m]}

\* p sent a clear-led batch since its last unhealthy report, as far as m's entry knows.
Reinstalled(x, m, q) == x.markets[m] # None /\ q \in x.markets[m].reinstalled

\* While a path f serves in the leader's place its hold is stored, its probation no younger
\* than the history's t, and what counts as a re-baseline was one.
InPlace(x, m, f, t) ==
  /\ x.leader # None /\ HoldOf(x, m) # None /\ HoldOf(x, m).leader = x.leader
  /\ HoldOf(x, m).holder = f /\ f # x.leader
  /\ healthy(x, m, f)
  /\ HoldOf(x, m).since # None => healthy(x, m, x.leader) /\ t.bad <= HoldOf(x, m).since
  /\ Reinstalled(x, m, x.leader) => t.based
ProbationHeld ==
  \A m \in Market : probation[m] # None => InPlace(a, m, follows[m], probation[m])

\* A leader refused since t is healthy, and the hold in its way started no later.
Waits(x, m, t) ==
  /\ x.leader # None /\ healthy(x, m, x.leader)
  /\ HoldOf(x, m) # None /\ HoldOf(x, m).leader = x.leader
       => HoldOf(x, m).since # None /\ HoldOf(x, m).since <= t
RefusedTimed == \A m \in Market : refused[m] # None => Waits(a, m, refused[m])

Past(x, m) == HoldOf(x, m) # None /\ HoldOf(x, m).since # None => HoldOf(x, m).since <= Now
HoldsPast == \A m \in Market : Past(a, m)

Inv ==
  /\ TypeOK /\ Labelled(a) /\ HeardLast /\ FollowsAdmitted
  /\ HoldsPast /\ ProbationHeld /\ RefusedTimed

-----------------------------------------------------------------------------
(* What the operations of the authority keep of its record.                 *)

\* y is x but for samples, window, labels and the entries of its markets.
SameScope(x, y) == y.leader = x.leader /\ y.seen = x.seen

\* path_ordinal: only the labels grow, and the path has one afterwards or there are none left.
LEMMA PathLabelled ==
  ASSUME NEW x \in AuthState, NEW p \in Path, NEW y, y = path_ordinal(x, p)
  PROVE  /\ y \in AuthState /\ SameScope(x, y) /\ y.markets = x.markets
         /\ Range(x.ordinals) \subseteq Range(y.ordinals)
         /\ Eligible(x, p) <=> p \in Range(y.ordinals)
         /\ Eligible(x, p) => path_ordinal(y, p) = y /\ Eligible(y, p)
<1>1. CASE p \in Range(x.ordinals) \/ Len(x.ordinals) >= MAX_LABELLED_PATHS
  BY <1>1 DEF path_ordinal, Eligible, SameScope
<1>2. CASE ~(p \in Range(x.ordinals) \/ Len(x.ordinals) >= MAX_LABELLED_PATHS)
  <2>1. y = [x EXCEPT !.ordinals = Append(@, p)] /\ x.ordinals \in Seq(Path)
    BY <1>2 DEF path_ordinal, AuthState
  <2>2. Append(x.ordinals, p) \in Seq(Path)
    BY <2>1
  <2>3. /\ y \in AuthState /\ y.ordinals = Append(x.ordinals, p)
        /\ SameScope(x, y) /\ y.markets = x.markets
    BY <2>1, <2>2 DEF AuthState, SameScope
  <2>4. /\ DOMAIN x.ordinals = 1..Len(x.ordinals) /\ DOMAIN y.ordinals = 1..Len(x.ordinals) + 1
        /\ Len(x.ordinals) \in Nat /\ y.ordinals[Len(x.ordinals) + 1] = p
        /\ \A i \in 1..Len(x.ordinals) : y.ordinals[i] = x.ordinals[i]
    BY <2>1, <2>3
  <2>5. Range(x.ordinals) \subseteq Range(y.ordinals) /\ p \in Range(y.ordinals)
    BY <2>4 DEF Range
  <2> QED BY <2>3, <2>5 DEF Eligible, path_ordinal
<1> QED BY <1>1, <1>2

\* market_mut: the entry is there, as it was or new; another may be gone and no other changes.
LEMMA MarketEntered ==
  ASSUME NEW x \in AuthState, NEW m \in Market, NEW y, y = market_mut(x, m)
  PROVE  /\ y \in AuthState /\ SameScope(x, y) /\ y.ordinals = x.ordinals
         /\ y.markets[m] = IF x.markets[m] = None THEN NewMarket ELSE x.markets[m]
         /\ y.markets[m] \in MarketState
         /\ \A k \in Market \ {m} : y.markets[k] \in {None, x.markets[k]}
<1>1. x.markets \in [Market -> MarketState \cup {None}] /\ x.order \in Seq(Market)
  BY DEF AuthState
<1>2. CASE x.markets[m] # None
  BY <1>1, <1>2 DEF market_mut, SameScope
<1>3. CASE x.markets[m] = None
  <2> DEFINE n == IF Len(x.order) >= MAX_TRACKED_MARKETS
                  THEN Len(x.order) - MAX_TRACKED_MARKETS + 1 ELSE 0
             mk == [k \in Market |->
                 IF k = m THEN NewMarket
                 ELSE IF \E i \in 1..n : x.order[i] = k THEN None ELSE x.markets[k]]
             ord == Append(SubSeq(x.order, n + 1, Len(x.order)), m)
  <2>1. y = [x EXCEPT !.markets = mk, !.order = ord]
    BY <1>3 DEF market_mut
  <2>2. NewMarket \in MarketState
    BY DEF NewMarket, MarketState
  <2>3. /\ mk \in [Market -> MarketState \cup {None}] /\ mk[m] = NewMarket
        /\ \A k \in Market \ {m} : mk[k] \in {None, x.markets[k]}
    BY <1>1, <2>2
  <2>4. ord \in Seq(Market)
    <3>1. n \in Nat /\ n <= Len(x.order)
      BY <1>1, AuthorityConstants
    <3> HIDE DEF n
    <3> QED BY <1>1, <3>1
  <2> HIDE DEF mk, ord
  <2>5. y \in AuthState /\ y.markets = mk /\ SameScope(x, y) /\ y.ordinals = x.ordinals
    BY <2>1, <2>3, <2>4 DEF AuthState, SameScope
  <2> QED BY <1>3, <2>2, <2>3, <2>5
<1> QED BY <1>2, <1>3

WithEntry(x, m, e) == [x EXCEPT !.markets = [@ EXCEPT ![m] = e]]

\* An entry of a market is replaced.
LEMMA EntryReplaced ==
  ASSUME NEW x \in AuthState, NEW m \in Market, NEW e \in MarketState,
         NEW y, y = WithEntry(x, m, e)
  PROVE  /\ y \in AuthState /\ SameScope(x, y) /\ y.ordinals = x.ordinals
         /\ y.markets[m] = e /\ \A k \in Market \ {m} : y.markets[k] = x.markets[k]
<1> DEFINE mk == [x.markets EXCEPT ![m] = e]
<1>1. mk \in [Market -> MarketState \cup {None}] /\ mk[m] = e
      /\ \A k \in Market \ {m} : mk[k] = x.markets[k]
  BY DEF AuthState
<1>2. y = [x EXCEPT !.markets = mk]
  BY DEF AuthState, WithEntry
<1> HIDE DEF mk
<1>3. y \in AuthState /\ SameScope(x, y) /\ y.ordinals = x.ordinals /\ y.markets = mk
  BY <1>1, <1>2 DEF AuthState, SameScope
<1> QED BY <1>1, <1>3

\* What refresh_hold stores for m when p speaks there.
NextHold(x, m, p, now) ==
  LET stored == HoldOf(x, m)
      ok     == healthy(x, m, x.leader)
      since  == IF stored.since = None THEN now ELSE stored.since
  IN  IF ~Stands(x, m, stored, now)
        THEN IF ok \/ p = x.leader \/ ~healthy(x, m, p) THEN None
             ELSE [holder |-> p, leader |-> x.leader, since |-> None]
      ELSE IF ~ok THEN [stored EXCEPT !.since = None]
      ELSE IF Releases(x, m, since, p, now) THEN None
      ELSE [stored EXCEPT !.since = since]

\* What the last operators leave of the entry of m, whether it was there or was made.
SameEntry(x, y, m) ==
  /\ \A q \in Path : healthy(y, m, q) <=> healthy(x, m, q)
  /\ last_admitted(y, m) = last_admitted(x, m)
  /\ \A q \in Path : y.markets[m] # None /\ q \in y.markets[m].reinstalled
                       => x.markets[m] # None /\ q \in x.markets[m].reinstalled

\* refresh_hold: the hold becomes NextHold, and only the hold of the entry changes.
LEMMA HoldRefreshed ==
  ASSUME NEW x \in AuthState, NEW m \in Market, NEW p \in Path, NEW now \in Nat,
         x.leader # None, NEW y, y = refresh_hold(x, m, p, now)
  PROVE  /\ y \in AuthState /\ SameScope(x, y) /\ y.ordinals = x.ordinals
         /\ HoldOf(y, m) = NextHold(x, m, p, now) /\ SameEntry(x, y, m)
         /\ x.markets[m] # None => y.markets[m] # None
         /\ \A k \in Market \ {m} : y.markets[k] \in {None, x.markets[k]}
<1> DEFINE stored == HoldOf(x, m)
           ok == healthy(x, m, x.leader)
           next == NextHold(x, m, p, now)
           b == market_mut(x, m)
           e == [b.markets[m] EXCEPT !.hold = next]
<1>1. y = IF stored = None /\ (ok \/ next = None) THEN x ELSE [b EXCEPT !.markets[m].hold = next]
  BY DEF refresh_hold, NextHold
<1>2. stored = None \/ (stored \in RevertHold /\ stored = x.markets[m].hold /\ x.markets[m] # None)
  BY DEF HoldOf, AuthState, MarketState
<1>3. next \in RevertHold \cup {None}
  <2>1. x.leader \in Path
    BY DEF AuthState
  <2>2. CASE ~Stands(x, m, stored, now)
    BY <2>1, <2>2 DEF NextHold, RevertHold
  <2>3. CASE Stands(x, m, stored, now)
    <3>1. stored \in RevertHold
      BY <1>2, <2>3 DEF Stands
    <3> QED BY <2>3, <3>1 DEF NextHold, RevertHold
  <2> QED BY <2>2, <2>3
<1>4. CASE stored = None /\ (ok \/ next = None)
  <2>1. y = x
    BY <1>1, <1>4
  <2>2. next = None
    BY <1>4 DEF NextHold, Stands
  <2> QED BY <1>4, <2>1, <2>2 DEF SameEntry, SameScope
<1>5. CASE ~(stored = None /\ (ok \/ next = None))
  <2> HIDE DEF next, ok, stored
  <2>1. /\ b \in AuthState /\ SameScope(x, b) /\ b.ordinals = x.ordinals
        /\ b.markets[m] = IF x.markets[m] = None THEN NewMarket ELSE x.markets[m]
        /\ b.markets[m] \in MarketState
        /\ \A k \in Market \ {m} : b.markets[k] \in {None, x.markets[k]}
    BY MarketEntered
  <2> HIDE DEF b
  <2>2. e \in MarketState /\ e.hold = next /\ e.unhealthy = b.markets[m].unhealthy
        /\ e.reinstalled = b.markets[m].reinstalled /\ e.last_admitted = b.markets[m].last_admitted
    BY <1>3, <2>1 DEF MarketState
  <2>3. y = WithEntry(b, m, e)
    BY <1>1, <1>5, <2>1 DEF AuthState, WithEntry
  <2> HIDE DEF e
  <2>4. /\ y \in AuthState /\ SameScope(b, y) /\ y.ordinals = b.ordinals
        /\ y.markets[m] = e /\ \A k \in Market \ {m} : y.markets[k] = b.markets[k]
    BY <2>1, <2>2, <2>3, EntryReplaced
  <2>5. y.markets[m] # None
    BY <2>2, <2>4, NoneAssumption
  <2>6. SameEntry(x, y, m)
    BY <2>1, <2>2, <2>4, <2>5 DEF SameEntry, healthy, last_admitted, NewMarket
  <2>7. HoldOf(y, m) = next
    BY <2>2, <2>4, <2>5 DEF HoldOf
  <2> QED BY <2>1, <2>4, <2>5, <2>6, <2>7 DEF SameScope, next
<1> QED BY <1>4, <1>5

\* heard: the path was seen now, and leads if the leader was silent for too long.
LEMMA HeardNow ==
  ASSUME NEW x \in AuthState, NEW p \in Path, NEW y, y = heard(x, p, Now)
  PROVE  /\ y \in AuthState /\ y.ordinals = x.ordinals /\ y.markets = x.markets
         /\ y.seen = [x.seen EXCEPT ![p] = Now]
         /\ y.leader = IF p # x.leader /\ Now - LastSeen(x, x.leader) > leader_timeout_ns
                       THEN p ELSE x.leader
<1> DEFINE sn == [x.seen EXCEPT ![p] = Now]
           b == [x EXCEPT !.seen = sn]
           sm == [q \in Path |-> <<>>]
           takes == p # x.leader /\ Now - LastSeen(x, x.leader) > leader_timeout_ns
<1>1. Now \in Nat
  BY ClockAssumption
<1>2. sn \in [Path -> Stamp]
  BY <1>1 DEF AuthState, Stamp
<1>3. b \in AuthState /\ b.seen = sn /\ b.leader = x.leader /\ b.ordinals = x.ordinals
      /\ b.markets = x.markets
  BY <1>2 DEF AuthState
<1>4. y = IF takes THEN [b EXCEPT !.leader = p, !.window = Now, !.samples = sm] ELSE b
  BY DEF heard, take_authority, AuthState
<1>5. sm \in [Path -> Seq(Int)]
  OBVIOUS
<1> HIDE DEF takes, sm, b
<1>6. CASE takes
  <2>1. y = [b EXCEPT !.leader = p, !.window = Now, !.samples = sm]
    BY <1>4, <1>6
  <2>2. y \in AuthState /\ y.seen = b.seen /\ y.leader = p /\ y.ordinals = b.ordinals
        /\ y.markets = b.markets
    BY <1>1, <1>3, <1>5, <2>1 DEF AuthState
  <2> QED BY <1>3, <1>6, <2>2 DEF takes
<1>7. CASE ~takes
  BY <1>3, <1>4, <1>7 DEF takes
<1> QED BY <1>6, <1>7

\* Served: the path is the last admitted, and nothing else of the entry changes.
LEMMA EntryServed ==
  ASSUME NEW x \in AuthState, NEW m \in Market, NEW p \in Path, NEW y, y = Served(x, m, p)
  PROVE  /\ y \in AuthState /\ SameScope(x, y) /\ y.ordinals = x.ordinals
         /\ y.markets[m] # None /\ last_admitted(y, m) = p /\ HoldOf(y, m) = HoldOf(x, m)
         /\ \A q \in Path : healthy(y, m, q) <=> healthy(x, m, q)
         /\ \A q \in Path : q \in y.markets[m].reinstalled
                              => x.markets[m] # None /\ q \in x.markets[m].reinstalled
         /\ \A k \in Market \ {m} : y.markets[k] \in {None, x.markets[k]}
<1> DEFINE b == market_mut(x, m)
           e == [b.markets[m] EXCEPT !.last_admitted = p]
<1>1. /\ b \in AuthState /\ SameScope(x, b) /\ b.ordinals = x.ordinals
      /\ b.markets[m] = IF x.markets[m] = None THEN NewMarket ELSE x.markets[m]
      /\ b.markets[m] \in MarketState
      /\ \A k \in Market \ {m} : b.markets[k] \in {None, x.markets[k]}
  BY MarketEntered
<1>2. y = WithEntry(b, m, e)
  BY <1>1 DEF AuthState, Served, WithEntry
<1> HIDE DEF b
<1>3. e \in MarketState /\ e.last_admitted = p /\ e.unhealthy = b.markets[m].unhealthy
      /\ e.reinstalled = b.markets[m].reinstalled /\ e.hold = b.markets[m].hold
  BY <1>1 DEF MarketState
<1> HIDE DEF e
<1>4. /\ y \in AuthState /\ SameScope(b, y) /\ y.ordinals = b.ordinals
      /\ y.markets[m] = e /\ \A k \in Market \ {m} : y.markets[k] = b.markets[k]
  BY <1>1, <1>2, <1>3, EntryReplaced
<1>5. y.markets[m] # None
  BY <1>3, <1>4, NoneAssumption
<1>6. last_admitted(y, m) = p /\ HoldOf(y, m) = HoldOf(x, m)
  BY <1>1, <1>3, <1>4, <1>5 DEF last_admitted, HoldOf, NewMarket
<1>7. /\ \A q \in Path : healthy(y, m, q) <=> healthy(x, m, q)
      /\ \A q \in Path : q \in y.markets[m].reinstalled
                              => x.markets[m] # None /\ q \in x.markets[m].reinstalled
  BY <1>1, <1>3, <1>4, <1>5 DEF healthy, NewMarket
<1> QED BY <1>1, <1>4, <1>5, <1>6, <1>7 DEF SameScope

\* The first eligible path to deliver becomes the leader and is served.
LEMMA FirstServed ==
  ASSUME NEW x \in AuthState, NEW m \in Market, NEW p \in Path, NEW y, y = first(x, m, p, Now)
  PROVE  \E b \in AuthState :
           /\ y = Served(b, m, p) /\ b.leader = p /\ b.seen = [x.seen EXCEPT ![p] = Now]
           /\ b.ordinals = x.ordinals /\ b.markets = x.markets
<1> DEFINE sn == [x.seen EXCEPT ![p] = Now]
           b == [x EXCEPT !.leader = p, !.seen = sn, !.window = Now]
<1>1. Now \in Nat
  BY ClockAssumption
<1>2. sn \in [Path -> Stamp]
  BY <1>1 DEF AuthState, Stamp
<1>3. y = Served(b, m, p)
  BY DEF first, Served, AuthState
<1> HIDE DEF sn
<1>4. b \in AuthState /\ b.leader = p /\ b.seen = sn /\ b.ordinals = x.ordinals
      /\ b.markets = x.markets
  BY <1>1, <1>2 DEF AuthState
<1> QED BY <1>3, <1>4 DEF sn

-----------------------------------------------------------------------------
(* Who serves.                                                              *)

\* A non-empty set of naturals has a least element, and so a greatest if it is bounded.
LEMMA LeastNatural ==
  ASSUME NEW S \in SUBSET Nat, S # {}
  PROVE  \E x \in S : \A y \in S : x <= y
<1> DEFINE R == {ss \in Nat \X Nat : ss[1] < ss[2]}
<1>1. IsWellFoundedOn(R, Nat)
  BY NatLessThanWellFounded, Zenon DEF OpToRel
<1>2. \A x, y \in Nat : y < x => <<y, x>> \in R
  OBVIOUS
<1> HIDE DEF R
<1>3. PICK x \in S : \A y \in S : <<y, x>> \notin R
  BY <1>1, WFMin, Zenon
<1>4. \A y \in S : ~(y < x)
  BY <1>2, <1>3, Zenon
<1> QED BY <1>4

\* A bounded non-empty set of naturals has a greatest element.
LEMMA GreatestNatural ==
  ASSUME NEW S \in SUBSET Nat, S # {}, NEW n \in Nat, \A x \in S : x <= n
  PROVE  \E x \in S : \A y \in S : y <= x
<1> DEFINE T == {d \in Nat : n - d \in S}
<1>1. T \in SUBSET Nat /\ T # {}
  <2>1. PICK x \in S : TRUE
    OBVIOUS
  <2>2. n - x \in Nat /\ n - (n - x) = x
    BY <2>1
  <2> QED BY <2>1, <2>2
<1>2. PICK d \in T : \A e \in T : d <= e
  <2> HIDE DEF T
  <2> QED BY <1>1, LeastNatural
<1>3. ASSUME NEW y \in S PROVE y <= n - d
  <2>1. n - y \in Nat /\ n - (n - y) = y
    OBVIOUS
  <2>2. n - y \in T
    BY <2>1
  <2> QED BY <1>2, <2>2
<1> QED BY <1>2, <1>3

SeenBy(x, n) == \A q \in Path : LastSeen(x, q) \in Nat /\ LastSeen(x, q) <= n

\* alternate: the choice among the healthy tracked paths is one of them, and none of them
\* was heard from later.
LEMMA AlternateChosen ==
  ASSUME NEW x \in AuthState, NEW m \in Market, Labelled(x), NEW n \in Nat, SeenBy(x, n),
         Alternates(x, m) # {}
  PROVE  /\ alternate(x, m) \in Alternates(x, m)
         /\ \A q \in Alternates(x, m) : LastSeen(x, q) <= LastSeen(x, alternate(x, m))
<1> DEFINE A == Alternates(x, m)
           Label(p) == CHOOSE i \in DOMAIN x.ordinals : x.ordinals[i] = p
           S == {LastSeen(x, p) : p \in A}
<1>1. A \subseteq Path
  BY DEF Alternates
<1>2. \A p \in A : Label(p) \in DOMAIN x.ordinals /\ x.ordinals[Label(p)] = p
  <2> SUFFICES ASSUME NEW p \in A
               PROVE  \E i \in DOMAIN x.ordinals : x.ordinals[i] = p
    OBVIOUS
  <2>1. p \in Range(x.ordinals)
    BY DEF Alternates, Labelled
  <2> QED BY <2>1 DEF Range
<1>3. DOMAIN x.ordinals = 1..Len(x.ordinals) /\ Len(x.ordinals) \in Nat
  BY DEF AuthState
<1>4. S \in SUBSET Nat /\ S # {} /\ \A t \in S : t <= n
  BY <1>1 DEF SeenBy
<1>5. PICK t \in S : \A u \in S : u <= t
  <2> HIDE DEF S
  <2> QED BY <1>4, GreatestNatural
<1> DEFINE B == {p \in A : LastSeen(x, p) = t}
           L == {Label(p) : p \in B}
<1>6. L \in SUBSET Nat /\ L # {} /\ \A i \in L : i <= Len(x.ordinals)
  <2> HIDE DEF Label
  <2> QED BY <1>2, <1>3, <1>5
<1>7. PICK l \in L : \A i \in L : i <= l
  <2> HIDE DEF L
  <2> QED BY <1>3, <1>6, GreatestNatural
<1>8. PICK p \in B : Label(p) = l
  BY <1>7
<1> HIDE DEF Label, A
<1>9. ASSUME NEW q \in A, q # p
      PROVE  LastSeen(x, p) > LastSeen(x, q)
             \/ (LastSeen(x, p) = LastSeen(x, q) /\ Label(p) > Label(q))
  <2>1. LastSeen(x, q) \in S /\ LastSeen(x, q) <= t /\ t \in Nat /\ LastSeen(x, q) \in Nat
    BY <1>4, <1>5, <1>9
  <2>2. CASE LastSeen(x, q) = t
    <3>1. Label(q) <= l /\ Label(q) # Label(p)
      BY <1>2, <1>7, <1>8, <1>9, <2>2
    <3>2. Label(q) \in Nat /\ l \in Nat
      BY <1>6, <1>7, <1>9, <2>2
    <3> QED BY <1>8, <2>2, <3>1, <3>2
  <2> QED BY <1>8, <2>1, <2>2
<1>10. \A q \in A \ {p} : MoreRecent(x, p, q)
  BY <1>9 DEF MoreRecent, Label
<1>11. /\ alternate(x, m) \in A
       /\ \A q \in A \ {alternate(x, m)} : MoreRecent(x, alternate(x, m), q)
  BY <1>8, <1>10 DEF alternate, A
<1>12. ASSUME NEW q \in A PROVE LastSeen(x, q) <= LastSeen(x, alternate(x, m))
  <2>1. LastSeen(x, q) \in Nat /\ LastSeen(x, alternate(x, m)) \in Nat
    BY <1>1, <1>11, <1>12 DEF SeenBy
  <2>2. CASE q # alternate(x, m)
    <3>1. MoreRecent(x, alternate(x, m), q)
      BY <1>11, <1>12, <2>2
    <3>2. \/ LastSeen(x, alternate(x, m)) > LastSeen(x, q)
          \/ LastSeen(x, alternate(x, m)) = LastSeen(x, q)
      BY <3>1, Zenon DEF MoreRecent
    <3> QED BY <2>1, <3>2
  <2> QED BY <2>1, <2>2
<1> QED BY <1>11, <1>12 DEF A

\* serving: the holder of a hold under this leader whose book here is healthy; else the
\* leader, unless another is the better; else the healthy path heard from last.
HoldServes(x, m) ==
  HoldOf(x, m) # None /\ HoldOf(x, m).leader = x.leader /\ healthy(x, m, HoldOf(x, m).holder)

\* serving picks the path those three cases say.
LEMMA ServingIs ==
  ASSUME NEW x \in AuthState, NEW m \in Market, Labelled(x), x.leader # None,
         NEW n \in Nat, SeenBy(x, n)
  PROVE  /\ HoldServes(x, m) => serving(x, m) = HoldOf(x, m).holder
         /\ ~HoldServes(x, m) /\ (healthy(x, m, x.leader) \/ Alternates(x, m) = {})
              => serving(x, m) = x.leader
         /\ ~HoldServes(x, m) /\ ~healthy(x, m, x.leader) /\ Alternates(x, m) # {}
              => /\ serving(x, m) \in Alternates(x, m)
                 /\ \A q \in Alternates(x, m) : LastSeen(x, q) <= LastSeen(x, serving(x, m))
         /\ serving(x, m) \in Path
<1>1. HoldServes(x, m) => serving(x, m) = HoldOf(x, m).holder /\ serving(x, m) \in Path
  BY DEF serving, HoldServes, HoldOf, AuthState, MarketState, RevertHold
<1>2. ~HoldServes(x, m) /\ (healthy(x, m, x.leader) \/ Alternates(x, m) = {})
        => serving(x, m) = x.leader /\ serving(x, m) \in Path
  BY DEF serving, HoldServes, AuthState
<1>3. ASSUME ~HoldServes(x, m), ~healthy(x, m, x.leader), Alternates(x, m) # {}
      PROVE  /\ serving(x, m) \in Alternates(x, m) /\ serving(x, m) \in Path
             /\ \A q \in Alternates(x, m) : LastSeen(x, q) <= LastSeen(x, serving(x, m))
  <2>1. serving(x, m) = alternate(x, m)
    BY <1>3, Zenon DEF serving, HoldServes
  <2>2. /\ alternate(x, m) \in Alternates(x, m)
        /\ \A q \in Alternates(x, m) : LastSeen(x, q) <= LastSeen(x, alternate(x, m))
    BY <1>3, AlternateChosen
  <2> QED BY <2>1, <2>2 DEF Alternates
<1> QED BY <1>1, <1>2, <1>3

-----------------------------------------------------------------------------
(* One batch: the steps of Deliver by name.                                 *)

Noted(x, m, p, clear, incomplete) ==
  LET r == path_ordinal(x, p)
      n == IF clear THEN note_rebaseline_point(r, m, p) ELSE r
  IN  IF n.leader = p /\ holding_revert(n, m) /\ incomplete THEN drop_hold(n, m) ELSE n

Spoken(x, m, p, clear, incomplete) == heard(Noted(x, m, p, clear, incomplete), p, Now)

Judged(x, m, p, clear, incomplete) == refresh_hold(Spoken(x, m, p, clear, incomplete), m, p, Now)

\* Arbiter::emit before the decision: a clear-led batch of p is noted, and the hold that
\* outlived an incomplete replay is gone.
LEMMA BatchNoted ==
  ASSUME NEW x \in AuthState, NEW m \in Market, NEW p \in Path, NEW clear \in BOOLEAN,
         NEW incomplete \in BOOLEAN, Eligible(x, p), x.leader = None \/ x.leader \in Path,
         NEW y, y = Noted(x, m, p, clear, incomplete)
  PROVE  /\ y \in AuthState /\ SameScope(x, y)
         /\ Range(x.ordinals) \subseteq Range(y.ordinals) /\ p \in Range(y.ordinals)
         /\ path_ordinal(y, p) = y /\ Eligible(y, p)
         /\ \A q \in Path : healthy(y, m, q) <=> healthy(x, m, q)
         /\ last_admitted(y, m) = last_admitted(x, m)
         /\ \A q \in Path : Reinstalled(y, m, q) => Reinstalled(x, m, q) \/ (clear /\ q = p)
         /\ y.markets[m] = None <=> x.markets[m] = None
         /\ \A k \in Market \ {m} : y.markets[k] = x.markets[k]
         /\ IF incomplete /\ x.leader = p /\ holding_revert(x, m)
            THEN HoldOf(y, m) = None ELSE HoldOf(y, m) = HoldOf(x, m)
<1> DEFINE r == path_ordinal(x, p)
           n == IF clear THEN note_rebaseline_point(r, m, p) ELSE r
<1>1. /\ r \in AuthState /\ SameScope(x, r) /\ r.markets = x.markets
      /\ Range(x.ordinals) \subseteq Range(r.ordinals) /\ p \in Range(r.ordinals)
  BY PathLabelled
<1> HIDE DEF r
<1>2. /\ n \in AuthState /\ SameScope(r, n) /\ n.ordinals = r.ordinals
      /\ \A q \in Path : healthy(n, m, q) <=> healthy(r, m, q)
      /\ last_admitted(n, m) = last_admitted(r, m) /\ HoldOf(n, m) = HoldOf(r, m)
      /\ \A q \in Path : Reinstalled(n, m, q) => Reinstalled(r, m, q) \/ (clear /\ q = p)
      /\ n.markets[m] = None <=> r.markets[m] = None
      /\ \A k \in Market \ {m} : n.markets[k] = r.markets[k]
  <2>1. CASE ~clear \/ r.markets[m] = None
    BY <1>1, <2>1 DEF note_rebaseline_point, SameScope
  <2>2. CASE clear /\ r.markets[m] # None
    <3> DEFINE e == [r.markets[m] EXCEPT !.reinstalled = @ \cup {p}]
    <3>1. r.markets[m] \in MarketState
      BY <1>1, <2>2 DEF AuthState
    <3>2. e \in MarketState /\ e.hold = r.markets[m].hold /\ e.unhealthy = r.markets[m].unhealthy
          /\ e.last_admitted = r.markets[m].last_admitted
          /\ e.reinstalled = r.markets[m].reinstalled \cup {p}
      BY <3>1 DEF MarketState
    <3>3. n = WithEntry(r, m, e)
      BY <1>1, <2>2 DEF note_rebaseline_point, AuthState, WithEntry
    <3> HIDE DEF e, n
    <3>4. /\ n \in AuthState /\ SameScope(r, n) /\ n.ordinals = r.ordinals
          /\ n.markets[m] = e /\ \A k \in Market \ {m} : n.markets[k] = r.markets[k]
      <4>1. r \in AuthState /\ e \in MarketState
        BY <1>1, <3>2
      <4> QED BY <4>1, <3>3, EntryReplaced
    <3>5. n.markets[m] # None
      BY <3>2, <3>4, NoneAssumption
    <3> QED BY <2>2, <3>2, <3>4, <3>5 DEF healthy, last_admitted, HoldOf, Reinstalled
  <2> QED BY <2>1, <2>2
<1>3. y = IF n.leader = p /\ holding_revert(n, m) /\ incomplete THEN drop_hold(n, m) ELSE n
  BY Zenon DEF Noted, r
<1> HIDE DEF n
<1>4. (n.leader = p /\ holding_revert(n, m) /\ incomplete)
        <=> (incomplete /\ x.leader = p /\ holding_revert(x, m))
  <2>1. n.leader = x.leader /\ HoldOf(n, m) = HoldOf(x, m)
    BY <1>1, <1>2 DEF SameScope, HoldOf
  <2>2. x.leader # None => (healthy(n, m, x.leader) <=> healthy(x, m, x.leader))
    BY <1>1, <1>2 DEF healthy
  <2> QED BY <2>1, <2>2 DEF holding_revert
<1>5. /\ \A q \in Path : healthy(n, m, q) <=> healthy(x, m, q)
      /\ last_admitted(n, m) = last_admitted(x, m) /\ HoldOf(n, m) = HoldOf(x, m)
      /\ \A q \in Path : Reinstalled(n, m, q) => Reinstalled(x, m, q) \/ (clear /\ q = p)
      /\ n.markets[m] = None <=> x.markets[m] = None
      /\ \A k \in Market \ {m} : n.markets[k] = x.markets[k]
      /\ SameScope(x, n)
  BY <1>1, <1>2 DEF healthy, last_admitted, HoldOf, Reinstalled, SameScope
<1>6. CASE ~(incomplete /\ x.leader = p /\ holding_revert(x, m))
  <2>1. y = n
    BY <1>3, <1>4, <1>6
  <2>2. path_ordinal(n, p) = n /\ Eligible(n, p)
    BY <1>1, <1>2 DEF path_ordinal, Eligible
  <2> QED BY <1>1, <1>2, <1>5, <1>6, <2>1, <2>2
<1>7. CASE incomplete /\ x.leader = p /\ holding_revert(x, m)
  <2> DEFINE e == [n.markets[m] EXCEPT !.hold = None]
  <2>1. n.markets[m] # None
    BY <1>5, <1>7 DEF holding_revert, HoldOf
  <2>2. n.markets[m] \in MarketState
    BY <1>2, <2>1 DEF AuthState
  <2>3. e \in MarketState /\ e.hold = None /\ e.unhealthy = n.markets[m].unhealthy
        /\ e.last_admitted = n.markets[m].last_admitted
        /\ e.reinstalled = n.markets[m].reinstalled
    BY <2>2 DEF MarketState
  <2>4. y = WithEntry(n, m, e)
    BY <1>2, <1>3, <1>4, <1>7, <2>1 DEF drop_hold, AuthState, WithEntry
  <2> HIDE DEF e
  <2>5. /\ y \in AuthState /\ SameScope(n, y) /\ y.ordinals = n.ordinals
        /\ y.markets[m] = e /\ \A k \in Market \ {m} : y.markets[k] = n.markets[k]
    <3>1. n \in AuthState /\ e \in MarketState
      BY <1>2, <2>3
    <3> QED BY <3>1, <2>4, EntryReplaced
  <2>6. y.markets[m] # None
    BY <2>3, <2>5, NoneAssumption
  <2>7. path_ordinal(y, p) = y /\ Eligible(y, p)
    BY <1>1, <1>2, <2>5 DEF path_ordinal, Eligible
  <2>8. /\ \A q \in Path : healthy(y, m, q) <=> healthy(n, m, q)
        /\ last_admitted(y, m) = last_admitted(n, m) /\ HoldOf(y, m) = None
        /\ \A q \in Path : Reinstalled(y, m, q) => Reinstalled(n, m, q)
    BY <2>1, <2>3, <2>5, <2>6 DEF healthy, last_admitted, HoldOf, Reinstalled
  <2> QED BY <1>1, <1>2, <1>5, <1>7, <2>1, <2>5, <2>6, <2>7, <2>8 DEF SameScope
<1> QED BY <1>6, <1>7

\* The hold the decision starts from, and whether it still stands at b.
HeldBefore(x, m, p, incomplete) ==
  IF incomplete /\ x.leader = p /\ holding_revert(x, m) THEN None ELSE HoldOf(x, m)

StandsAt(x, b, m, h) ==
  /\ h # None /\ h.leader = b.leader /\ healthy(x, m, h.holder)
  /\ b.seen[h.holder] # None /\ Now - b.seen[h.holder] <= leader_timeout_ns

SinceOr(h) == IF h.since = None THEN Now ELSE h.since

Kept(x, b, m) ==
  /\ \A q \in Path : healthy(b, m, q) <=> healthy(x, m, q)
  /\ last_admitted(b, m) = last_admitted(x, m)
  /\ x.markets[m] # None => b.markets[m] # None
  /\ \A k \in Market \ {m} : b.markets[k] \in {None, x.markets[k]}

\* The hold of m at b, where p was heard: made, kept or released.
HoldJudged(x, b, m, p, clear, h) ==
  /\ ~StandsAt(x, b, m, h) =>
       HoldOf(b, m) = IF healthy(x, m, b.leader) \/ p = b.leader \/ ~healthy(x, m, p) THEN None
                      ELSE [holder |-> p, leader |-> b.leader, since |-> None]
  /\ StandsAt(x, b, m, h) /\ ~healthy(x, m, b.leader) => HoldOf(b, m) = [h EXCEPT !.since = None]
  /\ StandsAt(x, b, m, h) /\ healthy(x, m, b.leader) =>
       \/ /\ HoldOf(b, m) = [h EXCEPT !.since = SinceOr(h)]
          /\ ~(p = b.leader /\ Now - SinceOr(h) >= REVERT_DEADLINE_NS)
       \/ /\ HoldOf(b, m) = None /\ p = b.leader
          /\ \/ /\ Now - SinceOr(h) >= REVERT_HOLD_NS
                /\ clear \/ Reinstalled(x, m, b.leader)
             \/ Now - SinceOr(h) >= REVERT_DEADLINE_NS

\* The scope at b, where p was heard.
ScopeJudged(x, b, p) ==
  /\ b \in AuthState /\ Labelled(b) /\ SeenBy(b, Now)
  /\ b.seen = [x.seen EXCEPT ![p] = Now]
  /\ b.leader = IF p # x.leader /\ Now - LastSeen(x, x.leader) > leader_timeout_ns
                THEN p ELSE x.leader

\* A path heard now, and a leader that was tracked: the tracked paths keep labels.
LEMMA HeardLabelled ==
  ASSUME NEW x \in AuthState, Labelled(x), SeenBy(x, Now), NEW p \in Path, NEW b \in AuthState,
         b.seen = [x.seen EXCEPT ![p] = Now], b.leader \in {p, x.leader}, b.leader # None,
         Range(x.ordinals) \subseteq Range(b.ordinals), p \in Range(b.ordinals)
  PROVE  /\ Labelled(b) /\ SeenBy(b, Now) /\ b.seen[p] = Now
         /\ \A q \in Path \ {p} : b.seen[q] = x.seen[q]
<1>1. Now \in Nat /\ Now # None
  BY ClockAssumption, AuthorityConstants
<1>2. x.seen \in [Path -> Stamp] /\ x.leader \in Path \cup {None}
  BY DEF AuthState
<1>3. b.seen[p] = Now /\ \A q \in Path \ {p} : b.seen[q] = x.seen[q]
  BY <1>2
<1>4. Labelled(b)
  <2>1. ASSUME NEW q \in Path, b.seen[q] # None PROVE q \in Range(b.ordinals)
    BY <1>3, <2>1 DEF Labelled
  <2>2. b.seen[b.leader] # None
    BY <1>1, <1>2, <1>3 DEF Labelled
  <2> QED BY <2>1, <2>2 DEF Labelled
<1>5. SeenBy(b, Now)
  BY <1>1, <1>3 DEF SeenBy, LastSeen
<1> QED BY <1>3, <1>4, <1>5

\* A batch of p, up to the question who serves: p was heard, the leader is decided and the
\* hold of m is refreshed; nothing else of the entry of m changes.
LEMMA BatchJudged ==
  ASSUME NEW x \in AuthState, NEW m \in Market, NEW p \in Path, NEW clear \in BOOLEAN,
         NEW incomplete \in BOOLEAN, Eligible(x, p), x.leader # None,
         Labelled(x), SeenBy(x, Now),
         NEW b, b = Judged(x, m, p, clear, incomplete)
  PROVE  /\ ScopeJudged(x, b, p) /\ Kept(x, b, m)
         /\ HoldJudged(x, b, m, p, clear, HeldBefore(x, m, p, incomplete))
         /\ \A q \in Path : Reinstalled(b, m, q) => Reinstalled(x, m, q) \/ (clear /\ q = p)
<1> DEFINE n == Noted(x, m, p, clear, incomplete)
           s == Spoken(x, m, p, clear, incomplete)
           h == HeldBefore(x, m, p, incomplete)
<1>0. Now \in Nat /\ x.leader \in Path
  BY ClockAssumption DEF AuthState
<1>1. /\ n \in AuthState /\ SameScope(x, n)
      /\ Range(x.ordinals) \subseteq Range(n.ordinals) /\ p \in Range(n.ordinals)
      /\ \A q \in Path : healthy(n, m, q) <=> healthy(x, m, q)
      /\ last_admitted(n, m) = last_admitted(x, m)
      /\ \A q \in Path : Reinstalled(n, m, q) => Reinstalled(x, m, q) \/ (clear /\ q = p)
      /\ n.markets[m] = None <=> x.markets[m] = None
      /\ \A k \in Market \ {m} : n.markets[k] = x.markets[k]
      /\ HoldOf(n, m) = h
  BY <1>0, BatchNoted DEF HeldBefore
<1> HIDE DEF n
<1>2. /\ s \in AuthState /\ s.ordinals = n.ordinals /\ s.markets = n.markets
      /\ s.seen = [n.seen EXCEPT ![p] = Now]
      /\ s.leader = IF p # n.leader /\ Now - LastSeen(n, n.leader) > leader_timeout_ns
                    THEN p ELSE n.leader
  BY <1>1, HeardNow DEF Spoken, n
<1>3. /\ s.leader = IF p # x.leader /\ Now - LastSeen(x, x.leader) > leader_timeout_ns
                    THEN p ELSE x.leader
      /\ s.seen = [x.seen EXCEPT ![p] = Now] /\ s.leader # None
  BY <1>0, <1>1, <1>2, AuthorityConstants DEF SameScope, LastSeen
<1>4. b = refresh_hold(s, m, p, Now)
  BY DEF Judged
<1> HIDE DEF s
<1>5. /\ b \in AuthState /\ SameScope(s, b) /\ b.ordinals = s.ordinals
      /\ HoldOf(b, m) = NextHold(s, m, p, Now) /\ SameEntry(s, b, m)
      /\ s.markets[m] # None => b.markets[m] # None
      /\ \A k \in Market \ {m} : b.markets[k] \in {None, s.markets[k]}
  BY <1>0, <1>2, <1>3, <1>4, HoldRefreshed
<1>6. b.seen = [x.seen EXCEPT ![p] = Now] /\ b.leader = s.leader
      /\ b.leader \in {p, x.leader} /\ b.leader # None
  BY <1>3, <1>5 DEF SameScope
<1>7. ScopeJudged(x, b, p)
  <2>1. Range(x.ordinals) \subseteq Range(b.ordinals) /\ p \in Range(b.ordinals)
    BY <1>1, <1>2, <1>5
  <2>2. Labelled(b) /\ SeenBy(b, Now)
    BY <1>5, <1>6, <2>1, HeardLabelled
  <2> QED BY <1>3, <1>5, <1>6, <2>2 DEF ScopeJudged
<1>8. /\ \A q \in Path : healthy(s, m, q) <=> healthy(x, m, q)
      /\ last_admitted(s, m) = last_admitted(x, m) /\ HoldOf(s, m) = h
      /\ \A q \in Path : Reinstalled(s, m, q) => Reinstalled(x, m, q) \/ (clear /\ q = p)
      /\ s.markets[m] = None <=> x.markets[m] = None
      /\ \A k \in Market \ {m} : s.markets[k] = x.markets[k]
  BY <1>1, <1>2 DEF healthy, last_admitted, HoldOf, Reinstalled
<1>9. Kept(x, b, m)
  BY <1>5, <1>8 DEF Kept, SameEntry
<1>10. \A q \in Path : Reinstalled(b, m, q) => Reinstalled(x, m, q) \/ (clear /\ q = p)
  BY <1>5, <1>8 DEF SameEntry, Reinstalled
<1>11. HoldJudged(x, b, m, p, clear, h)
  <2>1. h = None \/ (h \in RevertHold /\ s.markets[m] # None)
    BY <1>2, <1>8 DEF HoldOf, AuthState, MarketState
  <2>2. b.leader = s.leader /\ b.seen = s.seen /\ b.leader \in Path
    BY <1>5, <1>6 DEF SameScope, AuthState
  <2>3. StandsAt(x, b, m, h) <=> Stands(s, m, h, Now)
    BY <1>8, <2>1, <2>2 DEF StandsAt, Stands, RevertHold
  <2>4. healthy(s, m, s.leader) <=> healthy(x, m, b.leader)
    BY <1>8, <2>2
  <2>5. healthy(s, m, p) <=> healthy(x, m, p)
    BY <1>8
  <2>6. CASE ~StandsAt(x, b, m, h)
    <3>1. HoldOf(b, m) = IF healthy(x, m, b.leader) \/ p = b.leader \/ ~healthy(x, m, p) THEN None
                         ELSE [holder |-> p, leader |-> b.leader, since |-> None]
      BY <1>5, <1>8, <2>2, <2>3, <2>4, <2>5, <2>6, Zenon DEF NextHold
    <3> QED BY <2>6, <3>1 DEF HoldJudged
  <2>7. CASE StandsAt(x, b, m, h) /\ ~healthy(x, m, b.leader)
    <3>1. HoldOf(b, m) = [h EXCEPT !.since = None]
      BY <1>5, <1>8, <2>2, <2>3, <2>4, <2>7, Zenon DEF NextHold
    <3> QED BY <2>7, <3>1 DEF HoldJudged
  <2>8. CASE StandsAt(x, b, m, h) /\ healthy(x, m, b.leader)
    <3>1. HoldOf(b, m) = IF Releases(s, m, SinceOr(h), p, Now) THEN None
                         ELSE [h EXCEPT !.since = SinceOr(h)]
      BY <1>5, <1>8, <2>2, <2>3, <2>4, <2>8, Zenon DEF NextHold, SinceOr
    <3>2. s.markets[m] # None
      BY <2>1, <2>8 DEF StandsAt
    <3>3. CASE Releases(s, m, SinceOr(h), p, Now)
      <4>1. p = b.leader /\ (\/ /\ Now - SinceOr(h) >= REVERT_HOLD_NS
                               /\ Reinstalled(s, m, b.leader)
                             \/ Now - SinceOr(h) >= REVERT_DEADLINE_NS)
        BY <2>2, <3>2, <3>3, Zenon DEF Releases, Reinstalled
      <4>2. Reinstalled(s, m, b.leader) => clear \/ Reinstalled(x, m, b.leader)
        BY <1>8, <2>2
      <4>3. HoldOf(b, m) = None
        BY <3>1, <3>3
      <4> QED BY <2>8, <4>1, <4>2, <4>3, Zenon DEF HoldJudged
    <3>4. CASE ~Releases(s, m, SinceOr(h), p, Now)
      <4>1. ~(p = b.leader /\ Now - SinceOr(h) >= REVERT_DEADLINE_NS)
        BY <2>2, <3>4, Zenon DEF Releases
      <4>2. HoldOf(b, m) = [h EXCEPT !.since = SinceOr(h)]
        BY <3>1, <3>4
      <4> QED BY <2>8, <4>1, <4>2, Zenon DEF HoldJudged
    <3> QED BY <3>3, <3>4
  <2> QED BY <2>6, <2>7, <2>8
<1> QED BY <1>7, <1>9, <1>10, <1>11

\* Deliver: what a batch of an eligible path is told.
LEMMA BatchDecided ==
  ASSUME NEW x \in AuthState, NEW m \in Market, NEW p \in Path, NEW clear \in BOOLEAN,
         NEW incomplete \in BOOLEAN, Eligible(x, p), x.leader # None,
         NEW b, b = Judged(x, m, p, clear, incomplete)
  PROVE  Deliver(x, m, p, clear, incomplete) =
           IF serving(b, m) # p THEN [au |-> b, out |-> "dropped"]
           ELSE [au |-> Served(b, m, p),
                 out |-> IF last_admitted(b, m) = p THEN "emitted" ELSE "opened"]
<1> DEFINE n == Noted(x, m, p, clear, incomplete)
<1>1. Deliver(x, m, p, clear, incomplete) = admit(n, m, p, Now)
  BY Zenon DEF Deliver, Noted
<1>2. n.leader = x.leader /\ path_ordinal(n, p) = n /\ Eligible(n, p)
  <2>1. x.leader = None \/ x.leader \in Path
    BY DEF AuthState
  <2> QED BY <2>1, BatchNoted DEF SameScope
<1>3. b = refresh_hold(heard(n, p, Now), m, p, Now)
  BY DEF Judged, Spoken
<1> HIDE DEF n
<1> QED BY <1>1, <1>2, <1>3, Zenon DEF admit

FirstAt(x, y, m, p) ==
  \E b \in AuthState :
    /\ y = Served(b, m, p) /\ b.leader = p /\ b.seen = [x.seen EXCEPT ![p] = Now]
    /\ Labelled(b) /\ SeenBy(b, Now) /\ Kept(x, b, m) /\ HoldOf(b, m) = HoldOf(x, m)

\* The first batch of a scope: its path leads and is served.
LEMMA FirstDecided ==
  ASSUME NEW x \in AuthState, NEW m \in Market, NEW p \in Path, NEW clear \in BOOLEAN,
         NEW incomplete \in BOOLEAN, Eligible(x, p), x.leader = None, Labelled(x),
         SeenBy(x, Now)
  PROVE  /\ Deliver(x, m, p, clear, incomplete).out = "opened"
         /\ FirstAt(x, Deliver(x, m, p, clear, incomplete).au, m, p)
<1> DEFINE n == Noted(x, m, p, clear, incomplete)
<1>1. Deliver(x, m, p, clear, incomplete) = admit(n, m, p, Now)
  BY Zenon DEF Deliver, Noted
<1>2. /\ n \in AuthState /\ SameScope(x, n)
      /\ Range(x.ordinals) \subseteq Range(n.ordinals) /\ p \in Range(n.ordinals)
      /\ path_ordinal(n, p) = n /\ Eligible(n, p)
      /\ \A q \in Path : healthy(n, m, q) <=> healthy(x, m, q)
      /\ last_admitted(n, m) = last_admitted(x, m)
      /\ n.markets[m] = None <=> x.markets[m] = None
      /\ \A k \in Market \ {m} : n.markets[k] = x.markets[k]
      /\ HoldOf(n, m) = HoldOf(x, m)
  BY BatchNoted DEF holding_revert
<1> HIDE DEF n
<1>3. n.leader = None
  BY <1>2 DEF SameScope
<1>4. Deliver(x, m, p, clear, incomplete) = [au |-> first(n, m, p, Now), out |-> "opened"]
  BY <1>1, <1>2, <1>3, Zenon DEF admit
<1>5. PICK b \in AuthState :
           /\ first(n, m, p, Now) = Served(b, m, p) /\ b.leader = p
           /\ b.seen = [n.seen EXCEPT ![p] = Now]
           /\ b.ordinals = n.ordinals /\ b.markets = n.markets
  BY <1>2, FirstServed
<1>6. b.seen = [x.seen EXCEPT ![p] = Now] /\ b.leader # None /\ b.leader \in {p, x.leader}
      /\ Range(x.ordinals) \subseteq Range(b.ordinals) /\ p \in Range(b.ordinals)
  BY <1>2, <1>5, AuthorityConstants DEF SameScope
<1>7. Labelled(b) /\ SeenBy(b, Now)
  BY <1>6, HeardLabelled
<1>8. Kept(x, b, m) /\ HoldOf(b, m) = HoldOf(x, m)
  BY <1>2, <1>5 DEF Kept, healthy, last_admitted, HoldOf
<1>9. Deliver(x, m, p, clear, incomplete).out = "opened"
      /\ Deliver(x, m, p, clear, incomplete).au = Served(b, m, p)
  BY <1>4, <1>5
<1> QED BY <1>5, <1>6, <1>7, <1>8, <1>9 DEF FirstAt

-----------------------------------------------------------------------------
(* What the invariant says of the next decision.                            *)

ScopeKnown ==
  /\ a \in AuthState /\ Labelled(a) /\ SeenBy(a, Now) /\ Now \in Nat
  /\ a.leader \in Path \cup {None}
  /\ \A p \in Path : spoke[p] = LastSeen(a, p) /\ spoke[p] \in 0..Now
  /\ \A p \in Path : a.seen[p] \in Stamp

\* No stamp is later than the clock.
LEMMA ScopeOf ==
  ASSUME Inv
  PROVE  ScopeKnown
<1>1. a \in AuthState /\ Labelled(a) /\ Now \in Nat /\ a.leader \in Path \cup {None}
  BY ClockAssumption DEF Inv, TypeOK, AuthState
<1>2. \A p \in Path : spoke[p] = LastSeen(a, p) /\ spoke[p] \in 0..Now
  BY DEF Inv, TypeOK, HeardLast
<1>3. SeenBy(a, Now)
  BY <1>1, <1>2 DEF SeenBy
<1>4. \A p \in Path : a.seen[p] \in Stamp
  BY <1>1 DEF AuthState
<1> QED BY <1>1, <1>2, <1>3, <1>4 DEF ScopeKnown

\* A path without a label is turned away.
LEMMA NotEligible ==
  ASSUME NEW x, NEW m, NEW p, NEW clear, NEW incomplete, ~Eligible(x, p)
  PROVE  Deliver(x, m, p, clear, incomplete) = [au |-> x, out |-> "dropped"]
BY Zenon DEF Deliver

\* The decisions, apart from their labels.
LEMMA BatchFates ==
  ASSUME NEW x \in AuthState, NEW m \in Market, NEW p \in Path, NEW clear \in BOOLEAN,
         NEW incomplete \in BOOLEAN, Eligible(x, p), x.leader # None,
         NEW b, b = Judged(x, m, p, clear, incomplete),
         NEW r, r = Deliver(x, m, p, clear, incomplete)
  PROVE  /\ r.out = "dropped" <=> serving(b, m) # p
         /\ r.out = "dropped" => r.au = b
         /\ r.out # "dropped" => r.au = Served(b, m, p)
         /\ r.out = "emitted" => last_admitted(b, m) = p
<1>1. r = IF serving(b, m) # p THEN [au |-> b, out |-> "dropped"]
          ELSE [au |-> Served(b, m, p),
                out |-> IF last_admitted(b, m) = p THEN "emitted" ELSE "opened"]
  BY BatchDecided
<1>2. CASE serving(b, m) # p
  BY <1>1, <1>2
<1>3. CASE serving(b, m) = p
  BY <1>1, <1>3
<1> QED BY <1>2, <1>3

\* admit, admit_synthesized: the path admitted last is the one the consumer follows, so a batch
\* of another one opens.
LEMMA SwitchFromInv == Inv => SwitchIsAnnounced
<1> SUFFICES ASSUME Inv, NEW m \in Market, NEW p \in Path, follows[m] # p
             PROVE  /\ Verdict(m, p, FALSE).out # "emitted"
                    /\ admit_synthesized(a, m, p) = "dropped"
  BY DEF SwitchIsAnnounced
<1>0. a \in AuthState /\ Labelled(a) /\ SeenBy(a, Now)
  BY ScopeOf DEF ScopeKnown
<1>1. last_admitted(a, m) # p
  BY AuthorityConstants DEF Inv, FollowsAdmitted
<1>2. admit_synthesized(a, m, p) = "dropped"
  BY <1>1 DEF admit_synthesized
<1> PICK no \in BOOLEAN : no = FALSE
  OBVIOUS
<1> DEFINE r == Deliver(a, m, p, no, no)
           b == Judged(a, m, p, no, no)
<1> SUFFICES r.out # "emitted"
  BY <1>2, Zenon DEF Verdict
<1>3. CASE ~Eligible(a, p)
  <2>1. r = [au |-> a, out |-> "dropped"]
    BY <1>3, NotEligible
  <2> HIDE DEF r
  <2> QED BY <2>1
<1>4. CASE Eligible(a, p) /\ a.leader = None
  <2>1. r.out = "opened"
    BY <1>0, <1>4, FirstDecided
  <2> QED BY <2>1
<1>5. CASE Eligible(a, p) /\ a.leader # None
  <2>1. Kept(a, b, m)
    BY <1>0, <1>5, BatchJudged
  <2>2. r.out = "emitted" => last_admitted(b, m) = p
    BY <1>0, <1>5, BatchFates
  <2>3. last_admitted(b, m) = last_admitted(a, m)
    BY <2>1, Zenon DEF Kept
  <2> QED BY <1>1, <2>2, <2>3
<1> QED BY <1>3, <1>4, <1>5

\* heard: the stamp of the leader is when it last spoke, so only its silence costs it the lead.
LEMMA SilenceFromInv == Inv => SilenceOnly
<1> SUFFICES ASSUME Inv, NEW m \in Market, NEW p \in Path, a.leader # None,
                    Verdict(m, p, FALSE).au.leader # a.leader
             PROVE  Now - spoke[a.leader] > leader_timeout_ns
  BY DEF SilenceOnly
<1>0. a \in AuthState /\ Labelled(a) /\ SeenBy(a, Now) /\ a.leader \in Path
      /\ \A q \in Path : spoke[q] = LastSeen(a, q)
  BY ScopeOf DEF ScopeKnown
<1> PICK no \in BOOLEAN : no = FALSE
  OBVIOUS
<1> DEFINE r == Deliver(a, m, p, no, no)
           b == Judged(a, m, p, no, no)
<1>1. r.au.leader # a.leader
  BY Zenon DEF Verdict
<1>2. Eligible(a, p)
  <2>1. ASSUME ~Eligible(a, p) PROVE FALSE
    <3>1. r = [au |-> a, out |-> "dropped"]
      BY <2>1, NotEligible
    <3> HIDE DEF r
    <3> QED BY <1>1, <3>1
  <2> QED BY <2>1
<1>3. ScopeJudged(a, b, p)
  BY <1>0, <1>2, BatchJudged
<1>4. (r.out = "dropped" => r.au = b) /\ (r.out # "dropped" => r.au = Served(b, m, p))
  BY <1>0, <1>2, BatchFates
<1>5. b \in AuthState
  BY <1>3 DEF ScopeJudged
<1> HIDE DEF r, b
<1>6. Served(b, m, p).leader = b.leader
  BY <1>5, EntryServed DEF SameScope
<1>7. b.leader # a.leader
  BY <1>1, <1>4, <1>6
<1>8. Now - LastSeen(a, a.leader) > leader_timeout_ns
  BY <1>3, <1>7 DEF ScopeJudged
<1> QED BY <1>0, <1>8

\* Who serves m in doubt: only the leader, when no tracked path has a healthy book there.
LEMMA DoubtServedAlone ==
  ASSUME NEW x \in AuthState, NEW m \in Market, Labelled(x), x.leader # None, SeenBy(x, Now),
         NEW p \in Path, serving(x, m) = p, ~healthy(x, m, p)
  PROVE  \A q \in Path : x.seen[q] # None => ~healthy(x, m, q)
<1>1. Now \in Nat
  BY ClockAssumption
<1>2. ~HoldServes(x, m)
  BY <1>1, ServingIs DEF HoldServes
<1>3. Alternates(x, m) = {} /\ p = x.leader
  <2>1. CASE healthy(x, m, x.leader) \/ Alternates(x, m) = {}
    BY <1>1, <1>2, <2>1, ServingIs
  <2>2. CASE ~(healthy(x, m, x.leader) \/ Alternates(x, m) = {})
    <3>1. serving(x, m) \in Alternates(x, m)
      BY <1>1, <1>2, <2>2, ServingIs
    <3> QED BY <3>1 DEF Alternates
  <2> QED BY <2>1, <2>2
<1> QED BY <1>3 DEF Alternates

\* serving: the choice of the path never falls on one in doubt while another is healthy.
LEMMA HealthyFromInv == Inv => ServesHealthy
<1> SUFFICES ASSUME Inv, NEW m \in Market, NEW p \in Path
             PROVE  /\ Verdict(m, p, FALSE).out # "dropped" /\ ~healthy(Verdict(m, p, FALSE).au, m, p)
                         => \A q \in Path : Verdict(m, p, FALSE).au.seen[q] # None
                                              => ~healthy(Verdict(m, p, FALSE).au, m, q)
                    /\ admit_synthesized(a, m, p) # "dropped" /\ ~healthy(a, m, p)
                         => \A q \in Path : a.seen[q] # None => ~healthy(a, m, q)
  BY Zenon DEF ServesHealthy
<1>0. a \in AuthState /\ Labelled(a) /\ SeenBy(a, Now)
  BY ScopeOf DEF ScopeKnown
<1>1. ASSUME admit_synthesized(a, m, p) # "dropped", ~healthy(a, m, p)
      PROVE  \A q \in Path : a.seen[q] # None => ~healthy(a, m, q)
  <2>1. a.leader # None /\ serving(a, m) = p
    BY <1>1 DEF admit_synthesized
  <2> QED BY <1>0, <1>1, <2>1, DoubtServedAlone
<1> PICK no \in BOOLEAN : no = FALSE
  OBVIOUS
<1> DEFINE r == Deliver(a, m, p, no, no)
           b == Judged(a, m, p, no, no)
<1>2. ASSUME r.out # "dropped", ~healthy(r.au, m, p)
      PROVE  \A q \in Path : r.au.seen[q] # None => ~healthy(r.au, m, q)
  <2>1. Eligible(a, p)
    <3>1. ASSUME ~Eligible(a, p) PROVE FALSE
      <4>1. r = [au |-> a, out |-> "dropped"]
        BY <3>1, NotEligible
      <4> HIDE DEF r
      <4> QED BY <1>2, <4>1
    <3> QED BY <3>1
  <2>2. CASE a.leader = None
    <3>1. FirstAt(a, r.au, m, p)
      BY <1>0, <2>1, <2>2, FirstDecided
    <3> HIDE DEF r
    <3>2. PICK c \in AuthState : /\ r.au = Served(c, m, p) /\ c.leader = p
                                 /\ c.seen = [a.seen EXCEPT ![p] = Now]
      BY <3>1 DEF FirstAt
    <3>3. r.au.seen = c.seen
      BY <3>2, EntryServed DEF SameScope
    <3>4. \A q \in Path : q # p => r.au.seen[q] = None
      BY <1>0, <2>2, <3>2, <3>3 DEF Labelled, AuthState
    <3> QED BY <1>2, <3>4
  <2>3. CASE a.leader # None
    <3>1. ScopeJudged(a, b, p)
      BY <1>0, <2>1, <2>3, BatchJudged
    <3>2. serving(b, m) = p /\ r.au = Served(b, m, p)
      BY <1>0, <1>2, <2>1, <2>3, BatchFates
    <3>3. b \in AuthState /\ Labelled(b) /\ SeenBy(b, Now) /\ b.leader # None
      BY <2>3, <3>1, AuthorityConstants DEF ScopeJudged
    <3> HIDE DEF r, b
    <3>4. r.au.seen = b.seen /\ \A q \in Path : healthy(r.au, m, q) <=> healthy(b, m, q)
      BY <3>2, <3>3, EntryServed DEF SameScope
    <3>5. \A q \in Path : b.seen[q] # None => ~healthy(b, m, q)
      BY <1>2, <3>2, <3>3, <3>4, DoubtServedAlone
    <3> QED BY <3>4, <3>5
  <2> QED BY <2>2, <2>3
<1>3. r = Verdict(m, p, FALSE)
  BY Zenon DEF Verdict
<1> HIDE DEF r
<1> QED BY <1>1, <1>2, <1>3, Zenon

\* The hold of a market that p's batch left in the way of p stood before it.
LEMMA HoldInTheWay ==
  ASSUME NEW x, NEW b, NEW m, NEW p, NEW clear, NEW h, h \in RevertHold \cup {None},
         HoldJudged(x, b, m, p, clear, h),
         HoldOf(b, m) # None, HoldOf(b, m).holder # p
  PROVE  /\ StandsAt(x, b, m, h) /\ HoldOf(b, m).holder = h.holder
         /\ HoldOf(b, m).leader = h.leader
<1>1. CASE ~StandsAt(x, b, m, h)
  <2>1. HoldOf(b, m) = None \/ HoldOf(b, m) = [holder |-> p, leader |-> b.leader, since |-> None]
    BY <1>1 DEF HoldJudged
  <2> QED BY <2>1
<1>2. CASE StandsAt(x, b, m, h)
  <2>1. h \in RevertHold
    BY <1>2 DEF StandsAt
  <2>2. HoldOf(b, m) = [h EXCEPT !.since = None] \/ HoldOf(b, m) = [h EXCEPT !.since = SinceOr(h)]
    BY <1>2, Zenon DEF HoldJudged
  <2> QED BY <1>2, <2>1, <2>2 DEF RevertHold
<1> QED BY <1>1, <1>2

\* The hold a decision starts from is a stored one or none.
LEMMA HeldBeforeType ==
  ASSUME NEW x \in AuthState, NEW m \in Market, NEW p, NEW incomplete \in BOOLEAN
  PROVE  /\ HeldBefore(x, m, p, incomplete) \in RevertHold \cup {None}
         /\ HoldOf(x, m) \in RevertHold \cup {None}
         /\ ~incomplete => HeldBefore(x, m, p, incomplete) = HoldOf(x, m)
BY DEF HeldBefore, HoldOf, AuthState, MarketState

\* admit: a healthy path that is refused is refused for a hold that stands, for a live leader, or
\* for an alternate heard from as recently as itself.
LEMMA DeafFromInv == Inv => NeverDeaf
<1> SUFFICES ASSUME Inv, NEW m \in Market, NEW p \in Path, Eligible(a, p), healthy(a, m, p),
                    Verdict(m, p, FALSE).out = "dropped"
             PROVE  LET s == serving(Verdict(m, p, FALSE).au, m)
                    IN  healthy(a, m, s) /\ Now - spoke[s] <= leader_timeout_ns
  BY Zenon DEF NeverDeaf
<1>0. /\ a \in AuthState /\ Labelled(a) /\ SeenBy(a, Now) /\ Now \in Nat /\ Now # None
      /\ \A q \in Path : spoke[q] = LastSeen(a, q) /\ spoke[q] \in 0..Now
      /\ \A q \in Path : a.seen[q] \in Stamp
  BY ScopeOf, AuthorityConstants DEF ScopeKnown
<1> PICK no \in BOOLEAN : no = FALSE
  OBVIOUS
<1> DEFINE r == Deliver(a, m, p, no, no)
           b == Judged(a, m, p, no, no)
           s == serving(b, m)
           h == HeldBefore(a, m, p, no)
<1>1. r = Verdict(m, p, FALSE)
  BY Zenon DEF Verdict
<1>2. a.leader # None
  <2>1. ASSUME a.leader = None PROVE FALSE
    <3>1. r.out = "opened"
      BY <1>0, <2>1, FirstDecided
    <3> HIDE DEF r
    <3> QED BY <1>1, <3>1
  <2> QED BY <2>1
<1>3. /\ ScopeJudged(a, b, p) /\ Kept(a, b, m) /\ HoldJudged(a, b, m, p, no, h)
  BY <1>0, <1>2, BatchJudged
<1>4. r.au = b /\ s # p
  <2>1. /\ r.out = "dropped" <=> serving(b, m) # p
        /\ r.out = "dropped" => r.au = b
    BY <1>0, <1>2, BatchFates
  <2> QED BY <1>1, <2>1
<1>5. b \in AuthState /\ Labelled(b) /\ SeenBy(b, Now) /\ b.leader # None /\ b.leader \in Path
  BY <1>0, <1>2, <1>3, AuthorityConstants DEF ScopeJudged, AuthState
<1>6. b.seen[p] = Now /\ \A q \in Path \ {p} : b.seen[q] = a.seen[q]
  BY <1>0, <1>3 DEF ScopeJudged, AuthState
<1>7. \A q \in Path : healthy(b, m, q) <=> healthy(a, m, q)
  BY <1>3 DEF Kept
<1>8. h \in RevertHold \cup {None}
  BY <1>0, HeldBeforeType
<1> HIDE DEF r, b, h
<1> SUFFICES healthy(a, m, s) /\ Now - spoke[s] <= leader_timeout_ns
  BY <1>1, <1>4
<1>9. s \in Path
  BY <1>0, <1>5, ServingIs
<1>10. CASE HoldServes(b, m)
  <2>1. s = HoldOf(b, m).holder /\ HoldOf(b, m) # None /\ healthy(b, m, s)
    BY <1>0, <1>5, <1>10, ServingIs DEF HoldServes
  <2>2. StandsAt(a, b, m, h) /\ s = h.holder
    BY <1>3, <1>4, <1>8, <2>1, HoldInTheWay
  <2>3. b.seen[s] # None /\ Now - b.seen[s] <= leader_timeout_ns
    BY <2>2 DEF StandsAt
  <2>4. spoke[s] = b.seen[s]
    BY <1>0, <1>4, <1>6, <1>9, <2>3 DEF LastSeen
  <2> QED BY <1>7, <1>9, <2>1, <2>3, <2>4
<1>11. CASE ~HoldServes(b, m) /\ (healthy(b, m, b.leader) \/ Alternates(b, m) = {})
  <2>1. s = b.leader
    BY <1>0, <1>5, <1>11, ServingIs
  <2>2. b.leader = a.leader /\ ~(Now - LastSeen(a, a.leader) > leader_timeout_ns)
    BY <1>3, <1>4, <2>1 DEF ScopeJudged
  <2>3. p \in Alternates(b, m)
    BY <1>0, <1>4, <1>6, <1>7, <2>1 DEF Alternates
  <2>4. healthy(a, m, s)
    BY <1>5, <1>7, <1>11, <2>1, <2>3
  <2>5. LastSeen(a, a.leader) \in Nat /\ spoke[s] = LastSeen(a, a.leader) /\ leader_timeout_ns \in Nat
    BY <1>0, <1>5, <2>1, <2>2, AuthorityConstants
  <2> QED BY <1>0, <2>2, <2>4, <2>5
<1>12. CASE ~HoldServes(b, m) /\ ~healthy(b, m, b.leader) /\ Alternates(b, m) # {}
  <2>1. /\ s \in Alternates(b, m)
        /\ \A q \in Alternates(b, m) : LastSeen(b, q) <= LastSeen(b, s)
    BY <1>0, <1>5, <1>12, ServingIs
  <2>2. p \in Alternates(b, m) /\ LastSeen(b, p) = Now
    BY <1>0, <1>5, <1>6, <1>7, <1>12 DEF Alternates, LastSeen
  <2>3. LastSeen(b, s) = LastSeen(a, s)
    BY <1>4, <1>6, <1>9 DEF LastSeen
  <2>4. Now <= spoke[s]
    BY <1>0, <1>9, <2>1, <2>2, <2>3
  <2>5. spoke[s] \in 0..Now /\ leader_timeout_ns \in Nat
    BY <1>0, <1>9, AuthorityConstants
  <2> QED BY <1>0, <1>7, <1>9, <2>1, <2>4, <2>5 DEF Alternates
<1> QED BY <1>10, <1>11, <1>12

\* A holder heard from within the timeout is tracked, so its hold stands.
LEMMA LiveIsTracked ==
  ASSUME Inv, NEW q \in Path, Now - spoke[q] <= leader_timeout_ns
  PROVE  a.seen[q] # None /\ a.seen[q] = spoke[q]
<1>1. spoke[q] = LastSeen(a, q) /\ spoke[q] \in 0..Now /\ Now \in Nat
  BY ScopeOf DEF ScopeKnown
<1>2. leader_timeout_ns < Now /\ leader_timeout_ns \in Nat
  BY ClockAssumption, AuthorityConstants
<1>3. spoke[q] # 0
  BY <1>1, <1>2
<1> QED BY <1>1, <1>3 DEF LastSeen

\* refresh_hold: the stored stamps are no older than the history's, so what releases the hold
\* was a full probation.
LEMMA RevertFromInv == Inv => HeldRevert
<1> SUFFICES ASSUME Inv, NEW m \in Market, NEW clear \in Clears, probation[m] # None,
                    Now - spoke[follows[m]] <= leader_timeout_ns,
                    Verdict(m, a.leader, clear).out # "dropped"
             PROVE  \/ Now - probation[m].bad >= REVERT_HOLD_NS /\ (clear \/ probation[m].based)
                    \/ Now - probation[m].bad >= REVERT_DEADLINE_NS
  BY Zenon DEF HeldRevert
<1>0. a \in AuthState /\ Labelled(a) /\ SeenBy(a, Now) /\ Now \in Nat /\ Now # None
      /\ clear \in BOOLEAN
  BY ScopeOf, AuthorityConstants, ClockAssumption DEF ScopeKnown
<1>1. /\ a.leader # None /\ HoldOf(a, m) # None /\ HoldOf(a, m).leader = a.leader
      /\ HoldOf(a, m).holder = follows[m] /\ follows[m] # a.leader
      /\ healthy(a, m, follows[m])
      /\ HoldOf(a, m).since # None
           => healthy(a, m, a.leader) /\ probation[m].bad <= HoldOf(a, m).since
      /\ Reinstalled(a, m, a.leader) => probation[m].based
  BY DEF Inv, ProbationHeld, InPlace
<1> PICK no \in BOOLEAN : no = FALSE
  OBVIOUS
<1> DEFINE p == a.leader
           r == Deliver(a, m, p, clear, no)
           b == Judged(a, m, p, clear, no)
           h == HeldBefore(a, m, p, no)
<1>2. p \in Path
  BY <1>0, <1>1 DEF AuthState
<1>3. r = Verdict(m, a.leader, clear)
  BY Zenon DEF Verdict
<1> HIDE DEF p
<1>4. Eligible(a, p)
  <2>1. ASSUME ~Eligible(a, p) PROVE FALSE
    <3>1. r = [au |-> a, out |-> "dropped"]
      BY <2>1, NotEligible
    <3> HIDE DEF r
    <3> QED BY <1>3, <3>1
  <2> QED BY <2>1
<1>5. /\ ScopeJudged(a, b, p) /\ Kept(a, b, m) /\ HoldJudged(a, b, m, p, clear, h)
  BY <1>0, <1>1, <1>2, <1>4, BatchJudged
<1>6. serving(b, m) = p
  <2>1. r.out = "dropped" <=> serving(b, m) # p
    BY <1>0, <1>1, <1>2, <1>4, BatchFates
  <2> QED BY <1>3, <2>1
<1>7. h = HoldOf(a, m) /\ h \in RevertHold
  BY <1>0, <1>1, HeldBeforeType
<1>8. follows[m] \in Path
  BY <1>1, <1>7 DEF RevertHold
<1> HIDE DEF r, b, h
<1>9. b \in AuthState /\ Labelled(b) /\ SeenBy(b, Now) /\ b.leader = p /\ b.leader # None
  BY <1>1, <1>5 DEF ScopeJudged, p
<1>10. StandsAt(a, b, m, h)
  <2>1. a.seen[follows[m]] # None /\ a.seen[follows[m]] = spoke[follows[m]]
    BY <1>8, LiveIsTracked
  <2>2. b.seen[follows[m]] = a.seen[follows[m]]
    BY <1>0, <1>1, <1>5, <1>8 DEF ScopeJudged, AuthState, p
  <2> QED BY <1>1, <1>7, <1>9, <2>1, <2>2 DEF StandsAt, p
<1>11. ASSUME HoldOf(b, m) # None, HoldOf(b, m).holder = follows[m], HoldOf(b, m).leader = p
       PROVE  FALSE
  <2>1. HoldServes(b, m)
    BY <1>1, <1>5, <1>8, <1>9, <1>11 DEF HoldServes, Kept
  <2>2. serving(b, m) = follows[m]
    BY <1>0, <1>9, <1>11, <2>1, ServingIs
  <2> QED BY <1>1, <1>6, <2>2 DEF p
<1>12. /\ h.holder = follows[m] /\ h.leader = p /\ h.since = HoldOf(a, m).since
  BY <1>1, <1>7 DEF p
<1>13. ASSUME NEW t, t \in Nat \cup {None}, HoldOf(b, m) = [h EXCEPT !.since = t] PROVE FALSE
  <2>1. /\ HoldOf(b, m).holder = follows[m] /\ HoldOf(b, m).leader = p
        /\ HoldOf(b, m) \in RevertHold
    BY <1>7, <1>12, <1>13 DEF RevertHold
  <2> QED BY <1>11, <2>1, NoneAssumption
<1>14. SinceOr(h) \in Nat
  BY <1>0, <1>7 DEF SinceOr, RevertHold
<1>15. /\ healthy(a, m, b.leader)
       /\ \/ Now - SinceOr(h) >= REVERT_HOLD_NS /\ (clear \/ Reinstalled(a, m, b.leader))
          \/ Now - SinceOr(h) >= REVERT_DEADLINE_NS
  BY <1>5, <1>10, <1>13, <1>14, Zenon DEF HoldJudged
<1>16. Reinstalled(a, m, b.leader) => probation[m].based
  BY <1>1, <1>9 DEF p
<1>17. probation[m].bad \in Nat /\ probation[m].bad <= SinceOr(h)
  <2>1. probation[m].bad \in 0..Now
    BY DEF Inv, TypeOK
  <2> QED BY <1>0, <1>1, <1>12, <2>1 DEF SinceOr
<1>18. REVERT_HOLD_NS \in Nat /\ REVERT_DEADLINE_NS \in Nat
  BY AuthorityConstants
<1>19. \/ Now - probation[m].bad >= REVERT_HOLD_NS /\ (clear \/ Reinstalled(a, m, b.leader))
       \/ Now - probation[m].bad >= REVERT_DEADLINE_NS
  BY <1>0, <1>14, <1>15, <1>17, <1>18
<1> QED BY <1>16, <1>19

\* refresh_hold: the stored stamp is no later than the first refusal, so the deadline releases.
LEMMA ExileFromInv == Inv => BoundedExile
<1> SUFFICES ASSUME Inv, NEW m \in Market, refused[m] # None, healthy(a, m, a.leader),
                    Now - refused[m] >= REVERT_DEADLINE_NS,
                    Verdict(m, a.leader, FALSE).out = "dropped"
             PROVE  FALSE
  BY Zenon DEF BoundedExile
<1>0. a \in AuthState /\ Labelled(a) /\ SeenBy(a, Now) /\ Now \in Nat /\ Now # None
  BY ScopeOf, AuthorityConstants DEF ScopeKnown
<1>1. /\ a.leader # None
      /\ HoldOf(a, m) # None /\ HoldOf(a, m).leader = a.leader
           => HoldOf(a, m).since # None /\ HoldOf(a, m).since <= refused[m]
  BY DEF Inv, RefusedTimed, Waits
<1> PICK no \in BOOLEAN : no = FALSE
  OBVIOUS
<1> DEFINE p == a.leader
           r == Deliver(a, m, p, no, no)
           b == Judged(a, m, p, no, no)
           h == HeldBefore(a, m, p, no)
<1>2. p \in Path
  BY <1>0, <1>1 DEF AuthState
<1>3. r = Verdict(m, a.leader, FALSE)
  BY Zenon DEF Verdict
<1>4. Eligible(a, p)
  <2>1. p \in Range(a.ordinals)
    BY <1>0, <1>1, <1>2 DEF Labelled
  <2> QED BY <2>1 DEF Eligible, path_ordinal
<1> HIDE DEF p
<1>5. /\ ScopeJudged(a, b, p) /\ Kept(a, b, m) /\ HoldJudged(a, b, m, p, no, h)
  BY <1>0, <1>1, <1>2, <1>4, BatchJudged
<1>6. serving(b, m) # p
  <2>1. r.out = "dropped" <=> serving(b, m) # p
    BY <1>0, <1>1, <1>2, <1>4, BatchFates
  <2> QED BY <1>3, <2>1
<1>7. h = HoldOf(a, m) /\ h \in RevertHold \cup {None}
  BY <1>0, HeldBeforeType
<1> HIDE DEF r, b, h
<1>8. b \in AuthState /\ Labelled(b) /\ SeenBy(b, Now) /\ b.leader = p /\ b.leader # None
      /\ b.leader \in Path
  BY <1>1, <1>2, <1>5 DEF ScopeJudged, p
<1>9. healthy(b, m, p) /\ healthy(a, m, p)
  BY <1>2, <1>5 DEF Kept, p
<1>10. HoldServes(b, m) /\ HoldOf(b, m).holder # p
  BY <1>0, <1>6, <1>8, <1>9, ServingIs
<1>11. StandsAt(a, b, m, h) /\ HoldOf(b, m) # None
  BY <1>5, <1>7, <1>10, HoldInTheWay DEF HoldServes
<1>12. HoldOf(a, m).since # None /\ HoldOf(a, m).since <= refused[m] /\ h.since = HoldOf(a, m).since /\ h \in RevertHold
  BY <1>1, <1>7, <1>8, <1>11 DEF StandsAt, p
<1>13. Now - SinceOr(h) >= REVERT_DEADLINE_NS
  <2>1. refused[m] \in 0..Now /\ REVERT_DEADLINE_NS \in Nat
    BY AuthorityConstants DEF Inv, TypeOK
  <2>2. SinceOr(h) = HoldOf(a, m).since /\ HoldOf(a, m).since \in Nat
    BY <1>12 DEF SinceOr, RevertHold
  <2> QED BY <1>0, <1>12, <2>1, <2>2
<1> QED BY <1>5, <1>8, <1>9, <1>11, <1>13, Zenon DEF HoldJudged

-----------------------------------------------------------------------------
(* A batch keeps the invariant.                                             *)

\* What a decided batch leaves: b, or b with p the last admitted.
After(b, d, m, p, sent) ==
  /\ d \in AuthState /\ SameScope(b, d) /\ d.ordinals = b.ordinals
  /\ HoldOf(d, m) = HoldOf(b, m)
  /\ \A q \in Path : healthy(d, m, q) <=> healthy(b, m, q)
  /\ \A q \in Path : Reinstalled(d, m, q) => Reinstalled(b, m, q)
  /\ last_admitted(d, m) = IF sent THEN p ELSE last_admitted(b, m)
  /\ \A k \in Market \ {m} : d.markets[k] \in {None, b.markets[k]}

\* Served leaves what After says.
LEMMA ServedAfter ==
  ASSUME NEW b \in AuthState, NEW m \in Market, NEW p \in Path, NEW sent \in BOOLEAN,
         NEW d, d = IF sent THEN Served(b, m, p) ELSE b
  PROVE  After(b, d, m, p, sent)
<1>1. CASE sent
  <2>1. d = Served(b, m, p)
    BY <1>1
  <2>2. /\ d \in AuthState /\ SameScope(b, d) /\ d.ordinals = b.ordinals
        /\ d.markets[m] # None /\ last_admitted(d, m) = p /\ HoldOf(d, m) = HoldOf(b, m)
        /\ \A q \in Path : healthy(d, m, q) <=> healthy(b, m, q)
        /\ \A q \in Path : q \in d.markets[m].reinstalled
                             => b.markets[m] # None /\ q \in b.markets[m].reinstalled
        /\ \A k \in Market \ {m} : d.markets[k] \in {None, b.markets[k]}
    BY <2>1, EntryServed
  <2> QED BY <1>1, <2>2 DEF After, Reinstalled
<1>2. CASE ~sent
  BY <1>2 DEF After, SameScope
<1> QED BY <1>1, <1>2

\* The hold of m after a served batch of a path other than the leader is that path's.
LEMMA ServedHolds ==
  ASSUME NEW x \in AuthState, NEW m \in Market, NEW p \in Path, NEW clear, NEW h,
         h \in RevertHold \cup {None},
         NEW b \in AuthState, Labelled(b), SeenBy(b, Now), b.leader # None, Kept(x, b, m),
         HoldJudged(x, b, m, p, clear, h), serving(b, m) = p, p # b.leader
  PROVE  /\ HoldOf(b, m) # None /\ HoldOf(b, m).holder = p /\ HoldOf(b, m).leader = b.leader
         /\ healthy(b, m, p)
<1>0. Now \in Nat /\ b.leader \in Path
  BY ClockAssumption DEF AuthState
<1>1. \A q \in Path : healthy(b, m, q) <=> healthy(x, m, q)
  BY DEF Kept
<1>2. CASE HoldServes(b, m)
  BY <1>0, <1>2, ServingIs DEF HoldServes
<1>3. CASE ~HoldServes(b, m)
  <2>1. ~healthy(b, m, b.leader) /\ p \in Alternates(b, m)
    BY <1>0, <1>3, ServingIs
  <2>2. healthy(b, m, p) /\ healthy(x, m, p) /\ ~healthy(x, m, b.leader)
    BY <1>0, <1>1, <2>1 DEF Alternates
  <2>3. CASE ~StandsAt(x, b, m, h)
    <3>1. HoldOf(b, m) = [holder |-> p, leader |-> b.leader, since |-> None]
      BY <2>2, <2>3 DEF HoldJudged
    <3>2. HoldOf(b, m) \in RevertHold
      BY <1>0, <3>1 DEF RevertHold
    <3> QED BY <2>2, <3>1, <3>2, NoneAssumption
  <2>4. CASE StandsAt(x, b, m, h)
    <3>1. HoldOf(b, m) = [h EXCEPT !.since = None] /\ h \in RevertHold
      BY <2>2, <2>4 DEF HoldJudged, StandsAt
    <3>2. HoldOf(b, m) \in RevertHold /\ HoldOf(b, m).holder = h.holder
          /\ HoldOf(b, m).leader = h.leader /\ h.holder \in Path
      BY <3>1 DEF RevertHold
    <3>3. HoldServes(b, m)
      BY <1>1, <2>4, <3>2, NoneAssumption DEF HoldServes, StandsAt
    <3> QED BY <1>3, <3>3
  <2> QED BY <2>3, <2>4
<1> QED BY <1>2, <1>3

\* When the leader's own batch is refused, nothing released its hold and none was dropped.
LEMMA RefusedHolds ==
  ASSUME NEW x \in AuthState, NEW m \in Market, NEW p \in Path, NEW clear, NEW h,
         h \in RevertHold \cup {None},
         NEW b \in AuthState, Labelled(b), SeenBy(b, Now), b.leader # None, Kept(x, b, m),
         HoldJudged(x, b, m, p, clear, h), serving(b, m) # p, p = b.leader,
         healthy(x, m, b.leader)
  PROVE  StandsAt(x, b, m, h) /\ HoldOf(b, m) = [h EXCEPT !.since = SinceOr(h)]
<1>0. Now \in Nat /\ b.leader \in Path
  BY ClockAssumption DEF AuthState
<1>1. healthy(b, m, b.leader)
  BY <1>0 DEF Kept
<1>2. HoldServes(b, m) /\ HoldOf(b, m) # None
  BY <1>0, <1>1, ServingIs DEF HoldServes
<1>3. StandsAt(x, b, m, h)
  BY <1>2 DEF HoldJudged
<1> QED BY <1>2, <1>3 DEF HoldJudged

\* HoldJudged, when the hold stood and was not released.
LEMMA StoodKept ==
  ASSUME NEW x, NEW b, NEW m, NEW p, NEW clear, NEW h \in RevertHold,
         HoldJudged(x, b, m, p, clear, h), StandsAt(x, b, m, h), HoldOf(b, m) # None
  PROVE  /\ HoldOf(b, m).holder = h.holder /\ HoldOf(b, m).leader = h.leader
         /\ HoldOf(b, m).since = IF healthy(x, m, b.leader) THEN SinceOr(h) ELSE None
<1>1. HoldOf(b, m) = IF healthy(x, m, b.leader) THEN [h EXCEPT !.since = SinceOr(h)]
                     ELSE [h EXCEPT !.since = None]
  BY DEF HoldJudged
<1>2. CASE healthy(x, m, b.leader)
  <2>1. HoldOf(b, m) = [h EXCEPT !.since = SinceOr(h)]
    BY <1>1, <1>2
  <2> QED BY <1>2, <2>1 DEF RevertHold
<1>3. CASE ~healthy(x, m, b.leader)
  <2>1. HoldOf(b, m) = [h EXCEPT !.since = None]
    BY <1>1, <1>3
  <2> QED BY <1>3, <2>1 DEF RevertHold
<1> QED BY <1>2, <1>3

\* The history's probation, when a batch leaves one, is that of the path in place.
LEMMA BatchProbation ==
  ASSUME Inv, NEW m \in Market, NEW p \in Path, NEW clear \in BOOLEAN,
         NEW incomplete \in BOOLEAN, Eligible(a, p), a.leader # None,
         NEW b, b = Judged(a, m, p, clear, incomplete), b.leader = a.leader,
         NEW sent \in BOOLEAN, sent <=> serving(b, m) = p,
         NEW d, After(b, d, m, p, sent), d.markets[m] # None,
         NEW t, t = Probation(d, m, p, clear, sent), t # None
  PROVE  InPlace(d, m, IF sent THEN p ELSE follows[m], t)
<1> DEFINE L == a.leader
           h == HeldBefore(a, m, p, incomplete)
           g == HoldOf(b, m)
<1>0. a \in AuthState /\ Labelled(a) /\ SeenBy(a, Now) /\ Now \in Nat /\ Now # None /\ L \in Path
      /\ h \in RevertHold \cup {None}
  BY ScopeOf, HeldBeforeType, AuthorityConstants DEF ScopeKnown
<1>1. /\ ScopeJudged(a, b, p) /\ Kept(a, b, m) /\ HoldJudged(a, b, m, p, clear, h)
      /\ \A q \in Path : Reinstalled(b, m, q) => Reinstalled(a, m, q) \/ (clear /\ q = p)
  BY <1>0, BatchJudged
<1>2. b \in AuthState /\ Labelled(b) /\ SeenBy(b, Now) /\ b.leader = L /\ b.leader # None
      /\ b.seen = [a.seen EXCEPT ![p] = Now]
  BY <1>1 DEF ScopeJudged
<1> HIDE DEF h
<1>3. /\ d \in AuthState /\ d.leader = L /\ HoldOf(d, m) = g
      /\ \A q \in Path : healthy(d, m, q) <=> healthy(a, m, q)
      /\ \A q \in Path : healthy(b, m, q) <=> healthy(a, m, q)
      /\ \A q \in Path : Reinstalled(d, m, q) => Reinstalled(a, m, q) \/ (clear /\ q = p)
  BY <1>1, <1>2 DEF After, Kept, SameScope
<1>4. probation[m] # None => InPlace(a, m, follows[m], probation[m])
  BY DEF Inv, ProbationHeld
<1>5. probation[m] \in [bad : 0..Now, based : BOOLEAN] \cup {None}
  BY DEF Inv, TypeOK
<1> HIDE DEF L
<1> DEFINE old == IF probation[m] # None /\ clear /\ p = d.leader
                    THEN [probation[m] EXCEPT !.based = TRUE] ELSE probation[m]
<1>6. t = IF sent
            THEN IF p = d.leader THEN None
                 ELSE IF old # None \/ healthy(d, m, d.leader) THEN old
                 ELSE [bad |-> Now, based |-> d.leader \in d.markets[m].reinstalled]
          ELSE IF old # None /\ Now - spoke[follows[m]] <= leader_timeout_ns THEN old
          ELSE None
  BY Zenon DEF Probation
<1>7. ASSUME g # None, StandsAt(a, b, m, h), healthy(a, m, L), probation[m] # None, h = HoldOf(a, m)
      PROVE  g.since # None /\ probation[m].bad <= g.since
  <2>1. h \in RevertHold
    BY <1>0, <1>7 DEF StandsAt
  <2>2. g.since = SinceOr(h)
    BY <1>1, <1>2, <1>7, <2>1, StoodKept
  <2>3. h.since # None => probation[m].bad <= h.since
    BY <1>4, <1>7 DEF InPlace
  <2>4. probation[m].bad <= Now
    BY <1>0, <1>5, <1>7
  <2> QED BY <1>0, <2>2, <2>3, <2>4 DEF SinceOr
<1>8. CASE sent
  <2>1. p # L /\ p # d.leader
    BY <1>3, <1>6, <1>8
  <2>2. old = probation[m] /\ h = HoldOf(a, m)
    BY <2>1 DEF h, HeldBefore, L
  <2>3. g # None /\ g.holder = p /\ g.leader = L /\ healthy(b, m, p)
    BY <1>0, <1>1, <1>2, <1>8, <2>1, ServedHolds
  <2>4. ASSUME g.since # None
        PROVE  healthy(d, m, L) /\ t.bad <= g.since
    <3>1. StandsAt(a, b, m, h)
      <4>1. ASSUME ~StandsAt(a, b, m, h) PROVE FALSE
        <5>1. g = [holder |-> p, leader |-> b.leader, since |-> None]
          BY <1>1, <2>3, <4>1 DEF HoldJudged
        <5> QED BY <2>4, <5>1
      <4> QED BY <4>1
    <3>2. h \in RevertHold
      BY <1>0, <3>1 DEF StandsAt
    <3>3. healthy(a, m, L)
      BY <1>1, <1>2, <2>3, <2>4, <3>1, <3>2, StoodKept
    <3>4. healthy(d, m, L) /\ t = probation[m]
      BY <1>0, <1>3, <1>6, <1>8, <2>1, <2>2, <3>3
    <3> QED BY <1>7, <2>2, <2>3, <3>1, <3>3, <3>4
  <2>5. ASSUME Reinstalled(d, m, L) PROVE t.based
    <3>1. Reinstalled(a, m, L) /\ L \in d.markets[m].reinstalled
      BY <1>0, <1>3, <2>1, <2>5 DEF Reinstalled
    <3>2. CASE probation[m] # None
      <4>1. t = probation[m] /\ probation[m].based
        BY <1>4, <1>6, <1>8, <2>1, <2>2, <3>1, <3>2 DEF InPlace, L
      <4> QED BY <4>1
    <3>3. CASE probation[m] = None
      <4>1. t = [bad |-> Now, based |-> d.leader \in d.markets[m].reinstalled]
        BY <1>6, <1>8, <2>1, <2>2, <3>3
      <4>2. (d.leader \in d.markets[m].reinstalled) = TRUE
        BY <1>3, <3>1
      <4>3. t = [bad |-> Now, based |-> TRUE]
        BY <4>1, <4>2, Zenon
      <4> QED BY <4>3
    <3> QED BY <3>2, <3>3
  <2> QED BY <1>2, <1>3, <1>8, <2>1, <2>3, <2>4, <2>5 DEF InPlace
<1>9. CASE ~sent
  <2>1. /\ probation[m] # None /\ Now - spoke[follows[m]] <= leader_timeout_ns /\ t = old
    BY <1>6, <1>9
  <2>2. InPlace(a, m, follows[m], probation[m])
    BY <1>4, <2>1
  <2>3. /\ HoldOf(a, m) # None /\ HoldOf(a, m).leader = L /\ HoldOf(a, m).holder = follows[m]
        /\ follows[m] # L /\ healthy(a, m, follows[m])
        /\ Reinstalled(a, m, L) => probation[m].based
    BY <2>2 DEF InPlace, L
  <2>4. HoldOf(a, m) \in RevertHold /\ follows[m] \in Path
    BY <1>0, <2>3, HeldBeforeType DEF RevertHold
  <2>5. h = HoldOf(a, m)
    <3>1. ASSUME h # HoldOf(a, m) PROVE FALSE
      <4>1. h = None /\ p = L /\ healthy(a, m, L)
        BY <3>1 DEF h, HeldBefore, holding_revert, L
      <4>2. StandsAt(a, b, m, h)
        BY <1>0, <1>1, <1>2, <1>9, <4>1, RefusedHolds
      <4> QED BY <4>1, <4>2 DEF StandsAt
    <3> QED BY <3>1
  <2>6. StandsAt(a, b, m, h)
    <3>1. b.seen[follows[m]] # None /\ Now - b.seen[follows[m]] <= leader_timeout_ns
      <4>1. a.seen[follows[m]] # None /\ a.seen[follows[m]] = spoke[follows[m]]
        BY <2>1, <2>4, LiveIsTracked
      <4>2. a.seen \in [Path -> Stamp]
        BY <1>0 DEF AuthState
      <4>3. CASE follows[m] = p
        <5>1. b.seen[p] = Now /\ leader_timeout_ns \in Nat
          BY <1>2, <4>2, AuthorityConstants
        <5> QED BY <1>0, <4>3, <5>1
      <4>4. CASE follows[m] # p
        <5>1. b.seen[follows[m]] = a.seen[follows[m]]
          BY <1>2, <2>4, <4>2, <4>4
        <5> QED BY <2>1, <4>1, <5>1
      <4> QED BY <4>3, <4>4
    <3> QED BY <1>2, <2>3, <2>5, <3>1 DEF StandsAt
  <2>7. g # None
    <3>1. ASSUME g = None PROVE FALSE
      <4>1. /\ healthy(a, m, L) /\ p = L
        <5>1. [h EXCEPT !.since = None] \in RevertHold
          BY <2>4, <2>5 DEF RevertHold
        <5>2. SinceOr(h) \in Nat
          BY <1>0, <2>4, <2>5 DEF SinceOr, RevertHold
        <5>3. [h EXCEPT !.since = SinceOr(h)] \in RevertHold
          BY <2>4, <2>5, <5>2 DEF RevertHold
        <5> QED BY <1>1, <1>2, <2>6, <3>1, <5>1, <5>3, NoneAssumption DEF HoldJudged
      <4>2. g = [h EXCEPT !.since = SinceOr(h)]
        BY <1>0, <1>1, <1>2, <1>9, <4>1, RefusedHolds
      <4>3. SinceOr(h) \in Nat
        BY <1>0, <2>4, <2>5 DEF SinceOr, RevertHold
      <4>4. g \in RevertHold
        BY <2>4, <2>5, <4>2, <4>3 DEF RevertHold
      <4> QED BY <3>1, <4>4, NoneAssumption
    <3> QED BY <3>1
  <2>8. /\ g.holder = follows[m] /\ g.leader = L
        /\ g.since = IF healthy(a, m, L) THEN SinceOr(h) ELSE None
    BY <1>1, <1>2, <2>3, <2>4, <2>5, <2>6, <2>7, StoodKept
  <2>9. t.bad = probation[m].bad /\ (probation[m].based => t.based) /\ (clear /\ L = p => t.based)
    BY <1>3, <1>5, <2>1
  <2>10. g.since # None => healthy(d, m, L) /\ t.bad <= g.since
    BY <1>0, <1>3, <1>7, <2>1, <2>5, <2>6, <2>7, <2>8, <2>9
  <2>11. Reinstalled(d, m, L) => t.based
    BY <1>0, <1>3, <2>3, <2>9
  <2> QED BY <1>2, <1>3, <1>9, <2>3, <2>4, <2>7, <2>8, <2>10, <2>11 DEF InPlace
<1> QED BY <1>8, <1>9

\* The refusal the history keeps of a batch is that of a healthy leader behind an older hold.
LEMMA BatchRefused ==
  ASSUME Inv, NEW m \in Market, NEW p \in Path, NEW clear \in BOOLEAN,
         NEW incomplete \in BOOLEAN, Eligible(a, p), a.leader # None,
         NEW b, b = Judged(a, m, p, clear, incomplete), b.leader = a.leader,
         NEW sent \in BOOLEAN, sent <=> serving(b, m) = p,
         NEW d, After(b, d, m, p, sent),
         NEW t, t = IF p # a.leader THEN refused[m]
                    ELSE IF sent \/ ~healthy(d, m, p) THEN None
                    ELSE IF refused[m] = None THEN Now ELSE refused[m],
         t # None
  PROVE  Waits(d, m, t)
<1> DEFINE L == a.leader
           h == HeldBefore(a, m, p, incomplete)
           g == HoldOf(b, m)
<1>0. a \in AuthState /\ Labelled(a) /\ SeenBy(a, Now) /\ Now \in Nat /\ Now # None /\ L \in Path
      /\ h \in RevertHold \cup {None}
  BY ScopeOf, HeldBeforeType, AuthorityConstants DEF ScopeKnown
<1>1. /\ ScopeJudged(a, b, p) /\ Kept(a, b, m) /\ HoldJudged(a, b, m, p, clear, h)
  BY <1>0, BatchJudged
<1>2. b \in AuthState /\ Labelled(b) /\ SeenBy(b, Now) /\ b.leader = L /\ b.leader # None
  BY <1>1 DEF ScopeJudged
<1> HIDE DEF h
<1>3. /\ d.leader = L /\ HoldOf(d, m) = g
      /\ \A q \in Path : healthy(d, m, q) <=> healthy(a, m, q)
  BY <1>1, <1>2 DEF After, Kept, SameScope
<1>4. refused[m] # None => Waits(a, m, refused[m])
  BY DEF Inv, RefusedTimed
<1>5. healthy(a, m, L)
  BY <1>0, <1>3, <1>4 DEF Waits, L
<1>6. ASSUME g # None, g.leader = L
      PROVE  g.since # None /\ g.since <= t
  <2>1. StandsAt(a, b, m, h) /\ h \in RevertHold
    BY <1>0, <1>1, <1>2, <1>5, <1>6 DEF HoldJudged, StandsAt
  <2>2. g.since = SinceOr(h) /\ g.leader = h.leader
    BY <1>1, <1>2, <1>5, <1>6, <2>1, StoodKept
  <2>3. h = HoldOf(a, m) /\ Past(a, m)
    BY <2>1 DEF h, HeldBefore, StandsAt, Inv, HoldsPast
  <2>4. refused[m] # None => HoldOf(a, m).since # None /\ HoldOf(a, m).since <= refused[m]
    BY <1>4, <1>6, <2>1, <2>2, <2>3 DEF Waits, StandsAt, L
  <2>5. CASE refused[m] # None
    <3>1. t = refused[m]
      BY <2>5
    <3> QED BY <2>2, <2>3, <2>4, <2>5, <3>1 DEF SinceOr
  <2>6. CASE refused[m] = None
    <3>1. t = Now
      BY <2>6
    <3>2. h.since # None => h.since <= Now
      BY <2>1, <2>3 DEF Past, StandsAt
    <3> QED BY <1>0, <2>2, <3>1, <3>2 DEF SinceOr
  <2> QED BY <2>5, <2>6
<1> QED BY <1>0, <1>2, <1>3, <1>5, <1>6 DEF Waits

\* No hold a batch leaves was stamped in the future.
LEMMA BatchPast ==
  ASSUME NEW x, NEW b, NEW m, NEW p, NEW clear, NEW h \in RevertHold \cup {None},
         h # None /\ h.since # None => h.since <= Now, HoldJudged(x, b, m, p, clear, h)
  PROVE  Past(b, m)
<1> SUFFICES ASSUME HoldOf(b, m) # None, HoldOf(b, m).since # None
             PROVE  HoldOf(b, m).since <= Now
  BY DEF Past
<1>0. Now \in Nat
  BY ClockAssumption
<1>1. StandsAt(x, b, m, h)
  <2>1. ASSUME ~StandsAt(x, b, m, h) PROVE FALSE
    <3>1. HoldOf(b, m) = [holder |-> p, leader |-> b.leader, since |-> None]
      BY <2>1 DEF HoldJudged
    <3> QED BY <3>1
  <2> QED BY <2>1
<1>2. h \in RevertHold /\ h # None
  BY <1>1 DEF StandsAt
<1>3. HoldOf(b, m).since = SinceOr(h)
  BY <1>1, <1>2, StoodKept
<1> QED BY <1>0, <1>2, <1>3 DEF SinceOr

\* The record after a batch, whoever led before.
BatchLeft(d, m, p, sent) ==
  /\ d \in AuthState /\ Labelled(d) /\ d.seen = [a.seen EXCEPT ![p] = Now]
  /\ \A k \in Market \ {m} : d.markets[k] \in {None, a.markets[k]}
  /\ last_admitted(d, m) = IF sent THEN p ELSE last_admitted(a, m)
  /\ Past(d, m)

\* Deliver, for the first batch of the scope and for every other: the record it leaves.
LEMMA BatchLeaves ==
  ASSUME Inv, NEW m \in Market, NEW p \in Path, NEW clear \in BOOLEAN,
         NEW incomplete \in BOOLEAN, Eligible(a, p),
         NEW r, r = Deliver(a, m, p, clear, incomplete),
         NEW sent \in BOOLEAN, sent <=> r.out # "dropped",
         NEW b, b = Judged(a, m, p, clear, incomplete)
  PROVE  /\ BatchLeft(r.au, m, p, sent)
         /\ a.leader = None => r.au.leader = p
         /\ a.leader # None => /\ After(b, r.au, m, p, sent) /\ b.leader = r.au.leader
                               /\ sent <=> serving(b, m) = p
<1> DEFINE d == r.au
<1>0. a \in AuthState /\ Labelled(a) /\ SeenBy(a, Now)
  BY ScopeOf DEF ScopeKnown
<1>1. Past(a, m)
  BY DEF Inv, HoldsPast
<1>2. CASE a.leader = None
  <2>1. r.out = "opened" /\ FirstAt(a, d, m, p)
    BY <1>0, <1>2, FirstDecided
  <2>2. sent
    BY <2>1
  <2>3. PICK c \in AuthState :
          /\ d = Served(c, m, p) /\ c.leader = p /\ c.seen = [a.seen EXCEPT ![p] = Now]
          /\ Labelled(c) /\ SeenBy(c, Now) /\ Kept(a, c, m) /\ HoldOf(c, m) = HoldOf(a, m)
    BY <2>1 DEF FirstAt
  <2>4. After(c, d, m, p, sent)
    BY <2>2, <2>3, ServedAfter
  <2> HIDE DEF d
  <2>5. d \in AuthState /\ d.leader = p /\ Labelled(d) /\ d.seen = [a.seen EXCEPT ![p] = Now]
    BY <2>3, <2>4 DEF After, SameScope, Labelled
  <2>6. /\ \A k \in Market \ {m} : d.markets[k] \in {None, a.markets[k]}
        /\ last_admitted(d, m) = IF sent THEN p ELSE last_admitted(a, m)
    BY <2>3, <2>4 DEF After, Kept
  <2>7. Past(d, m)
    BY <1>1, <2>3, <2>4 DEF Past, After
  <2> QED BY <1>2, <2>5, <2>6, <2>7 DEF BatchLeft, d
<1>3. CASE a.leader # None
  <2> DEFINE h == HeldBefore(a, m, p, incomplete)
  <2>1. /\ ScopeJudged(a, b, p) /\ Kept(a, b, m) /\ HoldJudged(a, b, m, p, clear, h)
    BY <1>0, <1>3, BatchJudged
  <2>2. b \in AuthState /\ Labelled(b) /\ b.seen = [a.seen EXCEPT ![p] = Now]
    BY <2>1 DEF ScopeJudged
  <2>3. /\ sent <=> serving(b, m) = p
        /\ d = IF sent THEN Served(b, m, p) ELSE b
    <3>1. /\ r.out = "dropped" <=> serving(b, m) # p
          /\ r.out = "dropped" => r.au = b
          /\ r.out # "dropped" => r.au = Served(b, m, p)
      BY <1>0, <1>3, BatchFates
    <3> QED BY <3>1
  <2> HIDE DEF d
  <2>4. After(b, d, m, p, sent)
    BY <2>2, <2>3, ServedAfter
  <2>5. h \in RevertHold \cup {None} /\ (h # None /\ h.since # None => h.since <= Now)
    <3>1. h \in RevertHold \cup {None}
      BY <1>0, HeldBeforeType
    <3>2. h \in {None, HoldOf(a, m)}
      BY DEF HeldBefore
    <3> QED BY <1>1, <3>1, <3>2 DEF Past
  <2> HIDE DEF h
  <2>6. Past(b, m)
    BY <2>1, <2>5, BatchPast
  <2>7. d \in AuthState /\ d.leader = b.leader /\ Labelled(d) /\ d.seen = [a.seen EXCEPT ![p] = Now]
    BY <2>2, <2>4 DEF After, SameScope, Labelled
  <2>8. /\ \A k \in Market \ {m} : d.markets[k] \in {None, a.markets[k]}
        /\ last_admitted(d, m) = IF sent THEN p ELSE last_admitted(a, m)
    BY <2>1, <2>4 DEF After, Kept
  <2>9. Past(d, m)
    BY <2>4, <2>6 DEF Past, After
  <2> QED BY <1>3, <2>3, <2>4, <2>7, <2>8, <2>9 DEF BatchLeft, d
<1> QED BY <1>2, <1>3

\* An entry that is as it was, under the leader that was.
LEMMA EntryAsBefore ==
  ASSUME NEW x, NEW d, NEW k, d.leader = x.leader, d.markets[k] = x.markets[k]
  PROVE  /\ \A f, t : InPlace(x, k, f, t) => InPlace(d, k, f, t)
         /\ \A t : Waits(x, k, t) => Waits(d, k, t)
         /\ Past(x, k) => Past(d, k)
         /\ last_admitted(d, k) = last_admitted(x, k)
BY DEF InPlace, Waits, Past, healthy, HoldOf, Reinstalled, last_admitted

\* An entry that is gone.
LEMMA EntryGone ==
  ASSUME NEW x, NEW d, NEW k, d.leader = x.leader, d.markets[k] = None
  PROVE  /\ \A t : Waits(x, k, t) => Waits(d, k, t)
         /\ Past(d, k) /\ last_admitted(d, k) = None
BY DEF Waits, Past, healthy, HoldOf, last_admitted

ProbationType == [bad : 0..Now, based : BOOLEAN]

\* The history of a probation keeps its type.
LEMMA ProbationTyped ==
  ASSUME Inv, NEW d, NEW m \in Market, NEW p, NEW clear \in BOOLEAN, NEW sent \in BOOLEAN
  PROVE  Probation(d, m, p, clear, sent) \in ProbationType \cup {None}
<1> DEFINE old == IF probation[m] # None /\ clear /\ p = d.leader
                    THEN [probation[m] EXCEPT !.based = TRUE] ELSE probation[m]
           bl == d.leader \in d.markets[m].reinstalled
           new == [bad |-> Now, based |-> bl]
<1>0. Now \in Nat
  BY ClockAssumption
<1>1. probation[m] \in ProbationType \cup {None}
  BY DEF Inv, TypeOK, ProbationType
<1>2. old \in ProbationType \cup {None}
  BY <1>1 DEF ProbationType
<1>3. bl \in BOOLEAN
  OBVIOUS
<1>4. new \in ProbationType
  <2> HIDE DEF bl
  <2> QED BY <1>0, <1>3 DEF ProbationType
<1>5. Probation(d, m, p, clear, sent) \in {None, old, new}
  <2>1. Probation(d, m, p, clear, sent) =
         IF sent
            THEN IF p = d.leader THEN None
                 ELSE IF old # None \/ healthy(d, m, d.leader) THEN old
                 ELSE new
          ELSE IF old # None /\ Now - spoke[follows[m]] <= leader_timeout_ns THEN old
          ELSE None
    BY Zenon DEF Probation
  <2> HIDE DEF old, new
  <2> QED BY <2>1
<1> HIDE DEF old, new
<1> QED BY <1>2, <1>4, <1>5

\* Arbiter::emit on a delivered batch keeps the invariant.
LEMMA BatchKeeps ==
  ASSUME Inv, NEW m \in Market, NEW p \in Path, NEW clear \in BOOLEAN,
         NEW incomplete \in BOOLEAN, Batch(m, p, clear, incomplete)
  PROVE  Inv'
<1> DEFINE r == Deliver(a, m, p, clear, incomplete)
           d == r.au
           sent == r.out # "dropped"
           b == Judged(a, m, p, clear, incomplete)
<1>1. /\ Eligible(a, p) /\ a' = d /\ spoke' = [spoke EXCEPT ![p] = Now]
      /\ follows' = IF sent THEN [follows EXCEPT ![m] = p] ELSE follows
      /\ probation' = [k \in Market |->
            IF a.leader # d.leader \/ d.markets[k] = None THEN None
            ELSE IF k = m THEN Probation(d, m, p, clear, sent)
            ELSE probation[k]]
      /\ refused' = [k \in Market |->
            IF a.leader # d.leader THEN None
            ELSE IF k # m \/ p # a.leader THEN refused[k]
            ELSE IF sent \/ ~healthy(d, m, p) THEN None
            ELSE IF refused[k] = None THEN Now ELSE refused[k]]
  BY Zenon DEF Batch
<1>2. /\ a \in AuthState /\ Now \in Nat /\ Now # None /\ sent \in BOOLEAN
      /\ \A q \in Path : spoke[q] = LastSeen(a, q)
  BY ScopeOf, AuthorityConstants DEF ScopeKnown
<1>3. TypeOK /\ ProbationHeld /\ RefusedTimed /\ HoldsPast /\ FollowsAdmitted
  BY DEF Inv
<1>4. /\ BatchLeft(d, m, p, sent)
      /\ a.leader = None => d.leader = p
      /\ a.leader # None => /\ After(b, d, m, p, sent) /\ b.leader = d.leader
                            /\ sent <=> serving(b, m) = p
  <2>1. PICK s \in BOOLEAN : s = sent
    OBVIOUS
  <2>2. /\ BatchLeft(d, m, p, s)
        /\ a.leader = None => d.leader = p
        /\ a.leader # None => /\ After(b, d, m, p, s) /\ b.leader = d.leader
                              /\ s <=> serving(b, m) = p
    <3> HIDE DEF b
    <3>1. s <=> r.out # "dropped"
      BY <2>1
    <3>2. b = Judged(a, m, p, clear, incomplete)
      BY DEF b
    <3> QED BY <1>1, <3>1, <3>2, BatchLeaves
  <2> QED BY <2>1, <2>2, Zenon
<1>5. Probation(d, m, p, clear, sent) \in ProbationType \cup {None}
  <2>1. PICK s \in BOOLEAN : s = sent
    OBVIOUS
  <2>2. Probation(d, m, p, clear, s) \in ProbationType \cup {None}
    BY ProbationTyped
  <2> QED BY <2>1, <2>2, Zenon
<1>6. ASSUME a.leader # None, a.leader = d.leader, d.markets[m] # None,
             Probation(d, m, p, clear, sent) # None
      PROVE  InPlace(d, m, IF sent THEN p ELSE follows[m], Probation(d, m, p, clear, sent))
  <2>1. PICK s \in BOOLEAN : s = sent
    OBVIOUS
  <2>2. After(b, d, m, p, s) /\ (s <=> serving(b, m) = p) /\ Probation(d, m, p, clear, s) # None
    BY <1>4, <1>6, <2>1, Zenon
  <2>3. b.leader = a.leader
    BY <1>4, <1>6
  <2> HIDE DEF d
  <2>4. InPlace(d, m, IF s THEN p ELSE follows[m], Probation(d, m, p, clear, s))
    BY <1>1, <1>6, <2>2, <2>3, BatchProbation
  <2> QED BY <2>1, <2>4, Zenon
<1> DEFINE ref == IF p # a.leader THEN refused[m]
                  ELSE IF sent \/ ~healthy(d, m, p) THEN None
                  ELSE IF refused[m] = None THEN Now ELSE refused[m]
<1>7. ASSUME a.leader # None, a.leader = d.leader, ref # None PROVE Waits(d, m, ref)
  <2>1. PICK s \in BOOLEAN : s = sent
    OBVIOUS
  <2> DEFINE rs == IF p # a.leader THEN refused[m]
                   ELSE IF s \/ ~healthy(d, m, p) THEN None
                   ELSE IF refused[m] = None THEN Now ELSE refused[m]
  <2>2. After(b, d, m, p, s) /\ (s <=> serving(b, m) = p)
    BY <1>4, <1>7, <2>1, Zenon
  <2>3. b.leader = a.leader
    BY <1>4, <1>7
  <2>4. rs = ref
    BY <2>1
  <2>5. rs # None
    BY <1>7, <2>4
  <2> HIDE DEF d, ref
  <2>6. Waits(d, m, rs)
    BY <1>1, <1>7, <2>2, <2>3, <2>5, BatchRefused
  <2> QED BY <2>4, <2>6
<1> HIDE DEF r, d, sent, b
<1>8. /\ d \in AuthState /\ Labelled(d) /\ d.seen = [a.seen EXCEPT ![p] = Now]
      /\ \A k \in Market \ {m} : d.markets[k] \in {None, a.markets[k]}
      /\ last_admitted(d, m) = IF sent THEN p ELSE last_admitted(a, m)
      /\ Past(d, m)
  BY <1>4 DEF BatchLeft
<1>9. a.leader = d.leader => a.leader # None
  BY <1>4, AuthorityConstants
<1>10. ASSUME NEW k \in Market \ {m}, d.leader = a.leader
       PROVE  /\ d.markets[k] # None /\ probation[k] # None
                   => InPlace(d, k, follows[k], probation[k])
              /\ refused[k] # None => Waits(d, k, refused[k])
  <2>1. CASE d.markets[k] = None
    BY <1>3, <1>10, <2>1, EntryGone DEF RefusedTimed
  <2>2. CASE d.markets[k] # None
    <3>1. d.markets[k] = a.markets[k]
      BY <1>8, <1>10, <2>2
    <3> QED BY <1>3, <1>10, <3>1, EntryAsBefore DEF RefusedTimed, ProbationHeld
  <2> QED BY <2>1, <2>2
<1>11. TypeOK'
  <2>1. follows' \in [Market -> Path \cup {None}] /\ spoke' \in [Path -> 0..Now]
    BY <1>1, <1>2, <1>3 DEF TypeOK
  <2>2. probation' \in [Market -> ProbationType \cup {None}]
    BY <1>1, <1>3, <1>5 DEF TypeOK, ProbationType
  <2>3. refused' \in [Market -> 0..Now \cup {None}]
    BY <1>1, <1>2, <1>3 DEF TypeOK
  <2> QED BY <1>1, <1>8, <2>1, <2>2, <2>3 DEF TypeOK, ProbationType
<1>12. Labelled(a)' /\ HeardLast'
  <2>1. Labelled(a)'
    BY <1>1, <1>8, Zenon
  <2>2. ASSUME NEW q \in Path PROVE spoke'[q] = LastSeen(d, q)
    BY <1>1, <1>2, <1>3, <1>8 DEF LastSeen, TypeOK, AuthState
  <2> QED BY <1>1, <2>1, <2>2 DEF HeardLast
<1>13. FollowsAdmitted'
  <2>1. ASSUME NEW k \in Market PROVE last_admitted(d, k) \in {None, follows'[k]}
    <3>1. CASE k = m
      BY <1>1, <1>3, <1>8, <3>1 DEF FollowsAdmitted, TypeOK
    <3>2. CASE k # m
      <4>1. last_admitted(d, k) \in {None, last_admitted(a, k)}
        BY <1>8, <3>2 DEF last_admitted
      <4>2. follows'[k] = follows[k]
        BY <1>1, <1>3, <3>2 DEF TypeOK
      <4> QED BY <1>3, <4>1, <4>2 DEF FollowsAdmitted
    <3> QED BY <3>1, <3>2
  <2> QED BY <1>1, <2>1 DEF FollowsAdmitted
<1>14. HoldsPast'
  <2>1. ASSUME NEW k \in Market PROVE Past(d, k)
    <3>1. CASE k # m
      BY <1>3, <1>8, <3>1 DEF HoldsPast, Past, HoldOf
    <3> QED BY <1>8, <3>1
  <2> QED BY <1>1, <2>1 DEF HoldsPast
<1>15. ProbationHeld'
  <2>1. ASSUME NEW k \in Market, probation'[k] # None
        PROVE  InPlace(d, k, follows'[k], probation'[k])
    <3>1. a.leader = d.leader /\ a.leader # None /\ d.markets[k] # None
      BY <1>1, <1>9, <2>1
    <3>2. CASE k = m
      <4>1. probation'[m] = Probation(d, m, p, clear, sent)
        BY <1>1, <3>1, <3>2
      <4>2. follows'[m] = IF sent THEN p ELSE follows[m]
        BY <1>1, <1>3 DEF TypeOK
      <4>3. InPlace(d, m, IF sent THEN p ELSE follows[m], Probation(d, m, p, clear, sent))
        BY <1>6, <2>1, <3>1, <3>2, <4>1
      <4> QED BY <3>2, <4>1, <4>2, <4>3, Zenon
    <3>3. CASE k # m
      <4>1. probation'[k] = probation[k] /\ follows'[k] = follows[k]
        BY <1>1, <1>3, <3>1, <3>3 DEF TypeOK
      <4> QED BY <1>10, <2>1, <3>1, <3>3, <4>1
    <3> QED BY <3>2, <3>3
  <2> QED BY <1>1, <2>1 DEF ProbationHeld
<1>16. RefusedTimed'
  <2>1. ASSUME NEW k \in Market, refused'[k] # None PROVE Waits(d, k, refused'[k])
    <3>1. a.leader = d.leader /\ a.leader # None
      BY <1>1, <1>9, <2>1
    <3>2. CASE k = m
      <4>1. refused'[m] = ref
        BY <1>1, <3>1, <3>2
      <4> HIDE DEF ref
      <4> QED BY <1>7, <2>1, <3>1, <3>2, <4>1
    <3>3. CASE k # m
      <4>1. refused'[k] = refused[k]
        BY <1>1, <3>1, <3>3
      <4> QED BY <1>10, <2>1, <3>1, <3>3, <4>1
    <3> QED BY <3>2, <3>3
  <2> QED BY <1>1, <2>1 DEF RefusedTimed
<1> QED BY <1>11, <1>12, <1>13, <1>14, <1>15, <1>16 DEF Inv

-----------------------------------------------------------------------------
(* The other steps keep it.                                                 *)

\* set_health: the path's health here is what was reported, its re-baseline is forgotten with
\* its health, and the probation it was on starts again.
HealthSet(x, d, m, p, ok) ==
  /\ d \in AuthState /\ SameScope(x, d) /\ Range(x.ordinals) \subseteq Range(d.ordinals)
  /\ \A k \in Market \ {m} : d.markets[k] \in {None, x.markets[k]}
  /\ last_admitted(d, m) = last_admitted(x, m)
  /\ \A q \in Path \ {p} : healthy(d, m, q) <=> healthy(x, m, q)
  /\ healthy(d, m, p) <=> ok
  /\ \A q \in Path : Reinstalled(d, m, q) => Reinstalled(x, m, q) /\ (ok \/ q # p)
  /\ IF ~ok /\ HoldOf(x, m) # None /\ HoldOf(x, m).leader = p
     THEN HoldOf(d, m) = [HoldOf(x, m) EXCEPT !.since = None]
     ELSE HoldOf(d, m) = HoldOf(x, m)

\* set_health leaves what HealthSet says.
LEMMA HealthReported ==
  ASSUME NEW x \in AuthState, NEW m \in Market, NEW p \in Path, NEW ok \in BOOLEAN,
         Eligible(x, p), NEW d, d = set_health(x, m, p, ok)
  PROVE  HealthSet(x, d, m, p, ok)
<1> DEFINE r == path_ordinal(x, p)
           b == market_mut(r, m)
<1>1. /\ r \in AuthState /\ SameScope(x, r) /\ r.markets = x.markets
      /\ Range(x.ordinals) \subseteq Range(r.ordinals)
  BY PathLabelled
<1>2. CASE ok /\ x.markets[m] = None
  <2>1. d = r
    BY <1>2 DEF set_health
  <2> HIDE DEF r
  <2> QED BY <1>1, <1>2, <2>1 DEF HealthSet, healthy, HoldOf, last_admitted, Reinstalled
<1>3. CASE ~(ok /\ x.markets[m] = None)
  <2> HIDE DEF r
  <2>1. /\ b \in AuthState /\ SameScope(r, b) /\ b.ordinals = r.ordinals
        /\ b.markets[m] = IF r.markets[m] = None THEN NewMarket ELSE r.markets[m]
        /\ b.markets[m] \in MarketState
        /\ \A k \in Market \ {m} : b.markets[k] \in {None, r.markets[k]}
    BY <1>1, MarketEntered
  <2> DEFINE o == b.markets[m]
             hd == IF o.hold # None /\ o.hold.leader = p THEN [o.hold EXCEPT !.since = None]
                   ELSE o.hold
             e == IF ok THEN [o EXCEPT !.unhealthy = @ \ {p}]
                  ELSE [o EXCEPT !.unhealthy = @ \cup {p}, !.reinstalled = @ \ {p}, !.hold = hd]
  <2>2. d = WithEntry(b, m, e)
    <3>1. d = IF ok THEN [b EXCEPT !.markets[m].unhealthy = @ \ {p}]
              ELSE [b EXCEPT !.markets[m] = Doubted(b.markets[m], p)]
      BY <1>3, Zenon DEF set_health, r
    <3> HIDE DEF b
    <3>2. CASE ok
      BY <2>1, <3>1, <3>2 DEF AuthState, WithEntry
    <3>3. CASE ~ok
      <4>1. e = Doubted(o, p)
        BY <3>3 DEF Doubted
      <4> HIDE DEF e
      <4>2. d = [b EXCEPT !.markets[m] = e]
        BY <3>1, <3>3, <4>1
      <4> QED BY <2>1, <4>2 DEF AuthState, WithEntry
    <3> QED BY <3>2, <3>3
  <2> HIDE DEF b
  <2>3. hd \in RevertHold \cup {None}
    BY <2>1 DEF MarketState, RevertHold
  <2> HIDE DEF hd
  <2>4. /\ e \in MarketState /\ e.last_admitted = o.last_admitted
        /\ e.unhealthy = (IF ok THEN o.unhealthy \ {p} ELSE o.unhealthy \cup {p})
        /\ e.reinstalled = (IF ok THEN o.reinstalled ELSE o.reinstalled \ {p})
        /\ e.hold = (IF ok THEN o.hold ELSE hd)
    <3>1. CASE ok
      BY <2>1, <3>1 DEF MarketState
    <3>2. CASE ~ok
      BY <2>1, <2>3, <3>2 DEF MarketState
    <3> QED BY <3>1, <3>2
  <2> HIDE DEF e
  <2>5. /\ d \in AuthState /\ SameScope(b, d) /\ d.ordinals = b.ordinals
        /\ d.markets[m] = e /\ \A k \in Market \ {m} : d.markets[k] = b.markets[k]
    BY <2>1, <2>2, <2>4, EntryReplaced
  <2>6. d.markets[m] # None /\ o # None
    BY <2>1, <2>4, <2>5, NoneAssumption
  <2>7. /\ d \in AuthState /\ SameScope(x, d) /\ Range(x.ordinals) \subseteq Range(d.ordinals)
        /\ \A k \in Market \ {m} : d.markets[k] \in {None, x.markets[k]}
    BY <1>1, <2>1, <2>5 DEF SameScope
  <2>8. /\ o.unhealthy = IF x.markets[m] = None THEN {} ELSE x.markets[m].unhealthy
        /\ o.reinstalled = IF x.markets[m] = None THEN {} ELSE x.markets[m].reinstalled
        /\ o.hold = HoldOf(x, m) /\ o.last_admitted = last_admitted(x, m)
    BY <1>1, <2>1 DEF NewMarket, HoldOf, last_admitted
  <2> HIDE DEF o
  <2>9. /\ last_admitted(d, m) = last_admitted(x, m)
        /\ HoldOf(d, m) = IF ok THEN HoldOf(x, m) ELSE hd
    BY <2>4, <2>5, <2>6, <2>8 DEF last_admitted, HoldOf
  <2>10. hd = IF HoldOf(x, m) # None /\ HoldOf(x, m).leader = p
              THEN [HoldOf(x, m) EXCEPT !.since = None] ELSE HoldOf(x, m)
    BY <2>8 DEF hd
  <2>11. /\ \A q \in Path \ {p} : healthy(d, m, q) <=> healthy(x, m, q)
         /\ healthy(d, m, p) <=> ok
    BY <1>3, <2>4, <2>5, <2>6, <2>8 DEF healthy
  <2>12. \A q \in Path : Reinstalled(d, m, q) => Reinstalled(x, m, q) /\ (ok \/ q # p)
    BY <2>4, <2>5, <2>6, <2>8 DEF Reinstalled
  <2>13. IF ~ok /\ HoldOf(x, m) # None /\ HoldOf(x, m).leader = p
         THEN HoldOf(d, m) = [HoldOf(x, m) EXCEPT !.since = None]
         ELSE HoldOf(d, m) = HoldOf(x, m)
    BY <2>9, <2>10
  <2> QED BY <2>7, <2>9, <2>11, <2>12, <2>13 DEF HealthSet
<1> QED BY <1>2, <1>3

\* Arbiter::set_book_health keeps the invariant.
LEMMA ReportKeeps ==
  ASSUME Inv, NEW m \in Market, NEW p \in Path, NEW ok \in BOOLEAN, Report(m, p, ok)
  PROVE  Inv'
<1> DEFINE d == set_health(a, m, p, ok)
<1>1. /\ Eligible(a, p) /\ a' = d /\ follows' = follows /\ spoke' = spoke
      /\ probation' = [k \in Market |->
            IF probation[k] = None \/ d.markets[k] = None THEN None
            ELSE IF k # m THEN probation[k]
            ELSE IF p = a.leader
              THEN IF ok THEN IF healthy(a, m, p) THEN probation[k]
                              ELSE [probation[k] EXCEPT !.bad = Now]
                   ELSE [bad |-> Now, based |-> FALSE]
            ELSE IF ~ok /\ p = follows[k] THEN None
            ELSE probation[k]]
      /\ refused' = IF ~ok /\ p = a.leader THEN [refused EXCEPT ![m] = None] ELSE refused
  <2>1. a' = d
    BY DEF Report
  <2> QED BY <2>1, Zenon DEF Report
<1>2. a \in AuthState /\ Labelled(a) /\ Now \in Nat /\ Now # None /\ a.leader \in Path \cup {None}
      /\ \A q \in Path : spoke[q] = LastSeen(a, q)
  BY ScopeOf, AuthorityConstants DEF ScopeKnown
<1>3. TypeOK /\ ProbationHeld /\ RefusedTimed /\ HoldsPast /\ FollowsAdmitted
  BY DEF Inv
<1>4. HealthSet(a, d, m, p, ok)
  BY <1>1, <1>2, HealthReported
<1> HIDE DEF d
<1>5. /\ d \in AuthState /\ d.leader = a.leader /\ d.seen = a.seen
      /\ Range(a.ordinals) \subseteq Range(d.ordinals)
      /\ \A k \in Market \ {m} : d.markets[k] \in {None, a.markets[k]}
      /\ last_admitted(d, m) = last_admitted(a, m)
  BY <1>4 DEF HealthSet, SameScope
<1>6. /\ \A q \in Path \ {p} : healthy(d, m, q) <=> healthy(a, m, q)
      /\ healthy(d, m, p) <=> ok
      /\ \A q \in Path : Reinstalled(d, m, q) => Reinstalled(a, m, q) /\ (ok \/ q # p)
  BY <1>4 DEF HealthSet
<1>7. /\ HoldOf(a, m) \in RevertHold \cup {None}
      /\ HoldOf(a, m) = None => HoldOf(d, m) = None
      /\ HoldOf(a, m) # None =>
           /\ HoldOf(d, m) # None /\ HoldOf(d, m).holder = HoldOf(a, m).holder
           /\ HoldOf(d, m).leader = HoldOf(a, m).leader
           /\ HoldOf(d, m).since = IF ~ok /\ HoldOf(a, m).leader = p THEN None
                                   ELSE HoldOf(a, m).since
  <2>1. HoldOf(a, m) \in RevertHold \cup {None}
    BY <1>2, HeldBeforeType
  <2>2. CASE ~ok /\ HoldOf(a, m) # None /\ HoldOf(a, m).leader = p
    <3>1. HoldOf(d, m) = [HoldOf(a, m) EXCEPT !.since = None] /\ HoldOf(a, m) \in RevertHold
      BY <1>4, <2>1, <2>2 DEF HealthSet
    <3>2. HoldOf(d, m) \in RevertHold
      BY <3>1 DEF RevertHold
    <3> QED BY <2>2, <3>1, <3>2, NoneAssumption DEF RevertHold
  <2>3. CASE ~(~ok /\ HoldOf(a, m) # None /\ HoldOf(a, m).leader = p)
    <3>1. HoldOf(d, m) = HoldOf(a, m)
      BY <1>4, <2>3 DEF HealthSet
    <3> QED BY <2>1, <2>3, <3>1
  <2> QED BY <2>2, <2>3
<1>8. ASSUME NEW k \in Market \ {m}
      PROVE  /\ d.markets[k] # None /\ probation[k] # None
                   => InPlace(d, k, follows[k], probation[k])
             /\ refused[k] # None => Waits(d, k, refused[k])
             /\ Past(d, k) /\ last_admitted(d, k) \in {None, last_admitted(a, k)}
  <2>1. CASE d.markets[k] = None
    BY <1>3, <1>5, <2>1, EntryGone DEF RefusedTimed
  <2>2. CASE d.markets[k] # None
    <3>1. d.markets[k] = a.markets[k]
      BY <1>5, <1>8, <2>2
    <3> QED BY <1>3, <1>5, <3>1, EntryAsBefore DEF RefusedTimed, ProbationHeld, HoldsPast
  <2> QED BY <2>1, <2>2
<1>9. TypeOK'
  <2>1. ASSUME NEW k \in Market PROVE probation'[k] \in ProbationType \cup {None}
    <3>1. probation[k] \in ProbationType \cup {None}
      BY <1>3 DEF TypeOK, ProbationType
    <3>2. probation[k] # None => [probation[k] EXCEPT !.bad = Now] \in ProbationType
      BY <1>2, <3>1 DEF ProbationType
    <3>3. [bad |-> Now, based |-> FALSE] \in ProbationType
      BY <1>2 DEF ProbationType
    <3>4. CASE probation'[k] = None
      BY <3>4
    <3>5. CASE probation'[k] # None
      <4>1. probation[k] # None /\ d.markets[k] # None
        BY <1>1, <3>5
      <4>2. CASE k = m /\ p = a.leader /\ ok /\ ~healthy(a, m, p)
        <5>1. probation'[k] = [probation[k] EXCEPT !.bad = Now]
          BY <1>1, <4>1, <4>2
        <5> QED BY <3>2, <4>1, <5>1
      <4>3. CASE k = m /\ p = a.leader /\ ~ok
        <5>1. probation'[k] = [bad |-> Now, based |-> FALSE]
          BY <1>1, <4>1, <4>3
        <5> QED BY <3>3, <5>1
      <4>4. CASE ~(k = m /\ p = a.leader) \/ (ok /\ healthy(a, m, p))
        <5>1. probation'[k] = probation[k]
          BY <1>1, <3>5, <4>1, <4>4
        <5> QED BY <3>1, <5>1
      <4> QED BY <4>2, <4>3, <4>4
    <3> QED BY <3>4, <3>5
  <2>2. probation' \in [Market -> ProbationType \cup {None}]
    BY <1>1, <2>1
  <2>3. refused' \in [Market -> 0..Now \cup {None}]
    BY <1>1, <1>3 DEF TypeOK
  <2> QED BY <1>1, <1>3, <1>5, <2>2, <2>3 DEF TypeOK, ProbationType
<1>10. Labelled(a)' /\ HeardLast'
  <2>1. Labelled(d)
    BY <1>2, <1>5 DEF Labelled
  <2>2. Labelled(a)'
    BY <1>1, <2>1, Zenon
  <2>3. \A q \in Path : spoke[q] = LastSeen(d, q)
    BY <1>2, <1>5 DEF LastSeen
  <2> QED BY <1>1, <2>2, <2>3 DEF HeardLast
<1>11. FollowsAdmitted' /\ HoldsPast'
  <2>1. Past(d, m)
    BY <1>3, <1>7 DEF HoldsPast, Past
  <2>2. ASSUME NEW k \in Market PROVE Past(d, k) /\ last_admitted(d, k) \in {None, follows[k]}
    BY <1>3, <1>5, <1>8, <2>1 DEF FollowsAdmitted
  <2> QED BY <1>1, <2>2 DEF FollowsAdmitted, HoldsPast
<1>12. ProbationHeld'
  <2>1. ASSUME NEW k \in Market, probation'[k] # None
        PROVE  InPlace(d, k, follows[k], probation'[k])
    <3>1. probation[k] # None /\ d.markets[k] # None
      BY <1>1, <2>1
    <3>2. CASE k # m
      <4>1. probation'[k] = probation[k]
        BY <1>1, <3>1, <3>2
      <4> QED BY <1>8, <3>1, <3>2, <4>1
    <3>3. CASE k = m
      <4>1. InPlace(a, m, follows[m], probation[m])
        BY <1>3, <3>1, <3>3 DEF ProbationHeld
      <4>2. /\ a.leader \in Path /\ follows[m] \in Path /\ HoldOf(a, m) # None
            /\ HoldOf(a, m).leader = a.leader /\ HoldOf(a, m).holder = follows[m]
            /\ follows[m] # a.leader /\ healthy(a, m, follows[m])
            /\ HoldOf(a, m).since # None
                 => healthy(a, m, a.leader) /\ probation[m].bad <= HoldOf(a, m).since
            /\ Reinstalled(a, m, a.leader) => probation[m].based
        BY <1>2, <1>7, <4>1 DEF InPlace, RevertHold
      <4>3. probation[m] \in ProbationType
        BY <1>3, <3>1, <3>3 DEF TypeOK, ProbationType
      <4>4. CASE p = a.leader /\ ok
        <5>1. HoldOf(d, m).since = HoldOf(a, m).since /\ healthy(d, m, a.leader)
              /\ healthy(d, m, follows[m])
          BY <1>6, <1>7, <4>2, <4>4
        <5>2. /\ probation'[m].based = probation[m].based
              /\ HoldOf(a, m).since # None => probation'[m].bad <= HoldOf(a, m).since
          <6>1. CASE healthy(a, m, p)
            <7>1. probation'[m] = probation[m]
              BY <1>1, <3>1, <3>3, <4>4, <6>1
            <7> QED BY <4>2, <7>1
          <6>2. CASE ~healthy(a, m, p)
            <7>1. probation'[m] = [probation[m] EXCEPT !.bad = Now]
              BY <1>1, <3>1, <3>3, <4>4, <6>2
            <7>2. probation'[m].based = probation[m].based
              BY <4>3, <7>1 DEF ProbationType
            <7> QED BY <4>2, <4>4, <6>2, <7>2
          <6> QED BY <6>1, <6>2
        <5> QED BY <1>2, <1>5, <1>6, <1>7, <3>3, <4>2, <5>1, <5>2, AuthorityConstants DEF InPlace
      <4>5. CASE p = a.leader /\ ~ok
        <5>1. probation'[m] = [bad |-> Now, based |-> FALSE]
          BY <1>1, <3>1, <3>3, <4>5
        <5>2. HoldOf(d, m).since = None /\ ~Reinstalled(d, m, a.leader) /\ healthy(d, m, follows[m])
          BY <1>6, <1>7, <4>2, <4>5
        <5> QED BY <1>2, <1>5, <1>7, <3>3, <4>2, <5>2, AuthorityConstants DEF InPlace
      <4>6. CASE p # a.leader
        <5>1. probation'[m] = probation[m] /\ ~(~ok /\ p = follows[m])
          BY <1>1, <2>1, <3>1, <3>3, <4>6
        <5>2. /\ healthy(d, m, follows[m]) /\ (healthy(d, m, a.leader) <=> healthy(a, m, a.leader))
              /\ HoldOf(d, m).since = HoldOf(a, m).since
          BY <1>6, <1>7, <4>2, <4>6, <5>1
        <5> QED BY <1>2, <1>5, <1>6, <1>7, <3>3, <4>2, <5>1, <5>2, AuthorityConstants DEF InPlace
      <4> QED BY <4>4, <4>5, <4>6
    <3> QED BY <3>2, <3>3
  <2> QED BY <1>1, <2>1 DEF ProbationHeld
<1>13. RefusedTimed'
  <2>1. ASSUME NEW k \in Market, refused'[k] # None PROVE Waits(d, k, refused'[k])
    <3>1. refused'[k] = refused[k] /\ (k = m => ~(~ok /\ p = a.leader))
      BY <1>1, <1>3, <2>1 DEF TypeOK
    <3>2. CASE k = m
      <4>1. Waits(a, m, refused[m])
        BY <1>3, <2>1, <3>1, <3>2 DEF RefusedTimed
      <4>2. healthy(d, m, a.leader)
        BY <1>2, <1>6, <3>1, <3>2, <4>1 DEF Waits
      <4> QED BY <1>5, <1>7, <3>1, <3>2, <4>1, <4>2 DEF Waits
    <3> QED BY <1>8, <2>1, <3>1, <3>2
  <2> QED BY <1>1, <2>1 DEF RefusedTimed
<1> QED BY <1>9, <1>10, <1>11, <1>12, <1>13 DEF Inv

\* A step that leaves markets, paths and stamps alone, and either the leader and the history
\* or no history at all.
LEMMA ScopeKeeps ==
  ASSUME Inv, a' \in AuthState, a'.markets = a.markets, a'.seen = a.seen,
         Range(a.ordinals) \subseteq Range(a'.ordinals), UNCHANGED <<follows, spoke>>,
         \/ a'.leader = a.leader /\ UNCHANGED <<probation, refused>>
         \/ /\ a.leader # None /\ a'.leader \in Path /\ a.seen[a'.leader] # None
            /\ probation' = [m \in Market |-> None] /\ refused' = [m \in Market |-> None]
  PROVE  Inv'
<1>1. TypeOK /\ Labelled(a) /\ HeardLast /\ FollowsAdmitted /\ HoldsPast /\ ProbationHeld
      /\ RefusedTimed
  BY DEF Inv
<1>2. TypeOK'
  BY <1>1 DEF TypeOK
<1>3. Labelled(a)' /\ HeardLast'
  <2>1. Labelled(a)'
    BY <1>1, AuthorityConstants DEF Labelled
  <2>2. HeardLast'
    BY <1>1 DEF HeardLast, LastSeen
  <2> QED BY <2>1, <2>2
<1>4. FollowsAdmitted' /\ HoldsPast'
  BY <1>1 DEF FollowsAdmitted, HoldsPast, Past, HoldOf, last_admitted
<1>5. ProbationHeld' /\ RefusedTimed'
  <2>1. CASE a'.leader = a.leader /\ UNCHANGED <<probation, refused>>
    <3>1. ProbationHeld'
      BY <1>1, <2>1 DEF ProbationHeld, InPlace, healthy, HoldOf, Reinstalled
    <3>2. RefusedTimed'
      BY <1>1, <2>1 DEF RefusedTimed, Waits, healthy, HoldOf
    <3> QED BY <3>1, <3>2
  <2>2. CASE probation' = [m \in Market |-> None] /\ refused' = [m \in Market |-> None]
    BY <2>2 DEF ProbationHeld, RefusedTimed
  <2> QED BY <2>1, <2>2
<1> QED BY <1>1, <1>2, <1>3, <1>4, <1>5 DEF Inv

\* A synthesized batch that is served changes nothing: its path was followed already.
LEMMA SynthesizedKeeps ==
  ASSUME Inv, NEW m \in Market, NEW p \in Path, Synthesized(m, p)
  PROVE  Inv' /\ UNCHANGED vars
<1>1. last_admitted(a, m) = p
  BY DEF Synthesized, admit_synthesized
<1>2. follows[m] = p /\ follows \in [Market -> Path \cup {None}]
  BY <1>1, AuthorityConstants DEF Inv, FollowsAdmitted, TypeOK
<1>3. follows' = follows
  BY <1>2 DEF Synthesized
<1>4. UNCHANGED vars
  BY <1>3 DEF Synthesized, vars
<1> QED BY <1>4 DEF vars, Inv, TypeOK, HeardLast, FollowsAdmitted, HoldsPast, ProbationHeld, RefusedTimed

\* observe_matched_lead keeps the invariant.
LEMMA LeadKeeps ==
  ASSUME Inv, NEW p \in Path, NEW lead \in Lead, MatchedLead(p, lead)
  PROVE  Inv'
<1> DEFINE r == path_ordinal(a, p)
           sn == [r.seen EXCEPT ![p] = IF @ = None THEN 0 ELSE @]
           sm == [r.samples EXCEPT ![p] = IF Len(@) < MAX_WINDOW_SAMPLES
                                            THEN Append(@, lead) ELSE @]
<1>1. a \in AuthState /\ a.seen[p] # None /\ lead \in Int
  BY ScopeOf, ClockAssumption DEF ScopeKnown, MatchedLead
<1>2. /\ r \in AuthState /\ SameScope(a, r) /\ r.markets = a.markets
      /\ Range(a.ordinals) \subseteq Range(r.ordinals)
  BY <1>1, PathLabelled
<1>3. a' = a \/ a' = r \/ a' = [r EXCEPT !.seen = sn, !.samples = sm]
  BY DEF MatchedLead, observe_matched_lead
<1> HIDE DEF r
<1>4. r.samples \in [Path -> Seq(Int)] /\ r.seen \in [Path -> Stamp] /\ r.seen = a.seen
  BY <1>2 DEF AuthState, SameScope
<1>5. sm \in [Path -> Seq(Int)]
  <2>1. r.samples[p] \in Seq(Int)
    BY <1>4
  <2>2. Append(r.samples[p], lead) \in Seq(Int)
    BY <1>1, <2>1
  <2> QED BY <1>4, <2>1, <2>2
<1>6. sn = r.seen
  BY <1>1, <1>4
<1> HIDE DEF sn, sm
<1>7. /\ a' \in AuthState /\ a'.markets = a.markets /\ a'.seen = a.seen /\ a'.leader = a.leader
      /\ Range(a.ordinals) \subseteq Range(a'.ordinals)
  <2>1. CASE a' = a \/ a' = r
    BY <1>1, <1>2, <2>1 DEF SameScope
  <2>2. CASE a' = [r EXCEPT !.seen = sn, !.samples = sm]
    <3>1. a' \in AuthState /\ a'.markets = r.markets /\ a'.seen = sn /\ a'.leader = r.leader
          /\ a'.ordinals = r.ordinals
      BY <1>2, <1>4, <1>5, <1>6, <2>2 DEF AuthState
    <3> QED BY <1>2, <1>4, <1>6, <3>1 DEF SameScope
  <2> QED BY <1>3, <2>1, <2>2
<1>8. UNCHANGED <<follows, spoke>> /\ UNCHANGED <<probation, refused>>
  BY DEF MatchedLead
<1> QED BY <1>7, <1>8, ScopeKeeps

\* close_window keeps the invariant: a new leader was tracked, and starts without a history.
LEMMA CloseKeeps ==
  ASSUME Inv, CloseWindow
  PROVE  Inv'
<1> DEFINE sm == [p \in Path |-> <<>>]
           b == [a EXCEPT !.samples = sm, !.window = Now]
<1>1. a \in AuthState /\ Now \in Nat /\ a.leader # None
  BY ScopeOf DEF ScopeKnown, CloseWindow
<1>2. sm \in [Path -> Seq(Int)]
  OBVIOUS
<1>3. \/ a' = a \/ a' = b
      \/ \E p \in best_challenger(a) : a' = transfer_scope_to(b, p, Now)
  BY DEF CloseWindow, close_window
<1>4. /\ b \in AuthState /\ b.seen = a.seen /\ b.markets = a.markets /\ b.leader = a.leader
      /\ b.ordinals = a.ordinals
  <2> HIDE DEF sm
  <2> QED BY <1>1, <1>2 DEF AuthState
<1> HIDE DEF b
<1>5. /\ a' \in AuthState /\ a'.markets = a.markets /\ a'.seen = a.seen
      /\ a'.ordinals = a.ordinals
      /\ a'.leader = a.leader \/ (a'.leader \in Path /\ a.seen[a'.leader] # None)
  <2>1. CASE a' = a \/ a' = b
    BY <1>1, <1>4, <2>1
  <2>2. CASE \E p \in best_challenger(a) : a' = transfer_scope_to(b, p, Now)
    <3>1. PICK p \in best_challenger(a) : a' = transfer_scope_to(b, p, Now)
      BY <2>2
    <3>2. p \in Path /\ a.seen[p] # None
      BY DEF best_challenger, Qualifies
    <3>3. a' = b \/ a' = [b EXCEPT !.leader = p, !.window = Now, !.samples = sm]
      BY <3>1 DEF transfer_scope_to, take_authority
    <3> HIDE DEF sm
    <3>4. CASE a' = [b EXCEPT !.leader = p, !.window = Now, !.samples = sm]
      <4>1. /\ a' \in AuthState /\ a'.markets = b.markets /\ a'.seen = b.seen
            /\ a'.ordinals = b.ordinals /\ a'.leader = p
        BY <1>1, <1>2, <1>4, <3>2, <3>4 DEF AuthState
      <4> QED BY <1>4, <3>2, <4>1
    <3> QED BY <1>4, <3>3, <3>4
  <2> QED BY <1>3, <2>1, <2>2
<1>6. UNCHANGED <<follows, spoke>>
  BY DEF CloseWindow
<1>7. \/ a'.leader = a.leader /\ UNCHANGED <<probation, refused>>
      \/ /\ a.leader # None /\ a'.leader \in Path /\ a.seen[a'.leader] # None
         /\ probation' = [m \in Market |-> None] /\ refused' = [m \in Market |-> None]
  BY <1>1, <1>5 DEF CloseWindow
<1> QED BY <1>5, <1>6, <1>7, ScopeKeeps

\* drop_market_state keeps the invariant.
LEMMA ForgetKeeps ==
  ASSUME Inv, NEW m \in Market, Forget(m)
  PROVE  Inv'
<1> DEFINE mk == [a.markets EXCEPT ![m] = None]
           d == [a EXCEPT !.markets = mk]
<1>1. TypeOK /\ Labelled(a) /\ HeardLast /\ FollowsAdmitted /\ HoldsPast /\ ProbationHeld
      /\ RefusedTimed /\ a \in AuthState
  BY DEF Inv, TypeOK
<1>2. mk \in [Market -> MarketState \cup {None}] /\ mk[m] = None
      /\ \A k \in Market \ {m} : mk[k] = a.markets[k]
  BY <1>1 DEF AuthState
<1>3. a' = d
  BY <1>1 DEF Forget, forget_market, AuthState
<1> HIDE DEF mk
<1>4. a' \in AuthState /\ a'.markets = mk /\ a'.seen = a.seen /\ a'.leader = a.leader
      /\ a'.ordinals = a.ordinals
  BY <1>1, <1>2, <1>3 DEF AuthState
<1>5. /\ probation' = [probation EXCEPT ![m] = None] /\ follows' = follows /\ spoke' = spoke
      /\ refused' = refused
  BY DEF Forget
<1>6. TypeOK'
  BY <1>1, <1>4, <1>5 DEF TypeOK
<1>7. Labelled(a)' /\ HeardLast'
  BY <1>1, <1>4, <1>5 DEF Labelled, HeardLast, LastSeen
<1>8. FollowsAdmitted' /\ HoldsPast'
  BY <1>1, <1>2, <1>4, <1>5 DEF FollowsAdmitted, HoldsPast, Past, HoldOf, last_admitted
<1>9. ProbationHeld'
  BY <1>1, <1>2, <1>4, <1>5 DEF TypeOK, ProbationHeld, InPlace, healthy, HoldOf, Reinstalled
<1>10. RefusedTimed'
  BY <1>1, <1>2, <1>4, <1>5 DEF RefusedTimed, Waits, healthy, HoldOf
<1> QED BY <1>6, <1>7, <1>8, <1>9, <1>10 DEF Inv

\* Ageing keeps what a stamp is and the order of stamps.
LEMMA OlderFacts ==
  /\ \A t \in Nat : Older(t) \in Nat /\ Older(t) <= t
  /\ Older(None) = None
  /\ \A t, u \in Nat : t <= u => Older(t) <= Older(u)
  /\ \A t \in Nat \cup {None} : Older(t) = None <=> t = None
<1>1. \A t \in Nat : t # None
  BY AuthorityConstants
<1> QED BY <1>1 DEF Older

\* Time passing keeps the invariant: every stamp ages, and none overtakes another.
LEMMA TickKeeps ==
  ASSUME Inv, Tick
  PROVE  Inv'
<1> DEFINE sn == [p \in Path |-> Older(a.seen[p])]
           mk == [m \in Market |-> AgedEntry(a.markets[m])]
           w == Older(a.window)
<1>1. TypeOK /\ Labelled(a) /\ HeardLast /\ FollowsAdmitted /\ HoldsPast /\ ProbationHeld
      /\ RefusedTimed /\ a \in AuthState /\ Now \in Nat
  BY ClockAssumption DEF Inv, TypeOK
<1>2. /\ follows' = follows /\ spoke' = [p \in Path |-> Older(spoke[p])]
      /\ probation' = [m \in Market |->
            IF probation[m] = None THEN None
            ELSE [probation[m] EXCEPT !.bad = IF healthy(a, m, a.leader) THEN Older(@) ELSE @]]
      /\ refused' = [m \in Market |-> Older(refused[m])]
  BY DEF Tick
<1>3. a.seen \in [Path -> Stamp] /\ a.markets \in [Market -> MarketState \cup {None}] /\ a.window \in Nat
  BY <1>1 DEF AuthState
<1>4. a' = [a EXCEPT !.seen = sn, !.window = w, !.markets = mk]
  BY <1>1, Zenon DEF Tick, Aged
<1>5. sn \in [Path -> Stamp] /\ \A p \in Path : sn[p] = Older(a.seen[p])
  BY <1>3, OlderFacts DEF Stamp
<1>6. w \in Nat
  BY <1>3, OlderFacts
<1>7. ASSUME NEW m \in Market
      PROVE  /\ mk[m] \in MarketState \cup {None} /\ (mk[m] = None <=> a.markets[m] = None)
             /\ mk[m] # None =>
                  /\ mk[m].unhealthy = a.markets[m].unhealthy
                  /\ mk[m].reinstalled = a.markets[m].reinstalled
                  /\ mk[m].last_admitted = a.markets[m].last_admitted
                  /\ mk[m].hold = None <=> HoldOf(a, m) = None
                  /\ mk[m].hold # None =>
                       /\ mk[m].hold.holder = HoldOf(a, m).holder
                       /\ mk[m].hold.leader = HoldOf(a, m).leader
                       /\ mk[m].hold.since = Older(HoldOf(a, m).since)
                       /\ HoldOf(a, m).since \in Nat \cup {None}
  <2>1. CASE a.markets[m] = None \/ HoldOf(a, m) = None
    <3>1. mk[m] = a.markets[m] /\ a.markets[m] \in MarketState \cup {None}
      BY <1>3, <2>1 DEF AgedEntry, HoldOf
    <3>2. mk[m] # None => mk[m].hold = None
      BY <2>1, <3>1 DEF HoldOf
    <3> HIDE DEF mk
    <3> QED BY <2>1, <3>1, <3>2
  <2>2. CASE a.markets[m] # None /\ HoldOf(a, m) # None
    <3> DEFINE o == a.markets[m]
               hd == [o.hold EXCEPT !.since = Older(@)]
    <3>1. o \in MarketState /\ o.hold = HoldOf(a, m) /\ o.hold \in RevertHold
      BY <1>3, <2>2 DEF HoldOf, MarketState
    <3>2. o.hold.since \in Nat \cup {None} /\ Older(o.hold.since) \in Nat \cup {None}
      BY <3>1, OlderFacts DEF RevertHold
    <3>3. hd \in RevertHold /\ hd.holder = o.hold.holder /\ hd.leader = o.hold.leader
          /\ hd.since = Older(o.hold.since)
      BY <3>1, <3>2 DEF RevertHold
    <3>4. mk[m] = [o EXCEPT !.hold = hd]
      BY <2>2, <3>1 DEF MarketState, AgedEntry
    <3> HIDE DEF hd, mk, o
    <3>5. /\ mk[m] \in MarketState /\ mk[m].hold = hd /\ mk[m].unhealthy = o.unhealthy
          /\ mk[m].reinstalled = o.reinstalled /\ mk[m].last_admitted = o.last_admitted
      BY <3>1, <3>3, <3>4 DEF MarketState
    <3>6. mk[m] # None /\ hd # None
      BY <3>3, <3>5, NoneAssumption
    <3> QED BY <2>2, <3>1, <3>2, <3>3, <3>5, <3>6 DEF o
  <2> QED BY <2>1, <2>2
<1>8. mk \in [Market -> MarketState \cup {None}]
  BY <1>7
<1> HIDE DEF sn, mk, w
<1>9. /\ a' \in AuthState /\ a'.seen = sn /\ a'.markets = mk /\ a'.leader = a.leader
      /\ a'.ordinals = a.ordinals
  BY <1>1, <1>4, <1>5, <1>6, <1>8 DEF AuthState
<1>10. ASSUME NEW m \in Market
       PROVE  /\ \A q : healthy(a', m, q) <=> healthy(a, m, q)
              /\ \A q : Reinstalled(a', m, q) <=> Reinstalled(a, m, q)
              /\ last_admitted(a', m) = last_admitted(a, m)
              /\ HoldOf(a', m) = None <=> HoldOf(a, m) = None
              /\ HoldOf(a, m) # None =>
                   /\ HoldOf(a', m).holder = HoldOf(a, m).holder
                   /\ HoldOf(a', m).leader = HoldOf(a, m).leader
                   /\ HoldOf(a', m).since = Older(HoldOf(a, m).since)
                   /\ HoldOf(a, m).since \in Nat \cup {None}
  BY <1>7, <1>9 DEF healthy, Reinstalled, last_admitted, HoldOf
<1>11. TypeOK'
  <2>1. \A t \in 0..Now : Older(t) \in 0..Now
    BY <1>1, OlderFacts
  <2>2. spoke' \in [Path -> 0..Now]
    BY <1>1, <1>2, <2>1 DEF TypeOK
  <2>3. refused' \in [Market -> 0..Now \cup {None}]
    BY <1>1, <1>2, <2>1, OlderFacts DEF TypeOK
  <2>4. ASSUME NEW m \in Market PROVE probation'[m] \in ProbationType \cup {None}
    <3>1. probation[m] \in ProbationType \cup {None}
      BY <1>1 DEF TypeOK, ProbationType
    <3>2. CASE probation[m] # None
      <4> DEFINE v == IF healthy(a, m, a.leader) THEN Older(probation[m].bad) ELSE probation[m].bad
      <4>1. v \in 0..Now
        BY <2>1, <3>1, <3>2 DEF ProbationType
      <4>2. probation'[m] = [probation[m] EXCEPT !.bad = v]
        BY <1>2, <3>2
      <4> HIDE DEF v
      <4> QED BY <3>1, <3>2, <4>1, <4>2 DEF ProbationType
    <3>3. CASE probation[m] = None
      BY <1>2, <3>3
    <3> QED BY <3>2, <3>3
  <2>5. probation' \in [Market -> ProbationType \cup {None}]
    BY <1>2, <2>4
  <2> QED BY <1>1, <1>2, <1>9, <2>2, <2>3, <2>5 DEF TypeOK, ProbationType
<1>12. Labelled(a)' /\ HeardLast'
  <2>1. \A p \in Path : sn[p] = None <=> a.seen[p] = None
    BY <1>3, <1>5, OlderFacts DEF Stamp
  <2>2. Labelled(a)'
    BY <1>1, <1>9, <2>1 DEF Labelled, AuthState
  <2>3. ASSUME NEW p \in Path PROVE spoke'[p] = LastSeen(a', p)
    <3>1. spoke'[p] = Older(LastSeen(a, p))
      BY <1>1, <1>2 DEF HeardLast
    <3>2. a'.seen[p] = Older(a.seen[p])
      BY <1>5, <1>9
    <3>3. CASE a.seen[p] = None
      <4>1. Older(0) = 0 /\ a'.seen[p] = None
        BY <3>2, <3>3 DEF Older
      <4> QED BY <3>1, <3>3, <4>1 DEF LastSeen
    <3>4. CASE a.seen[p] # None
      <4>1. a'.seen[p] # None
        BY <1>9, <2>1, <3>4
      <4> QED BY <3>1, <3>2, <3>4, <4>1 DEF LastSeen
    <3> QED BY <3>3, <3>4
  <2> QED BY <2>2, <2>3 DEF HeardLast
<1>13. FollowsAdmitted'
  BY <1>1, <1>2, <1>10 DEF FollowsAdmitted
<1>14. HoldsPast'
  <2>1. ASSUME NEW m \in Market, HoldOf(a', m) # None, HoldOf(a', m).since # None
        PROVE  HoldOf(a', m).since <= Now
    <3>1. /\ HoldOf(a, m) # None /\ HoldOf(a', m).since = Older(HoldOf(a, m).since)
          /\ HoldOf(a, m).since \in Nat \cup {None}
      BY <1>10, <2>1
    <3>2. HoldOf(a, m).since \in Nat
      BY <2>1, <3>1, OlderFacts
    <3>3. HoldOf(a, m).since <= Now
      BY <1>1, <3>1, <3>2, AuthorityConstants DEF HoldsPast, Past
    <3> QED BY <1>1, <3>1, <3>2, <3>3, OlderFacts
  <2> QED BY <2>1 DEF HoldsPast, Past
<1>15. ProbationHeld'
  <2>1. ASSUME NEW m \in Market, probation'[m] # None
        PROVE  InPlace(a', m, follows[m], probation'[m])
    <3>1. probation[m] # None /\ probation[m] \in ProbationType
      BY <1>1, <1>2, <2>1 DEF TypeOK, ProbationType
    <3>2. InPlace(a, m, follows[m], probation[m])
      BY <1>1, <3>1 DEF ProbationHeld
    <3> DEFINE v == IF healthy(a, m, a.leader) THEN Older(probation[m].bad) ELSE probation[m].bad
    <3>3. probation'[m] = [probation[m] EXCEPT !.bad = v]
      BY <1>2, <3>1
    <3>4. probation'[m].bad = v /\ probation'[m].based = probation[m].based
      BY <3>1, <3>3 DEF ProbationType
    <3>5. HoldOf(a, m) # None
      BY <3>2 DEF InPlace
    <3>6. ASSUME HoldOf(a', m).since # None
          PROVE  healthy(a, m, a.leader) /\ v <= HoldOf(a', m).since
      <4>1. HoldOf(a', m).since = Older(HoldOf(a, m).since) /\ HoldOf(a, m).since \in Nat \cup {None}
        BY <1>10, <3>5
      <4>2. HoldOf(a, m).since \in Nat /\ HoldOf(a, m).since # None
        BY <3>6, <4>1, OlderFacts
      <4>3. healthy(a, m, a.leader) /\ probation[m].bad <= HoldOf(a, m).since
        BY <3>2, <4>2 DEF InPlace
      <4>4. probation[m].bad \in Nat
        BY <1>1, <3>1 DEF ProbationType
      <4> QED BY <4>1, <4>2, <4>3, <4>4, OlderFacts
    <3> HIDE DEF v
    <3> QED BY <1>9, <1>10, <3>2, <3>4, <3>5, <3>6 DEF InPlace
  <2> QED BY <1>2, <2>1 DEF ProbationHeld
<1>16. RefusedTimed'
  <2>1. ASSUME NEW m \in Market, refused'[m] # None PROVE Waits(a', m, refused'[m])
    <3>1. refused'[m] = Older(refused[m]) /\ refused[m] \in 0..Now \cup {None}
      BY <1>1, <1>2 DEF TypeOK
    <3>2. refused[m] # None /\ refused[m] \in Nat
      BY <1>1, <2>1, <3>1, OlderFacts
    <3>3. Waits(a, m, refused[m])
      BY <1>1, <3>2 DEF RefusedTimed
    <3>4. ASSUME HoldOf(a', m) # None, HoldOf(a', m).leader = a'.leader
          PROVE  HoldOf(a', m).since # None /\ HoldOf(a', m).since <= refused'[m]
      <4>1. /\ HoldOf(a, m) # None /\ HoldOf(a, m).leader = a.leader
            /\ HoldOf(a', m).since = Older(HoldOf(a, m).since)
            /\ HoldOf(a, m).since \in Nat \cup {None}
        BY <1>9, <1>10, <3>4
      <4>2. HoldOf(a, m).since # None /\ HoldOf(a, m).since <= refused[m]
        BY <3>3, <4>1 DEF Waits
      <4>3. HoldOf(a, m).since \in Nat
        BY <4>1, <4>2
      <4> QED BY <3>1, <3>2, <4>1, <4>2, <4>3, OlderFacts
    <3> QED BY <1>9, <1>10, <3>3, <3>4 DEF Waits
  <2> QED BY <2>1 DEF RefusedTimed
<1> QED BY <1>11, <1>12, <1>13, <1>14, <1>15, <1>16 DEF Inv

\* The scope starts with no path, no market and no history.
LEMMA InvStarts == Init => Inv
<1> SUFFICES ASSUME Init PROVE Inv
  OBVIOUS
<1>0. Now \in Nat
  BY ClockAssumption
<1>1. /\ a.leader = None /\ a.seen = [p \in Path |-> None] /\ a.markets = [m \in Market |-> None]
      /\ a \in AuthState
  <2> DEFINE sn == [p \in Path |-> None]
             sm == [p \in Path |-> <<>>]
             mk == [m \in Market |-> None]
  <2>1. sn \in [Path -> Stamp] /\ sm \in [Path -> Seq(Int)] /\ mk \in [Market -> MarketState \cup {None}]
    BY DEF Stamp
  <2>2. a = [leader |-> None, seen |-> sn, samples |-> sm, window |-> 0, ordinals |-> <<>>,
             markets |-> mk, order |-> <<>>]
    BY DEF Init, NewAuthority
  <2> HIDE DEF sn, sm, mk
  <2>3. a \in AuthState /\ a.leader = None /\ a.seen = sn /\ a.markets = mk
    BY <2>1, <2>2 DEF AuthState
  <2> QED BY <2>3 DEF sn, mk
<1>2. TypeOK
  BY <1>0, <1>1 DEF Init, TypeOK
<1>3. Labelled(a) /\ HeardLast
  BY <1>1 DEF Init, Labelled, HeardLast, LastSeen
<1>4. FollowsAdmitted /\ HoldsPast
  BY <1>1 DEF Init, FollowsAdmitted, HoldsPast, Past, HoldOf, last_admitted
<1>5. ProbationHeld /\ RefusedTimed
  BY DEF Init, ProbationHeld, RefusedTimed
<1> QED BY <1>2, <1>3, <1>4, <1>5 DEF Inv

\* Every step of the scope keeps the invariant.
LEMMA InvKept == Inv /\ [Next]_vars => Inv'
<1> SUFFICES ASSUME Inv, [Next]_vars PROVE Inv'
  OBVIOUS
<1>1. ASSUME NEW m \in Market, NEW p \in Path, NEW clear \in Clears, NEW incomplete \in BOOLEAN,
             Batch(m, p, clear, incomplete)
      PROVE  Inv'
  <2>1. clear \in BOOLEAN
    BY ClockAssumption
  <2> QED BY <1>1, <2>1, BatchKeeps
<1>2. ASSUME NEW m \in Market, NEW p \in Path, Synthesized(m, p) PROVE Inv'
  BY <1>2, SynthesizedKeeps
<1>3. ASSUME NEW m \in Market, NEW p \in Path, NEW ok \in BOOLEAN, Report(m, p, ok) PROVE Inv'
  BY <1>3, ReportKeeps
<1>4. ASSUME NEW p \in Path, NEW lead \in Lead, MatchedLead(p, lead) PROVE Inv'
  BY <1>4, LeadKeeps
<1>5. CASE CloseWindow
  BY <1>5, CloseKeeps
<1>6. ASSUME NEW m \in Market, Forget(m) PROVE Inv'
  BY <1>6, ForgetKeeps
<1>7. CASE Tick
  BY <1>7, TickKeeps
<1>8. CASE UNCHANGED vars
  BY <1>8 DEF vars, Inv, TypeOK, HeardLast, FollowsAdmitted, HoldsPast, ProbationHeld, RefusedTimed
<1> QED BY <1>1, <1>2, <1>3, <1>4, <1>5, <1>6, <1>7, <1>8, Zenon DEF Next

-----------------------------------------------------------------------------
(* What the authority of a scope promises, of every reachable state.        *)

\* The sticky authority stays within the inductive invariant.
THEOREM AuthoritySafe == Spec => []Inv
<1> QED BY InvStarts, InvKept, PTL DEF Spec

\* admit, admit_synthesized, market_mut, forget_market: a batch of a path the consumer does not
\* follow is never decided "emitted", and a synthesized batch never changes the path.
THEOREM SwitchAnnounced == Spec => []SwitchIsAnnounced
<1> QED BY AuthoritySafe, SwitchFromInv, PTL

\* serving, refresh_hold: a path in doubt serves only when no tracked path is healthy there.
THEOREM HealthyServed == Spec => []ServesHealthy
<1> QED BY AuthoritySafe, HealthyFromInv, PTL

\* admit, refresh_hold, serving: a healthy path is refused only for a healthy one that was
\* heard from within leader_timeout_ns.
THEOREM NoMarketDeaf == Spec => []NeverDeaf
<1> QED BY AuthoritySafe, DeafFromInv, PTL

\* heard: a batch moves the leader only after a silence longer than leader_timeout_ns.
THEOREM LeaderLostBySilence == Spec => []SilenceOnly
<1> QED BY AuthoritySafe, SilenceFromInv, PTL

\* set_health, refresh_hold, note_rebaseline_point: a leader takes a market back from the path
\* in its place only after its probation.
THEOREM RevertIsHeld == Spec => []HeldRevert
<1> QED BY AuthoritySafe, RevertFromInv, PTL

\* refresh_hold: a healthy leader is refused its market for no longer than the deadline.
THEOREM ExileIsBounded == Spec => []BoundedExile
<1> QED BY AuthoritySafe, ExileFromInv, PTL
=============================================================================
