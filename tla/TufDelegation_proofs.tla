------------------------- MODULE TufDelegation_proofs -------------------------
(***************************************************************************)
(* What the search of TufDelegation keeps for every repository: the bound   *)
(* on visits, that whatever is loaded was verified when it was loaded, and  *)
(* that what is visited is delegated.  The last is not inductive: what the   *)
(* work list holds must be delegated by a role that was visited (Sound), so  *)
(* the children that a visit collects from a list of delegations must be.    *)
(* That the search follows the recursive one of PreorderSearch rests on what *)
(* the work list means: the walk that leads along its entries ends where the *)
(* reference does.  A visit replaces an entry by the children of its role,   *)
(* and the walk along those is what the recursion makes of the role.         *)
(***************************************************************************)
EXTENDS PreorderSearch, FiniteSetTheorems, WellFoundedInduction, TLAPS

VisitedRoles == {r \in TargetsRole : Visited(r)}

\* steps counts every visit and more, and never passes the bound.
VisitsCounted ==
  /\ via \in [TargetsRole -> TargetsRole \cup {"root", NoRole}]
  /\ steps \in 0 .. MaxDelegations
  /\ IsFiniteSet(VisitedRoles)
  /\ Cardinality(VisitedRoles) <= steps

LEMMA NothingVisitedIsEmpty == {r \in TargetsRole : NothingVisited[r] # NoRole} = {}
BY DEF NothingVisited

LEMMA VisitKeepsCount ==
  ASSUME VisitsCounted, NEW role \in TargetsRole, NEW delegator \in TargetsRole \cup {"root"},
         Visit(role, delegator)
  PROVE  VisitsCounted'
<1>1. /\ via' = [via EXCEPT ![role] = delegator]
      /\ steps' = steps + 1 /\ steps < MaxDelegations
      /\ via[role] = NoRole
  BY DEF Visit, Reaches, WithinBound, Visited
<1>2. delegator # NoRole
  BY RepositoryAssumption DEF TargetsRole, TopLevel
<1>3. VisitedRoles' = VisitedRoles \cup {role}
  BY <1>1, <1>2 DEF VisitsCounted, VisitedRoles, Visited
<1>4. role \notin VisitedRoles
  BY <1>1 DEF VisitedRoles, Visited
<1>5. /\ IsFiniteSet(VisitedRoles')
      /\ Cardinality(VisitedRoles') = Cardinality(VisitedRoles) + 1
  BY <1>3, <1>4, FS_AddElement DEF VisitsCounted
<1>6. /\ via' \in [TargetsRole -> TargetsRole \cup {"root", NoRole}]
      /\ steps' \in 0 .. MaxDelegations
  BY <1>1, RepositoryAssumption DEF VisitsCounted
<1>7. Cardinality(VisitedRoles) \in Nat
  BY FS_CardinalityType DEF VisitsCounted
<1> QED BY <1>1, <1>5, <1>6, <1>7 DEF VisitsCounted

LEMMA StepKeepsCount ==
  ASSUME VisitsCounted, [Next]_vars
  PROVE  VisitsCounted'
<1>1. CASE UNCHANGED vars \/ Unload \/ SkipVisited \/ StopAtBound \/ Exhausted
  <2>1. UNCHANGED <<via, steps>>
    BY <1>1 DEF vars, Unload, SkipVisited, StopAtBound, Exhausted
  <2> QED BY <2>1 DEF VisitsCounted, VisitedRoles, Visited
<1>2. ASSUME NEW p \in Path, GetTargetInfo(p)
      PROVE  VisitsCounted'
  <2>1. via' = NothingVisited /\ steps' = 0
    BY <1>2 DEF GetTargetInfo
  <2>2. VisitedRoles' = {}
    BY <2>1, NothingVisitedIsEmpty DEF VisitedRoles, Visited
  <2>3. via' \in [TargetsRole -> TargetsRole \cup {"root", NoRole}]
    BY <2>1 DEF NothingVisited
  <2> QED BY <2>1, <2>2, <2>3, FS_EmptySet, RepositoryAssumption DEF VisitsCounted
<1>3. ASSUME NEW role \in TargetsRole, NEW delegator \in TargetsRole \cup {"root"},
             SkipUnpinned(role, delegator) \/ FailToLoad(role, delegator)
      PROVE  VisitsCounted'
  <2>1. via' = via /\ steps' = steps + 1 /\ steps < MaxDelegations
    BY <1>3 DEF SkipUnpinned, FailToLoad, WithinBound
  <2>2. VisitedRoles' = VisitedRoles
    BY <2>1 DEF VisitedRoles, Visited
  <2>3. Cardinality(VisitedRoles) \in Nat
    BY FS_CardinalityType DEF VisitsCounted
  <2> QED BY <2>1, <2>2, <2>3, RepositoryAssumption DEF VisitsCounted
<1>4. ASSUME NEW role \in TargetsRole, NEW delegator \in TargetsRole \cup {"root"},
             Visit(role, delegator)
      PROVE  VisitsCounted'
  BY <1>4, VisitKeepsCount
<1> QED BY <1>1, <1>2, <1>3, <1>4 DEF Next, Iterate

LEMMA CountAtFirst == Init => VisitsCounted
<1> SUFFICES ASSUME Init PROVE VisitsCounted
  OBVIOUS
<1>1. via = NothingVisited /\ steps = 0
  BY DEF Init
<1>2. VisitedRoles = {}
  BY <1>1, NothingVisitedIsEmpty DEF VisitedRoles, Visited
<1>3. via \in [TargetsRole -> TargetsRole \cup {"root", NoRole}]
  BY <1>1 DEF NothingVisited
<1> QED BY <1>1, <1>2, <1>3, FS_EmptySet, RepositoryAssumption DEF VisitsCounted

\* A search visits at most max_delegations roles, for every graph and every
\* bound (client.rs get_targetinfo, "steps").
THEOREM VisitsBoundedHolds == Spec => []VisitsBounded
<1>1. Init => VisitsCounted
  BY CountAtFirst
<1>2. VisitsCounted /\ [Next]_vars => VisitsCounted'
  BY StepKeepsCount
<1>3. VisitsCounted => VisitsBounded
  <2> SUFFICES ASSUME VisitsCounted PROVE VisitsBounded
    OBVIOUS
  <2>1. Cardinality(VisitedRoles) \in Nat
    BY FS_CardinalityType DEF VisitsCounted
  <2> QED BY <2>1, RepositoryAssumption DEF VisitsCounted, VisitsBounded, VisitedRoles
<1> QED BY <1>1, <1>2, <1>3, PTL DEF Spec

-----------------------------------------------------------------------------
\* A loaded role is pinned, and the file in use was accepted under the delegator
\* through which it was loaded, whichever search did so.
LoadedWasVerified ==
  /\ loaded \in [Role -> TargetsRole \cup {"root", NoRole}]
  /\ \A r \in Role : loaded[r] # NoRole =>
        r \in repo.pinned /\ <<r, loaded[r]>> \in repo.accepts

\* Later searches may use a role under another delegator (VouchedByDelegator
\* fails), but never one that nobody vouched for (client.rs get_targetinfo).
THEOREM LoadedWasVerifiedHolds == Spec => []LoadedWasVerified
<1>1. Init => LoadedWasVerified
  BY DEF Init, NothingLoaded, LoadedWasVerified
<1>2. LoadedWasVerified /\ [Next]_vars => LoadedWasVerified'
  <2> SUFFICES ASSUME LoadedWasVerified, [Next]_vars
               PROVE  LoadedWasVerified'
    OBVIOUS
  <2>1. CASE UNCHANGED vars \/ SkipVisited \/ StopAtBound \/ Exhausted
    <3>1. UNCHANGED <<repo, loaded>>
      BY <2>1 DEF vars, SkipVisited, StopAtBound, Exhausted
    <3> QED BY <3>1 DEF LoadedWasVerified
  <2>2. CASE Unload
    BY <2>2 DEF Unload, NothingLoaded, LoadedWasVerified
  <2>3. ASSUME NEW p \in Path, GetTargetInfo(p)
        PROVE  LoadedWasVerified'
    BY <2>3 DEF GetTargetInfo, LoadedWasVerified
  <2>4. ASSUME NEW role \in TargetsRole, NEW delegator \in TargetsRole \cup {"root"},
               SkipUnpinned(role, delegator) \/ FailToLoad(role, delegator)
        PROVE  LoadedWasVerified'
    BY <2>4 DEF SkipUnpinned, FailToLoad, LoadedWasVerified
  <2>5. ASSUME NEW role \in TargetsRole, NEW delegator \in TargetsRole \cup {"root"},
               Visit(role, delegator)
        PROVE  LoadedWasVerified'
    <3>1. repo' = repo
      BY <2>5 DEF Visit
    <3>2. CASE Loaded(role)
      BY <2>5, <3>1, <3>2 DEF Visit, LoadedWasVerified
    <3>3. CASE ~Loaded(role)
      <4>1. loaded' = [loaded EXCEPT ![role] = delegator]
        BY <2>5, <3>3 DEF Visit
      <4>2. role \in repo.pinned /\ <<role, delegator>> \in repo.accepts
        BY <2>5, <3>3 DEF Visit, Loadable
      <4>3. role \in Role
        BY <3>3 DEF Loaded, TargetsRole
      <4> QED BY <3>1, <4>1, <4>2, <4>3 DEF LoadedWasVerified
    <3> QED BY <3>2, <3>3
  <2> QED BY <2>1, <2>2, <2>3, <2>4, <2>5 DEF Next, Iterate
<1> QED BY <1>1, <1>2, PTL DEF Spec

-----------------------------------------------------------------------------
(* The work list.                                                          *)

\* The least of several places.
LEMMA LeastPlace ==
  ASSUME NEW Places, Places \subseteq Nat, Places # {}
  PROVE  \E n \in Places : \A m \in Places : n <= m
<1> DEFINE Less == OpToRel(<, Nat)
<1>1. IsWellFoundedOn(Less, Nat)
  BY NatLessThanWellFounded
<1>2. PICK n \in Places : \A m \in Places : ~ (<<m, n>> \in Less)
  <2> HIDE DEF Less
  <2> QED
    BY <1>1, WFMin
<1>3. \A m \in Places : n <= m
  <2> TAKE m \in Places
  <2>1. ~ (<<m, n>> \in Less)
    BY <1>2
  <2>2. ~ (m < n)
    BY <2>1 DEF OpToRel
  <2> QED
    BY <2>2
<1> QED
  BY <1>3

\* The children are collected along the list of delegations.
LEMMA ChildrenAmongThem ==
  ASSUME NEW role, Len(repo.delegations[role]) \in Nat
  PROVE  \A n \in 0 .. Len(repo.delegations[role]) :
           ChildrenAmong(role)[n] =
             IF n = 0 THEN <<>>
             ELSE IF n \in Matching(role) THEN Append(ChildrenAmong(role)[n - 1], Child(role, n))
             ELSE ChildrenAmong(role)[n - 1]
<1> DEFINE last == Len(repo.delegations[role])
           Then(f, n) == IF n = 0 THEN <<>>
                         ELSE IF n \in Matching(role) THEN Append(f[n - 1], Child(role, n))
                         ELSE f[n - 1]
           Exists(n) == \E f : f = [m \in 0 .. n |-> Then(f, m)]
           among == ChildrenAmong(role)
<1>1. \A n \in Nat : Exists(n)
  <2> DEFINE Without == {n \in Nat : ~Exists(n)}
  <2>1. SUFFICES ASSUME Without # {}
                 PROVE  FALSE
    BY <2>1
  <2>2. PICK n \in Without : \A m \in Without : n <= m
    <3> HIDE DEF Without
    <3>1. Without \subseteq Nat
      BY DEF Without
    <3> QED
      BY <2>1, <3>1, LeastPlace
  <2>3. n # 0
    <3> DEFINE f == [m \in 0 .. 0 |-> <<>>]
    <3>1. f = [m \in 0 .. 0 |-> Then(f, m)]
      OBVIOUS
    <3> QED
      BY <2>2, <3>1
  <2>4. PICK g : g = [m \in 0 .. n - 1 |-> Then(g, m)]
    <3> HIDE DEF Exists
    <3>1. n - 1 \in Nat /\ n - 1 \notin Without
      BY <2>2, <2>3
    <3>2. Exists(n - 1)
      BY <3>1
    <3> QED
      BY <3>2 DEF Exists
  <2>7. n \in Nat \ {0} /\ \A m \in 0 .. n - 1 : g[m] = Then(g, m)
    <3> HIDE DEF Then
    <3> QED
      BY <2>2, <2>3, <2>4
  <2> DEFINE at(m) == IF m = n THEN Then(g, n) ELSE g[m]
             f == [m \in 0 .. n |-> at(m)]
  <2>5. \A m \in 0 .. n : f[m] = Then(f, m)
    <3> TAKE m \in 0 .. n
    <3>1. CASE m = n
      BY <2>3, <3>1
    <3>2. CASE m # n
      <4>1. m \in 0 .. n - 1 /\ f[m] = g[m] /\ g[m] = Then(g, m)
        BY <2>7, <3>2
      <4>2. m # 0 => m - 1 \in 0 .. n /\ m - 1 # n
        BY <4>1
      <4>3. m # 0 => f[m - 1] = g[m - 1]
        BY <4>2
      <4> QED
        BY <4>1, <4>3
    <3> QED
      BY <3>1, <3>2
  <2>6. f = [m \in 0 .. n |-> Then(f, m)]
    <3> HIDE DEF Then, at
    <3>1. f = [m \in 0 .. n |-> f[m]]
      OBVIOUS
    <3> HIDE DEF f
    <3> QED
      BY ONLY <2>5, <3>1
  <2> QED
    BY <2>2, <2>6
<1>2. among = [n \in 0 .. last |-> Then(among, n)]
  <2>1. PICK f : f = [n \in 0 .. last |-> Then(f, n)]
    BY <1>1
  <2> QED
    BY ONLY <2>1 DEF ChildrenAmong
<1> HIDE DEF among
<1>3. \A n \in 0 .. last : among[n] = Then(among, n)
  <2> HIDE DEF Then
  <2> QED
    BY <1>2
<1> QED
  BY <1>3 DEF among

ChildrenOf(role) == {Child(role, i) : i \in Matching(role)}

\* The children that a role adds to the work list are its matching delegations.
LEMMA ChildrenAreMatching ==
  ASSUME NEW role, Len(repo.delegations[role]) \in Nat
  PROVE  Children(role) \in Seq(ChildrenOf(role))
<1> DEFINE last == Len(repo.delegations[role])
           Then(f, n) == IF n = 0 THEN <<>>
                         ELSE IF n \in Matching(role) THEN Append(f[n - 1], Child(role, n))
                         ELSE f[n - 1]
           among == ChildrenAmong(role)
<1>2. \A n \in 0 .. last : among[n] = Then(among, n)
  BY ChildrenAmongThem
<1>3. Children(role) = among[last]
  BY DEF Children
<1> HIDE DEF among
<1>4. \A n \in 0 .. last : among[n] \in Seq(ChildrenOf(role))
  <2> DEFINE Without == {n \in 0 .. last : among[n] \notin Seq(ChildrenOf(role))}
  <2>1. SUFFICES ASSUME Without # {}
                 PROVE  FALSE
    BY <2>1
  <2>2. PICK n \in Without : \A m \in Without : n <= m
    <3> HIDE DEF Without
    <3>1. Without \subseteq Nat
      BY DEF Without
    <3> QED
      BY <2>1, <3>1, LeastPlace
  <2>3. n \in Nat /\ n <= last /\ among[n] \notin Seq(ChildrenOf(role))
    BY <2>2
  <2>4. among[n] = Then(among, n)
    <3> HIDE DEF Then
    <3> QED
      BY <1>2, <2>3
  <2>5. n # 0
    BY <2>3, <2>4
  <2>6. n - 1 \in 0 .. last /\ n - 1 \notin Without
    <3> HIDE DEF Without
    <3> QED
      BY <2>2, <2>3, <2>5
  <2>7. among[n - 1] \in Seq(ChildrenOf(role))
    BY <2>6
  <2>8. n \in Matching(role) => Child(role, n) \in ChildrenOf(role)
    BY DEF ChildrenOf
  <2>9. \/ among[n] = among[n - 1]
        \/ n \in Matching(role) /\ among[n] = Append(among[n - 1], Child(role, n))
    BY <2>4, <2>5
  <2> HIDE DEF Without, Then
  <2>10. ASSUME n \in Matching(role)
         PROVE  Append(among[n - 1], Child(role, n)) \in Seq(ChildrenOf(role))
    BY ONLY <2>7, <2>8, <2>10
  <2> QED
    BY ONLY <2>3, <2>7, <2>9, <2>10
<1> QED
  BY <1>3, <1>4

\* What the work list may hold: where a search starts, and what a role that was
\* visited delegates for the path.
Sound ==
  {e \in Entry : e = Start[1] \/ (Visited(e.delegator) /\ Delegates(e.delegator, e.role))}

SearchInv ==
  /\ repo \in Repository
  /\ path \in Path
  /\ queue \in Seq(Sound)
  /\ via \in [TargetsRole -> TargetsRole \cup {"root", NoRole}]
  /\ steps \in Nat
  /\ loaded \in [Role -> TargetsRole \cup {NoRole}]
  /\ before \in [Role -> TargetsRole \cup {NoRole}]
  /\ result \in Outcome \cup TargetsRole
  /\ VisitedIsDelegated

\* A role that was visited delegates to its children, none of which is top-level.
LEMMA ChildrenAreSound ==
  ASSUME repo \in Repository, NEW role \in TargetsRole, NEW e \in ChildrenOf(role)
  PROVE  e \in [role : Role, delegator : {role}] /\ Delegates(role, e.role)
<1>1. PICK i \in Matching(role) : e = Child(role, i)
  BY DEF ChildrenOf
<1> DEFINE ds == repo.delegations[role]
<1>2. i \in DOMAIN ds /\ ds[i].name \notin TopLevel /\ ds[i].matches[path] = "yes"
  BY <1>1 DEF Matching, Considered, Eligible, Answer
<1>3. ds \in Seq(Delegation)
  BY RepositoryAssumption
<1>4. ds[i] \in Delegation
  <2> HIDE DEF ds
  <2> QED
    BY <1>2, <1>3
<1>5. ds[i].name \in Role
  BY <1>2, <1>4 DEF Delegation
<1> QED
  BY <1>1, <1>2, <1>5 DEF Child, Delegates

\* What was sound stays so while the search is for one path and visits more.
LEMMA SoundStays ==
  ASSUME UNCHANGED <<repo, path>>,
         \A r \in TargetsRole : Visited(r) => Visited(r)'
  PROVE  Sound \subseteq Sound'
<1> SUFFICES ASSUME NEW e \in Sound
             PROVE  e \in Sound'
  OBVIOUS
<1>1. CASE e = Start[1]
  BY <1>1 DEF Sound, Entry
<1>2. CASE e # Start[1]
  <2>1. e \in [role : Role, delegator : TargetsRole]
    BY <1>2 DEF Sound, Entry
  <2>2. Visited(e.delegator)' /\ Delegates(e.delegator, e.role)'
    BY <1>2, <2>1 DEF Sound, Delegates
  <2> QED
    BY <2>1, <2>2 DEF Sound, Entry
<1> QED
  BY <1>1, <1>2

\* The work list after a visit.
LEMMA VisitKeepsSound ==
  ASSUME SearchInv, NEW role \in TargetsRole, NEW delegator \in TargetsRole \cup {"root"},
         Visit(role, delegator)
  PROVE  queue' \in Seq(Sound')
<1>1. /\ queue # <<>>
      /\ UNCHANGED <<repo, path>>
      /\ via' = [via EXCEPT ![role] = delegator]
  BY DEF Visit, Reaches
<1>2. delegator # NoRole
  BY RepositoryAssumption DEF TargetsRole, TopLevel
<1>3. Visited(role)' /\ \A r \in TargetsRole : Visited(r) => Visited(r)'
  BY <1>1, <1>2 DEF SearchInv, Visited
<1>4. Sound \subseteq Sound'
  BY <1>1, <1>3, SoundStays
<1>5. queue \in Seq(Sound') /\ Tail(queue) \in Seq(Sound')
  <2>1. queue \in Seq(Sound')
    BY <1>4 DEF SearchInv
  <2> QED
    BY <1>1, <2>1
<1>6. Children(role) \in Seq(Sound')
  <2>1. repo.delegations[role] \in Seq(Delegation)
    BY RepositoryAssumption DEF SearchInv
  <2>2. Children(role) \in Seq(ChildrenOf(role))
    BY <2>1, ChildrenAreMatching
  <2>3. ChildrenOf(role) \subseteq Sound'
    <3> SUFFICES ASSUME NEW e \in ChildrenOf(role)
                 PROVE  e \in Sound'
      OBVIOUS
    <3>1. e \in [role : Role, delegator : {role}] /\ Delegates(role, e.role)
      BY ChildrenAreSound DEF SearchInv
    <3>2. Delegates(role, e.role)'
      BY <1>1, <3>1 DEF Delegates
    <3> QED
      BY <1>3, <3>1, <3>2 DEF Sound, Entry
  <2> QED
    BY <2>2, <2>3
<1>7. ChildrenFirst(role) \in Seq(Sound')
  <2>1. <<>> \in Seq(Sound')
    OBVIOUS
  <2>2. \A s, t \in Seq(Sound') : s \o t \in Seq(Sound')
    OBVIOUS
  <2> QED
    BY <1>5, <1>6, <2>1, <2>2 DEF ChildrenFirst
<1> QED
  BY <1>5, <1>7 DEF Visit

LEMMA VisitKeepsSearchInv ==
  ASSUME SearchInv, NEW role \in TargetsRole, NEW delegator \in TargetsRole \cup {"root"},
         Visit(role, delegator)
  PROVE  SearchInv'
<1>1. /\ queue # <<>>
      /\ Head(queue) = [role |-> role, delegator |-> delegator]
      /\ UNCHANGED <<repo, path, before>>
      /\ via' = [via EXCEPT ![role] = delegator]
      /\ steps' = steps + 1
      /\ result' \in {role, "error", result}
      /\ loaded' = IF Loaded(role) THEN loaded ELSE [loaded EXCEPT ![role] = delegator]
  BY DEF Visit, Reaches, Front
<1>2. Head(queue) \in Sound
  BY <1>1 DEF SearchInv
<1>3. role \in Role =>
        delegator \in TargetsRole /\ Visited(delegator) /\ Delegates(delegator, role)
  <2> SUFFICES ASSUME role \in Role
               PROVE  delegator \in TargetsRole /\ Visited(delegator) /\ Delegates(delegator, role)
    OBVIOUS
  <2>1. role # "targets"
    BY RepositoryAssumption DEF TopLevel
  <2>2. Head(queue) # Start[1]
    BY <1>1, <2>1 DEF Start
  <2> QED
    BY <1>1, <1>2, <2>2 DEF Sound, Entry
<1>4. delegator # NoRole
  BY RepositoryAssumption DEF TargetsRole, TopLevel
<1>5. loaded' \in [Role -> TargetsRole \cup {NoRole}]
  <2>1. ~Loaded(role) => role \in Role
    BY DEF Loaded, TargetsRole
  <2> QED
    BY <1>1, <1>3, <2>1 DEF SearchInv
<1>6. VisitedIsDelegated'
  <2> SUFFICES ASSUME NEW r \in Role, Visited(r)'
               PROVE  Visited(via[r])' /\ Delegates(via[r], r)'
    BY DEF VisitedIsDelegated
  <2>1. r \in TargetsRole
    BY DEF TargetsRole
  <2>2. CASE r = role
    <3>1. via'[r] = delegator /\ delegator \in TargetsRole
      BY <1>1, <1>3, <2>1, <2>2 DEF SearchInv
    <3>2. Visited(delegator)'
      BY <1>1, <1>3, <1>4, <2>2, <3>1 DEF SearchInv, Visited
    <3>3. Delegates(delegator, r)'
      BY <1>1, <1>3, <2>2 DEF Delegates
    <3> QED
      BY <3>1, <3>2, <3>3 DEF Visited, Delegates
  <2>3. CASE r # role
    <3>1. via'[r] = via[r] /\ Visited(r)
      BY <1>1, <2>1, <2>3 DEF SearchInv, Visited
    <3>2. Visited(via[r]) /\ Delegates(via[r], r)
      BY <3>1 DEF SearchInv, VisitedIsDelegated
    <3>3. via'[via[r]] # NoRole
      BY <1>1, <1>4, <3>2 DEF SearchInv, Visited
    <3> QED
      BY <1>1, <3>1, <3>2, <3>3 DEF Visited, Delegates
  <2> QED
    BY <2>2, <2>3
<1>7. via' \in [TargetsRole -> TargetsRole \cup {"root", NoRole}]
  BY <1>1 DEF SearchInv
<1>8. queue' \in Seq(Sound')
  BY VisitKeepsSound
<1>9. result' \in Outcome \cup TargetsRole
  BY <1>1 DEF SearchInv, Outcome
<1> QED
  BY <1>1, <1>5, <1>6, <1>7, <1>8, <1>9 DEF SearchInv

\* Whatever does not visit a role leaves what was visited, and takes from the
\* work list at most.
LEMMA WorkListShrinks ==
  ASSUME SearchInv, UNCHANGED <<repo, path, via, loaded, before>>,
         queue' = queue \/ (queue # <<>> /\ queue' = Tail(queue)),
         steps' \in {steps, steps + 1},
         result' \in {result, "none", "error"}
  PROVE  SearchInv'
<1>1. Sound' = Sound
  BY DEF Sound, Visited, Delegates
<1>2. queue' \in Seq(Sound)
  <2>1. queue \in Seq(Sound)
    BY DEF SearchInv
  <2>2. queue # <<>> => Tail(queue) \in Seq(Sound)
    BY <2>1
  <2> QED
    BY <2>1, <2>2
<1>3. VisitedIsDelegated'
  BY DEF SearchInv, VisitedIsDelegated, Visited, Delegates
<1> QED
  BY <1>1, <1>2, <1>3 DEF SearchInv, Outcome

LEMMA SearchInvStep ==
  ASSUME SearchInv, [Next]_vars
  PROVE  SearchInv'
<1>1. CASE UNCHANGED vars \/ StopAtBound \/ Exhausted
  BY <1>1, WorkListShrinks DEF vars, StopAtBound, Exhausted
<1>2. CASE SkipVisited
  BY <1>2, WorkListShrinks DEF SkipVisited
<1>3. CASE Unload
  <2>1. Sound' = Sound
    BY <1>3 DEF Unload, Sound, Visited, Delegates
  <2>2. VisitedIsDelegated'
    BY <1>3 DEF Unload, SearchInv, VisitedIsDelegated, Visited, Delegates
  <2> QED
    BY <1>3, <2>1, <2>2 DEF Unload, SearchInv, NothingLoaded
<1>4. ASSUME NEW p \in Path, GetTargetInfo(p)
      PROVE  SearchInv'
  <2>1. queue' = <<Start[1]>> /\ via' = NothingVisited
    BY <1>4 DEF GetTargetInfo, Start
  <2>2. Start[1] \in Sound'
    BY DEF Sound, Entry
  <2>3. queue' \in Seq(Sound')
    <3> HIDE DEF Start
    <3> QED
      BY <2>1, <2>2
  <2>4. VisitedIsDelegated'
    BY <2>1 DEF VisitedIsDelegated, Visited, NothingVisited, TargetsRole
  <2> QED
    BY <1>4, <2>1, <2>3, <2>4 DEF GetTargetInfo, SearchInv, NothingVisited, Outcome
<1>5. ASSUME NEW role \in TargetsRole, NEW delegator \in TargetsRole \cup {"root"},
             SkipUnpinned(role, delegator) \/ FailToLoad(role, delegator)
      PROVE  SearchInv'
  BY <1>5, WorkListShrinks DEF SkipUnpinned, FailToLoad, Reaches
<1>6. ASSUME NEW role \in TargetsRole, NEW delegator \in TargetsRole \cup {"root"},
             Visit(role, delegator)
      PROVE  SearchInv'
  BY <1>6, VisitKeepsSearchInv
<1> QED
  BY <1>1, <1>2, <1>3, <1>4, <1>5, <1>6 DEF Next, Iterate

LEMMA SearchInvAtFirst == Init => SearchInv
<1> SUFFICES ASSUME Init
             PROVE  SearchInv
  OBVIOUS
<1>1. VisitedIsDelegated
  BY DEF Init, VisitedIsDelegated, Visited, NothingVisited, TargetsRole
<1> QED
  BY <1>1 DEF Init, SearchInv, NothingVisited, NothingLoaded, Outcome

LEMMA SearchInvHolds == Spec => []SearchInv
<1>1. Init => SearchInv
  BY SearchInvAtFirst
<1>2. SearchInv /\ [Next]_vars => SearchInv'
  BY SearchInvStep
<1> QED
  BY <1>1, <1>2, PTL DEF Spec

\* Every state of a search is well formed: no delegation that reuses a top-level
\* name ever gets into the work list, and no delegated role is loaded on the word
\* of the root role (client.rs get_targetinfo).
THEOREM TypeCorrect == Spec => []TypeOK
<1>1. SearchInv => TypeOK
  <2> SUFFICES ASSUME SearchInv
               PROVE  TypeOK
    OBVIOUS
  <2>1. Sound \subseteq Entry
    BY DEF Sound
  <2>2. queue \in Seq(Entry)
    BY <2>1 DEF SearchInv
  <2> QED
    BY <2>2 DEF SearchInv, TypeOK
<1> QED
  BY <1>1, SearchInvHolds, PTL

\* Every delegated role that a search visited hangs by delegations for the path
\* on the top-level targets, whatever earlier searches loaded (client.rs
\* get_targetinfo).
THEOREM VisitedIsDelegatedHolds == Spec => []VisitedIsDelegated
<1>1. SearchInv => VisitedIsDelegated
  BY DEF SearchInv
<1> QED
  BY <1>1, SearchInvHolds, PTL

-----------------------------------------------------------------------------
(* The reference search: what it is defined by, and that it only grows.    *)

\* Induction over places, for what can be said as a set of them.
LEMMA PlaceByPlace ==
  ASSUME NEW last \in Nat, NEW Places,
         0 \in Places,
         \A n \in 0 .. last : n + 1 \in 0 .. last /\ n \in Places => n + 1 \in Places
  PROVE  0 .. last \subseteq Places
<1> DEFINE Without == {n \in 0 .. last : n \notin Places}
<1>1. SUFFICES ASSUME Without # {}
               PROVE  FALSE
  BY <1>1
<1>2. PICK n \in Without : \A m \in Without : n <= m
  <2> HIDE DEF Without
  <2>1. Without \subseteq Nat
    BY DEF Without
  <2> QED
    BY <1>1, <2>1, LeastPlace
<1>3. n # 0 /\ n \in 0 .. last /\ n \notin Places
  BY <1>2
<1>4. n - 1 \in 0 .. last /\ n - 1 \notin Without
  <2> HIDE DEF Without
  <2> QED
    BY <1>2, <1>3
<1> QED
  BY <1>3, <1>4

LEMMA DoneStops ==
  ASSUME NEW w \in Walk
  PROVE  Done(w) \in Walk /\ Done(w).visited = w.visited /\ ~Goes(Done(w))
BY DEF Done, Goes, Walk, Outcome

LEMMA LookGrows ==
  ASSUME NEW r, NEW p, NEW w \in Walk, NEW role \in TargetsRole, NEW delegator,
         role = "targets" \/ delegator \in TargetsRole
  PROVE  /\ Look(r, p, role, delegator, w) \in Walk
         /\ w.visited \subseteq Look(r, p, role, delegator, w).visited
<1> DEFINE trusted == role = "targets" \/ w.loaded[role] # NoRole
           now == IF trusted THEN w.loaded ELSE [w.loaded EXCEPT ![role] = delegator]
           end == IF p \in r.lists[role] THEN role
                  ELSE IF Rejected(r, p, role) THEN "error" ELSE "searching"
<1>1. w.loaded \in [Role -> TargetsRole \cup {NoRole}] /\ w.visited \in SUBSET TargetsRole
  BY DEF Walk
<1>2. now \in [Role -> TargetsRole \cup {NoRole}]
  BY <1>1 DEF TargetsRole
<1>3. end \in {"searching", "none", "error"} \cup TargetsRole
  BY DEF TargetsRole
<1>4. w.visited \cup {role} \in SUBSET TargetsRole
  BY <1>1
<1> DEFINE visit == [loaded |-> now, visited |-> w.visited \cup {role}, result |-> end]
           fail == [w EXCEPT !.result = "error"]
<1>5. visit \in Walk /\ w.visited \subseteq visit.visited
  <2> HIDE DEF now, end
  <2> QED
    BY <1>2, <1>3, <1>4 DEF Walk
<1>6. fail \in Walk /\ fail.visited = w.visited
  BY DEF Walk
<1>7. Look(r, p, role, delegator, w) \in {w, fail, visit}
  BY DEF Look
<1> QED
  <2> HIDE DEF fail, visit
  <2> QED
    BY <1>5, <1>6, <1>7

\* What a search of what a role delegates may do to a walk.
Below ==
  {f \in [TargetsRole \X Walk -> Walk] :
     \A role \in TargetsRole, w \in Walk : w.visited \subseteq f[<<role, w>>].visited}

LEMMA ComeToGrows ==
  ASSUME NEW r, NEW p, NEW w \in Walk, NEW role \in TargetsRole, NEW delegator,
         role = "targets" \/ delegator \in TargetsRole, NEW below \in Below
  PROVE  /\ ComeTo(r, p, below, role, delegator, w) \in Walk
         /\ w.visited \subseteq ComeTo(r, p, below, role, delegator, w).visited
<1> DEFINE v == Look(r, p, role, delegator, w)
<1>1. v \in Walk /\ w.visited \subseteq v.visited
  BY LookGrows
<1> HIDE DEF v
<1>2. below[<<role, v>>] \in Walk /\ v.visited \subseteq below[<<role, v>>].visited
  BY <1>1 DEF Below
<1>3. ComeTo(r, p, below, role, delegator, w) \in {w, v, below[<<role, v>>]}
  BY DEF ComeTo, v
<1> QED
  BY <1>1, <1>2, <1>3

LEMMA OverGrows ==
  ASSUME NEW r, NEW p, NEW w \in Walk, NEW role \in TargetsRole, NEW d \in Delegation,
         NEW below \in Below
  PROVE  /\ Over(r, p, below, role, d, w) \in Walk
         /\ w.visited \subseteq Over(r, p, below, role, d, w).visited
<1> DEFINE v == ComeTo(r, p, below, d.name, role, w)
<1>1. CASE d.name \in TopLevel
  BY <1>1 DEF Over
<1>2. CASE d.name \notin TopLevel
  <2>1. d.name \in TargetsRole
    BY <1>2 DEF Delegation, TargetsRole
  <2>2. v \in Walk /\ w.visited \subseteq v.visited
    BY <2>1, ComeToGrows
  <2>3. Over(r, p, below, role, d, w) \in {w, v, Done(v)}
    BY DEF Over
  <2> HIDE DEF v
  <2> QED
    BY <2>2, <2>3, DoneStops
<1> QED
  BY <1>1, <1>2

LEMMA OverThem ==
  ASSUME NEW r \in Repository, NEW p, NEW below, NEW role \in TargetsRole, NEW w
  PROVE  /\ Len(r.delegations[role]) \in Nat
         /\ \A i \in 0 .. Len(r.delegations[role]) :
              OverFirst(r, p, below, role, w)[i] =
                IF i = 0 THEN w
                ELSE Over(r, p, below, role, r.delegations[role][i],
                          OverFirst(r, p, below, role, w)[i - 1])
<1> DEFINE ds == r.delegations[role]
           last == Len(ds)
           Then(f, i) == IF i = 0 THEN w ELSE Over(r, p, below, role, ds[i], f[i - 1])
           Exists(n) == \E f : f = [i \in 0 .. n |-> Then(f, i)]
           S == {n \in Nat : Exists(n)}
           past == OverFirst(r, p, below, role, w)
<1>1. last \in Nat
  <2>1. ds \in Seq(Delegation)
    BY RepositoryAssumption
  <2> HIDE DEF ds
  <2> QED
    BY <2>1
<1>2. 0 \in S
  <2> DEFINE f == [i \in 0 .. 0 |-> w]
  <2>1. f = [i \in 0 .. 0 |-> Then(f, i)]
    OBVIOUS
  <2> QED
    BY <2>1
<1>3. ASSUME NEW n \in 0 .. last, n \in S
      PROVE  n + 1 \in S
  <2>1. PICK g : g = [i \in 0 .. n |-> Then(g, i)]
    BY <1>3
  <2>2. \A i \in 0 .. n : g[i] = Then(g, i)
    <3> HIDE DEF Then
    <3> QED
      BY <2>1
  <2>3. n \in Nat
    BY <1>1
  <2> DEFINE f == [i \in 0 .. n + 1 |-> IF i = n + 1 THEN Then(g, i) ELSE g[i]]
  <2>4. \A i \in 0 .. n + 1 : f[i] = Then(f, i)
    <3> TAKE i \in 0 .. n + 1
    <3>1. i # 0 => i - 1 \in 0 .. n + 1 /\ i - 1 # n + 1 /\ f[i - 1] = g[i - 1]
      BY <2>3
    <3>2. Then(f, i) = Then(g, i)
      <4> HIDE DEF f
      <4> QED
        BY <3>1
    <3>3. f[i] = Then(g, i)
      <4>1. CASE i = n + 1
        BY <4>1, <2>3
      <4>2. CASE i # n + 1
        <5>1. i \in 0 .. n /\ f[i] = g[i]
          BY <4>2, <2>3
        <5> HIDE DEF f, Then
        <5> QED
          BY <5>1, <2>2
      <4> QED
        BY <4>1, <4>2
    <3> QED
      BY <3>2, <3>3
  <2>5. f = [i \in 0 .. n + 1 |-> Then(f, i)]
    <3> HIDE DEF Then
    <3>1. f = [i \in 0 .. n + 1 |-> f[i]]
      BY Zenon
    <3> HIDE DEF f
    <3> QED
      BY ONLY <2>4, <3>1
  <2>6. Exists(n + 1)
    <3> HIDE DEF f, Then
    <3> QED
      BY <2>5
  <2> HIDE DEF Exists
  <2> QED
    BY <2>3, <2>6
<1>4. last \in S
  <2> HIDE DEF S, last
  <2>1. 0 .. last \subseteq S
    BY <1>1, <1>2, <1>3, PlaceByPlace
  <2> QED
    BY <1>1, <2>1
<1>5. past = [i \in 0 .. last |-> Then(past, i)]
  <2>1. PICK f : f = [i \in 0 .. last |-> Then(f, i)]
    BY <1>4
  <2> QED
    BY ONLY <2>1 DEF OverFirst
<1>6. \A i \in 0 .. last : past[i] = Then(past, i)
  <2> HIDE DEF Then, past
  <2> QED
    BY <1>5
<1> QED
  BY <1>1, <1>6

LEMMA OverFirstGrows ==
  ASSUME NEW r \in Repository, NEW p, NEW below \in Below, NEW role \in TargetsRole,
         NEW w \in Walk
  PROVE  \A i \in 0 .. Len(r.delegations[role]) :
           /\ OverFirst(r, p, below, role, w)[i] \in Walk
           /\ w.visited \subseteq OverFirst(r, p, below, role, w)[i].visited
<1> DEFINE ds == r.delegations[role]
           last == Len(ds)
           past == OverFirst(r, p, below, role, w)
           S == {i \in 0 .. last : past[i] \in Walk /\ w.visited \subseteq past[i].visited}
<1>1. ds \in Seq(Delegation)
  BY RepositoryAssumption
<1>2. /\ last \in Nat
      /\ \A i \in 0 .. last :
           past[i] = IF i = 0 THEN w ELSE Over(r, p, below, role, ds[i], past[i - 1])
  BY OverThem
<1> HIDE DEF past, ds
<1>3. 0 \in S
  BY <1>2
<1>4. ASSUME NEW i \in 0 .. last, i + 1 \in 0 .. last, i \in S
      PROVE  i + 1 \in S
  <2>1. ds[i + 1] \in Delegation
    BY <1>1, <1>2, <1>4
  <2>2. past[i + 1] = Over(r, p, below, role, ds[i + 1], past[i])
    BY <1>2, <1>4
  <2> QED
    BY <1>4, <2>1, <2>2, OverGrows
<1>5. 0 .. last \subseteq S
  <2> HIDE DEF S, last
  <2> QED
    BY <1>2, <1>3, <1>4, PlaceByPlace
<1> QED
  BY <1>5 DEF past, ds

LEMMA DepthIsFinite ==
  Depth \in Nat \ {0} /\ \A s \in SUBSET TargetsRole : IsFiniteSet(s) /\ Cardinality(s) \in Nat
<1>1. IsFiniteSet(TargetsRole)
  BY FS_AddElement, FS_Union, FS_Singleton, RepositoryAssumption DEF TargetsRole
<1>2. \A s \in SUBSET TargetsRole : IsFiniteSet(s) /\ Cardinality(s) \in Nat
  BY <1>1, FS_Subset, FS_CardinalityType
<1>3. Depth # 0
  BY <1>1, FS_EmptySet DEF Depth, TargetsRole
<1> QED
  BY <1>2, <1>3 DEF Depth

Untouched == [x \in TargetsRole \X Walk |-> x[2]]
OverAllOf(r, p, below) == [x \in TargetsRole \X Walk |-> OverAll(r, p, below, x[1], x[2])]

LEMMA SearchThem ==
  ASSUME NEW r, NEW p
  PROVE  /\ Search(r, p)[0] = Untouched
         /\ \A n \in 0 .. Depth :
              n + 1 \in 0 .. Depth => Search(r, p)[n + 1] = OverAllOf(r, p, Search(r, p)[n])
<1> DEFINE Then(f, n) == [x \in TargetsRole \X Walk |->
                            IF n = 0 THEN x[2] ELSE OverAll(r, p, f[n - 1], x[1], x[2])]
           Exists(n) == \E f : f = [i \in 0 .. n |-> Then(f, i)]
           S == {n \in Nat : Exists(n)}
           search == Search(r, p)
<1>1. Depth \in Nat
  BY DepthIsFinite
<1>2. 0 \in S
  <2> DEFINE f == [i \in 0 .. 0 |-> [x \in TargetsRole \X Walk |-> x[2]]]
  <2>1. f = [i \in 0 .. 0 |-> Then(f, i)]
    OBVIOUS
  <2> QED
    BY <2>1
<1>3. ASSUME NEW n \in 0 .. Depth, n \in S
      PROVE  n + 1 \in S
  <2>1. PICK g : g = [i \in 0 .. n |-> Then(g, i)]
    BY <1>3
  <2>2. \A i \in 0 .. n : g[i] = Then(g, i)
    <3> HIDE DEF Then
    <3> QED
      BY <2>1
  <2>3. n \in Nat
    BY <1>1
  <2> DEFINE f == [i \in 0 .. n + 1 |-> IF i = n + 1 THEN Then(g, i) ELSE g[i]]
  <2>4. \A i \in 0 .. n + 1 : f[i] = Then(f, i)
    <3> TAKE i \in 0 .. n + 1
    <3>1. i # 0 => f[i - 1] = g[i - 1]
      <4>1. i # 0 => i - 1 \in 0 .. n + 1 /\ i - 1 # n + 1
        BY <2>3
      <4> HIDE DEF Then
      <4> QED
        BY <4>1
    <3>2. Then(f, i) = Then(g, i)
      <4> HIDE DEF f
      <4>1. CASE i = 0
        BY <4>1
      <4>2. CASE i # 0
        BY <4>2, <3>1
      <4> QED
        BY <4>1, <4>2
    <3>3. f[i] = Then(g, i)
      <4> HIDE DEF Then
      <4>1. CASE i = n + 1
        BY <4>1, <2>3
      <4>2. CASE i # n + 1
        <5>1. i \in 0 .. n /\ f[i] = g[i]
          BY <4>2, <2>3
        <5> HIDE DEF f
        <5> QED
          BY <5>1, <2>2
      <4> QED
        BY <4>1, <4>2
    <3> HIDE DEF f, Then
    <3> QED
      BY <3>2, <3>3
  <2>5. f = [i \in 0 .. n + 1 |-> Then(f, i)]
    <3> HIDE DEF Then
    <3>1. f = [i \in 0 .. n + 1 |-> f[i]]
      BY Zenon
    <3> HIDE DEF f
    <3> QED
      BY ONLY <2>4, <3>1
  <2>6. Exists(n + 1)
    <3> HIDE DEF f, Then
    <3> QED
      BY <2>5
  <2> HIDE DEF Exists
  <2> QED
    BY <2>3, <2>6
<1>4. Depth \in S
  <2> HIDE DEF S
  <2>1. 0 .. Depth \subseteq S
    BY <1>1, <1>2, <1>3, PlaceByPlace
  <2> QED
    BY <1>1, <2>1
<1>5. search = [n \in 0 .. Depth |-> Then(search, n)]
  <2>1. PICK f : f = [n \in 0 .. Depth |-> Then(f, n)]
    BY <1>4
  <2> QED
    BY ONLY <2>1 DEF Search
<1>6. \A n \in 0 .. Depth : search[n] = Then(search, n)
  <2> HIDE DEF Then, search
  <2> QED
    BY <1>5
<1>7. Then(search, 0) = Untouched
  BY DEF Untouched
<1>8. ASSUME NEW n \in 0 .. Depth
      PROVE  Then(search, n + 1) = OverAllOf(r, p, search[n])
  <2> HIDE DEF search
  <2>1. n + 1 # 0 /\ n + 1 - 1 = n
    BY <1>1
  <2>2. search[n + 1 - 1] = search[n]
    BY <2>1
  <2> QED
    BY <2>1, <2>2 DEF OverAllOf
<1> HIDE DEF Then, search
<1> QED
  BY <1>1, <1>6, <1>7, <1>8 DEF search

LEMMA SearchGrows ==
  ASSUME NEW r \in Repository, NEW p
  PROVE  \A n \in 0 .. Depth : Search(r, p)[n] \in Below
<1> DEFINE S == {n \in 0 .. Depth : Search(r, p)[n] \in Below}
<1>1. Depth \in Nat
  BY DepthIsFinite
<1>2. 0 \in S
  <2>1. Search(r, p)[0] = Untouched
    BY SearchThem
  <2>2. Untouched \in [TargetsRole \X Walk -> Walk]
    <3>1. \A x \in TargetsRole \X Walk : x[2] \in Walk
      OBVIOUS
    <3> QED
      BY <3>1 DEF Untouched
  <2>3. \A role \in TargetsRole, w \in Walk : Untouched[<<role, w>>] = w
    BY DEF Untouched
  <2>4. Untouched \in Below
    BY <2>2, <2>3 DEF Below
  <2> QED
    BY <1>1, <2>1, <2>4
<1>3. ASSUME NEW n \in 0 .. Depth, n + 1 \in 0 .. Depth, n \in S
      PROVE  n + 1 \in S
  <2> DEFINE below == Search(r, p)[n]
             f == OverAllOf(r, p, below)
  <2>1. Search(r, p)[n + 1] = f
    BY <1>3, SearchThem
  <2>2. below \in Below
    BY <1>3
  <2> HIDE DEF below
  <2>3. ASSUME NEW role \in TargetsRole, NEW w \in Walk
        PROVE  /\ OverAll(r, p, below, role, w) \in Walk
               /\ w.visited \subseteq OverAll(r, p, below, role, w).visited
    <3>1. Len(r.delegations[role]) \in 0 .. Len(r.delegations[role])
      BY OverThem
    <3> QED
      BY <2>2, <3>1, OverFirstGrows DEF OverAll
  <2>4. f \in Below
    BY <2>3 DEF OverAllOf, Below
  <2> QED
    BY <1>3, <2>1, <2>4
<1>4. 0 .. Depth \subseteq S
  <2> HIDE DEF S
  <2> QED
    BY <1>1, <1>2, <1>3, PlaceByPlace
<1> QED
  BY <1>4

\* How many roles a walk has not visited.
Left(w) == Cardinality(TargetsRole \ w.visited)

LEMMA LeftShrinks ==
  ASSUME NEW v \in Walk, NEW w \in Walk, w.visited \subseteq v.visited
  PROVE  /\ Left(v) \in Nat /\ Left(w) \in Nat /\ Left(v) <= Left(w)
         /\ v.visited # w.visited => Left(v) < Left(w)
<1>1. v.visited \subseteq TargetsRole /\ w.visited \subseteq TargetsRole
  BY DEF Walk
<1>2. TargetsRole \ v.visited \subseteq TargetsRole \ w.visited
  OBVIOUS
<1>3. IsFiniteSet(TargetsRole \ w.visited) /\ Left(v) \in Nat /\ Left(w) \in Nat
  BY DepthIsFinite DEF Left
<1>4. Left(v) <= Left(w)
  BY <1>2, <1>3, FS_Subset DEF Left
<1>5. v.visited # w.visited => TargetsRole \ v.visited # TargetsRole \ w.visited
  BY <1>1
<1> QED
  BY <1>2, <1>3, <1>4, <1>5, FS_Subset DEF Left

\* Once fewer roles are left than a search may go deep, it makes no difference
\* that it may go deeper.
LEMMA DeepEnough ==
  ASSUME NEW r \in Repository, NEW p
  PROVE  \A n \in 0 .. Depth : n + 1 \in 0 .. Depth =>
           \A role \in TargetsRole, w \in Walk :
             Left(w) < n => Search(r, p)[n + 1][<<role, w>>] = Search(r, p)[n][<<role, w>>]
<1> DEFINE search == Search(r, p)
           Same(n, role, w) == Left(w) < n => search[n + 1][<<role, w>>] = search[n][<<role, w>>]
           S == {n \in 0 .. Depth :
                   n + 1 \in 0 .. Depth => \A role \in TargetsRole, w \in Walk : Same(n, role, w)}
<1>1. Depth \in Nat
  BY DepthIsFinite
<1>2. 0 \in S
  BY <1>1, LeftShrinks
<1>3. ASSUME NEW n \in 0 .. Depth, n + 1 \in 0 .. Depth, n \in S
      PROVE  n + 1 \in S
  <2> SUFFICES ASSUME n + 2 \in 0 .. Depth, NEW role \in TargetsRole, NEW w0 \in Walk,
                      Left(w0) < n + 1
               PROVE  search[n + 2][<<role, w0>>] = search[n + 1][<<role, w0>>]
    BY <1>1, <1>3
  <2> DEFINE less == search[n]
             more == search[n + 1]
             ds == r.delegations[role]
             past == OverFirst(r, p, less, role, w0)
             deep == OverFirst(r, p, more, role, w0)
             T == {i \in 0 .. Len(ds) : deep[i] = past[i]}
  <2>1. more = OverAllOf(r, p, less) /\ search[n + 2] = OverAllOf(r, p, more)
    <3>1. n + 1 + 1 = n + 2
      BY <1>1
    <3> QED
      BY <1>3, <3>1, SearchThem
  <2>2. less \in Below /\ more \in Below
    BY <1>3, SearchGrows
  <2>3. \A d \in TargetsRole, v \in Walk : Left(v) < n => more[<<d, v>>] = less[<<d, v>>]
    BY <1>3
  <2> HIDE DEF less, more, search
  <2>4. ds \in Seq(Delegation)
    BY RepositoryAssumption
  <2>5. /\ Len(ds) \in Nat
        /\ \A i \in 0 .. Len(ds) :
             /\ past[i] = IF i = 0 THEN w0 ELSE Over(r, p, less, role, ds[i], past[i - 1])
             /\ deep[i] = IF i = 0 THEN w0 ELSE Over(r, p, more, role, ds[i], deep[i - 1])
             /\ past[i] \in Walk /\ w0.visited \subseteq past[i].visited
    <3>1. /\ Len(ds) \in Nat
          /\ \A i \in 0 .. Len(ds) :
               past[i] = IF i = 0 THEN w0 ELSE Over(r, p, less, role, ds[i], past[i - 1])
      BY OverThem
    <3>2. \A i \in 0 .. Len(ds) :
            deep[i] = IF i = 0 THEN w0 ELSE Over(r, p, more, role, ds[i], deep[i - 1])
      BY OverThem
    <3>3. \A i \in 0 .. Len(ds) : past[i] \in Walk /\ w0.visited \subseteq past[i].visited
      BY <2>2, OverFirstGrows
    <3> HIDE DEF past, deep, ds
    <3> QED
      BY <3>1, <3>2, <3>3
  <2> HIDE DEF past, deep, ds
  <2>6. 0 \in T
    BY <2>5
  <2>7. ASSUME NEW i \in 0 .. Len(ds), i + 1 \in 0 .. Len(ds), i \in T
        PROVE  i + 1 \in T
    <3> DEFINE d == ds[i + 1]
               w == past[i]
               v == Look(r, p, d.name, role, w)
    <3>1. d \in Delegation /\ w \in Walk /\ Left(w) < n + 1
      <4>1. Left(w) <= Left(w0) /\ Left(w) \in Nat /\ Left(w0) \in Nat
        BY <2>5, LeftShrinks
      <4> QED
        BY <2>4, <2>5, <2>7, <4>1
    <3>2. past[i + 1] = Over(r, p, less, role, d, w) /\ deep[i + 1] = Over(r, p, more, role, d, w)
      BY <2>5, <2>7
    <3> HIDE DEF d, w
    <3>3. ASSUME d.name \notin TopLevel
          PROVE  ComeTo(r, p, more, d.name, role, w) = ComeTo(r, p, less, d.name, role, w)
      <4>1. d.name \in TargetsRole
        BY <3>1, <3>3 DEF Delegation, TargetsRole
      <4>2. v \in Walk /\ w.visited \subseteq v.visited
        BY <3>1, <4>1, LookGrows
      <4>3. v.visited # w.visited => Left(v) < n
        BY <3>1, <4>2, LeftShrinks
      <4>4. v.visited # w.visited => more[<<d.name, v>>] = less[<<d.name, v>>]
        BY <2>3, <4>1, <4>2, <4>3
      <4> HIDE DEF v
      <4> QED
        BY <4>4 DEF ComeTo, v
    <3>4. Over(r, p, more, role, d, w) = Over(r, p, less, role, d, w)
      BY <3>3 DEF Over
    <3> QED
      BY <2>7, <3>2, <3>4
  <2>8. Len(ds) \in T
    <3> HIDE DEF T
    <3>1. 0 .. Len(ds) \subseteq T
      BY <2>5, <2>6, <2>7, PlaceByPlace
    <3> QED
      BY <2>5, <3>1
  <2>9. OverAll(r, p, more, role, w0) = OverAll(r, p, less, role, w0)
    BY <2>8 DEF OverAll, past, deep, ds
  <2>10. \A f : OverAllOf(r, p, f)[<<role, w0>>] = OverAll(r, p, f, role, w0)
    BY DEF OverAllOf
  <2> QED
    BY <2>1, <2>9, <2>10 DEF more, search
<1>4. 0 .. Depth \subseteq S
  <2> HIDE DEF S
  <2> QED
    BY <1>1, <1>2, <1>3, PlaceByPlace
<1> QED
  BY <1>4

-----------------------------------------------------------------------------
(* The walk along a work list, and along what a role delegates.            *)

On(e, w) == ComeTo(repo, path, Search(repo, path)[Depth], e.role, e.delegator, w)

\* The walks that lead along a work list, entry by entry.
IsTrail(es, w, t) ==
  /\ t \in [0 .. Len(es) -> Walk]
  /\ t[0] = w
  /\ \A i \in 1 .. Len(es) : t[i] = On(es[i], t[i - 1])

LEMMA OnGrows ==
  ASSUME repo \in Repository, NEW e \in Entry, NEW w \in Walk
  PROVE  On(e, w) \in Walk /\ w.visited \subseteq On(e, w).visited
<1>1. /\ e.role \in TargetsRole
      /\ e.role = "targets" \/ e.delegator \in TargetsRole
  BY DEF Entry, Start, TargetsRole
<1>2. Search(repo, path)[Depth] \in Below
  BY DepthIsFinite, SearchGrows
<1> QED
  BY <1>1, <1>2, ComeToGrows DEF On

LEMMA TrailOfOne ==
  ASSUME repo \in Repository, NEW e \in Entry, NEW w \in Walk
  PROVE  \E t : IsTrail(<<e>>, w, t) /\ t[Len(<<e>>)] = On(e, w)
<1> DEFINE t == [i \in 0 .. 1 |-> IF i = 0 THEN w ELSE On(e, w)]
<1>1. On(e, w) \in Walk
  BY OnGrows
<1>2. t \in [0 .. 1 -> Walk] /\ t[0] = w /\ t[1] = On(e, w)
  BY <1>1
<1>3. Len(<<e>>) = 1 /\ <<e>>[1] = e
  OBVIOUS
<1> HIDE DEF t
<1>4. IsTrail(<<e>>, w, t)
  BY <1>2, <1>3 DEF IsTrail
<1> QED
  BY <1>2, <1>3, <1>4

LEMMA TrailGoesOn ==
  ASSUME NEW es \in Seq(Entry), NEW fs \in Seq(Entry), NEW w, NEW t, NEW u,
         IsTrail(es, w, t), IsTrail(fs, t[Len(es)], u)
  PROVE  \E v : IsTrail(es \o fs, w, v) /\ v[Len(es \o fs)] = u[Len(fs)]
<1> DEFINE n == Len(es)
           m == Len(fs)
           v == [i \in 0 .. n + m |-> IF i <= n THEN t[i] ELSE u[i - n]]
<1>1. /\ n \in Nat /\ m \in Nat /\ Len(es \o fs) = n + m
      /\ \A i \in 1 .. n : (es \o fs)[i] = es[i]
      /\ \A i \in 1 .. n + m : i > n => (es \o fs)[i] = fs[i - n]
  OBVIOUS
<1>2. /\ t \in [0 .. n -> Walk] /\ t[0] = w
      /\ \A i \in 1 .. n : t[i] = On(es[i], t[i - 1])
  BY DEF IsTrail
<1>3. /\ u \in [0 .. m -> Walk] /\ u[0] = t[n]
      /\ \A i \in 1 .. m : u[i] = On(fs[i], u[i - 1])
  BY DEF IsTrail
<1> HIDE DEF n, m
<1>4. \A i \in 0 .. n : v[i] = t[i]
  BY <1>1
<1>5. \A i \in 0 .. m : v[n + i] = u[i]
  <2> TAKE i \in 0 .. m
  <2>1. n + i \in 0 .. n + m /\ n + i - n = i
    BY <1>1
  <2>2. CASE i = 0
    BY <1>1, <1>3, <1>4, <2>2
  <2>3. CASE i # 0
    BY <1>1, <2>1, <2>3
  <2> QED
    BY <2>2, <2>3
<1>6. v \in [0 .. n + m -> Walk]
  <2> SUFFICES ASSUME NEW i \in 0 .. n + m
               PROVE  v[i] \in Walk
    OBVIOUS
  <2>1. CASE i <= n
    BY <1>1, <1>2, <1>4, <2>1
  <2>2. CASE i > n
    <3>1. i - n \in 0 .. m /\ n + (i - n) = i
      BY <1>1, <2>2
    <3> HIDE DEF v
    <3> QED
      BY <1>3, <1>5, <3>1
  <2> QED
    BY <1>1, <2>1, <2>2
<1> HIDE DEF v
<1>7. ASSUME NEW i \in 1 .. n + m
      PROVE  v[i] = On((es \o fs)[i], v[i - 1])
  <2>1. CASE i <= n
    BY <1>1, <1>2, <1>4, <2>1
  <2>2. CASE i > n
    <3> DEFINE j == i - n
    <3>1. j \in 1 .. m /\ j - 1 \in 0 .. m /\ n + j = i /\ n + (j - 1) = i - 1
      BY <1>1, <2>2
    <3>2. v[i] = u[j] /\ v[i - 1] = u[j - 1]
      BY <1>5, <3>1
    <3>3. (es \o fs)[i] = fs[j]
      BY <1>1, <2>2
    <3> QED
      BY <1>3, <3>1, <3>2, <3>3
  <2> QED
    BY <1>1, <2>1, <2>2
<1>8. IsTrail(es \o fs, w, v)
  <2>1. v[0] = w
    BY <1>1, <1>2, <1>4
  <2> QED
    BY <1>1, <1>6, <1>7, <2>1 DEF IsTrail
<1>9. v[n + m] = u[m]
  BY <1>1, <1>5
<1> QED
  BY <1>1, <1>8, <1>9 DEF m

\* A walk that is over stays as it is.
LEMMA TrailOfStopped ==
  ASSUME NEW es \in Seq(Entry), NEW w, NEW t, IsTrail(es, w, t), ~Goes(w)
  PROVE  t[Len(es)] = w
<1> DEFINE S == {i \in 0 .. Len(es) : t[i] = w}
<1>1. Len(es) \in Nat
  OBVIOUS
<1>2. 0 \in S
  BY <1>1 DEF IsTrail
<1>3. ASSUME NEW i \in 0 .. Len(es), i + 1 \in 0 .. Len(es), i \in S
      PROVE  i + 1 \in S
  <2>1. i + 1 \in 1 .. Len(es) /\ i + 1 - 1 = i
    BY <1>1, <1>3
  <2>2. t[i + 1] = On(es[i + 1], w)
    BY <1>3, <2>1 DEF IsTrail
  <2> QED
    BY <1>3, <2>2 DEF On, ComeTo
<1>4. 0 .. Len(es) \subseteq S
  <2> HIDE DEF S
  <2> QED
    BY <1>1, <1>2, <1>3, PlaceByPlace
<1> QED
  BY <1>1, <1>4

\* What is left of a trail after the first entry.
LEMMA TrailOfTail ==
  ASSUME repo \in Repository, NEW es \in Seq(Entry), es # <<>>, NEW w, NEW t, IsTrail(es, w, t)
  PROVE  /\ Head(es) \in Entry /\ Tail(es) \in Seq(Entry) /\ w \in Walk
         /\ \E u : IsTrail(Tail(es), On(Head(es), w), u) /\ u[Len(Tail(es))] = t[Len(es)]
<1> DEFINE n == Len(es)
           u == [i \in 0 .. n - 1 |-> t[i + 1]]
<1>1. /\ n \in Nat \ {0} /\ Len(Tail(es)) = n - 1 /\ Head(es) = es[1]
      /\ \A i \in 1 .. n - 1 : Tail(es)[i] = es[i + 1]
      /\ Head(es) \in Entry /\ Tail(es) \in Seq(Entry)
  OBVIOUS
<1>2. /\ t \in [0 .. n -> Walk] /\ t[0] = w
      /\ \A i \in 1 .. n : t[i] = On(es[i], t[i - 1])
  BY DEF IsTrail
<1> HIDE DEF n
<1>3. w \in Walk /\ t[1] = On(Head(es), w)
  BY <1>1, <1>2
<1>4. u \in [0 .. n - 1 -> Walk] /\ u[0] = t[1] /\ u[n - 1] = t[n]
  BY <1>1, <1>2
<1>5. ASSUME NEW i \in 1 .. n - 1
      PROVE  u[i] = On(Tail(es)[i], u[i - 1])
  <2>1. i + 1 \in 1 .. n /\ i + 1 - 1 = i /\ i - 1 \in 0 .. n - 1 /\ i - 1 + 1 = i
    BY <1>1
  <2>2. u[i] = t[i + 1] /\ u[i - 1] = t[i]
    BY <2>1
  <2> HIDE DEF u
  <2> QED
    BY <1>1, <1>2, <2>1, <2>2
<1> HIDE DEF u
<1>6. IsTrail(Tail(es), On(Head(es), w), u)
  BY <1>1, <1>3, <1>4, <1>5 DEF IsTrail
<1> QED
  BY <1>1, <1>3, <1>4, <1>6 DEF n

\* Rejected looks only for what comes before a match that terminates, Malformed
\* also for what comes before the first malformed delegation.
LEMMA RejectedIsMalformed ==
  ASSUME repo \in Repository, NEW role \in TargetsRole
  PROVE  Rejected(repo, path, role) <=> Malformed(role)
<1> DEFINE ds == repo.delegations[role]
           Stops(i) == ds[i].matches[path] = "yes" /\ ds[i].terminating
<1>1. ds \in Seq(Delegation)
  BY RepositoryAssumption
<1>2. /\ \A i : i \in Eligible(role) <=> i \in DOMAIN ds /\ ds[i].name \notin TopLevel
      /\ \A i : Answer(role, i) = ds[i].matches[path]
      /\ \A i : Ends(role, i) <=> ds[i].matches[path] = "error" \/ Stops(i)
  BY DEF Eligible, Answer, Ends
<1>3. Rejected(repo, path, role) <=>
        \E i \in Eligible(role) :
          /\ ds[i].matches[path] = "error"
          /\ \A j \in 1 .. i - 1 : ds[j].name \notin TopLevel => ~Stops(j)
  BY <1>2 DEF Rejected
<1> HIDE DEF ds
<1>4. DOMAIN ds = 1 .. Len(ds) /\ Len(ds) \in Nat
  BY <1>1
<1>5. ASSUME Malformed(role)
      PROVE  Rejected(repo, path, role)
  <2>1. PICK i \in Considered(role) : Answer(role, i) = "error"
    BY <1>5 DEF Malformed
  <2>2. i \in Eligible(role) /\ \A j \in Eligible(role) : j < i => ~Ends(role, j)
    BY <2>1 DEF Considered
  <2>3. ASSUME NEW j \in 1 .. i - 1, ds[j].name \notin TopLevel
        PROVE  ~Stops(j)
    <3>1. j \in DOMAIN ds /\ j < i
      BY <1>2, <1>4, <2>2
    <3> QED
      BY <1>2, <2>2, <2>3, <3>1
  <2> QED
    BY <1>2, <1>3, <2>1, <2>2, <2>3
<1>6. ASSUME Rejected(repo, path, role)
      PROVE  Malformed(role)
  <2>1. PICK i \in Eligible(role) :
               /\ ds[i].matches[path] = "error"
               /\ \A j \in 1 .. i - 1 : ds[j].name \notin TopLevel => ~Stops(j)
    BY <1>3, <1>6
  <2> DEFINE Enders == {j \in Eligible(role) : Ends(role, j)}
  <2>2. PICK k \in Enders : \A j \in Enders : k <= j
    <3>1. i \in Enders
      BY <1>2, <2>1
    <3>2. Enders \subseteq Nat
      BY <1>2, <1>4
    <3> HIDE DEF Enders
    <3> QED
      BY <3>1, <3>2, LeastPlace
  <2>3. i \in Enders /\ k <= i /\ k \in DOMAIN ds /\ i \in DOMAIN ds
    BY <1>2, <2>1, <2>2
  <2>4. k \in Considered(role)
    BY <1>2, <1>4, <2>2 DEF Considered
  <2>5. Answer(role, k) = "error"
    <3>1. CASE k = i
      BY <1>2, <2>1, <3>1
    <3>2. CASE k # i
      <4>1. k \in 1 .. i - 1
        BY <1>4, <2>3, <3>2
      <4> QED
        BY <1>2, <2>1, <2>2, <4>1
    <3> QED
      BY <3>1, <3>2
  <2> QED
    BY <2>4, <2>5 DEF Malformed
<1> QED
  BY <1>5, <1>6

\* A delegation that matches is a child, or a terminating child comes before it,
\* and nothing is a child after one that terminates.
LEMMA ChildOrAfterTheLast ==
  ASSUME repo \in Repository, NEW role \in TargetsRole, ~Malformed(role)
  PROVE  /\ Matching(role) \subseteq {i \in Eligible(role) : Answer(role, i) = "yes"}
         /\ Eligible(role) \subseteq 1 .. Len(repo.delegations[role])
         /\ \A i \in Eligible(role) :
              Answer(role, i) = "yes" /\ i \notin Matching(role) =>
                \E j \in Matching(role) : j < i /\ repo.delegations[role][j].terminating
         /\ \A i, j \in Matching(role) :
              repo.delegations[role][j].terminating => i <= j
<1> DEFINE ds == repo.delegations[role]
<1>1. ds \in Seq(Delegation)
  BY RepositoryAssumption
<1>2. Eligible(role) \subseteq 1 .. Len(ds) /\ Len(ds) \in Nat
  <2>1. Eligible(role) \subseteq DOMAIN ds
    BY DEF Eligible
  <2> HIDE DEF ds
  <2> QED
    BY <1>1, <2>1
<1>3. Matching(role) \subseteq {i \in Eligible(role) : Answer(role, i) = "yes"}
  BY DEF Matching, Considered
<1>4. ASSUME NEW i \in Eligible(role), Answer(role, i) = "yes", i \notin Matching(role)
      PROVE  \E j \in Matching(role) : j < i /\ ds[j].terminating
  <2> DEFINE Enders == {j \in Eligible(role) : j < i /\ Ends(role, j)}
  <2>1. Enders # {}
    BY <1>4 DEF Matching, Considered
  <2>2. PICK k \in Enders : \A j \in Enders : k <= j
    <3>1. Enders \subseteq Nat
      BY <1>2
    <3> HIDE DEF Enders
    <3> QED
      BY <2>1, <3>1, LeastPlace
  <2>3. k \in Considered(role)
    <3> SUFFICES ASSUME NEW j \in Eligible(role), j < k
                 PROVE  ~Ends(role, j)
      BY DEF Considered
    <3>1. j < i
      BY <1>2, <2>2
    <3> QED
      BY <1>2, <2>2, <3>1
  <2>4. Answer(role, k) # "error"
    BY <2>3 DEF Malformed
  <2>5. Answer(role, k) = "yes" /\ ds[k].terminating
    BY <2>2, <2>4 DEF Ends
  <2> QED
    BY <2>2, <2>3, <2>5 DEF Matching
<1>5. ASSUME NEW i \in Matching(role), NEW j \in Matching(role), ds[j].terminating
      PROVE  i <= j
  <2>1. Ends(role, j) /\ j \in Eligible(role)
    BY <1>3, <1>5 DEF Ends
  <2>2. ~(j < i)
    BY <2>1 DEF Matching, Considered
  <2>3. i \in Int /\ j \in Int
    BY <1>2, <1>3
  <2> QED
    BY <2>2, <2>3
<1> QED
  BY <1>2, <1>3, <1>4, <1>5

\* Looking at what a role delegates, no search has to be as deep as the one that
\* came to the role.
LEMMA OneLessDeep ==
  ASSUME repo \in Repository, NEW e \in Entry, NEW w \in Walk, w.visited # {}
  PROVE  ComeTo(repo, path, Search(repo, path)[Depth - 1], e.role, e.delegator, w) = On(e, w)
<1> DEFINE less == Search(repo, path)[Depth - 1]
           more == Search(repo, path)[Depth]
           v == Look(repo, path, e.role, e.delegator, w)
<1>1. e.role \in TargetsRole /\ (e.role = "targets" \/ e.delegator \in TargetsRole)
  BY DEF Entry, Start, TargetsRole
<1>2. v \in Walk /\ w.visited \subseteq v.visited
  BY <1>1, LookGrows
<1>3. Left(w) < Depth
  <2>1. TargetsRole \ w.visited \subseteq TargetsRole /\ TargetsRole \ w.visited # TargetsRole
    BY DEF Walk
  <2> QED
    BY <2>1, DepthIsFinite, FS_Subset DEF Left, Depth
<1>4. Depth - 1 \in 0 .. Depth /\ Depth - 1 + 1 = Depth /\ Depth - 1 + 1 \in 0 .. Depth
  BY DepthIsFinite
<1>5. ASSUME v.visited # w.visited
      PROVE  more[<<e.role, v>>] = less[<<e.role, v>>]
  <2>1. Left(v) < Depth - 1
    BY <1>2, <1>3, <1>4, <1>5, LeftShrinks, DepthIsFinite
  <2> QED
    BY <1>1, <1>2, <1>4, <2>1, DeepEnough
<1> HIDE DEF less, more, v
<1> QED
  BY <1>5 DEF ComeTo, On, less, more, v

\* What a search makes of the delegations of a role is what the walk along its
\* children does, and the end of the search when one of them terminates.
LEMMA OverChildren ==
  ASSUME repo \in Repository, NEW role \in TargetsRole, ~Malformed(role),
         NEW w0 \in Walk, w0.visited # {}
  PROVE  \E t :
           /\ IsTrail(Children(role), w0, t)
           /\ OverAll(repo, path, Search(repo, path)[Depth - 1], role, w0) =
                IF Terminates(role) THEN Done(t[Len(Children(role))])
                ELSE t[Len(Children(role))]
<1> DEFINE ds == repo.delegations[role]
           last == Len(ds)
           below == Search(repo, path)[Depth - 1]
           among == ChildrenAmong(role)
           past == OverFirst(repo, path, below, role, w0)
           Cut(i) == \E j \in Matching(role) : j <= i /\ ds[j].terminating
           AsFar(i, t) == /\ IsTrail(among[i], w0, t)
                            /\ past[i] = IF Cut(i) THEN Done(t[Len(among[i])])
                                         ELSE t[Len(among[i])]
           S == {i \in 0 .. last : among[i] \in Seq(Entry) /\ \E t : AsFar(i, t)}
<1>1. ds \in Seq(Delegation)
  BY RepositoryAssumption
<1>2. below \in Below
  BY DepthIsFinite, SearchGrows
<1>3. /\ last \in Nat
      /\ \A i \in 0 .. last :
           past[i] = IF i = 0 THEN w0 ELSE Over(repo, path, below, role, ds[i], past[i - 1])
  <2> HIDE DEF below
  <2> QED
    BY OverThem
<1>4. \A i \in 0 .. last : past[i] \in Walk /\ past[i].visited # {}
  <2>1. \A i \in 0 .. last : past[i] \in Walk /\ w0.visited \subseteq past[i].visited
    BY <1>2, OverFirstGrows
  <2> HIDE DEF past
  <2> QED
    BY <2>1
<1>5. \A i \in 0 .. last :
        among[i] = IF i = 0 THEN <<>>
                   ELSE IF i \in Matching(role) THEN Append(among[i - 1], Child(role, i))
                   ELSE among[i - 1]
  BY <1>3, ChildrenAmongThem
<1>6. /\ Matching(role) \subseteq {i \in Eligible(role) : Answer(role, i) = "yes"}
      /\ Eligible(role) \subseteq 1 .. last
      /\ \A i \in Eligible(role) :
           Answer(role, i) = "yes" /\ i \notin Matching(role) =>
             \E j \in Matching(role) : j < i /\ ds[j].terminating
      /\ \A i, j \in Matching(role) : ds[j].terminating => i <= j
  BY ChildOrAfterTheLast
<1>7. \A i \in 1 .. last :
        /\ i \in Eligible(role) <=> ds[i].name \notin TopLevel
        /\ Answer(role, i) = ds[i].matches[path]
        /\ ds[i] \in Delegation
  BY <1>1, <1>3 DEF Eligible, Answer
<1>8. \A i : Child(role, i) = [role |-> ds[i].name, delegator |-> role]
  BY DEF Child
<1> HIDE DEF below, among, past, ds
<1>9. 0 \in S
  <2> DEFINE t == [i \in 0 .. 0 |-> w0]
  <2>1. among[0] = <<>> /\ past[0] = w0
    BY <1>3, <1>5
  <2>2. IsTrail(<<>>, w0, t) /\ t[0] = w0
    BY DEF IsTrail
  <2>3. ~Cut(0)
    BY <1>6
  <2> HIDE DEF Cut, t
  <2>4. AsFar(0, t)
    BY <2>1, <2>2, <2>3
  <2>5. among[0] \in Seq(Entry)
    BY <2>1
  <2> HIDE DEF AsFar
  <2> QED
    BY <1>3, <2>4, <2>5
<1>10. ASSUME NEW i \in 0 .. last, i + 1 \in 0 .. last, i \in S
       PROVE  i + 1 \in S
  <2> DEFINE k == i + 1
             d == ds[k]
             w == past[i]
             child == Child(role, k)
  <2>1. k \in 1 .. last /\ k \in 0 .. last /\ k - 1 = i /\ k # 0
    BY <1>3, <1>10
  <2>2. PICK t : AsFar(i, t)
    BY <1>10
  <2>3. among[i] \in Seq(Entry)
    BY <1>10
  <2>4. past[k] = Over(repo, path, below, role, d, w)
    BY <1>3, <2>1
  <2>5. CASE k \notin Matching(role)
    <3>1. among[k] = among[i]
      BY <1>5, <2>1, <2>5
    <3>2. Cut(k) <=> Cut(i)
      <4>1. \A j \in Matching(role) : j <= k <=> j <= i
        BY <1>3, <1>6, <2>1, <2>5
      <4> QED
        BY <4>1
    <3>3. past[k] = w
      <4>1. CASE d.name \in TopLevel \/ d.matches[path] # "yes"
        BY <2>4, <4>1 DEF Over
      <4>2. CASE d.name \notin TopLevel /\ d.matches[path] = "yes"
        <5>1. k \in Eligible(role) /\ Answer(role, k) = "yes"
          BY <1>7, <2>1, <4>2
        <5>2. Cut(i)
          <6>1. PICK j \in Matching(role) : j < k /\ ds[j].terminating
            BY <1>6, <2>5, <5>1
          <6>2. j <= i
            BY <1>3, <1>6, <2>1, <6>1
          <6> QED
            BY <6>1, <6>2
        <5>3. w = Done(t[Len(among[i])])
          BY <2>2, <5>2
        <5>4. ~Goes(w) /\ Done(w) = w
          <6>1. Len(among[i]) \in Nat
            BY <2>3
          <6>2. t[Len(among[i])] \in Walk
            BY <2>2, <6>1 DEF IsTrail
          <6>3. ~Goes(w)
            BY <5>3, <6>2, DoneStops
          <6> QED
            BY <6>3 DEF Done
        <5>5. ComeTo(repo, path, below, d.name, role, w) = w
          BY <5>4 DEF ComeTo
        <5> QED
          BY <2>4, <5>4, <5>5 DEF Over
      <4> QED
        BY <4>1, <4>2
    <3>4. AsFar(k, t)
      <4> HIDE DEF Cut, k
      <4> QED
        BY <2>2, <3>1, <3>2, <3>3
    <3> HIDE DEF AsFar
    <3> QED
      BY <2>1, <2>3, <3>1, <3>4
  <2>6. CASE k \in Matching(role)
    <3>1. among[k] = Append(among[i], child)
      BY <1>5, <2>1, <2>6
    <3>2. /\ d.name \notin TopLevel /\ d.matches[path] = "yes"
          /\ d.name \in Role
          /\ child = [role |-> d.name, delegator |-> role] /\ child \in Entry
      <4>1. d.name \notin TopLevel /\ d.matches[path] = "yes" /\ d \in Delegation
        BY <1>6, <1>7, <2>1, <2>6
      <4>2. d.name \in Role
        BY <4>1 DEF Delegation
      <4>3. child = [role |-> d.name, delegator |-> role]
        BY <1>8
      <4> QED
        BY <4>1, <4>2, <4>3 DEF Entry
    <3>3. ~Cut(i)
      <4> SUFFICES ASSUME NEW j \in Matching(role), j <= i, ds[j].terminating
                   PROVE  FALSE
        OBVIOUS
      <4>1. k <= j
        BY <1>6, <2>6
      <4> QED
        BY <1>3, <1>6, <2>1, <4>1
    <3>4. Cut(k) <=> d.terminating
      <4>1. d.terminating => Cut(k)
        BY <2>1, <2>6
      <4>2. Cut(k) => d.terminating
        <5> SUFFICES ASSUME NEW j \in Matching(role), j <= k, ds[j].terminating
                     PROVE  d.terminating
          OBVIOUS
        <5>1. k <= j
          BY <1>6, <2>6
        <5>2. j = k
          BY <1>3, <1>6, <2>1, <5>1
        <5> QED
          BY <5>2
      <4> QED
        BY <4>1, <4>2
    <3>5. IsTrail(among[i], w0, t) /\ w = t[Len(among[i])]
      BY <2>2, <3>3
    <3>6. ComeTo(repo, path, below, d.name, role, w) = On(child, w)
      <4>1. w \in Walk /\ w.visited # {}
        BY <1>4
      <4>2. child.role = d.name /\ child.delegator = role /\ child \in Entry
        BY <3>2
      <4> HIDE DEF child, w, d
      <4>3. ComeTo(repo, path, below, child.role, child.delegator, w) = On(child, w)
        BY <4>1, <4>2, OneLessDeep DEF below
      <4> QED
        BY <4>2, <4>3
    <3>7. PICK v : IsTrail(among[k], w0, v) /\ v[Len(among[k])] = On(child, w)
      <4> HIDE DEF child, w, k, AsFar
      <4>1. PICK u : IsTrail(<<child>>, w, u) /\ u[Len(<<child>>)] = On(child, w)
        BY <1>4, <3>2, TrailOfOne DEF w
      <4>2. among[k] = among[i] \o <<child>> /\ <<child>> \in Seq(Entry)
        BY <2>3, <3>1, <3>2
      <4> DEFINE es == among[i]
                 fs == <<child>>
      <4>3. es \in Seq(Entry) /\ fs \in Seq(Entry)
        BY <2>3, <4>2
      <4>4. IsTrail(es, w0, t) /\ IsTrail(fs, t[Len(es)], u)
        BY <3>5, <4>1
      <4> HIDE DEF es, fs
      <4>5. \E v : IsTrail(es \o fs, w0, v) /\ v[Len(es \o fs)] = u[Len(fs)]
        BY <4>3, <4>4, TrailGoesOn
      <4> QED
        BY <4>1, <4>2, <4>5 DEF es, fs
    <3>8. past[k] = IF d.terminating THEN Done(On(child, w)) ELSE On(child, w)
      BY <2>4, <3>2, <3>6 DEF Over
    <3>9. AsFar(k, v)
      <4> HIDE DEF Cut, k, d, w, child
      <4> QED
        BY <3>4, <3>7, <3>8
    <3>10. among[k] \in Seq(Entry)
      <4> HIDE DEF k, child
      <4> QED
        BY <2>3, <3>1, <3>2
    <3> HIDE DEF AsFar
    <3> QED
      BY <2>1, <3>9, <3>10
  <2> QED
    BY <2>5, <2>6
<1>11. last \in S
  <2> HIDE DEF S, last
  <2>1. 0 .. last \subseteq S
    BY <1>3, <1>9, <1>10, PlaceByPlace
  <2> QED
    BY <1>3, <2>1
<1>12. PICK t : AsFar(last, t)
  BY <1>11
<1>13. Cut(last) <=> Terminates(role)
  BY <1>6 DEF Terminates, ds
<1>14. /\ Children(role) = among[last]
       /\ OverAll(repo, path, below, role, w0) = past[last]
  BY DEF Children, OverAll, among, past, ds
<1> HIDE DEF Cut, last
<1> QED
  BY <1>12, <1>13, <1>14 DEF below

-----------------------------------------------------------------------------
(* The search follows the reference.                                       *)

\* Where the search stands, as a walk.
Now == [loaded |-> loaded, visited |-> VisitedRoles, result |-> result]

\* What the work list still holds leads from here to where the reference ends.
LeadsThere == \E t : IsTrail(queue, Now, t) /\ Done(t[Len(queue)]) = Preorder

LEMMA NowIsWalk ==
  ASSUME SearchInv, Searching
  PROVE  Now \in Walk /\ Goes(Now) /\ queue \in Seq(Entry)
<1>1. VisitedRoles \in SUBSET TargetsRole
  BY DEF VisitedRoles
<1>2. Sound \subseteq Entry
  BY DEF Sound
<1>3. queue \in Seq(Entry)
  BY <1>2 DEF SearchInv
<1> QED
  BY <1>1, <1>3 DEF SearchInv, Searching, Now, Walk, Goes

\* When an entry is taken off the work list, the rest leads on from what has
\* become of the walk, and when that is over it is the end.
LEMMA EntryTaken ==
  ASSUME SearchInv, Searching, LeadsThere, queue # <<>>
  PROVE  /\ \E t : /\ IsTrail(Tail(queue), On(Head(queue), Now), t)
                   /\ Done(t[Len(Tail(queue))]) = Preorder
         /\ ~Goes(On(Head(queue), Now)) => Preorder = On(Head(queue), Now)
         /\ Tail(queue) \in Seq(Entry)
<1>1. PICK t : IsTrail(queue, Now, t) /\ Done(t[Len(queue)]) = Preorder
  BY DEF LeadsThere
<1>2. queue \in Seq(Entry) /\ repo \in Repository
  BY NowIsWalk DEF SearchInv
<1> DEFINE w == On(Head(queue), Now)
           rest == Tail(queue)
<1>3. rest \in Seq(Entry) /\ \E u : IsTrail(rest, w, u) /\ u[Len(rest)] = t[Len(queue)]
  BY <1>1, <1>2, TrailOfTail
<1>4. PICK u : IsTrail(rest, w, u) /\ u[Len(rest)] = t[Len(queue)]
  BY <1>3
<1> HIDE DEF w, rest
<1>5. ASSUME ~Goes(w)
      PROVE  Preorder = w
  <2>1. u[Len(rest)] = w
    BY <1>3, <1>4, <1>5, TrailOfStopped
  <2> QED
    BY <1>1, <1>4, <1>5, <2>1 DEF Done
<1> QED
  BY <1>1, <1>3, <1>4, <1>5 DEF w, rest

\* What becomes of the walk when a role is reached is what the action does.
LEMMA LookAtFront ==
  ASSUME SearchInv, NEW role \in TargetsRole, NEW delegator \in TargetsRole \cup {"root"},
         Reaches(role, delegator)
  PROVE  LET v == Look(repo, path, role, delegator, Now)
         IN /\ On(Head(queue), Now) =
                 IF Goes(v) /\ v.visited # VisitedRoles
                 THEN Search(repo, path)[Depth][<<role, v>>] ELSE v
            /\ ~Loaded(role) /\ role \notin repo.pinned => v = Now
            /\ ~Loaded(role) /\ role \in repo.pinned /\ ~Loadable(role, delegator) =>
                 v = [Now EXCEPT !.result = "error"]
            /\ (~Loaded(role) => Loadable(role, delegator)) =>
                 v = [loaded |-> IF Loaded(role) THEN loaded
                                 ELSE [loaded EXCEPT ![role] = delegator],
                      visited |-> VisitedRoles \cup {role},
                      result |-> IF path \in repo.lists[role] THEN role
                                 ELSE IF Malformed(role) THEN "error" ELSE "searching"]
<1> DEFINE v == Look(repo, path, role, delegator, Now)
<1>1. /\ Head(queue) = [role |-> role, delegator |-> delegator]
      /\ role \notin VisitedRoles /\ Searching /\ repo \in Repository
  BY DEF Reaches, Front, VisitedRoles, SearchInv
<1>2. Goes(Now) /\ Now.visited = VisitedRoles /\ Now.loaded = loaded
  BY <1>1, NowIsWalk DEF Now
<1>3. Loaded(role) <=> role = "targets" \/ loaded[role] # NoRole
  BY DEF Loaded, TargetsRole
<1>4. On(Head(queue), Now) = IF Goes(v) /\ v.visited # VisitedRoles
                             THEN Search(repo, path)[Depth][<<role, v>>] ELSE v
  BY <1>1, <1>2 DEF On, ComeTo
<1>5. Rejected(repo, path, role) <=> Malformed(role)
  BY <1>1, RejectedIsMalformed
<1>6. ~Loaded(role) /\ role \notin repo.pinned => v = Now
  BY <1>1, <1>2, <1>3 DEF Look
<1>7. ~Loaded(role) /\ role \in repo.pinned /\ ~Loadable(role, delegator) =>
        v = [Now EXCEPT !.result = "error"]
  BY <1>1, <1>2, <1>3 DEF Look, Loadable
<1>8. (~Loaded(role) => Loadable(role, delegator)) =>
        v = [loaded |-> IF Loaded(role) THEN loaded ELSE [loaded EXCEPT ![role] = delegator],
             visited |-> VisitedRoles \cup {role},
             result |-> IF path \in repo.lists[role] THEN role
                        ELSE IF Malformed(role) THEN "error" ELSE "searching"]
  BY <1>1, <1>2, <1>3, <1>5 DEF Look, Loadable
<1> HIDE DEF v
<1> QED
  BY <1>4, <1>6, <1>7, <1>8 DEF v

\* A new search, with all still to do.
Starting ==
  /\ SearchInv /\ Searching
  /\ queue = Start /\ via = NothingVisited /\ before = loaded

LEMMA StartLeadsThere == Starting => LeadsThere
<1> SUFFICES ASSUME Starting
             PROVE  LeadsThere
  OBVIOUS
<1> DEFINE e == Start[1]
<1>1. queue = <<e>> /\ e \in Entry
  BY DEF Starting, Start, Entry
<1>2. Now \in Walk /\ repo \in Repository
  BY NowIsWalk DEF Starting, SearchInv
<1>3. Now = [loaded |-> before, visited |-> {}, result |-> "searching"]
  BY NothingVisitedIsEmpty DEF Starting, Now, VisitedRoles, Visited, Searching
<1>4. Preorder = Done(On(e, Now))
  BY <1>3 DEF Preorder, On, Start
<1> HIDE DEF e
<1>5. PICK t : IsTrail(<<e>>, Now, t) /\ t[Len(<<e>>)] = On(e, Now)
  BY <1>1, <1>2, TrailOfOne
<1> QED
  BY <1>1, <1>4, <1>5 DEF LeadsThere

LEMMA StartLeadsThereNext == Starting' => LeadsThere'
BY StartLeadsThere, PTL

LEMMA ReferenceStays ==
  ASSUME UNCHANGED <<repo, path, before>>
  PROVE  /\ Preorder' = Preorder
         /\ \A es, w, t :
              IsTrail(es, w, t) /\ es = queue' /\ w = Now' /\ Done(t[Len(es)]) = Preorder =>
                LeadsThere'
<1>1. Preorder' = Preorder
  BY DEF Preorder
<1>2. ASSUME NEW es, NEW w, NEW t, IsTrail(es, w, t), es = queue', w = Now',
             Done(t[Len(es)]) = Preorder
      PROVE  LeadsThere'
  <2>1. /\ t \in [0 .. Len(queue') -> Walk] /\ t[0] = Now'
        /\ \A i \in 1 .. Len(queue') :
             t[i] = ComeTo(repo, path, Search(repo, path)[Depth],
                           queue'[i].role, queue'[i].delegator, t[i - 1])
    BY <1>2 DEF IsTrail, On
  <2>2. IsTrail(queue, Now, t)'
    BY <2>1 DEF IsTrail, On
  <2> QED
    BY <1>1, <1>2, <2>2 DEF LeadsThere
<1> QED
  BY <1>1, <1>2

Follows ==
  /\ SearchInv /\ VisitsCounted
  /\ Searching => LeadsThere
  /\ FollowsPreorder

\* An entry that is skipped is taken off a walk that stays where it was.
LEMMA SkipLeadsThere ==
  ASSUME SearchInv, Searching, LeadsThere, queue # <<>>, On(Head(queue), Now) = Now,
         queue' = Tail(queue), UNCHANGED <<repo, path, via, loaded, before, result>>
  PROVE  LeadsThere'
<1>1. Now' = Now
  BY DEF Now, VisitedRoles, Visited
<1>2. PICK t : IsTrail(Tail(queue), Now, t) /\ Done(t[Len(Tail(queue))]) = Preorder
  BY EntryTaken
<1> QED
  BY <1>1, <1>2, ReferenceStays

\* A search that stops where the reference does follows it.
LEMMA StopsThere ==
  ASSUME UNCHANGED <<repo, path, before>>, Preorder.result = result',
         Preorder.visited = VisitedRoles'
  PROVE  FollowsPreorder'
<1>1. Preorder' = Preorder
  BY ReferenceStays
<1>2. VisitedRoles' = {role \in TargetsRole : Visited(role)'}
  BY DEF VisitedRoles
<1> QED
  BY <1>1, <1>2 DEF FollowsPreorder, VisitedRoles

LEMMA VisitFollows ==
  ASSUME Follows, NEW role \in TargetsRole, NEW delegator \in TargetsRole \cup {"root"},
         Visit(role, delegator)
  PROVE  /\ Searching' => LeadsThere'
         /\ FollowsPreorder'
<1> DEFINE found == IF path \in repo.lists[role] THEN role
                    ELSE IF Malformed(role) THEN "error" ELSE "searching"
           v == [loaded |-> loaded', visited |-> VisitedRoles', result |-> found]
           rest == Tail(queue)
           children == Children(role)
<1>1. /\ Searching /\ queue # <<>> /\ Reaches(role, delegator) /\ role \notin VisitedRoles
      /\ UNCHANGED <<repo, path, before>>
      /\ loaded' = IF Loaded(role) THEN loaded ELSE [loaded EXCEPT ![role] = delegator]
      /\ result' = found
      /\ found = "searching" => queue' = ChildrenFirst(role)
      /\ ~Loaded(role) => Loadable(role, delegator)
      /\ role # "searching"
  <2>1. Reaches(role, delegator) /\ result = "searching"
    BY DEF Visit, Reaches, Searching
  <2>2. role # "searching" /\ role # "error"
    BY RepositoryAssumption DEF TargetsRole, Outcome
  <2> QED
    BY <2>1, <2>2 DEF Visit, Reaches, VisitedRoles, Visited
<1>2. SearchInv /\ LeadsThere /\ SearchInv' /\ repo \in Repository
  BY <1>1, VisitKeepsSearchInv DEF Follows, SearchInv
<1>3. VisitedRoles' = VisitedRoles \cup {role}
  <2>1. delegator # NoRole
    BY RepositoryAssumption DEF TargetsRole, TopLevel
  <2>2. via' = [via EXCEPT ![role] = delegator] /\ role \in TargetsRole
    BY DEF Visit
  <2> QED
    BY <1>2, <2>1, <2>2 DEF SearchInv, VisitedRoles, Visited
<1>4. Look(repo, path, role, delegator, Now) = v
  BY <1>1, <1>2, <1>3, LookAtFront
<1>5. On(Head(queue), Now) =
        IF found = "searching" THEN Search(repo, path)[Depth][<<role, v>>] ELSE v
  <2>1. On(Head(queue), Now) = IF Goes(v) /\ v.visited # VisitedRoles
                               THEN Search(repo, path)[Depth][<<role, v>>] ELSE v
    <3> HIDE DEF v
    <3> QED
      BY <1>1, <1>2, <1>4, LookAtFront
  <2>2. v.visited # VisitedRoles
    BY <1>1, <1>3
  <2>3. Goes(v) <=> found = "searching"
    BY DEF Goes
  <2> QED
    BY <2>1, <2>2, <2>3
<1>6. CASE found # "searching"
  <2>1. Preorder = v
    BY <1>1, <1>2, <1>5, <1>6, EntryTaken DEF Goes
  <2>2. ~Searching'
    BY <1>1, <1>6 DEF Searching
  <2> QED
    BY <1>1, <2>1, <2>2, StopsThere
<1>7. CASE found = "searching"
  <2>1. Searching' /\ ~Malformed(role) /\ v = Now'
    BY <1>1, <1>7 DEF Searching, Now
  <2>2. v \in Walk /\ role \in v.visited
    <3>1. (SearchInv /\ Searching => Now \in Walk)'
      BY NowIsWalk, PTL
    <3> QED
      BY <1>2, <1>3, <2>1, <3>1
  <2> HIDE DEF v, found
  <2>3. Search(repo, path)[Depth][<<role, v>>] =
          OverAll(repo, path, Search(repo, path)[Depth - 1], role, v)
    <3>1. Depth - 1 \in 0 .. Depth /\ Depth - 1 + 1 = Depth /\ Depth \in 0 .. Depth
      BY DepthIsFinite
    <3>2. Search(repo, path)[Depth] = OverAllOf(repo, path, Search(repo, path)[Depth - 1])
      BY <3>1, SearchThem
    <3> QED
      BY <2>2, <3>2 DEF OverAllOf
  <2>4. PICK t :
          /\ IsTrail(children, v, t)
          /\ On(Head(queue), Now) = IF Terminates(role) THEN Done(t[Len(children)])
                                    ELSE t[Len(children)]
    <3>1. v.visited # {}
      BY <2>2
    <3> HIDE DEF children
    <3> QED
      BY <1>2, <1>5, <1>7, <2>1, <2>2, <2>3, <3>1, OverChildren DEF children
  <2>5. children \in Seq(Entry) /\ rest \in Seq(Entry)
    <3>1. ChildrenOf(role) \subseteq Entry
      BY <1>2, ChildrenAreSound DEF Entry
    <3>2. Len(repo.delegations[role]) \in Nat
      BY <1>2, OverThem
    <3>3. children \in Seq(ChildrenOf(role))
      BY <3>2, ChildrenAreMatching
    <3>4. rest \in Seq(Entry)
      BY <1>1, <1>2, EntryTaken
    <3> HIDE DEF children, rest
    <3> QED
      BY <3>1, <3>3, <3>4
  <2>6. CASE Terminates(role)
    <3>1. t[Len(children)] \in Walk
      <4>1. Len(children) \in Nat
        BY <2>5
      <4> QED
        BY <2>4, <4>1 DEF IsTrail
    <3>2. ~Goes(On(Head(queue), Now))
      BY <2>4, <2>6, <3>1, DoneStops
    <3>3. Preorder = Done(t[Len(children)])
      BY <1>1, <1>2, <2>4, <2>6, <3>2, EntryTaken
    <3>4. queue' = children
      BY <1>1, <1>7, <2>5, <2>6 DEF ChildrenFirst
    <3>5. LeadsThere'
      BY <1>1, <2>1, <2>4, <3>3, <3>4, ReferenceStays
    <3> QED
      BY <2>1, <3>5 DEF FollowsPreorder
  <2>7. CASE ~Terminates(role)
    <3>1. queue' = children \o rest
      BY <1>1, <1>7, <2>7 DEF ChildrenFirst
    <3>2. PICK u : /\ IsTrail(rest, t[Len(children)], u)
                   /\ Done(u[Len(rest)]) = Preorder
      BY <1>1, <1>2, <2>4, <2>7, EntryTaken
    <3> HIDE DEF children, rest
    <3>3. PICK s : /\ IsTrail(children \o rest, v, s)
                   /\ s[Len(children \o rest)] = u[Len(rest)]
      BY <2>4, <2>5, <3>2, TrailGoesOn
    <3>4. LeadsThere'
      BY <1>1, <2>1, <3>1, <3>2, <3>3, ReferenceStays
    <3> QED
      BY <2>1, <3>4 DEF FollowsPreorder
  <2> QED
    BY <2>6, <2>7
<1> QED
  BY <1>6, <1>7

LEMMA FollowsStep ==
  ASSUME Follows, [Next]_vars
  PROVE  Follows'
<1>1. SearchInv' /\ VisitsCounted'
  BY SearchInvStep, StepKeepsCount DEF Follows
<1> SUFFICES (Searching' => LeadsThere') /\ FollowsPreorder'
  BY <1>1 DEF Follows
<1>2. SearchInv /\ VisitsCounted /\ (Searching => LeadsThere) /\ FollowsPreorder
  BY DEF Follows
<1>3. CASE UNCHANGED vars \/ Unload
  <2>1. UNCHANGED <<repo, path, queue, via, steps, before, result>>
    BY <1>3 DEF vars, Unload
  <2>2. VisitedRoles' = VisitedRoles /\ Preorder' = Preorder
    BY <2>1, ReferenceStays DEF VisitedRoles, Visited
  <2>3. FollowsPreorder'
    BY <1>2, <2>1, <2>2 DEF FollowsPreorder, VisitedRoles, BoundHit, Searching
  <2>4. Searching' => LeadsThere'
    <3> SUFFICES ASSUME Searching'
                 PROVE  LeadsThere'
      OBVIOUS
    <3>1. Searching /\ loaded' = loaded
      BY <1>3, <2>1 DEF vars, Unload, Searching
    <3>2. Now' = Now
      BY <2>1, <2>2, <3>1 DEF Now
    <3> QED
      BY <1>2, <2>1, <3>1, <3>2, ReferenceStays DEF LeadsThere
  <2> QED
    BY <2>3, <2>4
<1>4. ASSUME NEW p \in Path, GetTargetInfo(p)
      PROVE  (Searching' => LeadsThere') /\ FollowsPreorder'
  <2>1. Starting'
    BY <1>1, <1>4 DEF GetTargetInfo, Starting, Searching
  <2>2. Searching'
    BY <2>1 DEF Starting
  <2> QED
    BY <2>1, <2>2, StartLeadsThereNext DEF FollowsPreorder
<1>5. CASE SkipVisited
  <2>1. /\ Searching /\ queue # <<>> /\ queue' = Tail(queue)
        /\ UNCHANGED <<repo, path, via, loaded, before, result>>
        /\ Visited(Head(queue).role)
    BY <1>5 DEF SkipVisited, Front
  <2>2. Head(queue) \in Entry
    BY <1>2, <2>1, NowIsWalk
  <2>3. Head(queue).role \in VisitedRoles
    BY <2>1, <2>2 DEF Entry, Start, VisitedRoles, TargetsRole
  <2>4. On(Head(queue), Now) = Now
    BY <2>3 DEF On, ComeTo, Look, Now
  <2>5. Searching' /\ LeadsThere'
    BY <1>2, <2>1, <2>4, SkipLeadsThere DEF Searching
  <2> QED
    BY <2>5 DEF FollowsPreorder
<1>6. CASE StopAtBound
  <2>1. /\ queue' = queue /\ steps' = steps /\ result' = "none"
        /\ queue # <<>> /\ ~(steps < MaxDelegations)
    BY <1>6 DEF StopAtBound, Reaches, WithinBound
  <2>2. steps = MaxDelegations
    BY <1>2, <2>1, RepositoryAssumption DEF VisitsCounted
  <2>3. BoundHit' /\ ~Searching'
    BY <2>1, <2>2 DEF BoundHit, Searching
  <2> QED
    BY <2>3 DEF FollowsPreorder
<1>7. CASE Exhausted
  <2>1. /\ Searching /\ queue = <<>> /\ result' = "none"
        /\ UNCHANGED <<repo, path, via, before>>
    BY <1>7 DEF Exhausted
  <2>2. PICK t : IsTrail(<<>>, Now, t) /\ Done(t[Len(<<>>)]) = Preorder
    BY <1>2, <2>1 DEF LeadsThere
  <2>3. Preorder = Done(Now)
    <3>1. Len(<<>>) = 0
      OBVIOUS
    <3> QED
      BY <2>2, <3>1 DEF IsTrail
  <2>4. Goes(Now)
    BY <1>2, <2>1, NowIsWalk
  <2>5. Preorder.result = "none" /\ Preorder.visited = VisitedRoles
    BY <2>3, <2>4 DEF Done, Now
  <2>6. VisitedRoles' = VisitedRoles
    BY <2>1 DEF VisitedRoles, Visited
  <2>7. FollowsPreorder' /\ ~Searching'
    BY <2>1, <2>5, <2>6, StopsThere DEF Searching
  <2> QED
    BY <2>7
<1>8. ASSUME NEW role \in TargetsRole, NEW delegator \in TargetsRole \cup {"root"},
             SkipUnpinned(role, delegator)
      PROVE  (Searching' => LeadsThere') /\ FollowsPreorder'
  <2>1. /\ Reaches(role, delegator) /\ ~Loaded(role) /\ role \notin repo.pinned
        /\ Searching /\ queue # <<>> /\ queue' = Tail(queue)
        /\ UNCHANGED <<repo, path, via, loaded, before, result>>
    BY <1>8 DEF SkipUnpinned, Reaches
  <2>2. On(Head(queue), Now) = Now
    <3>1. Look(repo, path, role, delegator, Now) = Now
      BY <1>2, <2>1, LookAtFront
    <3>2. Now.visited = VisitedRoles
      BY DEF Now
    <3> QED
      BY <1>2, <2>1, <3>1, <3>2, LookAtFront
  <2>3. Searching' /\ LeadsThere'
    BY <1>2, <2>1, <2>2, SkipLeadsThere DEF Searching
  <2> QED
    BY <2>3 DEF FollowsPreorder
<1>9. ASSUME NEW role \in TargetsRole, NEW delegator \in TargetsRole \cup {"root"},
             FailToLoad(role, delegator)
      PROVE  (Searching' => LeadsThere') /\ FollowsPreorder'
  <2> DEFINE w == [Now EXCEPT !.result = "error"]
  <2>1. /\ Reaches(role, delegator) /\ ~Loaded(role) /\ role \in repo.pinned
        /\ ~Loadable(role, delegator)
        /\ Searching /\ queue # <<>> /\ result' = "error"
        /\ UNCHANGED <<repo, path, via, before>>
    BY <1>9 DEF FailToLoad, Reaches
  <2>2. ~Goes(w) /\ w.result = "error" /\ w.visited = VisitedRoles
    BY DEF Now, Goes
  <2>3. On(Head(queue), Now) = w
    <3>1. Look(repo, path, role, delegator, Now) = w
      BY <1>2, <2>1, LookAtFront
    <3> HIDE DEF w
    <3> QED
      BY <1>2, <2>1, <2>2, <3>1, LookAtFront
  <2>4. Preorder = w
    BY <1>2, <2>1, <2>2, <2>3, EntryTaken
  <2>5. VisitedRoles' = VisitedRoles
    BY <2>1 DEF VisitedRoles, Visited
  <2>6. FollowsPreorder' /\ ~Searching'
    BY <2>1, <2>2, <2>4, <2>5, StopsThere DEF Searching
  <2> QED
    BY <2>6
<1>10. ASSUME NEW role \in TargetsRole, NEW delegator \in TargetsRole \cup {"root"},
              Visit(role, delegator)
       PROVE  (Searching' => LeadsThere') /\ FollowsPreorder'
  BY <1>10, VisitFollows
<1> QED
  BY <1>3, <1>4, <1>5, <1>6, <1>7, <1>8, <1>9, <1>10 DEF Next, Iterate

\* The work list, cut at a terminating delegation, searches as the recursion of
\* the specification does: with the same result, having visited the same roles,
\* for every graph, cyclic ones included, unless the search gives up at its bound
\* (client.rs get_targetinfo).
THEOREM FollowsPreorderHolds == Spec => []FollowsPreorder
<1>1. Init => Follows
  <2> SUFFICES ASSUME Init
               PROVE  Follows
    OBVIOUS
  <2>1. result = "idle"
    BY DEF Init
  <2>2. ~Searching /\ FollowsPreorder
    BY <2>1 DEF Searching, FollowsPreorder
  <2> QED
    BY <2>2, SearchInvAtFirst, CountAtFirst DEF Follows
<1>2. Follows /\ [Next]_vars => Follows'
  BY FollowsStep
<1>3. Follows => FollowsPreorder
  BY DEF Follows
<1> QED
  BY <1>1, <1>2, <1>3, PTL DEF Spec
===============================================================================
