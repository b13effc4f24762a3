------------------------------ MODULE TufDelegation ------------------------------
(***************************************************************************)
(* Updater::get_targetinfo of crates/sigstore-tuf/src/client.rs: the search *)
(* for the targets role that lists a path, loading delegated roles on the   *)
(* way.  One action per iteration of its loop: the Updater is borrowed for  *)
(* the whole search, so nothing interleaves with it.  Roles stay loaded     *)
(* between searches; a refresh that replaces the snapshot unloads them.     *)
(*                                                                         *)
(* A repository is what the trusted snapshot and the mirror offer: who      *)
(* delegates to whom for which paths, which roles are pinned, and under     *)
(* which delegators the file the mirror serves for a role is accepted       *)
(* (DelegatedAccepts of TufTrusted; a failed fetch is a file not accepted). *)
(***************************************************************************)
EXTENDS Integers, FiniteSets, Sequences

CONSTANTS
  Role,            \* names of delegated roles
  Path,            \* target paths
  MaxDelegations,  \* config.max_delegations
  Repository,      \* the repositories to search
  NoRole

TopLevel == {"root", "timestamp", "snapshot", "targets"}
TargetsRole == {"targets"} \cup Role

\* matches_path: an invalid pattern is an error.
Delegation == [name : TopLevel \cup Role, terminating : BOOLEAN,
               matches : [Path -> {"yes", "no", "error"}]]

\* What a search comes to when it does not find a role; no role is named so.
Outcome == {"idle", "searching", "none", "error"}

ASSUME RepositoryAssumption ==
  /\ IsFiniteSet(Role)
  /\ Role \cap (TopLevel \cup {NoRole}) = {} /\ NoRole \notin TopLevel
  /\ Role \cap Outcome = {}
  /\ MaxDelegations \in Nat
  /\ \A r \in Repository :
       /\ r.delegations \in [TargetsRole -> Seq(Delegation)]
       /\ r.lists \in [TargetsRole -> SUBSET Path]
       /\ r.pinned \subseteq Role
       /\ r.accepts \subseteq Role \X TargetsRole

VARIABLES
  repo,    \* the repository, constant
  path,    \* the path of the current or last search
  queue,   \* to_visit: what to visit, front first
  via,     \* via[r]: the delegator through which r was visited, or NoRole
  steps,
  loaded,  \* loaded[r]: the delegator under which r was verified, or NoRole
  before,  \* history: loaded at the start of the search
  result   \* an Outcome, or the role that lists path

vars == <<repo, path, queue, via, steps, loaded, before, result>>

NothingLoaded == [r \in Role |-> NoRole]
NothingVisited == [r \in TargetsRole |-> NoRole]
Start == <<[role |-> "targets", delegator |-> "root"]>>

Init ==
  /\ repo \in Repository
  /\ path \in Path
  /\ queue = <<>>
  /\ via = NothingVisited
  /\ steps = 0
  /\ loaded = NothingLoaded
  /\ before = NothingLoaded
  /\ result = "idle"

Searching == result = "searching"

\* Without trusted top-level targets the call is an error that changes nothing; the
\* searches here are asked for after a refresh.
GetTargetInfo(p) ==
  /\ ~Searching
  /\ path' = p
  /\ queue' = Start
  /\ via' = NothingVisited
  /\ steps' = 0
  /\ before' = loaded
  /\ result' = "searching"
  /\ UNCHANGED <<repo, loaded>>

Unload ==
  /\ ~Searching
  /\ loaded' = NothingLoaded
  /\ UNCHANGED <<repo, path, queue, via, steps, before, result>>

-----------------------------------------------------------------------------
Front == Head(queue)
Visited(role) == via[role] # NoRole

\* Mutant: the entry is looked at but not taken off the list.
PeekVisited ==
  /\ Searching /\ queue # <<>>
  /\ Visited(Front.role)
  /\ UNCHANGED vars

SkipVisited ==
  /\ Searching /\ queue # <<>>
  /\ Visited(Front.role)
  /\ queue' = Tail(queue)
  /\ UNCHANGED <<repo, path, via, steps, loaded, before, result>>

\* Mutant: one role more than the bound.
WithinBoundPlusOne == steps <= MaxDelegations

WithinBound == steps < MaxDelegations

\* The loop reaches an entry it has not visited.
Reaches(role, delegator) ==
  /\ Searching /\ queue # <<>>
  /\ Front = [role |-> role, delegator |-> delegator]
  /\ ~Visited(role)

StopAtBound ==
  /\ \E role \in TargetsRole, delegator \in TargetsRole \cup {"root"} :
       Reaches(role, delegator)
  /\ ~WithinBound
  /\ result' = "none"
  /\ UNCHANGED <<repo, path, queue, via, steps, loaded, before>>

Loaded(role) == role \in {"targets"} \cup {r \in Role : loaded[r] # NoRole}

Loadable(role, delegator) == role \in repo.pinned /\ <<role, delegator>> \in repo.accepts

SkipUnpinned(role, delegator) ==
  /\ Reaches(role, delegator) /\ WithinBound
  /\ ~Loaded(role) /\ role \notin repo.pinned
  /\ queue' = Tail(queue)
  /\ steps' = steps + 1
  /\ UNCHANGED <<repo, path, via, loaded, before, result>>

FailToLoad(role, delegator) ==
  /\ Reaches(role, delegator) /\ WithinBound
  /\ ~Loaded(role) /\ role \in repo.pinned /\ ~Loadable(role, delegator)
  /\ result' = "error"
  /\ steps' = steps + 1
  /\ UNCHANGED <<repo, path, queue, via, loaded, before>>

\* Places in the list of delegations of a role.

\* Mutant: a delegation may name a top-level role.
EligibleAll(role) == DOMAIN repo.delegations[role]

\* A delegation that reuses a top-level name is ignored.
Eligible(role) ==
  {i \in DOMAIN repo.delegations[role] : repo.delegations[role][i].name \notin TopLevel}

Answer(role, i) == repo.delegations[role][i].matches[path]

Ends(role, i) ==
  \/ Answer(role, i) = "error"
  \/ Answer(role, i) = "yes" /\ repo.delegations[role][i].terminating

\* The delegations that are looked at: all up to the first that ends the look,
\* because it matches and terminates or because it is malformed.
Considered(role) ==
  {i \in Eligible(role) : \A j \in Eligible(role) : j < i => ~Ends(role, j)}

Malformed(role) == \E i \in Considered(role) : Answer(role, i) = "error"

\* Mutant: the path patterns of a delegation are not consulted.
MatchingAny(role) == Considered(role)

Matching(role) == {i \in Considered(role) : Answer(role, i) = "yes"}

Child(role, i) == [role |-> repo.delegations[role][i].name, delegator |-> role]

\* In the order of the list, those among the first so many of it.
ChildrenAmong(role) ==
  LET among[n \in 0 .. Len(repo.delegations[role])] ==
        IF n = 0 THEN <<>>
        ELSE IF n \in Matching(role) THEN Append(among[n - 1], Child(role, n))
        ELSE among[n - 1]
  IN among

Children(role) == ChildrenAmong(role)[Len(repo.delegations[role])]

Terminates(role) == \E i \in Matching(role) : repo.delegations[role][i].terminating

\* Mutant: children go to the back of the list.
ChildrenLast(role) ==
  (IF Terminates(role) THEN <<>> ELSE Tail(queue)) \o Children(role)

ChildrenFirst(role) ==
  Children(role) \o (IF Terminates(role) THEN <<>> ELSE Tail(queue))

\* A role is visited: loaded under this delegator unless it is loaded already,
\* then asked for the path, then for its delegations.
Visit(role, delegator) ==
  /\ Reaches(role, delegator) /\ WithinBound
  /\ ~Loaded(role) => Loadable(role, delegator)
  /\ loaded' = IF Loaded(role) THEN loaded ELSE [loaded EXCEPT ![role] = delegator]
  /\ via' = [via EXCEPT ![role] = delegator]
  /\ steps' = steps + 1
  /\ \/ /\ path \in repo.lists[role]
        /\ result' = role
        /\ UNCHANGED queue
     \/ /\ path \notin repo.lists[role] /\ Malformed(role)
        /\ result' = "error"
        /\ UNCHANGED queue
     \/ /\ path \notin repo.lists[role] /\ ~Malformed(role)
        /\ queue' = ChildrenFirst(role)
        /\ UNCHANGED result
  /\ UNCHANGED <<repo, path, before>>

Exhausted ==
  /\ Searching /\ queue = <<>>
  /\ result' = "none"
  /\ UNCHANGED <<repo, path, queue, via, steps, loaded, before>>

Iterate ==
  \/ SkipVisited \/ StopAtBound \/ Exhausted
  \/ \E role \in TargetsRole, delegator \in TargetsRole \cup {"root"} :
       SkipUnpinned(role, delegator) \/ FailToLoad(role, delegator) \/ Visit(role, delegator)

Next == Unload \/ Iterate \/ \E p \in Path : GetTargetInfo(p)

Spec == Init /\ [][Next]_vars /\ WF_vars(Iterate)

-----------------------------------------------------------------------------
(* Properties.                                                             *)

Entry == {Start[1]} \cup [role : Role, delegator : TargetsRole]

\* The state is well formed; only names of delegated roles are ever enqueued.
TypeOK ==
  /\ path \in Path
  /\ queue \in Seq(Entry)
  /\ via \in [TargetsRole -> TargetsRole \cup {"root", NoRole}]
  /\ steps \in Nat
  /\ loaded \in [Role -> TargetsRole \cup {NoRole}]
  /\ before \in [Role -> TargetsRole \cup {NoRole}]
  /\ result \in Outcome \cup TargetsRole

Delegates(delegator, role) ==
  \E i \in DOMAIN repo.delegations[delegator] :
    LET d == repo.delegations[delegator][i]
    IN d.name = role /\ d.matches[path] = "yes"

\* Every role the search has visited hangs by a chain of delegations for the
\* path on the top-level targets, and so does the role it returns (client.rs
\* get_targetinfo; roles loaded by earlier searches for other paths are around).
VisitedIsDelegated ==
  \A r \in Role : Visited(r) => Visited(via[r]) /\ Delegates(via[r], r)

\* One search visits at most max_delegations roles, the top-level one among
\* them, whatever the shape of the graph: cycles, repeated and unpinned roles
\* included (client.rs get_targetinfo, "steps").
VisitsBounded == Cardinality({r \in TargetsRole : Visited(r)}) <= MaxDelegations

\* A search that is started ends (client.rs get_targetinfo).
SearchEnds == Searching ~> ~Searching

\* "the signature threshold is verified against the delegator's delegations
\* block [...] this is what makes delegation a real trust hand-off" (trusted.rs,
\* update_delegated_targets): each role on the way is one its delegator accepts.
VouchedByDelegator ==
  \A r \in Role : Visited(r) => <<r, via[r]>> \in repo.accepts
===============================================================================
