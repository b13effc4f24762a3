----------------------------- MODULE PreorderSearch -----------------------------
(***************************************************************************)
(* The search of the TUF specification (section 5.6.7: pre-order, depth      *)
(* first, visiting a role once, ending at a terminating delegation), for     *)
(* TufDelegation to be compared with.  It has no work list: what a role       *)
(* delegates is searched when it is come to, before the delegations that      *)
(* follow, and a walk is handed on from one to the next.                      *)
(***************************************************************************)
EXTENDS TufDelegation

\* Where the search stands: what is loaded and visited so far, and its result.
Walk == [loaded : [Role -> TargetsRole \cup {NoRole}], visited : SUBSET TargetsRole,
         result : {"searching", "none", "error"} \cup TargetsRole]

Goes(w) == w.result = "searching"

Done(w) == IF Goes(w) THEN [w EXCEPT !.result = "none"] ELSE w

\* A role with a malformed delegation in reach is rejected as a whole.
Rejected(r, p, role) ==
  LET ds == r.delegations[role]
  IN \E i \in DOMAIN ds :
       /\ ds[i].name \notin TopLevel /\ ds[i].matches[p] = "error"
       /\ \A j \in 1 .. i - 1 :
            ds[j].name \notin TopLevel /\ ds[j].terminating => ds[j].matches[p] # "yes"

\* A role is come to: visited before, not pinned, refused, or visited now.
Look(r, p, role, delegator, w) ==
  LET trusted == role = "targets" \/ w.loaded[role] # NoRole
  IN IF role \in w.visited \/ (~trusted /\ role \notin r.pinned) THEN w
     ELSE IF ~trusted /\ <<role, delegator>> \notin r.accepts THEN [w EXCEPT !.result = "error"]
     ELSE [loaded |-> IF trusted THEN w.loaded ELSE [w.loaded EXCEPT ![role] = delegator],
           visited |-> w.visited \cup {role},
           result |-> IF p \in r.lists[role] THEN role
                      ELSE IF Rejected(r, p, role) THEN "error" ELSE "searching"]

\* What it delegates is searched, as below does, when it has just been visited.
ComeTo(r, p, below, role, delegator, w) ==
  LET v == Look(r, p, role, delegator, w)
  IN IF ~Goes(w) THEN w
     ELSE IF Goes(v) /\ v.visited # w.visited THEN below[<<role, v>>] ELSE v

\* One delegation of a role, then all of them in their order.
Over(r, p, below, role, d, w) ==
  IF d.name \in TopLevel \/ d.matches[p] # "yes" THEN w
  ELSE IF d.terminating THEN Done(ComeTo(r, p, below, d.name, role, w))
  ELSE ComeTo(r, p, below, d.name, role, w)

OverFirst(r, p, below, role, w) ==
  LET past[i \in 0 .. Len(r.delegations[role])] ==
        IF i = 0 THEN w ELSE Over(r, p, below, role, r.delegations[role][i], past[i - 1])
  IN past

OverAll(r, p, below, role, w) ==
  OverFirst(r, p, below, role, w)[Len(r.delegations[role])]

\* A role is entered once, so no chain of roles is longer than this.
Depth == Cardinality(TargetsRole)

\* What the search at most n roles deep makes of <<role, walk>>.
Search(r, p) ==
  LET search[n \in 0 .. Depth] ==
        [x \in TargetsRole \X Walk |->
           IF n = 0 THEN x[2] ELSE OverAll(r, p, search[n - 1], x[1], x[2])]
  IN search

\* From the top-level targets, with what earlier searches loaded.
Preorder ==
  Done(ComeTo(repo, path, Search(repo, path)[Depth], "targets", "root",
              [loaded |-> before, visited |-> {}, result |-> "searching"]))

-----------------------------------------------------------------------------
BoundHit == result = "none" /\ steps = MaxDelegations /\ queue # <<>>

\* "Implements TUF's pre-order, depth-first delegation search with terminating
\* handling" (client.rs get_targetinfo): the search with a work list that is cut
\* at a terminating delegation returns what the recursive one does, having
\* visited the same roles, whatever was loaded before, unless it gives up at its
\* bound.
FollowsPreorder ==
  ~Searching /\ result # "idle" /\ ~BoundHit =>
    /\ result = Preorder.result
    /\ {role \in TargetsRole : Visited(role)} = Preorder.visited
===============================================================================
