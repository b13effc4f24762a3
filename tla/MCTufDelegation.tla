----------------------------- MODULE MCTufDelegation -----------------------------
(***************************************************************************)
(* Delegation graphs for TufDelegation and PreorderSearch.                  *)
(***************************************************************************)
EXTENDS PreorderSearch

To(name, m, t) == [name |-> name, terminating |-> t, matches |-> [p \in Path |-> m]]
ToFor(name, ps) == [name |-> name, terminating |-> FALSE,
                    matches |-> [p \in Path |-> IF p \in ps THEN "yes" ELSE "no"]]

-----------------------------------------------------------------------------
(* Many graphs over three roles.                                           *)

MCRole == {"a", "b", "c"}
Links == { To("a", "yes", FALSE), To("b", "yes", FALSE), To("b", "yes", TRUE),
           To("c", "yes", FALSE), To("c", "yes", TRUE), To("a", "no", TRUE),
           To("c", "error", FALSE), To("targets", "yes", TRUE) }
AtMostOne == {<<>>} \cup {<<x>> : x \in Links}
AtMostTwo == AtMostOne \cup {<<x, y>> : x, y \in Links}

Graphs ==
  { [delegations |-> [r \in TargetsRole |-> CASE r = "targets" -> t [] r = "a" -> a
                                              [] r = "b" -> b [] r = "c" -> <<>>],
     lists |-> [r \in TargetsRole |-> IF r = where THEN Path ELSE {}],
     pinned |-> Role \ {unpinned},
     accepts |-> (Role \X TargetsRole) \ refused] :
    t \in AtMostTwo, a \in AtMostOne, b \in {<<>>} \cup {<<x>> : x \in {To("a", "yes", FALSE), To("c", "yes", TRUE)}},
    where \in {"b", "c"}, unpinned \in {NoRole, "a"}, refused \in {{}, {<<"c", "a">>}} }

\* Role c is delegated by a for path p and by b for path q, to different keys.
TwoParents ==
  { [delegations |-> [r \in TargetsRole |->
       CASE r = "targets" -> <<ToFor("a", {"p"}), ToFor("b", {"q"})>>
         [] r = "a" -> <<ToFor("c", {"p"})>>
         [] r = "b" -> <<ToFor("c", {"q"})>>
         [] r = "c" -> <<>>],
     lists |-> [r \in TargetsRole |-> IF r = "c" THEN Path ELSE {}],
     pinned |-> Role, accepts |-> (Role \X TargetsRole) \ {<<"c", "b">>}] }
===============================================================================
