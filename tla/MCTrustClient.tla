---------------------------- MODULE MCTrustClient ----------------------------
(***************************************************************************)
(* Instances of TrustClient for TLC.                                        *)
(***************************************************************************)
EXTENDS TrustClient, TLC

\* trusted_root.json changes with every generation, the signing configuration
\* only with every other one.
MCContent ==
  [i \in Instance |-> [t \in Target |-> [g \in Generation |->
     <<i, t, IF t = "signing_config" THEN (g + 1) \div 2 ELSE g>>]]]

Both == <<"trusted_root", "signing_config">>
MCRequest == {Both}

Online(i) == [instance |-> i, dir |-> Undirected, cache |-> TRUE, offline |-> FALSE, root |-> TRUE]
OffLine(i) == [Online(i) EXCEPT !.offline = TRUE]
NoCache(i) == [Online(i) EXCEPT !.cache = FALSE]
NoRoot(i) == [Online(i) EXCEPT !.root = FALSE]
Given(i, d) == [Online(i) EXCEPT !.dir = d]

CONSTANTS p1, p2

\* Two programs share the directory of one instance, one of them also uses
\* another instance; only one of the two targets of the first is compiled in.
MCUses == (p1 :> {Online("github"), OffLine("github"), NoCache("github")}) @@
          (p2 :> {Online("github"), Online("public"), OffLine("public"), NoRoot("public")})
OnePublic == published["public"] = 1
MCEmbedded == {<<"github", "trusted_root">>}
==============================================================================
