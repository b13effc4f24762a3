-------------------------- MODULE MCSigningSession --------------------------
(***************************************************************************)
(* A small world for SigningSession.  The instance has a certificate        *)
(* authority, a log of version 1, two shards of a log of version 2, of      *)
(* which the second takes over at time 2, and a timestamp authority that    *)
(* gets a new key then.  Another instance has services of its own.          *)
(***************************************************************************)
EXTENDS SigningSession, TLC

CONSTANTS f1, f2, a, b

Window(from, to) == [start |-> from, end |-> to]
Always == Window(0, Unset)
At(x) == [t \in 0 .. MaxTime |-> x]
Rotating(x, y) == [t \in 0 .. MaxTime |-> IF t < 2 THEN x ELSE y]

Ca(name) == [subject |-> name, key |-> name, ctlog |-> "ct"]
Log(name, v) == [id |-> name, key |-> name, version |-> v]
Stamper(name, from, to) == [key |-> name, root |-> name, window |-> Window(from, to)]

MCFulcio == "fulcio" :> At(Ca("ca")) @@ "other fulcio" :> At(Ca("other ca"))
MCRekor ==
  "rekor" :> At(Log("log", 1)) @@ "shard1" :> At(Log("shard1", 2))
    @@ "shard2" :> At(Log("shard2", 2)) @@ "other rekor" :> At(Log("other log", 2))
MCTsa == "tsa" :> Rotating(Stamper("tsa1", 0, 9), Stamper("tsa2", 2, 9))

\* An entry of somebody else.
ForeignCert ==
  [key |-> 0, issuer |-> "ca", by |-> "ca", window |-> Window(0, Lifetime),
   codeSigning |-> TRUE, identity |-> "bob", oidcIssuer |-> "oidc",
   scts |-> <<[by |-> "ct", issuerKey |-> "ca"]>>]
ForeignBody ==
  [kind |-> "hashedrekord", version |-> "0.0.1", over |-> b,
   sigs |-> <<[sig |-> [key |-> 0, over |-> b, nonce |-> 0], cert |-> ForeignCert]>>]

MCInLog == [id \in {"log", "shard1", "shard2", "other log"} |->
              IF id = "log" THEN <<[body |-> ForeignBody, time |-> 0]>> ELSE <<>>]

MCRoot ==
  [tlogs |-> <<[id |-> "log", key |-> "log", window |-> Always],
               [id |-> "shard1", key |-> "shard1", window |-> Window(0, 2)],
               [id |-> "shard2", key |-> "shard2", window |-> Window(2, Unset)]>>,
   cas |-> <<[certs |-> <<[subject |-> "ca", key |-> "ca"]>>, window |-> Always]>>,
   ctlogs |-> <<[key |-> "ct", window |-> Always]>>,
   tsas |-> <<[leaf |-> [id |-> "tsa1", key |-> "tsa1", root |-> "tsa1", timeStamping |-> TRUE,
                         window |-> Window(0, 9)], root |-> "tsa1", window |-> Window(0, 2)],
              [leaf |-> [id |-> "tsa2", key |-> "tsa2", root |-> "tsa2", timeStamping |-> TRUE,
                         window |-> Window(2, 9)], root |-> "tsa2", window |-> Window(2, Unset)]>>]

Endpoint(url, v, from, to) == [url |-> url, version |-> v, start |-> from, end |-> to]

\* In an order that is not by version, with one that is not supported; the
\* timestamp authority is listed for a while only.
Instance ==
  [cas |-> <<Endpoint("fulcio", 1, 0, Unset)>>,
   rekors |-> <<Endpoint("rekor", 1, 0, Unset), Endpoint("shard1", 2, 0, 2),
                Endpoint("shard2", 2, 2, Unset), Endpoint("rekor3", 3, 0, Unset)>>,
   tsas |-> <<Endpoint("tsa", 1, 0, 1), Endpoint("tsa", 1, 2, Unset)>>]
OtherInstance ==
  [cas |-> <<Endpoint("other fulcio", 1, 0, Unset)>>,
   rekors |-> <<Endpoint("other rekor", 2, 0, Unset)>>, tsas |-> <<>>]

MCTufConfig == {Instance, OtherInstance}
MCDefaultUrl == <<"rekor", "shard1">>
MCDefault == [fulcio |-> "fulcio", rekor |-> "rekor", version |-> 1, tsa |-> "tsa"]

MCJob ==
  { [kind |-> "bytes", content |-> a], [kind |-> "digest", content |-> a],
    [kind |-> "attestation", content |-> {a, b}],
    [kind |-> "statement", content |-> [statement |-> TRUE, subjects |-> {a, b}]],
    [kind |-> "statement", content |-> [statement |-> FALSE, subjects |-> {}]] }

\* Bound: nothing is signed while calls of auth are looked at, and one typed code
\* gives the token that is signed with.
OneAtATime ==
  clock > 0 \/ context # Unset =>
    stage[f2] = "idle" /\ stage[f1] = "done" /\ redirect[f1] = Oob
=============================================================================
