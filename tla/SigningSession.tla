--------------------------- MODULE SigningSession ---------------------------
(***************************************************************************)
(* Tokens, signatures and verification together: a program obtains identity *)
(* tokens from OAuthFlow, signs with one of them as Signer does, several    *)
(* times if need be, and whatever the signer returns is put before a        *)
(* Verifier with the default policy and the trusted root of the instance.   *)
(***************************************************************************)
EXTENDS OAuthFlow, Sequences

CONSTANTS
  TufConfig, DefaultUrl, Default, Job, Fulcio, Rekor, Tsa, InLog, Prove(_, _),
  Lifetime, MaxTime, MaxAttempts, Unset,
  Root,       \* the trusted root of the instance
  Skew        \* clock_skew_seconds

VARIABLES clock, context, step, job, bearer, attempt, cert, entry, bundle, log

\* A token as the signer sees it (IdentityToken::from_jwt); its expiration is
\* never looked at.
TokenOf(f) == [identity |-> "alice", expiration |-> token[f]]
Token == {[identity |-> "alice", expiration |-> e] : e \in Expiry}

S == INSTANCE Signer
M == INSTANCE Merkle

\* Of the verification of a bundle that is there by the time at.
V(b, a, at, t) == INSTANCE Verifier
  WITH request <- [bundle |-> b, artifact |-> a, signed |-> at,
                   policy |-> [key |-> Unset, identity |-> bearer.identity,
                               issuer |-> "oidc", tlog |-> TRUE, cert |-> TRUE,
                               sct |-> TRUE, skew |-> Skew]],
       now <- at, time <- t, began <- at, pc <- "structure", before <- "none",
       Request <- {}, Signing <- {}, MinTime <- 0

signerVars == <<clock, context, step, job, bearer, attempt, cert, entry, bundle, log>>
vars == <<oauthVars, signerVars>>

ASSUME SessionAssumption ==
  /\ MaxTime \in Nat /\ MaxAttempts \in Nat /\ Lifetime \in Nat
  /\ \A j \in Job : j.kind \in {"bytes", "digest", "statement", "attestation"}

\* Files are lists, and the log of the instance is one.
ASSUME ListAssumption ==
  /\ S!IsContext(Default)
  /\ \A id \in DOMAIN InLog : S!IsSequence(InLog[id])
  /\ \A tuf \in TufConfig :
       S!IsSequence(tuf.cas) /\ S!IsSequence(tuf.rekors) /\ S!IsSequence(tuf.tsas)

\* A service is found under every URL.  What a log held before is signed and timed,
\* and not by the keys of these calls.
ASSUME ServiceAssumption ==
  /\ Unset \notin Nat
  /\ \A id \in DOMAIN InLog : \A i \in DOMAIN InLog[id] :
       LET e == InLog[id][i]
       IN /\ S!IsSequence(e.body.sigs) /\ e.time \in Nat
          /\ e.body.sigs[1].sig.key \notin 1 .. MaxAttempts
  /\ \A url \in DOMAIN Rekor, t \in S!Time : Rekor[url][t].id \in DOMAIN InLog
  /\ Default.fulcio \in DOMAIN Fulcio /\ Default.rekor \in DOMAIN Rekor
  /\ Default.tsa \in DOMAIN Tsa \cup {Unset}
  /\ \A v \in S!SupportedRekor : DefaultUrl[v] \in DOMAIN Rekor
  /\ \A tuf \in TufConfig :
       /\ \A i \in DOMAIN tuf.cas : tuf.cas[i].version = 1 => tuf.cas[i].url \in DOMAIN Fulcio
       /\ \A i \in DOMAIN tuf.tsas : tuf.tsas[i].version = 1 => tuf.tsas[i].url \in DOMAIN Tsa
       /\ \A i \in DOMAIN tuf.rekors :
            tuf.rekors[i].version \in S!SupportedRekor => tuf.rekors[i].url \in DOMAIN Rekor

\* A caller that signs bytes does not sign what an envelope of its would be signed as.
ASSUME CallerAssumption ==
  \A j, k \in Job : j.kind = "bytes" /\ k.kind = "statement" => j.content # S!Pae(k.content)

-----------------------------------------------------------------------------
SessionInit == Init /\ S!Init

Authenticating == Next /\ UNCHANGED signerVars

\* SigningContext::signer(token), and one of its calls.
Signing ==
  /\ \E f \in Flow, j \in Job : stage[f] = "done" /\ S!Sign(j, TokenOf(f))
  /\ UNCHANGED oauthVars

Other == (S!Tick \/ S!Configuring \/ S!Calling) /\ UNCHANGED oauthVars

SessionNext == Authenticating \/ Signing \/ Other

SessionSpec == SessionInit /\ [][SessionNext]_vars

-----------------------------------------------------------------------------
\* verify of bundle b for artifact a, all its steps at one time.
Accepts(b, a, at) ==
  LET time == V(b, a, at, 0)!ValidationTime
  IN /\ V(b, a, at, 0)!ValidateBundle(b, TRUE)
     /\ V(b, a, at, 0)!TimeDetermined
     /\ V(b, a, at, time)!CertificateChains
     /\ V(b, a, at, time)!SctVerifies
     /\ V(b, a, at, time)!PolicyHolds
     /\ V(b, a, at, time)!LogEntriesVerify
     /\ V(b, a, at, time)!SignatureVerifies
     /\ V(b, a, at, time)!TlogConsistent

\* What the caller would have verified.
Artifacts(j) == IF j.kind = "statement" THEN j.content.subjects ELSE {j.content}

\* The window of a certificate or of an instance of the root.
Within(window, t) ==
  /\ window.start = Unset \/ window.start <= t
  /\ window.end = Unset \/ t <= window.end

\* The times that somebody vouches for in the bundle.
Attested ==
  {s.info.time : s \in {bundle.stamps[i] : i \in DOMAIN bundle.stamps}}
    \cup ({bundle.entries[1].integrated} \ {0})

\* The log answered with the entry of this signature, there is a time for it,
\* and no time is outside the certificate.
Timely ==
  /\ bundle.entries[1].body.sigs[1].sig = bundle.content.sigs[1]
  /\ Attested # {}
  /\ \A t \in Attested : Within(cert.window, t)

\* Each service is one of the instance that the verifier trusts, at the time
\* that it speaks of.
Trusted ==
  LET e == bundle.entries[1]
  IN /\ \E i \in DOMAIN Root.cas :
          /\ Within(Root.cas[i].window, cert.window.start)
          /\ \E k \in DOMAIN Root.cas[i].certs : Root.cas[i].certs[k].key = cert.by
     /\ \E i \in DOMAIN Root.tlogs :
          /\ Root.tlogs[i].id = e.id
          /\ \A t \in Attested : Within(Root.tlogs[i].window, t)
     /\ \A k \in DOMAIN bundle.stamps : \E i \in DOMAIN Root.tsas :
          /\ Root.tsas[i].leaf.key = bundle.stamps[k].signer
          /\ Within(Root.tsas[i].window, bundle.stamps[k].info.time)

\* The root is a file with lists.
ASSUME RootAssumption ==
  /\ Skew \in Nat
  /\ S!IsSequence(Root.tlogs) /\ S!IsSequence(Root.cas) /\ S!IsSequence(Root.tsas)
  /\ \A i \in DOMAIN Root.cas : S!IsSequence(Root.cas[i].certs)
  /\ \A instances \in {Root.tlogs, Root.cas, Root.ctlogs, Root.tsas} :
       \A i \in DOMAIN instances : instances[i].window.start \in Nat \cup {Unset}

\* What the root says of a service that it names is so: an authority's name and
\* key are its own and its certificates are logged where the root says, a log's ID
\* is that of its key, and the timestamp authority stamps with the certificate that
\* is in the root while that is valid.
ASSUME TrustAssumption ==
  \A t \in S!Time :
    /\ \A url \in DOMAIN Fulcio : \A i \in DOMAIN Root.cas : \A k \in DOMAIN Root.cas[i].certs :
         LET ca == Fulcio[url][t]
             c == Root.cas[i].certs[k]
         IN /\ c.subject = ca.subject <=> c.key = ca.key
            /\ c.key = ca.key =>
                 \E j \in DOMAIN Root.ctlogs :
                   Root.ctlogs[j].key = ca.ctlog /\ Within(Root.ctlogs[j].window, t)
    /\ \A url \in DOMAIN Rekor : \A i \in DOMAIN Root.tlogs :
         Root.tlogs[i].id = Rekor[url][t].id => Root.tlogs[i].key = Rekor[url][t].key
    /\ \A url \in DOMAIN Tsa : \A i \in DOMAIN Root.tsas :
         LET tsa == Tsa[url][t]
             leaf == Root.tsas[i].leaf
         IN leaf.id = tsa.key \/ leaf.key = tsa.key =>
              /\ leaf = S!TsaCertificate(tsa) /\ Root.tsas[i].root = tsa.root
              /\ Within(leaf.window, t)

\* An honest proof for the last entry, with a signed checkpoint (external).
HonestProof(entries, service) ==
  LET bodies == [i \in DOMAIN entries |-> entries[i].body]
      size == Len(entries)
      text == [size |-> size, root |-> M!MTH(bodies)]
  IN [index |-> size - 1, size |-> size, hashes |-> M!Path(bodies, size - 1, size),
      root |-> M!MTH(bodies),
      note |-> [text |-> text,
                sigs |-> <<[hint |-> service.id, by |-> service.key, over |-> text]>>]]

-----------------------------------------------------------------------------
(* Properties.                                                             *)

SessionTypeOK == TypeOK /\ S!TypeOK

LogIsAccountable == S!LogIsAccountable
BestEndpoint == S!BestEndpoint

\* What sign returns is accepted, then and later, for everything it signed, in
\* whatever format and by whatever version of the log: kind and version of the
\* entry, what was logged, stamped and signed, and what went into the bundle fit
\* together, if the services answered in time (sign.rs; builder.rs; verify.rs).
ReturnedVerifies ==
  step = "returned" /\ Timely /\ Trusted =>
    \A a \in Artifacts(job) : Accepts(bundle, a, clock)

\* And nothing else that it returns is accepted: the signer does not look at the
\* answers of the services, so a certificate that expired between two steps, the
\* entry of another call, or a log without times and no timestamp authority
\* give a bundle all the same, which nobody can verify (sign.rs sign).
AcceptedWasTimely ==
  step = "returned" /\ ~Timely => ~\E a \in Artifacts(job) : Accepts(bundle, a, clock)
=============================================================================
