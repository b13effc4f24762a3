------------------------------- MODULE Signer -------------------------------
(***************************************************************************)
(* A SigningContext and its Signer (sigstore-sign/src/sign.rs): endpoints   *)
(* are taken from a signing configuration (signing_config.rs) once, and     *)
(* used by every later call of sign, sign_attestation and                   *)
(* sign_raw_statement.  A call asks the certificate authority, the log and  *)
(* the timestamp authority one after the other, with a key of its own, and  *)
(* builds a v0.3 bundle (sigstore-bundle/src/builder.rs) of what they       *)
(* answered, without looking at it.                                         *)
(*                                                                         *)
(* Time passes between any two steps.  Each service may fail, or do what it *)
(* was asked for and its answer is lost, and the log may answer with an     *)
(* entry of its own choice.  Bundles and their parts are those of Verifier. *)
(***************************************************************************)
EXTENDS Naturals, Sequences, FiniteSets

CONSTANTS
  TufConfig,    \* signing configurations, [cas, rekors, tsas] of endpoints
  DefaultUrl,   \* DefaultUrl[v]: RekorApiVersion::default_url
  Default,      \* SigningConfig::default
  Job,          \* what a caller wants signed: [kind, content], the content of
                \* an attestation its subjects
  Token,        \* identity tokens, [identity, expiration]
  Fulcio,       \* Fulcio[url][t]: who answers there at time t (external),
  Rekor,        \*   [subject, key, ctlog], [id, key, version]
  Tsa,          \*   and [key, root, window]
  InLog,        \* InLog[id]: what the log held before
  Prove(_, _),  \* Prove(entries, service): its proof for the last of them
  Lifetime,     \* of a certificate
  MaxTime,      \* bound: the clock stops there
  MaxAttempts,  \* bound: attempts at signing
  Unset         \* an optional field that is not there

Time == 0 .. MaxTime

VARIABLES
  clock,
  context,    \* the SigningConfig of the context: [fulcio, rekor, version, tsa]
  step,       \* where the current call is
  job,        \* what it signs
  bearer,     \* with whose token
  attempt,    \* its ephemeral key: calls are counted
  cert,       \* its certificate
  entry,      \* its log entry as it goes into the bundle
  bundle,     \* what it returned
  log         \* log[id]: the entries of the log, [body, time]

call == <<job, bearer, attempt, cert, entry, bundle>>
signerVars == <<clock, context, step, job, bearer, attempt, cert, entry, bundle, log>>

IsSequence(s) == s \in Seq({s[i] : i \in DOMAIN s})

-----------------------------------------------------------------------------
(* Selection of endpoints, [url, version, start, end].                      *)

\* Half open: an endpoint that ends when another starts is not both.
IsValid(e, now) == e.start <= now /\ (e.end = Unset \/ now < e.end)

\* The places, in the list of a service, of its endpoints that may be used.
OfVersion(endpoints, versions, now) ==
  {i \in DOMAIN endpoints : IsValid(endpoints[i], now) /\ endpoints[i].version \in versions}

Minimum(Places) == CHOOSE i \in Places : \A j \in Places : i <= j

SupportedRekor == {1, 2}

GetRekorUrls(tuf, force, now) ==
  OfVersion(tuf.rekors, IF force = Unset THEN SupportedRekor ELSE SupportedRekor \cap {force}, now)

\* Mutant: the endpoints are left in the order of the file.
GetRekorUrlUnsorted(tuf, force, now) == tuf.rekors[Minimum(GetRekorUrls(tuf, force, now))]

\* Sorted by version, highest first, otherwise in the order of the file: the first.
GetRekorUrl(tuf, force, now) ==
  LET found == GetRekorUrls(tuf, force, now)
      newest == {i \in found : \A j \in found : tuf.rekors[j].version <= tuf.rekors[i].version}
  IN tuf.rekors[Minimum(newest)]

GetFulcioUrls(tuf, now) == OfVersion(tuf.cas, {1}, now)
GetTsaUrls(tuf, now) == OfVersion(tuf.tsas, {1}, now)

FromTufConfig(tuf, force, now) ==
  [fulcio |-> tuf.cas[Minimum(GetFulcioUrls(tuf, now))].url,
   rekor |-> GetRekorUrl(tuf, force, now).url,
   version |-> IF GetRekorUrl(tuf, force, now).version = 2 THEN 2 ELSE 1,
   tsa |-> IF GetTsaUrls(tuf, now) = {} THEN Unset
           ELSE tuf.tsas[Minimum(GetTsaUrls(tuf, now))].url]

-----------------------------------------------------------------------------
Idle == step \in {"idle", "returned", "failed"}

Init ==
  /\ clock = 0
  /\ context = Unset
  /\ step = "idle"
  /\ job = Unset /\ bearer = Unset /\ attempt = 0
  /\ cert = Unset /\ entry = Unset /\ bundle = Unset
  /\ log = InLog

Tick ==
  /\ clock < MaxTime
  /\ clock' = clock + 1
  /\ UNCHANGED <<context, step, call, log>>

\* The context is an error without a Fulcio or a Rekor endpoint.
Configure ==
  /\ Idle
  /\ \E tuf \in TufConfig, force \in {Unset, 1, 2} :
       /\ GetFulcioUrls(tuf, clock) # {}
       /\ GetRekorUrls(tuf, force, clock) # {}
       /\ context' = FromTufConfig(tuf, force, clock)
  /\ UNCHANGED <<clock, step, call, log>>

UseDefault ==
  /\ Idle
  /\ context' = Default
  /\ UNCHANGED <<clock, step, call, log>>

\* with_rekor_version: the URL is that of the public instance, whatever the context.
WithRekorVersion ==
  /\ Idle /\ context # Unset
  /\ \E v \in SupportedRekor :
       context' = [context EXCEPT !.version = v, !.rekor = DefaultUrl[v]]
  /\ UNCHANGED <<clock, step, call, log>>

Configuring == Configure \/ UseDefault \/ WithRekorVersion

-----------------------------------------------------------------------------
(* One call.                                                               *)

\* Mutant: the key is generated when the signer is made.
KeyOfContext(n) == 1

Key(n) == n

\* An attestation is signed as the statement that is built of it.
BuildStatement(subjects) == [statement |-> TRUE, subjects |-> subjects]

AsSigned(j) ==
  IF j.kind = "attestation" THEN [kind |-> "statement", content |-> BuildStatement(j.content)]
  ELSE j

ForEnvelope == job.kind = "statement"

\* A digest alone cannot be signed.
Sign(j, t) ==
  /\ Idle /\ context # Unset
  /\ attempt < MaxAttempts
  /\ job' = AsSigned(j) /\ bearer' = t
  /\ attempt' = attempt + 1
  /\ cert' = Unset /\ entry' = Unset /\ bundle' = Unset
  /\ step' = IF j.kind = "digest" THEN "failed" ELSE "certificate"
  /\ UNCHANGED <<clock, context, log>>

Fail ==
  /\ step' = "failed"
  /\ UNCHANGED <<clock, context, call, log>>

IsStatement(j) == j.kind = "statement" => j.content.statement

\* CreateSigningCertificateRequest: the key signs the identity of the token.
CertificateRequest ==
  [token |-> bearer, publicKey |-> Key(attempt),
   proofOfPossession |-> [key |-> Key(attempt), over |-> bearer.identity]]

\* An honest authority issues nothing for a token that has expired, nor for a key
\* that the caller does not have (external).
Issues(request) ==
  /\ clock <= request.token.expiration
  /\ request.proofOfPossession = [key |-> request.publicKey, over |-> request.token.identity]

Issue(ca, request) ==
  [key |-> request.publicKey, issuer |-> ca.subject, by |-> ca.key,
   window |-> [start |-> clock, end |-> clock + Lifetime], codeSigning |-> TRUE,
   identity |-> request.token.identity, oidcIssuer |-> "oidc",
   scts |-> <<[by |-> ca.ctlog, issuerKey |-> ca.key]>>]

\* Only then is a statement looked at.
RequestCertificate ==
  /\ step = "certificate"
  /\ Issues(CertificateRequest)
  /\ cert' = Issue(Fulcio[context.fulcio][clock], CertificateRequest)
  /\ step' = IF IsStatement(job) THEN "entry" ELSE "failed"
  /\ UNCHANGED <<clock, context, job, bearer, attempt, entry, bundle, log>>

\* What is signed: the artifact, or the statement with its type.
InTotoPayloadType == "application/vnd.in-toto+json"
Pae(payload) == [type |-> InTotoPayloadType, payload |-> payload]

Signable == IF ForEnvelope THEN Pae(job.content) ELSE job.content

Signature == [key |-> Key(attempt), over |-> Signable, nonce |-> attempt]

\* The entries that a log is asked to make, with the certificate.
Proposed(kind, version, over) ==
  [kind |-> kind, version |-> version, over |-> over,
   sigs |-> <<[sig |-> Signature, cert |-> cert]>>]

\* Mutant: version 2 is given an envelope by the digest of the payload.
HashedRekordV2OfPayload == Proposed("hashedrekord", "0.0.2", job.content)

\* Of the envelope the log keeps the digest of the payload.
DsseEntry == Proposed("dsse", "0.0.1", job.content)
HashedRekord == Proposed("hashedrekord", "0.0.1", Signable)
HashedRekordV2 == Proposed("hashedrekord", "0.0.2", Signable)

\* Version 2 is given an envelope by the digest of what was signed.
Body ==
  IF context.version = 2 THEN HashedRekordV2
  ELSE IF ForEnvelope THEN DsseEntry ELSE HashedRekord

\* What the bundle will say that was logged.
EntryKind ==
  [kind |-> IF ForEnvelope /\ context.version = 1 THEN "dsse" ELSE "hashedrekord",
   version |-> IF context.version = 1 THEN "0.0.1" ELSE "0.0.2"]

Service == Rekor[context.rekor][clock]

\* The answer of a log of version 1 has a time and a promise,
LogEntryV1(entries) ==
  LET last == entries[Len(entries)]
  IN [id |-> Service.id, integrated |-> last.time, body |-> last.body,
      promise |-> [by |-> Service.key, id |-> Service.id, integrated |-> last.time,
                   body |-> last.body],
      proof |-> Prove(entries, Service)]

\* that of version 2 neither: the time becomes 0.
LogEntryV2(entries) ==
  [id |-> Service.id, integrated |-> 0, body |-> entries[Len(entries)].body,
   promise |-> Unset, proof |-> Prove(entries, Service)]

LogEntry(entries) == IF context.version = 1 THEN LogEntryV1(entries) ELSE LogEntryV2(entries)

\* Kind and version are ours, the rest is what the log answered.
FromLogEntry(answer) ==
  [kind |-> EntryKind.kind, version |-> EntryKind.version, id |-> answer.id,
   integrated |-> answer.integrated, body |-> answer.body,
   promise |-> answer.promise, proof |-> answer.proof]

Content ==
  [kind |-> IF ForEnvelope THEN "dsse" ELSE "message",
   type |-> IF ForEnvelope THEN InTotoPayloadType ELSE Unset,
   over |-> job.content, sigs |-> <<Signature>>]

\* Mutant: the certificate goes in as a chain, with what issued it.
IntoBundleOfChain(e, stamps) ==
  [version |-> "0.3", material |-> [kind |-> "chain", certs |-> <<cert, cert>>],
   content |-> Content, entries |-> <<e>>, stamps |-> stamps]

\* BundleV03: exactly one entry, and a timestamp or none.
IntoBundle(e, stamps) ==
  [version |-> "0.3", material |-> [kind |-> "certificate", certs |-> <<cert>>],
   content |-> Content, entries |-> <<e>>, stamps |-> stamps]

\* A log of the other version does not know the path of the request.
Reachable == Service.version = context.version

LogBody == log' = [log EXCEPT ![Service.id] = Append(@, [body |-> Body, time |-> clock])]

\* The answer is for the entry just made or for the one before.  Without a
\* timestamp authority the call is over with it.
CreateEntry ==
  /\ step = "entry"
  /\ Reachable
  /\ LogBody
  /\ \E entries \in {log[Service.id], log'[Service.id]} :
       /\ entries # <<>>
       /\ entry' = FromLogEntry(LogEntry(entries))
  /\ IF context.tsa = Unset
     THEN step' = "returned" /\ bundle' = IntoBundle(entry', <<>>)
     ELSE step' = "stamp" /\ UNCHANGED bundle
  /\ UNCHANGED <<clock, context, job, bearer, attempt, cert>>

\* The entry is made, but the answer does not arrive.
EntryLost ==
  /\ step = "entry"
  /\ Reachable
  /\ LogBody
  /\ step' = "failed"
  /\ UNCHANGED <<clock, context, call>>

Stamped == Signature

TsaCertificate(tsa) ==
  [id |-> tsa.key, key |-> tsa.key, root |-> tsa.root, timeStamping |-> TRUE,
   window |-> tsa.window]

\* A token of an honest authority, with its certificate (external).
Timestamp(tsa) ==
  [granted |-> TRUE, info |-> [over |-> Stamped, time |-> clock],
   attrs |-> [over |-> Stamped, time |-> clock],
   signature |-> [key |-> tsa.key, over |-> [over |-> Stamped, time |-> clock]],
   signer |-> tsa.key,
   certs |-> <<TsaCertificate(tsa)>>]

RequestTimestamp ==
  /\ step = "stamp"
  /\ bundle' = IntoBundle(entry, <<Timestamp(Tsa[context.tsa][clock])>>)
  /\ step' = "returned"
  /\ UNCHANGED <<clock, context, job, bearer, attempt, cert, entry, log>>

\* No answer, an error, or one that does not parse or has another nonce.
ServiceFails ==
  /\ step \in {"certificate", "entry", "stamp"}
  /\ Fail

Calling ==
  \/ RequestCertificate \/ CreateEntry \/ EntryLost \/ RequestTimestamp
  \/ ServiceFails

Next ==
  \/ Tick \/ Configuring \/ Calling
  \/ \E j \in Job, t \in Token : Sign(j, t)

Spec == Init /\ [][Next]_signerVars

-----------------------------------------------------------------------------
IsContext(c) ==
  /\ c = [fulcio |-> c.fulcio, rekor |-> c.rekor, version |-> c.version, tsa |-> c.tsa]
  /\ c.version \in SupportedRekor

\* What a call has is what the steps it has taken gave it.
TypeOK ==
  /\ clock \in Time
  /\ context # Unset => IsContext(context)
  /\ step \in {"idle", "certificate", "entry", "stamp", "returned", "failed"}
  /\ attempt \in 0 .. MaxAttempts
  /\ step \in {"certificate", "entry", "stamp"} =>
       context # Unset /\ job \in {AsSigned(j) : j \in Job} /\ job.kind # "digest"
  /\ step \in {"entry", "stamp"} => IsStatement(job)
  /\ step \in {"entry", "stamp", "returned"} => cert.key = Key(attempt)
  /\ step # "returned" => bundle = Unset
  /\ step = "returned" => bundle.entries = <<entry>> /\ bundle.material.certs = <<cert>>

\* Where the entries of this signer are.
Made == UNION {{<<id, n>> : n \in Len(InLog[id]) + 1 .. Len(log[id])} : id \in DOMAIN log}

\* Every entry that the signer made is accounted for: no two of them, in whatever
\* log, are by one key, so that a call that is tried again never logs under an
\* earlier certificate, and an envelope in a log is always a statement, although
\* the bytes are looked at only after the certificate was issued (sign.rs
\* generate_ephemeral_keypair, sign_raw_statement).
LogIsAccountable ==
  LET body == [m \in Made |-> log[m[1]][m[2]].body]
  IN /\ \A m, n \in Made : m # n => body[m].sigs[1].sig.key # body[n].sigs[1].sig.key
     /\ \A m \in Made, j \in Job :
          j.kind = "statement" /\ body[m].sigs[1].sig.over = Pae(j.content)
            => j.content.statement

\* The endpoint that a configuration is used with: it is valid then, and no valid
\* one of a supported version is of a higher version ("preferring higher API
\* versions when available", sign.rs from_tuf_config).
BestEndpoint ==
  \A tuf \in TufConfig :
    LET best == GetRekorUrl(tuf, Unset, clock)
        usable == {e \in {tuf.rekors[i] : i \in DOMAIN tuf.rekors} :
                     /\ e.start <= clock /\ (e.end = Unset \/ clock < e.end)
                     /\ e.version \in SupportedRekor}
    IN usable # {} => best \in usable /\ \A e \in usable : e.version <= best.version
==============================================================================
