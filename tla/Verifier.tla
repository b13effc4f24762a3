------------------------------ MODULE Verifier ------------------------------
(***************************************************************************)
(* Verification of a bundle: Verifier::verify and verify_with_key of       *)
(* sigstore-verify, with the structural validation of sigstore-bundle.     *)
(*                                                                         *)
(* One action per numbered step of verify.  Each reads the clock anew, as  *)
(* the selections from the trusted root do; a step that fails is the       *)
(* early return.  After an acceptance the same request may be verified     *)
(* once more, later.                                                       *)
(*                                                                         *)
(* A bundle is [version, material, content, entries, stamps]:              *)
(*   material  [kind, certs]: "certificate", "chain" or "publicKey"        *)
(*   content   [kind, type, over, sigs]: "message" or "dsse".  over is the *)
(*             message digest (Unset if absent) or the envelope's payload, *)
(*             [statement, subjects]; type is that of the payload          *)
(*   entries   sequence of [kind, version, id, integrated, body, promise,  *)
(*             proof], the last two Unset if absent; integrated 0 is none  *)
(*   stamps    sequence of [granted, info, attrs, signature, signer,       *)
(*             certs]: info [over, time] is the TSTInfo, or Unset, attrs     *)
(*             what the signed attributes are the digest of, or Unset, and   *)
(*             the signature [key, over] is over them; signer names a        *)
(*             certificate [id, key, root, timeStamping, window], which may  *)
(*             be among certs; root is the root that its chain ends in       *)
(* A proof is [index, size, hashes, root, note], and its note [text, sigs]   *)
(* a checkpoint, with text [size, root] and sigs a sequence of [hint, by,    *)
(* over].  A signature is [key, over, nonce] and verifies under that key     *)
(* for that text only; a body is [kind, version, over, sigs], with sigs a    *)
(* sequence of [sig, cert]; a certificate is [key, issuer, by, window,       *)
(* codeSigning, identity, oidcIssuer, scts].  Digests stand for what they    *)
(* digest.                                                                 *)
(***************************************************************************)
EXTENDS TrustedRoot, Merkle

CONSTANTS
  Root,       \* the trusted root of the Verifier
  Request,    \* [bundle, artifact, policy, signed]: verify_with_key if
              \* policy.key # Unset; signed is the time of the signing that is
              \* presented unchanged and checked rightly, Unset if none is
  Signing,    \* what really happened: [artifacts, sig, cert, time, bodies]
  MinTime,    \* the earliest and
  MaxTime     \* the latest reading of the clock

VARIABLES
  request,
  pc,         \* the next step, or how the last verification ended
  now,
  began,      \* the clock when the current verification began
  time,       \* validation_time; 0 before it is determined
  before      \* how an earlier verification of the same request ended

vars == <<request, pc, now, began, time, before>>

bundle == request.bundle
artifact == request.artifact
policy == request.policy

ByKey == policy.key # Unset

Init ==
  /\ request \in Request
  /\ pc = "structure"
  /\ now \in MinTime .. MaxTime
  /\ began = now
  /\ time = 0
  /\ before = "none"

-----------------------------------------------------------------------------
(* Structural validation.                                                  *)

Elements(s) == {s[i] : i \in DOMAIN s}

HasInclusionPromise(b) == \E e \in Elements(b.entries) : e.promise # Unset
HasInclusionProof(b) == \E e \in Elements(b.entries) : e.proof # Unset

\* A checkpoint has a signature at least; its other lines are its text.
FromText(note) == note.sigs # <<>>

\* The sizes of the proof and of its checkpoint are not compared.
ProofWellFormed(proof) ==
  /\ FromText(proof.note)
  /\ proof.index < proof.size
  /\ proof.note.text.root = proof.root

ValidateBundle(b, requireProof) ==
  /\ b.version = "0.1" => HasInclusionPromise(b)
  /\ b.version # "0.1" /\ requireProof => HasInclusionProof(b)
  /\ b.version = "0.3" => b.material.kind # "chain"
  /\ \A e \in Elements(b.entries) : e.proof # Unset => ProofWellFormed(e.proof)
  /\ b.entries = <<>> => ~requireProof /\ b.stamps # <<>>

-----------------------------------------------------------------------------
(* Step 0: a time for the signature.                                       *)

Cert == bundle.material.certs[1]
HasCert == bundle.material.kind # "publicKey" /\ bundle.material.certs # <<>>

\* Those in the token come before those of the root; the first one is taken.
SignerCertificates(stamp) ==
  LET own == WithId(stamp.certs, stamp.signer)
  IN IF DOMAIN own # {} THEN own ELSE WithId(TsaLeafCerts(Root, now), stamp.signer)

TsaCertificateChains(cert, at) ==
  /\ cert.root \in Elements(TsaRootCerts(Root, now))
  /\ cert.timeStamping
  /\ Covers(cert.window, at)

\* A response that grants a token, or a token alone.
ParseTimestampToken(stamp) == stamp.granted /\ stamp.info # Unset

\* What is signed is not the TSTInfo but attributes that have its digest.
VerifyMessageDigest(stamp) == stamp.attrs # Unset /\ stamp.attrs = stamp.info

VerifyCmsSignature(stamp, cert) ==
  /\ VerifyMessageDigest(stamp)
  /\ stamp.signature = [key |-> cert.key, over |-> stamp.attrs]

VerifyTimestampResponse(stamp, sig) ==
  /\ ParseTimestampToken(stamp)
  /\ stamp.info.over = sig
  /\ DOMAIN SignerCertificates(stamp) # {}
  /\ VerifyCmsSignature(stamp, First(SignerCertificates(stamp)))
  /\ TsaCertificateChains(First(SignerCertificates(stamp)), stamp.info.time)

TimestampVerifies(stamp, sig) ==
  /\ VerifyTimestampResponse(stamp, sig)
  /\ IsTimestampWithinTsaValidity(Root, stamp.info.time)

\* Mutant: an entry without a time counts as well.
V1IntegratedTimesOrZero ==
  {e.integrated : e \in {x \in Elements(bundle.entries) :
                           x.version = "0.0.1" /\ x.promise # Unset}}

\* The times of the entries that may set a time: of Rekor v1, with a promise.
V1IntegratedTimes ==
  {e.integrated : e \in {x \in Elements(bundle.entries) :
                           /\ x.version = "0.0.1"
                           /\ x.kind \in {"hashedrekord", "dsse"}
                           /\ x.promise # Unset
                           /\ x.integrated > 0}}

\* Mutant: the certificate is checked as of today.
ValidationTimeNow == now

ValidationTime ==
  IF bundle.stamps # <<>>
  THEN Minimum({s.info.time : s \in Elements(bundle.stamps)})
  ELSE Minimum(V1IntegratedTimes)

TimeDetermined ==
  /\ HasCert
  /\ bundle.content.sigs # <<>>
  /\ IF bundle.stamps # <<>>
     THEN \A s \in Elements(bundle.stamps) :
             TimestampVerifies(s, bundle.content.sigs[1])
     ELSE V1IntegratedTimes # {}

-----------------------------------------------------------------------------
(* Policies.  The builder's skip_timestamp sets a flag that nothing reads.   *)

DefaultPolicy(seconds) ==
  [key |-> Unset, identity |-> Unset, issuer |-> Unset,
   tlog |-> TRUE, cert |-> TRUE, sct |-> TRUE, skew |-> seconds]

RequireIdentity(p, identity) == [p EXCEPT !.identity = identity]
RequireIssuer(p, issuer) == [p EXCEPT !.issuer = issuer]
SkipTlog(p) == [p EXCEPT !.tlog = FALSE]
SkipSct(p) == [p EXCEPT !.sct = FALSE]
SkipCertificateChain(p) == [p EXCEPT !.cert = FALSE, !.sct = FALSE]

-----------------------------------------------------------------------------
(* Steps 1 to 3: certificate, SCT, policy.                                 *)

Anchored(cert) == \E ca \in Elements(FulcioCerts(Root, now)) :
                     ca.subject = cert.issuer /\ ca.key = cert.by

\* Directly below an anchor, or below one of the bundle's own intermediates.
CertificateChains ==
  /\ Covers(Cert.window, time)
  /\ Cert.codeSigning
  /\ \/ Anchored(Cert)
     \/ \E ca \in Elements(Tail(bundle.material.certs)) :
           /\ ca.subject = Cert.issuer /\ ca.key = Cert.by
           /\ Covers(ca.window, time)
           /\ Anchored(ca)

\* The authorities that have the name of the issuer; the first one is taken.
Issuers ==
  LET all == FulcioCerts(Root, now)
  IN [p \in {q \in DOMAIN all : all[q].subject = Cert.issuer} |-> all[p]]

IssuerKnown == bundle.material.kind = "chain" /\ Len(bundle.material.certs) > 1

IssuerKey == IF IssuerKnown THEN bundle.material.certs[2].key ELSE FirstCert(Issuers).key

\* A log is found by the digest of its key; what it signed names the issuer's.
SignedByCtLog(sct, issuerKey) ==
  /\ \E log \in Elements(CtfeKeys(Root, now)) : log.key = sct.by
  /\ sct.issuerKey = issuerKey

SctVerifies ==
  /\ IssuerKnown \/ DOMAIN Issuers # {}
  /\ Len(Cert.scts) = 1
  /\ SignedByCtLog(Cert.scts[1], IssuerKey)

PolicyHolds ==
  /\ policy.identity # Unset => Cert.identity = policy.identity
  /\ policy.issuer # Unset => Cert.oidcIssuer = policy.issuer

-----------------------------------------------------------------------------
(* Steps 4 to 6: the log.                                                  *)

\* Mutant: a signed checkpoint is enough.
VerifyMerkleInclusionNever(e) == TRUE

VerifyMerkleInclusion(e) ==
  VerifyInclusion(HashLeaf(e.body), e.proof.index, e.proof.size,
                  e.proof.hashes, e.proof.root)

NoteVerifies(signature, key, note) == signature.by = key /\ signature.over = note.text

KnownSignatures(note) ==
  [i \in {j \in DOMAIN note.sigs : DOMAIN WithId(RekorKeys(Root, now), note.sigs[j].hint) # {}}
     |-> note.sigs[i]]

\* The first signature of the note whose hint is that of a usable key decides.
VerifyCheckpoint(e) ==
  LET known == KnownSignatures(e.proof.note)
  IN /\ FromText(e.proof.note)
     /\ e.proof.note.text.root = e.proof.root
     /\ DOMAIN known # {}
     /\ NoteVerifies(First(known), First(WithId(RekorKeys(Root, now), First(known).hint)).key,
                     e.proof.note)

LogKeys(e) == IF e.integrated > 0 THEN RekorKeyForLogAt(Root, e.id, e.integrated)
                                  ELSE RekorKeyForLog(Root, e.id, now)

VerifySet(e) ==
  /\ DOMAIN LogKeys(e) # {}
  /\ e.promise = [by |-> First(LogKeys(e)).key, id |-> e.id,
                  integrated |-> e.integrated, body |-> e.body]

VerifyEntryInclusion(e) ==
  /\ e.proof # Unset => VerifyMerkleInclusion(e) /\ VerifyCheckpoint(e)
  /\ e.promise # Unset => VerifySet(e)

IntegratedTimeHolds(e) ==
  e.integrated > 0 =>
    /\ e.integrated <= now + policy.skew
    /\ Covers(Cert.window, e.integrated)

LogEntriesVerify ==
  \A e \in Elements(bundle.entries) :
     VerifyEntryInclusion(e) /\ (ByKey \/ IntegratedTimeHolds(e))

-----------------------------------------------------------------------------
(* Step 7: the signature over the artifact.                                *)

VerifyingKey == IF ByKey THEN policy.key ELSE Cert.key

Verifies(sig, over) == sig.key = VerifyingKey /\ sig.over = over

\* What is signed of an envelope: the payload with its type.
Pae(content) == [type |-> content.type, payload |-> content.over]

InTotoPayloadType == "application/vnd.in-toto+json"

MatchesSha256(payload) == artifact \in payload.subjects

PayloadBindsArtifact(content) ==
  /\ content.type = InTotoPayloadType
  /\ content.over.statement
  /\ content.over.subjects # {}
  /\ MatchesSha256(content.over)

SignatureVerifies ==
  IF bundle.content.kind = "dsse"
  THEN /\ \E s \in Elements(bundle.content.sigs) : Verifies(s, Pae(bundle.content))
       /\ PayloadBindsArtifact(bundle.content)
  ELSE /\ bundle.content.over \in {Unset, artifact}
       /\ Verifies(bundle.content.sigs[1], artifact)

-----------------------------------------------------------------------------
(* Step 8: the log entries against everything else.                        *)

\* The body has the type that the entry declares, or it does not parse: as an
\* entry of another type it lacks a field.
FromBase64Json(e) ==
  /\ <<e.kind, e.version>> \in
       {"hashedrekord", "dsse"} \X {"0.0.1", "0.0.2"} \cup {<<"intoto", "0.0.2">>}
  /\ e.body.kind = e.kind /\ e.body.version = e.version

\* Bodies of kind hashedrekord have the digest of the artifact or, for an
\* envelope, of what is signed of it; the other two only that of the payload.

\* The certificate of a v0.0.1 body must be there, that of v0.0.2 may not be.
CertificateMatches(e) ==
  HasCert => \/ e.body.sigs[1].cert = Cert
             \/ e.version = "0.0.2" /\ e.body.sigs[1].cert = Unset

\* For an envelope it is the first signature.
SignatureMatches(e) ==
  bundle.content.sigs # <<>> /\ bundle.content.sigs[1] = e.body.sigs[1].sig

IntegratedInTime(e) ==
  HasCert /\ e.version = "0.0.1" /\ e.integrated # 0
    => Covers(Cert.window, e.integrated)

VerifyHashedRekord(e) ==
  /\ FromBase64Json(e)
  /\ e.body.over = IF bundle.content.kind = "dsse" THEN Pae(bundle.content) ELSE artifact
  /\ CertificateMatches(e)
  /\ SignatureMatches(e)
  /\ IntegratedInTime(e)

VerifyDsseV001(e) ==
  /\ FromBase64Json(e)
  /\ e.body.over = bundle.content.over
  /\ Len(bundle.content.sigs) = Len(e.body.sigs)
  /\ \A s \in Elements(bundle.content.sigs) :
        \E r \in Elements(e.body.sigs) : r.sig = s /\ (HasCert => r.cert = Cert)

VerifyIntotoV002(e) ==
  /\ FromBase64Json(e)
  /\ e.body.over = bundle.content.over
  /\ \E r \in Elements(e.body.sigs) : r.sig \in Elements(bundle.content.sigs)

EntryConsistent(e) ==
  \/ /\ e.kind = "hashedrekord"
     /\ e.version = "0.0.1" => bundle.content.kind = "message"
     /\ e.version \in {"0.0.1", "0.0.2"}
     /\ VerifyHashedRekord(e)
  \/ /\ e.kind = "dsse" /\ e.version = "0.0.1" /\ bundle.content.kind = "dsse"
     /\ VerifyDsseV001(e)
  \/ /\ e.kind = "intoto" /\ e.version = "0.0.2" /\ bundle.content.kind = "dsse"
     /\ VerifyIntotoV002(e)

\* Mutant: one consistent entry is enough.
TlogConsistentSomewhere == \E e \in Elements(bundle.entries) : EntryConsistent(e)

\* Mutant: log entries are not compared with the bundle.
TlogConsistentUnchecked == TRUE

TlogConsistent == \A e \in Elements(bundle.entries) : EntryConsistent(e)

-----------------------------------------------------------------------------
(* The steps.                                                              *)

Step(name, holds, next) ==
  /\ pc = name
  /\ pc' = IF holds THEN next ELSE "rejected"
  /\ UNCHANGED <<request, now, began, before>>

Structure ==
  /\ Step("structure", ValidateBundle(bundle, ByKey \/ policy.tlog),
          IF ByKey THEN "log" ELSE "time")
  /\ UNCHANGED time

DetermineTime ==
  /\ Step("time", TimeDetermined, "chain")
  /\ time' = IF TimeDetermined THEN ValidationTime ELSE time

VerifyCertificateChain ==
  /\ Step("chain", policy.cert => CertificateChains, "sct")
  /\ UNCHANGED time

VerifySct ==
  /\ Step("sct", policy.sct => SctVerifies, "policy")
  /\ UNCHANGED time

CheckPolicy ==
  /\ Step("policy", PolicyHolds, "log")
  /\ UNCHANGED time

VerifyTlogEntries ==
  /\ Step("log", ByKey \/ policy.tlog => LogEntriesVerify, "signature")
  /\ UNCHANGED time

VerifySignature ==
  /\ Step("signature", SignatureVerifies, "consistency")
  /\ UNCHANGED time

VerifyTlogConsistency ==
  /\ Step("consistency", ByKey \/ policy.tlog => TlogConsistent, "accepted")
  /\ UNCHANGED time

VerifyAgain ==
  /\ pc = "accepted" /\ before = "none"
  /\ before' = pc
  /\ pc' = "structure"
  /\ began' = now
  /\ time' = 0
  /\ UNCHANGED <<request, now>>

Tick ==
  /\ now < MaxTime
  /\ pc # "rejected"
  /\ now' = now + 1
  /\ UNCHANGED <<request, pc, began, time, before>>

Next ==
  \/ Structure
  \/ DetermineTime
  \/ VerifyCertificateChain
  \/ VerifySct
  \/ CheckPolicy
  \/ VerifyTlogEntries
  \/ VerifySignature
  \/ VerifyTlogConsistency
  \/ VerifyAgain
  \/ Tick

Spec == Init /\ [][Next]_vars

-----------------------------------------------------------------------------
(* What the proofs rest on: the form of root and bundles, and that those    *)
(* whose signatures are verified sign only what they should.               *)

IsSequence(s) == s \in Seq(Elements(s))

Presented == {r.bundle : r \in Request}
Entries == UNION {Elements(b.entries) : b \in Presented}
Stamps == UNION {Elements(b.stamps) : b \in Presented}

\* Times are positive; an entry without one has 0.
ASSUME TimeAssumption ==
  /\ MinTime \in Nat /\ MaxTime \in Nat
  /\ \A e \in Entries : e.integrated \in 0 .. MaxTime
  /\ \A t \in Stamps : t.info # Unset => t.info.time \in 1 .. MaxTime
  /\ \A x \in UNION {Elements(Root.tlogs), Elements(Root.cas), Elements(Root.ctlogs),
                     Elements(Root.tsas)} :
       x.window.start \in Nat \cup {Unset}
  /\ \A r \in Request : r.policy.skew \in Nat

ASSUME FormAssumption ==
  /\ IsSequence(Root.tlogs) /\ IsSequence(Root.tsas) /\ IsSequence(Root.cas)
  /\ \A ca \in Elements(Root.cas) : IsSequence(ca.certs)
  /\ \A b \in Presented :
       /\ IsSequence(b.stamps) /\ IsSequence(b.content.sigs)
       /\ IsSequence(b.material.certs) /\ Unset \notin Elements(b.material.certs)
  /\ \A t \in Stamps : IsSequence(t.certs)
  /\ \A e \in Entries : e.proof # Unset => IsSequence(e.proof.note.sigs)

\* Instances that a lookup does not tell apart are listed in the order in which they
\* come into use; of the signatures of a checkpoint one is of a log, the others are
\* of witnesses.
NoLaterThan(v, w) == \A t \in MinTime .. MaxTime : HasStartedBy(w, t) => HasStartedBy(v, t)

ASSUME OrderAssumption ==
  /\ \A i, j \in DOMAIN Root.tlogs :
       i < j /\ Root.tlogs[i].id = Root.tlogs[j].id =>
         NoLaterThan(Root.tlogs[i].window, Root.tlogs[j].window)
  /\ \A i, j \in DOMAIN Root.tsas :
       i < j /\ Root.tsas[i].leaf.id = Root.tsas[j].leaf.id =>
         NoLaterThan(Root.tsas[i].window, Root.tsas[j].window)
  /\ \A i, j \in DOMAIN Root.cas :
       i < j /\ (\E x \in Elements(Root.cas[i].certs), y \in Elements(Root.cas[j].certs) :
                   x.subject = y.subject) =>
         NoLaterThan(Root.cas[i].window, Root.cas[j].window)
  /\ \A e \in Entries : e.proof # Unset =>
       \A g, h \in DOMAIN e.proof.note.sigs :
         {e.proof.note.sigs[g].hint, e.proof.note.sigs[h].hint}
            \subseteq {l.id : l \in Elements(Root.tlogs)} => g = h

\* A log promises and includes only what it logs: entries of signings.
ASSUME LogAssumption ==
  LET LogKey == {l.key : l \in Elements(Root.tlogs)}
  IN \A e \in Entries :
       /\ e.promise # Unset /\ e.promise.by \in LogKey =>
            \E s \in Signing : e.promise.body \in s.bodies /\ s.time = e.promise.integrated
       /\ e.proof # Unset =>
            \A g \in Elements(e.proof.note.sigs) :
              /\ g.by \in LogKey
              /\ g.over.root = e.proof.root
              /\ VerifyInclusion(HashLeaf(e.body), e.proof.index, e.proof.size,
                                 e.proof.hashes, e.proof.root)
              => \E s \in Signing : e.body \in s.bodies

\* An authority below a trusted root stamps a signature when it is made.
ASSUME TsaAssumption ==
  \A t \in Stamps : \A c \in Elements(t.certs) \cup {tsa.leaf : tsa \in Elements(Root.tsas)} :
    /\ c.root \in {tsa.root : tsa \in Elements(Root.tsas)}
    /\ t.attrs # Unset
    /\ t.signature = [key |-> c.key, over |-> t.attrs]
    => \E s \in Signing : s.sig = t.attrs.over /\ s.time = t.attrs.time

\* The body of an entry has the one signature, and its certificate unless it is
\* verified with a key; a version that need not name it does.
ASSUME BodyAssumption ==
  \A s \in Signing : \A body \in s.bodies :
    /\ body.sigs = <<[sig |-> s.sig, cert |-> body.sigs[1].cert]>>
    /\ body.sigs[1].cert \in {s.cert, Unset}
    /\ body.kind = "hashedrekord" /\ body.version = "0.0.2" => body.sigs[1].cert # Unset

\* Whoever signs an artifact, or a statement about it, signs for that artifact.
ASSUME SigningAssumption ==
  \A r \in Request : \A s \in Signing :
    LET content == r.bundle.content
    IN /\ content.sigs # <<>> /\ s.sig = content.sigs[1]
       /\ IF content.kind = "dsse"
          THEN s.sig.over = Pae(content) /\ r.artifact \in content.over.subjects
          ELSE s.sig.over = r.artifact
       => r.artifact \in s.artifacts

-----------------------------------------------------------------------------
Accepted == pc = "accepted"

\* What verify says about the log (verify_with_key always does).
AcceptedFromLog == Accepted /\ (ByKey \/ policy.tlog)

\* Types, and: whoever is past the establishment of a time has one.
TypeOK ==
  /\ pc \in {"structure", "time", "chain", "sct", "policy", "log", "signature",
             "consistency", "accepted", "rejected"}
  /\ now \in MinTime .. MaxTime /\ began \in MinTime .. now
  /\ time \in 0 .. MaxTime
  /\ pc \in {"chain", "sct", "policy"} => time > 0
  /\ before \in {"none", "accepted"}

\* What is accepted on the word of the log was logged as it stands: there is
\* one signing of this artifact, with this signature, under this key and, if
\* the entry is of a kind that is compared with it, this certificate, and the
\* log has an entry for it.  Signature, certificate, payload, log body, promise
\* and proof of different signings never pass together (verify.rs, steps 4, 5,
\* 7 and 8; the log and the timestamp speak of the first signature only, so
\* this is about envelopes with one).
AcceptedWasLogged ==
  AcceptedFromLog /\ Len(bundle.content.sigs) = 1 =>
    \E s \in Signing :
       /\ artifact \in s.artifacts
       /\ s.sig = bundle.content.sigs[1]
       /\ s.sig.key = VerifyingKey
       /\ \E e \in Elements(bundle.entries) :
             /\ e.body \in s.bodies
             /\ HasCert /\ e.kind # "intoto" => s.cert = Cert

\* The time at which the certificate was checked is a time at which a log or a
\* timestamp authority really saw the first signature, although step 0 takes it
\* from entries that only step 4 verifies and only step 8 ties to the signature
\* (helpers.rs, determine_validation_time).
TimeWasAttested ==
  AcceptedFromLog /\ ~ByKey =>
    /\ \E s \in Signing : s.sig = bundle.content.sigs[1] /\ s.time = time
    /\ policy.cert => Covers(Cert.window, time)

\* A signing is accepted in every bundle form it is written in, also after the
\* keys it was made with were rotated (trusted_root.rs: expired instances are
\* kept to verify what was made while they were valid).
GenuineIsAccepted ==
  request.signed # Unset /\ began >= request.signed => pc # "rejected"

\* What was accepted once is accepted ever after: the passing of time alone
\* takes nothing back (trusted_root.rs, usable_for_verification).
AcceptedStaysAccepted == before = "accepted" => pc # "rejected"
=============================================================================
