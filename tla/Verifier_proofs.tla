--------------------------- MODULE Verifier_proofs ---------------------------
(***************************************************************************)
(* Proofs about Verifier, for any trusted root, bundles and readings of the *)
(* clock that satisfy the assumptions at the end of Verifier: every state   *)
(* is well typed, what is accepted on the word of the log was logged as it  *)
(* stands, the time of verification was attested, what is accepted is       *)
(* accepted again at any later time, and what is genuine is accepted.       *)
(*                                                                         *)
(* The verifications of the single parts give what the part's signer stands *)
(* for: a promise and an included leaf are of a signing (PromiseIsKept,     *)
(* IncludedIsLogged), a timestamp is (StampIsTrue).  Each says something    *)
(* of the request only, or of it and the time taken, so once a step has     *)
(* passed, it holds until the end however far the clock moves: IInv says    *)
(* what holds past which step.  Only at the end do the parts meet.  An      *)
(* entry that is there has a promise or a proof, so its body is of a        *)
(* signing, whose one signature is the bundle's by the last step, whose     *)
(* certificate is the bundle's, and whose artifact is the verified one      *)
(* because that signature was verified over it.                             *)
(*                                                                         *)
(* That it is accepted again is the other half: what a step finds it finds  *)
(* ever after (FindingsStay), because selections only grow and the first    *)
(* match of a lookup stays the first one (FirstInUseStays, IssuerStays).    *)
(*                                                                         *)
(* That a genuine bundle is accepted is shown step by step from what its    *)
(* signer and the services did (GenuineBundle): a service that was in use   *)
(* then is still selected now, every lookup finds it although others may    *)
(* match, the times are in the windows that are asked for, and the proofs   *)
(* of the log verify by HonestInclusion of MerkleLog_proofs.                *)
(***************************************************************************)
EXTENDS GenuineBundle, WellFoundedInduction, TLAPS

\* The least of several numbers: the earliest time of helpers.rs and the first
\* match of a lookup are such.
LEMMA LeastElement ==
  ASSUME NEW S, S \subseteq Nat, S # {}
  PROVE  \E x \in S : \A y \in S : x <= y
<1> DEFINE Less == OpToRel(<, Nat)
<1>1. IsWellFoundedOn(Less, Nat)
  BY NatLessThanWellFounded
<1>2. PICK x \in S : \A y \in S : ~ (<<y, x>> \in Less)
  <2> HIDE DEF Less
  <2> QED
    BY <1>1, WFMin
<1>3. \A y \in S : x <= y
  <2> TAKE y \in S
  <2>1. ~ (<<y, x>> \in Less)
    BY <1>2
  <2>2. ~ (y < x)
    BY <2>1 DEF OpToRel
  <2> QED
    BY <2>2
<1> QED
  BY <1>3

\* The earliest of several times is one of them.
LEMMA MinimumIsLeast ==
  ASSUME NEW S, S \subseteq Nat, S # {}
  PROVE  Minimum(S) \in S /\ \A y \in S : Minimum(S) <= y
BY LeastElement DEF Minimum

\* A lookup returns one of the instances it looks among.
LEMMA FirstIsElement ==
  ASSUME NEW s, DOMAIN s \subseteq Nat, DOMAIN s # {}
  PROVE  First(s) \in Elements(s)
BY MinimumIsLeast DEF First, Elements

\* A selection invents no instance (usable_for_verification).
LEMMA UsableIsGiven ==
  ASSUME NEW instances, NEW at, DOMAIN instances \subseteq Nat
  PROVE  /\ DOMAIN Usable(instances, at) \subseteq Nat
         /\ Elements(Usable(instances, at)) \subseteq Elements(instances)
BY DEF Usable, Elements

\* What is found by an ID is an instance, and has that ID.
LEMMA WithIdIsGiven ==
  ASSUME NEW instances, NEW id, DOMAIN instances \subseteq Nat,
         DOMAIN WithId(instances, id) # {}
  PROVE  /\ First(WithId(instances, id)) \in Elements(instances)
         /\ First(WithId(instances, id)).id = id
<1>1. DOMAIN WithId(instances, id) \subseteq Nat
  BY DEF WithId
<1>2. First(WithId(instances, id)) \in Elements(WithId(instances, id))
  BY <1>1, FirstIsElement
<1>3. \A x \in Elements(WithId(instances, id)) : x \in Elements(instances) /\ x.id = id
  BY DEF WithId, Elements
<1> QED
  BY <1>2, <1>3

\* The places of a sequence are numbers, the first one of them 1.
LEMMA SequencePlaces ==
  ASSUME NEW s, IsSequence(s)
  PROVE  DOMAIN s \subseteq Nat /\ (s # <<>> => 1 \in DOMAIN s)
BY DEF IsSequence

\* A key that is found for a log is one of the trusted root (rekor_key_for_log,
\* rekor_key_for_log_at).
LEMMA LogKeyIsOfRoot ==
  ASSUME NEW id, NEW at
  PROVE  /\ DOMAIN RekorKeyForLog(Root, id, at) # {} =>
              First(RekorKeyForLog(Root, id, at)) \in Elements(Root.tlogs)
         /\ DOMAIN RekorKeyForLogAt(Root, id, at) # {} =>
              First(RekorKeyForLogAt(Root, id, at)) \in Elements(Root.tlogs)
<1>1. DOMAIN Root.tlogs \subseteq Nat
  BY FormAssumption, SequencePlaces
<1>2. ASSUME DOMAIN RekorKeyForLog(Root, id, at) # {}
      PROVE  First(RekorKeyForLog(Root, id, at)) \in Elements(Root.tlogs)
  BY <1>1, <1>2, UsableIsGiven, WithIdIsGiven DEF RekorKeyForLog
<1>3. ASSUME DOMAIN RekorKeyForLogAt(Root, id, at) # {}
      PROVE  First(RekorKeyForLogAt(Root, id, at)) \in Elements(Root.tlogs)
  <2> DEFINE covering == [i \in {j \in DOMAIN Root.tlogs : Covers(Root.tlogs[j].window, at)}
                            |-> Root.tlogs[i]]
  <2>1. DOMAIN covering \subseteq Nat /\ Elements(covering) \subseteq Elements(Root.tlogs)
    BY <1>1 DEF Elements
  <2>2. RekorKeyForLogAt(Root, id, at) = WithId(covering, id)
    BY DEF RekorKeyForLogAt
  <2> HIDE DEF covering
  <2> QED
    BY <1>3, <2>1, <2>2, WithIdIsGiven
<1> QED
  BY <1>2, <1>3

\* A promise that verify_set accepts is of a signing, at its time.
LEMMA PromiseIsKept ==
  ASSUME request \in Request, NEW e \in Elements(bundle.entries),
         e.promise # Unset, VerifySet(e)
  PROVE  \E s \in Signing : e.body \in s.bodies /\ s.time = e.integrated
<1>1. e \in Entries
  BY DEF Entries, Presented, bundle
<1>2. First(LogKeys(e)) \in Elements(Root.tlogs)
  BY LogKeyIsOfRoot DEF VerifySet, LogKeys
<1>3. /\ e.promise.by = First(LogKeys(e)).key
      /\ e.promise.body = e.body /\ e.promise.integrated = e.integrated
  BY DEF VerifySet
<1> QED
  BY <1>1, <1>2, <1>3, LogAssumption

\* A body that is included under an accepted checkpoint is of a signing
\* (verify_merkle_inclusion, verify_checkpoint).
LEMMA IncludedIsLogged ==
  ASSUME request \in Request, NEW e \in Elements(bundle.entries),
         e.proof # Unset, VerifyMerkleInclusion(e), VerifyCheckpoint(e)
  PROVE  \E s \in Signing : e.body \in s.bodies
<1> DEFINE note == e.proof.note
           known == KnownSignatures(note)
           keys == RekorKeys(Root, now)
<1>1. e \in Entries
  BY DEF Entries, Presented, bundle
<1>2. DOMAIN note.sigs \subseteq Nat /\ DOMAIN Root.tlogs \subseteq Nat
  <2>1. IsSequence(note.sigs) /\ IsSequence(Root.tlogs)
    BY <1>1, FormAssumption, Zenon
  <2> HIDE DEF note
  <2> QED
    BY ONLY <2>1, SequencePlaces
<1>3. /\ DOMAIN known \subseteq Nat /\ DOMAIN known # {}
      /\ \A g \in Elements(known) :
           g \in Elements(note.sigs) /\ DOMAIN WithId(keys, g.hint) # {}
  BY <1>2 DEF KnownSignatures, Elements, VerifyCheckpoint
<1>4. First(known) \in Elements(known)
  <2> HIDE DEF known
  <2> QED
    BY <1>3, FirstIsElement
<1>5. First(WithId(keys, First(known).hint)) \in Elements(Root.tlogs)
  <2>1. DOMAIN keys \subseteq Nat /\ Elements(keys) \subseteq Elements(Root.tlogs)
    BY <1>2, UsableIsGiven DEF RekorKeys
  <2> HIDE DEF keys, known
  <2> QED
    BY <1>3, <1>4, <2>1, WithIdIsGiven
<1>6. /\ First(known).by = First(WithId(keys, First(known).hint)).key
      /\ First(known).over.root = e.proof.root
  BY DEF VerifyCheckpoint, NoteVerifies
<1>7. VerifyInclusion(HashLeaf(e.body), e.proof.index, e.proof.size,
                      e.proof.hashes, e.proof.root)
  BY DEF VerifyMerkleInclusion
<1> HIDE DEF keys, known
<1> QED
  BY <1>1, <1>3, <1>4, <1>5, <1>6, <1>7, LogAssumption

\* A timestamp that verifies is of a signing, at its time, wherever the signer's
\* certificate was found (verify_timestamp_response).
LEMMA StampIsTrue ==
  ASSUME request \in Request, NEW t \in Elements(bundle.stamps), NEW sig,
         TimestampVerifies(t, sig)
  PROVE  /\ t.info.time \in 1 .. MaxTime
         /\ \E s \in Signing : s.sig = sig /\ s.time = t.info.time
<1> DEFINE cert == First(SignerCertificates(t))
           own == WithId(t.certs, t.signer)
           leaves == TsaLeafCerts(Root, now)
<1>1. t \in Stamps
  BY DEF Stamps, Presented, bundle
<1>2. DOMAIN t.certs \subseteq Nat /\ DOMAIN Root.tsas \subseteq Nat
  BY <1>1, FormAssumption, SequencePlaces
<1>3. /\ t.info # Unset /\ t.info.over = sig
      /\ DOMAIN SignerCertificates(t) # {}
      /\ t.attrs # Unset /\ t.attrs = t.info
      /\ t.signature = [key |-> cert.key, over |-> t.attrs]
      /\ cert.root \in Elements(TsaRootCerts(Root, now))
  BY DEF TimestampVerifies, VerifyTimestampResponse, ParseTimestampToken, VerifyCmsSignature,
         VerifyMessageDigest, TsaCertificateChains
<1>4. cert.root \in {tsa.root : tsa \in Elements(Root.tsas)}
  BY <1>3 DEF TsaRootCerts, Usable, Elements
<1>5. cert \in Elements(t.certs) \cup {tsa.leaf : tsa \in Elements(Root.tsas)}
  <2>1. CASE DOMAIN own # {}
    <3>1. SignerCertificates(t) = own
      BY <2>1 DEF SignerCertificates
    <3> QED
      BY <1>2, <2>1, <3>1, WithIdIsGiven
  <2>2. CASE DOMAIN own = {}
    <3>1. SignerCertificates(t) = WithId(leaves, t.signer)
      BY <2>2 DEF SignerCertificates
    <3>2. /\ DOMAIN leaves \subseteq Nat
          /\ Elements(leaves) \subseteq {tsa.leaf : tsa \in Elements(Root.tsas)}
      BY <1>2 DEF TsaLeafCerts, Usable, Elements
    <3> HIDE DEF leaves, own
    <3> QED
      BY <1>3, <3>1, <3>2, WithIdIsGiven
  <2> QED
    BY <2>1, <2>2
<1>6. t.info.time \in 1 .. MaxTime
  BY <1>1, <1>3, TimeAssumption
<1> HIDE DEF cert
<1> QED
  BY <1>1, <1>3, <1>4, <1>5, <1>6, TsaAssumption

-----------------------------------------------------------------------------
\* Steps 4 to 6 and 8 are done.
FromLog == ByKey \/ policy.tlog

\* What step 0 has established.
TimeSeen ==
  /\ bundle.content.sigs # <<>>
  /\ IF bundle.stamps # <<>>
     THEN \E s \in Signing : s.sig = bundle.content.sigs[1] /\ s.time = time
     ELSE time \in V1IntegratedTimes

\* What steps 4 to 6 have.
EntriesLogged ==
  \A e \in Elements(bundle.entries) :
    /\ e.promise # Unset => \E s \in Signing : e.body \in s.bodies /\ s.time = e.integrated
    /\ e.proof # Unset => \E s \in Signing : e.body \in s.bodies

\* What holds past which step.
IInv ==
  /\ TypeOK
  /\ request \in Request
  /\ pc \in {"time", "chain", "sct", "policy"} => ~ByKey
  /\ pc \notin {"structure", "rejected"} => ValidateBundle(bundle, FromLog)
  /\ pc \notin {"structure", "time", "rejected"} => ByKey \/ TimeSeen
  /\ pc \notin {"structure", "time", "chain", "rejected"} /\ policy.cert =>
       ByKey \/ Covers(Cert.window, time)
  /\ pc \in {"signature", "consistency", "accepted"} /\ FromLog => EntriesLogged
  /\ pc \in {"consistency", "accepted"} => SignatureVerifies
  /\ pc = "accepted" /\ FromLog => TlogConsistent

\* What validate_bundle, the log and step 0 say depends on the request alone.
LEMMA SameRequest ==
  ASSUME request' = request
  PROVE  /\ bundle' = bundle /\ policy' = policy /\ artifact' = artifact
         /\ ByKey' <=> ByKey
         /\ FromLog' <=> FromLog
         /\ ValidateBundle(bundle, FromLog)' <=> ValidateBundle(bundle, FromLog)
         /\ EntriesLogged' <=> EntriesLogged
         /\ V1IntegratedTimes' = V1IntegratedTimes
         /\ Cert' = Cert
<1>1. bundle' = bundle /\ policy' = policy /\ artifact' = artifact
  BY DEF bundle, policy, artifact
<1>2. ByKey' <=> ByKey
  BY <1>1 DEF ByKey
<1> QED
  BY <1>1, <1>2 DEF FromLog, ValidateBundle, HasInclusionPromise, HasInclusionProof, FromText,
     ProofWellFormed, EntriesLogged, Elements, V1IntegratedTimes, Cert

\* The same of step 7: neither the clock nor the time taken matters.
LEMMA SameSignature ==
  ASSUME request' = request
  PROVE  SignatureVerifies' <=> SignatureVerifies
BY DEF SignatureVerifies, Verifies, VerifyingKey, ByKey, Cert, bundle, policy, artifact, Elements,
   Pae, PayloadBindsArtifact, MatchesSha256, InTotoPayloadType

\* The same of step 8.
LEMMA SameConsistency ==
  ASSUME request' = request
  PROVE  TlogConsistent' <=> TlogConsistent
BY DEF TlogConsistent, EntryConsistent, VerifyHashedRekord, VerifyDsseV001, VerifyIntotoV002,
   FromBase64Json, CertificateMatches, SignatureMatches, IntegratedInTime, HasCert, Cert, Covers,
   HasStartedBy, bundle, policy, artifact, Elements, Pae

\* The time that step 0 takes was stamped by an authority or is that of an entry.
LEMMA DeterminedTimeIsSeen ==
  ASSUME request \in Request, TimeDetermined
  PROVE  /\ ValidationTime \in 1 .. MaxTime
         /\ bundle.content.sigs # <<>>
         /\ IF bundle.stamps # <<>>
            THEN \E s \in Signing : s.sig = bundle.content.sigs[1] /\ s.time = ValidationTime
            ELSE ValidationTime \in V1IntegratedTimes
<1> DEFINE stamped == {t.info.time : t \in Elements(bundle.stamps)}
<1>1. CASE bundle.stamps # <<>>
  <2>1. \A t \in Elements(bundle.stamps) :
          /\ t.info.time \in 1 .. MaxTime
          /\ \E s \in Signing : s.sig = bundle.content.sigs[1] /\ s.time = t.info.time
    BY <1>1, StampIsTrue DEF TimeDetermined
  <2>2. bundle \in Presented
    BY DEF Presented, bundle
  <2>3. stamped # {}
    BY <1>1, <2>2, FormAssumption, SequencePlaces DEF Elements
  <2>4. stamped \subseteq 1 .. MaxTime /\ stamped \subseteq Nat
    BY <2>1, TimeAssumption
  <2>5. Minimum(stamped) \in stamped
    <3> HIDE DEF stamped
    <3> QED
      BY <2>3, <2>4, MinimumIsLeast
  <2>6. ValidationTime = Minimum(stamped)
    BY <1>1 DEF ValidationTime
  <2> QED
    BY <1>1, <2>1, <2>4, <2>5, <2>6 DEF TimeDetermined
<1>2. CASE bundle.stamps = <<>>
  <2>1. V1IntegratedTimes # {}
    BY <1>2 DEF TimeDetermined
  <2>2. V1IntegratedTimes \subseteq 1 .. MaxTime /\ V1IntegratedTimes \subseteq Nat
    BY TimeAssumption DEF V1IntegratedTimes, Entries, Presented, bundle
  <2>3. ValidationTime \in V1IntegratedTimes
    BY <1>2, <2>1, <2>2, MinimumIsLeast DEF ValidationTime
  <2> QED
    BY <1>2, <2>2, <2>3 DEF TimeDetermined
<1> QED
  BY <1>1, <1>2

\* After steps 4 to 6 every promise and every proof is of a signing.
LEMMA VerifiedEntriesAreLogged ==
  ASSUME request \in Request, LogEntriesVerify
  PROVE  EntriesLogged
BY PromiseIsKept, IncludedIsLogged DEF LogEntriesVerify, VerifyEntryInclusion, EntriesLogged

-----------------------------------------------------------------------------
\* The invariant holds before the first step of verify.
LEMMA InvInit == Init => IInv
BY TimeAssumption DEF Init, IInv, TypeOK, FromLog

\* Every step of verify preserves it, and so does the passing of time.
LEMMA InvStep ==
  ASSUME IInv, [Next]_vars
  PROVE  IInv'
<1> USE DEF IInv
<1>1. MinTime \in Nat /\ MaxTime \in Nat
  BY TimeAssumption
<1>2. request' = request
  BY DEF Next, vars, Structure, DetermineTime, VerifyCertificateChain, VerifySct, CheckPolicy,
         VerifyTlogEntries, VerifySignature, VerifyTlogConsistency, VerifyAgain, Tick, Step
<1> DEFINE Same ==
      /\ bundle' = bundle /\ policy' = policy
      /\ ByKey' <=> ByKey
      /\ FromLog' <=> FromLog
      /\ ValidateBundle(bundle, FromLog)' <=> ValidateBundle(bundle, FromLog)
      /\ EntriesLogged' <=> EntriesLogged
      /\ time' = time => (TimeSeen' <=> TimeSeen)
      /\ time' = time => (Covers(Cert.window, time)' <=> Covers(Cert.window, time))
      /\ SignatureVerifies' <=> SignatureVerifies
      /\ TlogConsistent' <=> TlogConsistent
<1>3. Same
  <2>1. time' = time => (TimeSeen' <=> TimeSeen)
    BY <1>2, SameRequest DEF TimeSeen
  <2>2. time' = time => (Covers(Cert.window, time)' <=> Covers(Cert.window, time))
    BY <1>2, SameRequest DEF Covers, HasStartedBy
  <2> QED
    BY <1>2, <2>1, <2>2, SameRequest, SameSignature, SameConsistency
<1>4. CASE Structure
  BY <1>1, <1>2, <1>3, <1>4 DEF Structure, Step, TypeOK, FromLog
<1>5. CASE DetermineTime
  <2>1. TimeDetermined => time' \in 1 .. MaxTime /\ TimeSeen'
    BY <1>2, <1>5, SameRequest, DeterminedTimeIsSeen DEF DetermineTime, TimeSeen
  <2> QED
    BY <1>1, <1>2, <1>3, <1>5, <2>1 DEF DetermineTime, Step, TypeOK
<1>6. CASE VerifyCertificateChain
  <2>1. CertificateChains => Covers(Cert.window, time)
    BY DEF CertificateChains
  <2> QED
    BY <1>1, <1>2, <1>3, <1>6, <2>1 DEF VerifyCertificateChain, Step, TypeOK
<1>7. CASE VerifySct
  BY <1>1, <1>2, <1>3, <1>7 DEF VerifySct, Step, TypeOK
<1>8. CASE CheckPolicy
  BY <1>1, <1>2, <1>3, <1>8 DEF CheckPolicy, Step, TypeOK
<1>9. CASE VerifyTlogEntries
  BY <1>1, <1>2, <1>3, <1>9, VerifiedEntriesAreLogged DEF VerifyTlogEntries, Step, TypeOK, FromLog
<1>10. CASE VerifySignature
  BY <1>1, <1>2, <1>3, <1>10 DEF VerifySignature, Step, TypeOK
<1>11. CASE VerifyTlogConsistency
  BY <1>1, <1>2, <1>3, <1>11 DEF VerifyTlogConsistency, Step, TypeOK, FromLog
<1>12. CASE VerifyAgain
  BY <1>1, <1>2, <1>3, <1>12 DEF VerifyAgain, TypeOK
<1>13. CASE Tick
  BY <1>1, <1>2, <1>3, <1>13 DEF Tick, TypeOK
<1>14. CASE UNCHANGED vars
  BY <1>1, <1>2, <1>3, <1>14 DEF vars, TypeOK
<1> QED
  BY <1>4, <1>5, <1>6, <1>7, <1>8, <1>9, <1>10, <1>11, <1>12, <1>13, <1>14 DEF Next

-----------------------------------------------------------------------------
\* The body of a log entry has one signature: that of the signing it is of.
LEMMA BodyOfSigning ==
  ASSUME NEW s \in Signing, NEW body \in s.bodies
  PROVE  /\ Elements(body.sigs) = {body.sigs[1]}
         /\ body.sigs[1].sig = s.sig
         /\ body.sigs[1].cert \in {s.cert, Unset}
         /\ body.kind = "hashedrekord" /\ body.version = "0.0.2" => body.sigs[1].cert # Unset
<1>1. body.sigs = <<[sig |-> s.sig, cert |-> body.sigs[1].cert]>>
  BY BodyAssumption
<1>2. DOMAIN body.sigs = {1} /\ body.sigs[1].sig = s.sig
  BY <1>1
<1> QED
  BY <1>2, BodyAssumption DEF Elements

\* Step 8 ties signature and certificate of the bundle to the signing of an
\* entry, for the kinds of entry that have the certificate.
LEMMA ConsistentEntryIsOfSignature ==
  ASSUME request \in Request, bundle.content.sigs # <<>>,
         NEW e \in Elements(bundle.entries), EntryConsistent(e), e.kind # "intoto",
         NEW s \in Signing, e.body \in s.bodies
  PROVE  s.sig = bundle.content.sigs[1] /\ (HasCert => s.cert = Cert)
<1>1. bundle \in Presented
  BY DEF Presented, bundle
<1>2. bundle.content.sigs[1] \in Elements(bundle.content.sigs)
  BY <1>1, FormAssumption, SequencePlaces DEF Elements
<1>3. /\ Elements(e.body.sigs) = {e.body.sigs[1]}
      /\ e.body.sigs[1].sig = s.sig
      /\ e.body.sigs[1].cert \in {s.cert, Unset}
      /\ e.body.kind = "hashedrekord" /\ e.body.version = "0.0.2" => e.body.sigs[1].cert # Unset
  BY BodyOfSigning
<1>4. HasCert => Cert # Unset
  <2>1. HasCert => Cert \in Elements(bundle.material.certs)
    BY <1>1, FormAssumption, SequencePlaces DEF HasCert, Cert, Elements
  <2> QED
    BY <1>1, <2>1, FormAssumption
<1>5. CASE e.kind = "hashedrekord" /\ VerifyHashedRekord(e)
  <2>1. bundle.content.sigs[1] = e.body.sigs[1].sig
    BY <1>5 DEF VerifyHashedRekord, SignatureMatches
  <2>2. HasCert => \/ e.body.sigs[1].cert = Cert
                   \/ /\ e.body.kind = "hashedrekord" /\ e.body.version = "0.0.2"
                      /\ e.body.sigs[1].cert = Unset
    BY <1>5 DEF VerifyHashedRekord, CertificateMatches, FromBase64Json
  <2> QED
    BY <1>3, <1>4, <2>1, <2>2
<1>6. CASE VerifyDsseV001(e)
  <2>1. PICK r \in Elements(e.body.sigs) :
          r.sig = bundle.content.sigs[1] /\ (HasCert => r.cert = Cert)
    BY <1>2, <1>6 DEF VerifyDsseV001
  <2>2. r = e.body.sigs[1]
    BY <1>3, <2>1
  <2> QED
    BY <1>3, <1>4, <2>1, <2>2
<1> QED
  BY <1>5, <1>6 DEF EntryConsistent

\* The steps together: one signing for all parts of an accepted bundle.
LEMMA InvIsLogged == IInv => AcceptedWasLogged
<1> SUFFICES ASSUME IInv, AcceptedFromLog, Len(bundle.content.sigs) = 1
             PROVE  \E s \in Signing :
                      /\ artifact \in s.artifacts
                      /\ s.sig = bundle.content.sigs[1]
                      /\ s.sig.key = VerifyingKey
                      /\ \E e \in Elements(bundle.entries) :
                           /\ e.body \in s.bodies
                           /\ HasCert /\ e.kind # "intoto" => s.cert = Cert
  BY DEF AcceptedWasLogged
<1> DEFINE sig == bundle.content.sigs[1]
<1>1. /\ request \in Request /\ FromLog
      /\ ValidateBundle(bundle, FromLog)
      /\ EntriesLogged /\ SignatureVerifies /\ TlogConsistent
  BY DEF IInv, AcceptedFromLog, Accepted, FromLog
<1>2. bundle.content.sigs # <<>> /\ Elements(bundle.content.sigs) = {sig}
  <2>1. IsSequence(bundle.content.sigs)
    BY <1>1, FormAssumption DEF Presented, bundle
  <2> QED
    BY <2>1 DEF IsSequence, Elements
<1>3. PICK e \in Elements(bundle.entries) : e.promise # Unset \/ e.proof # Unset
  BY <1>1 DEF ValidateBundle, HasInclusionPromise, HasInclusionProof
<1>4. PICK s \in Signing : e.body \in s.bodies
  BY <1>1, <1>3 DEF EntriesLogged
<1>5. EntryConsistent(e)
  BY <1>1 DEF TlogConsistent
<1>6. s.sig = sig /\ (HasCert /\ e.kind # "intoto" => s.cert = Cert)
  <2>1. CASE e.kind = "intoto"
    <3>1. PICK r \in Elements(e.body.sigs) : r.sig \in Elements(bundle.content.sigs)
      BY <1>5, <2>1 DEF EntryConsistent, VerifyIntotoV002
    <3>2. r.sig = s.sig
      BY <1>4, <3>1, BodyOfSigning
    <3> QED
      BY <1>2, <2>1, <3>1, <3>2
  <2>2. CASE e.kind # "intoto"
    BY <1>1, <1>2, <1>4, <1>5, <2>2, ConsistentEntryIsOfSignature
  <2> QED
    BY <2>1, <2>2
<1>7. /\ sig.key = VerifyingKey
      /\ IF bundle.content.kind = "dsse"
         THEN sig.over = Pae(bundle.content) /\ artifact \in bundle.content.over.subjects
         ELSE sig.over = artifact
  BY <1>1, <1>2 DEF SignatureVerifies, Verifies, PayloadBindsArtifact, MatchesSha256
<1>8. artifact \in s.artifacts
  BY <1>1, <1>2, <1>6, <1>7, SigningAssumption DEF bundle, artifact
<1> QED
  BY <1>4, <1>6, <1>7, <1>8

\* The entry whose time was taken in step 0 is of that same signing.
LEMMA InvIsAttested == IInv => TimeWasAttested
<1> SUFFICES ASSUME IInv, AcceptedFromLog, ~ByKey
             PROVE  /\ \E s \in Signing : s.sig = bundle.content.sigs[1] /\ s.time = time
                    /\ policy.cert => Covers(Cert.window, time)
  BY DEF TimeWasAttested
<1>1. /\ request \in Request
      /\ TimeSeen /\ EntriesLogged /\ TlogConsistent
      /\ policy.cert => Covers(Cert.window, time)
  BY DEF IInv, AcceptedFromLog, Accepted, FromLog
<1>2. CASE bundle.stamps # <<>>
  BY <1>1, <1>2 DEF TimeSeen
<1>3. CASE bundle.stamps = <<>>
  <2>1. PICK e \in Elements(bundle.entries) :
          e.kind \in {"hashedrekord", "dsse"} /\ e.promise # Unset /\ e.integrated = time
    BY <1>1, <1>3 DEF TimeSeen, V1IntegratedTimes
  <2>2. PICK s \in Signing : e.body \in s.bodies /\ s.time = time
    BY <1>1, <2>1 DEF EntriesLogged
  <2>3. s.sig = bundle.content.sigs[1]
    BY <1>1, <2>1, <2>2, ConsistentEntryIsOfSignature DEF TimeSeen, TlogConsistent
  <2> QED
    BY <1>1, <2>2, <2>3
<1> QED
  BY <1>2, <1>3

-----------------------------------------------------------------------------
\* What has come into use stays in use (usable_for_verification).
LEMMA StartStays ==
  ASSUME NEW window, window.start \in Nat \cup {Unset},
         NEW t \in Nat, NEW u \in Nat, t <= u, HasStartedBy(window, t)
  PROVE  HasStartedBy(window, u)
<1> DEFINE start == window.start
<1>1. start = Unset \/ t >= start
  BY DEF HasStartedBy
<1>2. start \in Nat \cup {Unset}
  OBVIOUS
<1> HIDE DEF start
<1>3. start = Unset \/ u >= start
  BY <1>1, <1>2
<1> QED
  BY <1>3 DEF HasStartedBy, start

\* The first of several is still the first when only later ones join.
LEMMA FirstStays ==
  ASSUME NEW S, NEW T, T \subseteq Nat, S \subseteq T, S # {},
         \A i \in T, j \in S : i < j => i \in S
  PROVE  Minimum(S) = Minimum(T)
<1>1. Minimum(S) \in S /\ \A y \in S : Minimum(S) <= y
  BY MinimumIsLeast
<1>2. Minimum(T) \in T /\ \A y \in T : Minimum(T) <= y
  BY MinimumIsLeast
<1> DEFINE m == Minimum(S)
           n == Minimum(T)
<1>3. m \in Nat /\ n \in Nat /\ n <= m
  BY <1>1, <1>2
<1> HIDE DEF m, n
<1>4. n \in S
  BY <1>1, <1>2, <1>3 DEF m, n
<1>5. m <= n
  BY <1>1, <1>4 DEF m
<1>6. m = n
  BY <1>3, <1>5
<1> QED
  BY <1>6 DEF m, n

\* Windows of the root start at a time, if they do.
LEMMA RootWindows ==
  /\ \A i \in DOMAIN Root.tlogs : Root.tlogs[i].window.start \in Nat \cup {Unset}
  /\ \A i \in DOMAIN Root.cas : Root.cas[i].window.start \in Nat \cup {Unset}
  /\ \A i \in DOMAIN Root.ctlogs : Root.ctlogs[i].window.start \in Nat \cup {Unset}
  /\ \A i \in DOMAIN Root.tsas : Root.tsas[i].window.start \in Nat \cup {Unset}
BY TimeAssumption DEF Elements

\* Of the places that a lookup does not tell apart, the first that is in use stays
\* the first (find_map and find in trusted_root.rs, tlog.rs and helpers.rs).
InUse(instances, Places, t) == {i \in Places : HasStartedBy(instances[i].window, t)}

LEMMA FirstInUseStays ==
  ASSUME NEW instances, NEW Places, Places \subseteq DOMAIN instances, Places \subseteq Nat,
         \A i \in DOMAIN instances : instances[i].window.start \in Nat \cup {Unset},
         \A i, j \in Places : i < j => NoLaterThan(instances[i].window, instances[j].window),
         NEW t \in MinTime .. MaxTime, NEW u \in MinTime .. MaxTime, t <= u,
         InUse(instances, Places, t) # {}
  PROVE  /\ InUse(instances, Places, t) \subseteq InUse(instances, Places, u)
         /\ Minimum(InUse(instances, Places, t)) = Minimum(InUse(instances, Places, u))
<1> DEFINE S == InUse(instances, Places, t)
           T == InUse(instances, Places, u)
<1>1. t \in Nat /\ u \in Nat
  BY TimeAssumption
<1>2. S \subseteq T
  <2> SUFFICES ASSUME NEW i \in S
               PROVE  i \in T
    OBVIOUS
  <2>1. i \in Places /\ i \in DOMAIN instances /\ HasStartedBy(instances[i].window, t)
    BY DEF InUse
  <2>2. HasStartedBy(instances[i].window, u)
    BY <1>1, <2>1, StartStays
  <2> QED
    BY <2>1, <2>2 DEF InUse
<1>3. T \subseteq Nat
  BY DEF InUse
<1>4. \A i \in T, j \in S : i < j => i \in S
  BY DEF InUse, NoLaterThan
<1> HIDE DEF S, T
<1>5. Minimum(S) = Minimum(T)
  BY <1>2, <1>3, <1>4, FirstStays DEF S
<1> QED
  BY <1>2, <1>5 DEF S, T

\* The clock has moved on, the request is the same.
Later ==
  /\ request \in Request /\ request' = request
  /\ now \in MinTime .. MaxTime /\ now' \in MinTime .. MaxTime /\ now <= now'

\* The key that is found for a log stays the same.
LEMMA LogKeyStays ==
  ASSUME Later, NEW id, DOMAIN RekorKeyForLog(Root, id, now) # {}
  PROVE  /\ DOMAIN RekorKeyForLog(Root, id, now') # {}
         /\ First(RekorKeyForLog(Root, id, now')) = First(RekorKeyForLog(Root, id, now))
<1> DEFINE Places == {i \in DOMAIN Root.tlogs : Root.tlogs[i].id = id}
           At(t) == InUse(Root.tlogs, Places, t)
<1>1. DOMAIN Root.tlogs \subseteq Nat
  BY FormAssumption, SequencePlaces
<1>2. ASSUME NEW t
      PROVE  /\ DOMAIN RekorKeyForLog(Root, id, t) = At(t)
             /\ \A i \in At(t) : RekorKeyForLog(Root, id, t)[i] = Root.tlogs[i]
  BY DEF RekorKeyForLog, WithId, Usable, UsableForVerification, InUse
<1>3. \A i, j \in Places : i < j => NoLaterThan(Root.tlogs[i].window, Root.tlogs[j].window)
  BY OrderAssumption
<1>4. At(now) # {}
  BY <1>2
<1>5. At(now) \subseteq At(now') /\ Minimum(At(now)) = Minimum(At(now'))
  BY <1>1, <1>3, <1>4, FirstInUseStays, RootWindows DEF Later
<1>6. At(now) \subseteq Nat
  BY <1>1 DEF InUse
<1>7. Minimum(At(now)) \in At(now)
  <2> HIDE DEF At
  <2> QED
    BY <1>4, <1>6, MinimumIsLeast
<1> QED
  BY <1>2, <1>4, <1>5, <1>7 DEF First

\* The key that decides about a checkpoint is of its log, and stays.
LEMMA CheckpointStays ==
  ASSUME Later, NEW e \in Elements(bundle.entries), e.proof # Unset, VerifyCheckpoint(e)
  PROVE  VerifyCheckpoint(e)'
<1> DEFINE note == e.proof.note
           Hints == {l.id : l \in Elements(Root.tlogs)}
           Known(t) == {j \in DOMAIN note.sigs : DOMAIN RekorKeyForLog(Root, note.sigs[j].hint, t) # {}}
<1>1. e \in Entries
  BY DEF Entries, Presented, bundle, Later
<1>2. DOMAIN note.sigs \subseteq Nat
  <2>1. IsSequence(note.sigs)
    BY <1>1, FormAssumption
  <2> HIDE DEF note
  <2> QED
    BY <2>1, SequencePlaces
<1>3. ASSUME NEW t, NEW j \in Known(t)
      PROVE  note.sigs[j].hint \in Hints
  BY <1>3 DEF RekorKeyForLog, WithId, Usable, Elements
<1>4. \A g \in Known(now), h \in Known(now') : g = h
  <2> SUFFICES ASSUME NEW g \in Known(now), NEW h \in Known(now')
               PROVE  g = h
    OBVIOUS
  <2>1. {note.sigs[g].hint, note.sigs[h].hint} \subseteq Hints /\ g \in DOMAIN note.sigs /\ h \in DOMAIN note.sigs
    BY ONLY <1>3
  <2> QED
    BY <1>1, <2>1, OrderAssumption
<1>5. Known(now) \subseteq Known(now')
  BY LogKeyStays
<1>6. KnownSignatures(note) = [i \in Known(now) |-> note.sigs[i]]
  BY DEF KnownSignatures, RekorKeys, RekorKeyForLog
<1>7. KnownSignatures(note)' = [i \in Known(now') |-> note.sigs[i]]
  BY DEF KnownSignatures, RekorKeys, RekorKeyForLog
<1>8. Known(now) # {}
  BY <1>6 DEF VerifyCheckpoint
<1>9. Known(now') = Known(now)
  BY ONLY <1>4, <1>5, <1>8
<1>10. KnownSignatures(note)' = KnownSignatures(note)
  BY <1>6, <1>7, <1>9
<1> DEFINE g == First(KnownSignatures(note))
<1>11. PICK j \in Known(now) : g = note.sigs[j]
  <2>1. Minimum(Known(now)) \in Known(now)
    BY <1>2, <1>8, MinimumIsLeast
  <2> QED
    BY <1>6, <2>1 DEF First
<1>12. First(RekorKeyForLog(Root, g.hint, now')) = First(RekorKeyForLog(Root, g.hint, now))
  BY <1>11, LogKeyStays
<1>13. g' = g
  BY <1>10
<1>14. First(WithId(RekorKeys(Root, now), g.hint)) = First(RekorKeyForLog(Root, g.hint, now))
       /\ First(WithId(RekorKeys(Root, now'), g.hint)) = First(RekorKeyForLog(Root, g.hint, now'))
  BY DEF RekorKeys, RekorKeyForLog
<1> QED
  BY <1>8, <1>9, <1>6, <1>7, <1>10, <1>12, <1>13, <1>14 DEF VerifyCheckpoint

\* The log says ever after what it says of an entry.
LEMMA LogEntriesStay ==
  ASSUME Later, LogEntriesVerify
  PROVE  LogEntriesVerify'
<1> SUFFICES ASSUME NEW e \in Elements(bundle.entries)
             PROVE  VerifyEntryInclusion(e)' /\ (ByKey' \/ IntegratedTimeHolds(e)')
  BY DEF LogEntriesVerify, Later, bundle
<1>1. VerifyEntryInclusion(e) /\ (ByKey \/ IntegratedTimeHolds(e))
  BY DEF LogEntriesVerify
<1>2. e.proof # Unset => VerifyMerkleInclusion(e)' /\ VerifyCheckpoint(e)'
  BY <1>1, CheckpointStays DEF VerifyEntryInclusion, VerifyMerkleInclusion
<1>3. e.promise # Unset => VerifySet(e)'
  <2> SUFFICES ASSUME VerifySet(e)
               PROVE  VerifySet(e)'
    BY <1>1 DEF VerifyEntryInclusion
  <2>1. CASE e.integrated > 0
    BY <2>1 DEF VerifySet, LogKeys
  <2>2. CASE ~(e.integrated > 0)
    <3>1. /\ LogKeys(e) = RekorKeyForLog(Root, e.id, now)
          /\ LogKeys(e)' = RekorKeyForLog(Root, e.id, now')
      BY <2>2 DEF LogKeys
    <3>2. DOMAIN LogKeys(e)' # {} /\ First(LogKeys(e)') = First(LogKeys(e))
      BY <3>1, LogKeyStays DEF VerifySet
    <3> QED
      BY <3>2 DEF VerifySet
  <2> QED
    BY <2>1, <2>2
<1>4. IntegratedTimeHolds(e) => IntegratedTimeHolds(e)'
  <2> SUFFICES ASSUME IntegratedTimeHolds(e), e.integrated > 0
               PROVE  e.integrated <= now' + policy.skew /\ Covers(Cert.window, e.integrated)
    BY DEF IntegratedTimeHolds, Later, policy, Cert, bundle
  <2>1. e.integrated <= now + policy.skew /\ Covers(Cert.window, e.integrated)
    BY DEF IntegratedTimeHolds
  <2>2. e.integrated \in Nat /\ now \in Nat /\ now' \in Nat /\ now <= now'
    BY TimeAssumption DEF Entries, Presented, bundle, Later
  <2>3. policy.skew \in Nat
    BY TimeAssumption DEF Later, policy
  <2> DEFINE skew == policy.skew
  <2> HIDE DEF skew
  <2>4. e.integrated <= now' + skew
    BY <2>1, <2>2, <2>3 DEF skew
  <2> QED
    BY <2>1, <2>4 DEF skew
<1>5. ByKey => ByKey'
  BY DEF ByKey, policy, Later
<1> QED
  BY <1>1, <1>2, <1>3, <1>4, <1>5 DEF VerifyEntryInclusion

\* A timestamp that verifies does so ever after: its signer is found in the token,
\* or it is an authority that stays the first of its name.
LEMMA SignerStays ==
  ASSUME Later, NEW stamp, DOMAIN SignerCertificates(stamp) # {}
  PROVE  /\ DOMAIN SignerCertificates(stamp)' # {}
         /\ First(SignerCertificates(stamp)') = First(SignerCertificates(stamp))
<1> DEFINE own == WithId(stamp.certs, stamp.signer)
           Places == {i \in DOMAIN Root.tsas : Root.tsas[i].leaf.id = stamp.signer}
           At(t) == InUse(Root.tsas, Places, t)
           Found(t) == WithId(TsaLeafCerts(Root, t), stamp.signer)
<1>1. CASE DOMAIN own # {}
  <2>1. SignerCertificates(stamp) = own /\ SignerCertificates(stamp)' = own
    BY <1>1 DEF SignerCertificates
  <2> QED
    BY <1>1, <2>1
<1>2. CASE DOMAIN own = {}
  <2>1. SignerCertificates(stamp) = Found(now) /\ SignerCertificates(stamp)' = Found(now')
    BY <1>2 DEF SignerCertificates
  <2>2. DOMAIN Root.tsas \subseteq Nat
    BY FormAssumption, SequencePlaces
  <2>3. ASSUME NEW t
        PROVE  DOMAIN Found(t) = At(t) /\ \A i \in At(t) : Found(t)[i] = Root.tsas[i].leaf
    BY DEF WithId, TsaLeafCerts, Usable, UsableForVerification, InUse
  <2>4. \A i, j \in Places : i < j => NoLaterThan(Root.tsas[i].window, Root.tsas[j].window)
    BY OrderAssumption
  <2>5. At(now) # {}
    BY <2>1, <2>3
  <2>6. At(now) \subseteq At(now') /\ Minimum(At(now)) = Minimum(At(now'))
    BY <2>2, <2>4, <2>5, FirstInUseStays, RootWindows DEF Later
  <2>7. At(now) \subseteq Nat
    BY <2>2 DEF InUse
  <2>8. Minimum(At(now)) \in At(now)
    <3> HIDE DEF At
    <3> QED
      BY <2>5, <2>7, MinimumIsLeast
  <2> HIDE DEF At, Found
  <2>9. First(Found(now')) = First(Found(now)) /\ DOMAIN Found(now') # {}
    BY <2>3, <2>5, <2>6, <2>8 DEF First
  <2> QED
    BY <2>1, <2>9
<1> QED
  BY <1>1, <1>2

\* A selection only grows.
LEMMA UsableGrows ==
  ASSUME Later, NEW instances,
         \A i \in DOMAIN instances : instances[i].window.start \in Nat \cup {Unset}
  PROVE  Elements(Usable(instances, now)) \subseteq Elements(Usable(instances, now'))
<1>1. now \in Nat /\ now' \in Nat /\ now <= now'
  BY TimeAssumption DEF Later
<1>2. \A i \in DOMAIN instances :
        HasStartedBy(instances[i].window, now) => HasStartedBy(instances[i].window, now')
  BY <1>1, StartStays
<1> QED
  BY <1>2 DEF Usable, UsableForVerification, Elements

LEMMA TimestampStays ==
  ASSUME Later, NEW stamp, NEW sig, TimestampVerifies(stamp, sig)
  PROVE  TimestampVerifies(stamp, sig)'
<1> DEFINE cert == First(SignerCertificates(stamp))
<1>1. cert' = cert /\ DOMAIN SignerCertificates(stamp)' # {}
  BY SignerStays DEF TimestampVerifies, VerifyTimestampResponse
<1>2. Elements(TsaRootCerts(Root, now)) \subseteq Elements(TsaRootCerts(Root, now'))
  <2>1. now \in Nat /\ now' \in Nat /\ now <= now'
    BY TimeAssumption DEF Later
  <2>2. \A i \in DOMAIN Root.tsas :
          HasStartedBy(Root.tsas[i].window, now) => HasStartedBy(Root.tsas[i].window, now')
    BY <2>1, StartStays, RootWindows
  <2> QED
    BY <2>2 DEF TsaRootCerts, Usable, UsableForVerification, Elements
<1>3. VerifyTimestampResponse(stamp, sig)
  BY DEF TimestampVerifies
<1> HIDE DEF cert
<1>4. TsaCertificateChains(cert, stamp.info.time)'
  BY <1>1, <1>2, <1>3 DEF VerifyTimestampResponse, TsaCertificateChains, cert
<1>5. VerifyTimestampResponse(stamp, sig)'
  BY <1>1, <1>3, <1>4 DEF VerifyTimestampResponse, VerifyCmsSignature, cert
<1> QED
  BY <1>5 DEF TimestampVerifies

LEMMA TimeStays ==
  ASSUME Later, TimeDetermined
  PROVE  TimeDetermined'
<1>1. bundle' = bundle
  BY DEF bundle, Later
<1>2. ASSUME NEW s \in Elements(bundle.stamps), TimestampVerifies(s, bundle.content.sigs[1])
      PROVE  TimestampVerifies(s, bundle.content.sigs[1])'
  <2> DEFINE sig == bundle.content.sigs[1]
  <2>1. sig' = sig
    BY <1>1
  <2> HIDE DEF sig
  <2>2. TimestampVerifies(s, sig)
    BY <1>2 DEF sig
  <2> QED
    BY <1>1, <1>2, TimestampStays
<1> QED
  BY <1>1, <1>2 DEF TimeDetermined, HasCert, V1IntegratedTimes

\* The places of certificates: of the authority, and among its certificates.
NotAfter(p, q) == p[1] < q[1] \/ (p[1] = q[1] /\ p[2] <= q[2])

FirstPlace(P) == CHOOSE p \in P : \A q \in P : NotAfter(p, q)

LEMMA FirstPlaceIsFirst ==
  ASSUME NEW P, P \subseteq Nat \X Nat, P # {}
  PROVE  FirstPlace(P) \in P /\ \A q \in P : NotAfter(FirstPlace(P), q)
<1> DEFINE Firsts == {p[1] : p \in P}
<1>1. PICK i \in Firsts : \A j \in Firsts : i <= j
  <2>1. Firsts \subseteq Nat /\ Firsts # {}
    OBVIOUS
  <2> HIDE DEF Firsts
  <2> QED
    BY <2>1, LeastElement
<1> DEFINE Seconds == {p[2] : p \in {r \in P : r[1] = i}}
<1>2. PICK k \in Seconds : \A l \in Seconds : k <= l
  <2>1. Seconds \subseteq Nat /\ Seconds # {}
    OBVIOUS
  <2> HIDE DEF Seconds
  <2> QED
    BY <2>1, LeastElement
<1>3. PICK p \in P : p[1] = i /\ p[2] = k
  BY <1>2
<1>4. ASSUME NEW q \in P
      PROVE  NotAfter(p, q)
  <2>1. q[1] \in Nat /\ q[2] \in Nat /\ i \in Nat /\ k \in Nat /\ i <= q[1]
    BY <1>1, <1>3
  <2>2. q[1] = i => k <= q[2]
    BY <1>2
  <2> QED
    BY <1>3, <2>1, <2>2 DEF NotAfter
<1> HIDE DEF Firsts, Seconds
<1> QED
  BY <1>3, <1>4 DEF FirstPlace

\* The first place is still the first when only later authorities join.
LEMMA FirstPlaceStays ==
  ASSUME NEW P, NEW Q, Q \subseteq Nat \X Nat, P \subseteq Q, P # {},
         \A p \in Q, q \in P : p[1] <= q[1] => p \in P
  PROVE  FirstPlace(P) = FirstPlace(Q)
<1> DEFINE p == FirstPlace(P)
           q == FirstPlace(Q)
<1>1. p \in P /\ \A r \in P : NotAfter(p, r)
  BY FirstPlaceIsFirst
<1>2. q \in Q /\ \A r \in Q : NotAfter(q, r)
  BY FirstPlaceIsFirst
<1> HIDE DEF p, q
<1>3. NotAfter(q, p)
  BY <1>1, <1>2
<1>4. p \in Nat \X Nat /\ q \in Nat \X Nat
  BY <1>1, <1>2
<1>5. q[1] <= p[1]
  BY <1>3, <1>4 DEF NotAfter
<1>6. NotAfter(p, q)
  BY <1>1, <1>2, <1>5
<1>7. p[1] = q[1] /\ p[2] = q[2]
  BY <1>3, <1>4, <1>6 DEF NotAfter
<1>8. p = q
  BY <1>4, <1>7
<1> QED
  BY <1>8 DEF p, q

\* Where the certificates of the authorities in use are.
CertPlaces(t) ==
  {p \in Nat \X Nat : /\ p[1] \in DOMAIN Root.cas
                      /\ HasStartedBy(Root.cas[p[1]].window, t)
                      /\ p[2] \in DOMAIN Root.cas[p[1]].certs}

LEMMA FulcioCertsAre ==
  ASSUME NEW t
  PROVE  /\ DOMAIN FulcioCerts(Root, t) = CertPlaces(t)
         /\ \A p \in CertPlaces(t) : FulcioCerts(Root, t)[p] = Root.cas[p[1]].certs[p[2]]
<1>1. DOMAIN Root.cas \subseteq Nat
  BY FormAssumption, SequencePlaces
<1>2. \A i \in DOMAIN Root.cas : DOMAIN Root.cas[i].certs \subseteq Nat
  <2> SUFFICES ASSUME NEW i \in DOMAIN Root.cas
               PROVE  DOMAIN Root.cas[i].certs \subseteq Nat
    OBVIOUS
  <2> DEFINE certs == Root.cas[i].certs
  <2>1. IsSequence(certs)
    BY FormAssumption DEF Elements
  <2> HIDE DEF certs
  <2>2. DOMAIN certs \subseteq Nat
    BY <2>1, SequencePlaces
  <2> QED
    BY <2>2 DEF certs
<1> DEFINE Used == {j \in DOMAIN Root.cas : HasStartedBy(Root.cas[j].window, t)}
           Places == UNION {{i} \X (DOMAIN Root.cas[i].certs) : i \in Used}
<1>3. DOMAIN Usable(Root.cas, t) = Used
  BY DEF Usable, UsableForVerification
<1>4. Places = CertPlaces(t)
  BY <1>1, <1>2 DEF CertPlaces
<1>5. FulcioCerts(Root, t) = [p \in Places |-> Root.cas[p[1]].certs[p[2]]]
  BY <1>3 DEF FulcioCerts
<1> QED
  BY <1>4, <1>5

LEMMA CertPlacesGrow ==
  ASSUME Later
  PROVE  CertPlaces(now) \subseteq CertPlaces(now')
<1>1. now \in Nat /\ now' \in Nat /\ now <= now'
  BY TimeAssumption DEF Later
<1>2. \A i \in DOMAIN Root.cas :
        HasStartedBy(Root.cas[i].window, now) => HasStartedBy(Root.cas[i].window, now')
  BY <1>1, StartStays, RootWindows
<1> QED
  BY <1>2 DEF CertPlaces

\* A certificate that ends in an authority does so ever after.
LEMMA AnchorStays ==
  ASSUME Later, NEW cert, Anchored(cert)
  PROVE  Anchored(cert)'
<1>1. \A p \in CertPlaces(now) : FulcioCerts(Root, now')[p] = FulcioCerts(Root, now)[p]
  BY FulcioCertsAre, CertPlacesGrow
<1>2. Elements(FulcioCerts(Root, now)) \subseteq Elements(FulcioCerts(Root, now'))
  BY <1>1, FulcioCertsAre, CertPlacesGrow DEF Elements
<1> QED
  BY <1>2 DEF Anchored

\* The authority that has the name of the issuer stays the same one.
LEMMA IssuerStays ==
  ASSUME Later, DOMAIN Issuers # {}
  PROVE  DOMAIN Issuers' # {} /\ FirstCert(Issuers)' = FirstCert(Issuers)
<1> DEFINE CertAt(p) == Root.cas[p[1]].certs[p[2]]
           Named(t) == {p \in CertPlaces(t) : CertAt(p).subject = Cert.issuer}
<1>1. Cert' = Cert
  BY DEF Cert, bundle, Later
<1>2. Issuers = [p \in Named(now) |-> CertAt(p)]
  BY FulcioCertsAre DEF Issuers
<1>3. Issuers' = [p \in Named(now') |-> CertAt(p)]
  BY ONLY <1>1, FulcioCertsAre DEF Issuers
<1>4. Named(now) \subseteq Named(now') /\ Named(now') \subseteq Nat \X Nat /\ Named(now) # {}
  <2>1. Named(now) # {}
    BY <1>2
  <2>2. Named(now) \subseteq Named(now')
    BY ONLY CertPlacesGrow, Later
  <2>3. Named(now') \subseteq Nat \X Nat
    BY ONLY DEF CertPlaces
  <2> QED
    BY ONLY <2>1, <2>2, <2>3
<1>5. ASSUME NEW p \in Named(now'), NEW q \in Named(now), p[1] <= q[1]
      PROVE  p \in Named(now)
  <2> HIDE DEF CertAt
  <2>1. /\ p \in Nat \X Nat /\ p[1] \in DOMAIN Root.cas /\ p[2] \in DOMAIN Root.cas[p[1]].certs
        /\ q \in Nat \X Nat /\ q[1] \in DOMAIN Root.cas /\ q[2] \in DOMAIN Root.cas[q[1]].certs
        /\ HasStartedBy(Root.cas[q[1]].window, now)
        /\ CertAt(p).subject = CertAt(q).subject /\ CertAt(p).subject = Cert.issuer
    BY ONLY DEF CertPlaces
  <2>2. CASE p[1] = q[1]
    BY ONLY <2>1, <2>2 DEF CertPlaces
  <2>3. CASE p[1] < q[1]
    <3>1. CertAt(p) \in Elements(Root.cas[p[1]].certs) /\ CertAt(q) \in Elements(Root.cas[q[1]].certs)
      <4>1. \A s : \A k \in DOMAIN s : s[k] \in Elements(s)
        BY ONLY DEF Elements
      <4> QED
        BY ONLY <2>1, <4>1, Zenon DEF CertAt
    <3>2. NoLaterThan(Root.cas[p[1]].window, Root.cas[q[1]].window)
      BY <2>1, <2>3, <3>1, OrderAssumption
    <3>3. HasStartedBy(Root.cas[p[1]].window, now)
      BY <2>1, <3>2 DEF NoLaterThan, Later
    <3> QED
      BY ONLY <2>1, <3>3 DEF CertPlaces
  <2> QED
    BY <1>5, <2>1, <2>2, <2>3
<1> HIDE DEF Named, CertAt
<1>6. FirstPlace(Named(now)) = FirstPlace(Named(now'))
  BY <1>4, <1>5, FirstPlaceStays
<1>7. FirstPlace(Named(now)) \in Named(now)
  BY <1>4, FirstPlaceIsFirst
<1>8. /\ FirstCert(Issuers) = Issuers[FirstPlace(Named(now))]
      /\ FirstCert(Issuers)' = Issuers'[FirstPlace(Named(now'))]
  BY <1>2, <1>3 DEF FirstCert, FirstPlace, NotAfter
<1> QED
  BY <1>2, <1>3, <1>4, <1>6, <1>7, <1>8

LEMMA SctStays ==
  ASSUME Later, SctVerifies
  PROVE  SctVerifies'
<1>1. bundle' = bundle /\ Cert' = Cert
  BY DEF Cert, bundle, Later
<1>2. IssuerKnown' = IssuerKnown
  BY <1>1 DEF IssuerKnown
<1>3. ~IssuerKnown => DOMAIN Issuers # {}
  BY DEF SctVerifies
<1>4. IssuerKey' = IssuerKey /\ (~IssuerKnown => DOMAIN Issuers' # {})
  <2>1. CASE IssuerKnown
    BY <1>1, <1>2, <2>1 DEF IssuerKey
  <2>2. CASE ~IssuerKnown
    <3>1. DOMAIN Issuers' # {} /\ FirstCert(Issuers)' = FirstCert(Issuers)
      BY <1>3, <2>2, IssuerStays
    <3>2. IssuerKey = FirstCert(Issuers).key /\ IssuerKey' = FirstCert(Issuers)'.key
      BY <1>2, <2>2 DEF IssuerKey
    <3> QED
      BY <3>1, <3>2
  <2> QED
    BY <2>1, <2>2
<1>5. Elements(CtfeKeys(Root, now)) \subseteq Elements(CtfeKeys(Root, now'))
  BY UsableGrows, RootWindows DEF CtfeKeys
<1> DEFINE sct == Cert.scts[1]
           key == IssuerKey
<1>6. SignedByCtLog(sct, key)
  BY DEF SctVerifies
<1>7. SignedByCtLog(sct, key)'
  <2>1. sct' = sct /\ key' = key
    BY <1>1, <1>4
  <2> HIDE DEF sct, key
  <2> QED
    BY <1>5, <1>6, <2>1 DEF SignedByCtLog
<1> HIDE DEF sct, key
<1>8. SctVerifies' = (/\ IssuerKnown' \/ DOMAIN Issuers' # {}
                      /\ Len(Cert.scts) = 1
                      /\ SignedByCtLog(sct, key)')
  BY <1>1 DEF SctVerifies, sct, key
<1> QED
  BY <1>2, <1>4, <1>7, <1>8 DEF SctVerifies

-----------------------------------------------------------------------------
(* Past which step what holds, whatever the clock shows.                    *)

\* The chain of the certificate at the time that the bundle gives.
ChainsAt(at) ==
  /\ Covers(Cert.window, at)
  /\ Cert.codeSigning
  /\ \/ Anchored(Cert)
     \/ \E ca \in Elements(Tail(bundle.material.certs)) :
           /\ ca.subject = Cert.issuer /\ ca.key = Cert.by
           /\ Covers(ca.window, at)
           /\ Anchored(ca)

\* What each step finds, for the request and the time there is now.
FormHolds == ValidateBundle(bundle, FromLog)
TimeHolds == ByKey \/ TimeDetermined
ChainHolds == ByKey \/ ~policy.cert \/ ChainsAt(ValidationTime)
SctHolds == ByKey \/ ~policy.sct \/ SctVerifies
IdentityHolds == ByKey \/ PolicyHolds
LogHolds == FromLog => LogEntriesVerify
EntriesHold == FromLog => TlogConsistent

\* What a step found it will find ever after.
LEMMA FindingsStay ==
  ASSUME Later
  PROVE  /\ FormHolds => FormHolds'
         /\ TimeHolds => TimeHolds'
         /\ ChainHolds => ChainHolds'
         /\ SctHolds => SctHolds'
         /\ IdentityHolds => IdentityHolds'
         /\ LogHolds => LogHolds'
         /\ SignatureVerifies => SignatureVerifies'
         /\ EntriesHold => EntriesHold'
<1>1. /\ bundle' = bundle /\ policy' = policy /\ artifact' = artifact /\ Cert' = Cert
      /\ (ByKey' <=> ByKey) /\ (FromLog' <=> FromLog)
      /\ (ValidateBundle(bundle, FromLog)' <=> ValidateBundle(bundle, FromLog))
  BY SameRequest DEF Later
<1>2. FormHolds => FormHolds'
  BY <1>1 DEF FormHolds
<1>3. TimeHolds => TimeHolds'
  BY <1>1, TimeStays DEF TimeHolds
<1>4. ChainHolds => ChainHolds'
  <2>1. ValidationTime' = ValidationTime
    BY <1>1 DEF ValidationTime, V1IntegratedTimes
  <2> DEFINE at == ValidationTime
  <2>2. ASSUME ChainsAt(at)
        PROVE  ChainsAt(at)'
    <3>1. at' = at
      BY <2>1
    <3> HIDE DEF at
    <3>2. \A ca : Anchored(ca) => Anchored(ca)'
      BY AnchorStays
    <3> QED
      BY <1>1, <2>2, <3>1, <3>2 DEF ChainsAt
  <2> QED
    BY <1>1, <2>2 DEF ChainHolds
<1>5. SctHolds => SctHolds'
  BY <1>1, SctStays DEF SctHolds
<1>6. IdentityHolds => IdentityHolds'
  BY <1>1 DEF IdentityHolds, PolicyHolds
<1>7. LogHolds => LogHolds'
  BY <1>1, LogEntriesStay DEF LogHolds
<1>8. SignatureVerifies => SignatureVerifies'
  BY SameSignature DEF Later
<1>9. EntriesHold => EntriesHold'
  BY <1>1, SameConsistency DEF EntriesHold, Later
<1> QED
  BY <1>2, <1>3, <1>4, <1>5, <1>6, <1>7, <1>8, <1>9

\* Whether the verification, or an earlier one of the same request, got past a step:
\* its place is none of these.
Past(places) == before = "accepted" \/ pc \notin places \cup {"rejected"}

Stays ==
  /\ request \in Request /\ now \in MinTime .. MaxTime
  /\ Past({"structure"}) => FormHolds
  /\ Past({"structure", "time"}) => TimeHolds
  /\ Past({"structure", "time", "chain"}) => ChainHolds
  /\ Past({"structure", "time", "chain", "sct"}) => SctHolds
  /\ Past({"structure", "time", "chain", "sct", "policy"}) => IdentityHolds
  /\ Past({"structure", "time", "chain", "sct", "policy", "log"}) => LogHolds
  /\ Past({"structure", "time", "chain", "sct", "policy", "log", "signature"}) =>
       SignatureVerifies
  /\ Past({"structure", "time", "chain", "sct", "policy", "log", "signature", "consistency"}) =>
       EntriesHold
  /\ pc \in {"time", "chain", "sct", "policy"} => ~ByKey
  /\ pc = "chain" => time = ValidationTime
  /\ before = "accepted" => pc # "rejected"

\* The places of a verification, in order.
LEMMA StaysStep == Stays /\ [Next]_vars => Stays'
<1> SUFFICES ASSUME Stays, [Next]_vars
             PROVE  Stays'
  OBVIOUS
<1> DEFINE Held ==
       /\ FormHolds => FormHolds'
       /\ TimeHolds => TimeHolds'
       /\ ChainHolds => ChainHolds'
       /\ SctHolds => SctHolds'
       /\ IdentityHolds => IdentityHolds'
       /\ LogHolds => LogHolds'
       /\ SignatureVerifies => SignatureVerifies'
       /\ EntriesHold => EntriesHold'
       /\ (ByKey' <=> ByKey)
       /\ request' \in Request /\ now' \in MinTime .. MaxTime
<1>1. Held
  <2>1. request' = request /\ now' \in {now, now + 1} /\ now' \in MinTime .. MaxTime
    BY TimeAssumption DEF Stays, vars, Next, Structure, DetermineTime, VerifyCertificateChain, VerifySct,
       CheckPolicy, VerifyTlogEntries, VerifySignature, VerifyTlogConsistency, VerifyAgain,
       Tick, Step
  <2>2. Later
    BY <2>1, TimeAssumption DEF Later, Stays
  <2> QED
    BY <2>1, <2>2, FindingsStay, SameRequest DEF Later
<1>2. CASE UNCHANGED vars
  <2>1. pc' = pc /\ before' = before /\ time' = time /\ ValidationTime' = ValidationTime
    BY <1>2 DEF vars, ValidationTime, V1IntegratedTimes, bundle
  <2> QED
    BY <1>1, <2>1 DEF Stays, Past
<1> DEFINE same == before' = before
<1>3. CASE Structure
  <2>1. /\ pc = "structure" /\ same
        /\ pc' = IF FormHolds THEN (IF ByKey THEN "log" ELSE "time") ELSE "rejected"
    BY <1>3 DEF Structure, Step, FormHolds, FromLog
  <2>2. ByKey => TimeHolds /\ ChainHolds /\ SctHolds /\ IdentityHolds
    BY DEF TimeHolds, ChainHolds, SctHolds, IdentityHolds
  <2> QED
    BY <1>1, <2>1, <2>2 DEF Stays, Past
<1>4. CASE DetermineTime
  <2>1. /\ pc = "time" /\ same
        /\ pc' = IF TimeHolds THEN "chain" ELSE "rejected"
    BY <1>4 DEF DetermineTime, Step, TimeHolds, Stays
  <2>2. TimeHolds => time' = ValidationTime'
    <3>1. TimeHolds => time' = ValidationTime
      BY <1>4, <2>1 DEF DetermineTime, Step, TimeHolds, Stays
    <3>2. ValidationTime' = ValidationTime
      BY <1>4 DEF DetermineTime, Step, ValidationTime, V1IntegratedTimes, bundle
    <3> QED
      BY <3>1, <3>2
  <2> QED
    BY <1>1, <2>1, <2>2 DEF Stays, Past
<1>5. CASE VerifyCertificateChain
  <2>1. CertificateChains <=> ChainsAt(ValidationTime)
    <3>1. time = ValidationTime
      BY <1>5 DEF VerifyCertificateChain, Step, Stays
    <3> QED
      BY <3>1 DEF CertificateChains, ChainsAt
  <2>2. /\ pc = "chain" /\ same
        /\ pc' = IF ChainHolds THEN "sct" ELSE "rejected"
    BY <1>5, <2>1 DEF VerifyCertificateChain, Step, ChainHolds, Stays
  <2> QED
    BY <1>1, <2>2 DEF Stays, Past
<1>6. CASE VerifySct
  <2>1. /\ pc = "sct" /\ same
        /\ pc' = IF SctHolds THEN "policy" ELSE "rejected"
    BY <1>6 DEF VerifySct, Step, SctHolds, Stays
  <2> QED
    BY <1>1, <2>1 DEF Stays, Past
<1>7. CASE CheckPolicy
  <2>1. /\ pc = "policy" /\ same
        /\ pc' = IF IdentityHolds THEN "log" ELSE "rejected"
    BY <1>7 DEF CheckPolicy, Step, IdentityHolds, Stays
  <2> QED
    BY <1>1, <2>1 DEF Stays, Past
<1>8. CASE VerifyTlogEntries
  <2>1. /\ pc = "log" /\ same
        /\ pc' = IF LogHolds THEN "signature" ELSE "rejected"
    BY <1>8 DEF VerifyTlogEntries, Step, LogHolds, FromLog
  <2> QED
    BY <1>1, <2>1 DEF Stays, Past
<1>9. CASE VerifySignature
  <2>1. /\ pc = "signature" /\ same
        /\ pc' = IF SignatureVerifies THEN "consistency" ELSE "rejected"
    BY <1>9 DEF VerifySignature, Step
  <2> QED
    BY <1>1, <2>1 DEF Stays, Past
<1>10. CASE VerifyTlogConsistency
  <2>1. /\ pc = "consistency" /\ same
        /\ pc' = IF EntriesHold THEN "accepted" ELSE "rejected"
    BY <1>10 DEF VerifyTlogConsistency, Step, EntriesHold, FromLog
  <2> QED
    BY <1>1, <2>1 DEF Stays, Past
<1>11. CASE VerifyAgain
  <2>1. pc = "accepted" /\ before' = "accepted" /\ pc' = "structure"
    BY <1>11 DEF VerifyAgain
  <2> QED
    BY <1>1, <2>1 DEF Stays, Past
<1>12. CASE Tick
  <2>1. pc' = pc /\ same /\ time' = time /\ ValidationTime' = ValidationTime
    BY <1>12 DEF Tick, ValidationTime, V1IntegratedTimes, bundle
  <2> QED
    BY <1>1, <2>1 DEF Stays, Past
<1> QED
  BY <1>2, <1>3, <1>4, <1>5, <1>6, <1>7, <1>8, <1>9, <1>10, <1>11, <1>12 DEF Next

LEMMA StaysInit == Init => Stays
BY DEF Init, Stays, Past

LEMMA StaysHolds == Spec => []Stays
BY StaysInit, StaysStep, PTL DEF Spec

\* Verifying again what was accepted, at any later time, accepts it
\* (usable_for_verification, and the first match of every lookup).
THEOREM AcceptedStaysAcceptedHolds == Spec => []AcceptedStaysAccepted
<1>1. Stays => AcceptedStaysAccepted
  BY DEF Stays, AcceptedStaysAccepted
<1> QED
  BY <1>1, StaysHolds, PTL

-----------------------------------------------------------------------------
\* The invariant holds throughout.
LEMMA InvHolds == Spec => []IInv
<1>1. Init => IInv
  BY InvInit
<1>2. IInv /\ [Next]_vars => IInv'
  BY InvStep
<1> QED
  BY <1>1, <1>2, PTL DEF Spec

\* Whatever bundle is verified, the state is well typed, and whoever is past step
\* 0 and not yet at the log has a time (determine_validation_time).
THEOREM TypeCorrect == Spec => []TypeOK
<1>1. IInv => TypeOK
  BY DEF IInv
<1> QED
  BY <1>1, InvHolds, PTL

\* What verify or verify_with_key accepts from the log was logged as it stands.
THEOREM AcceptedWasLoggedHolds == Spec => []AcceptedWasLogged
BY InvHolds, InvIsLogged, PTL

\* The time at which verify checked the certificate was attested for the first
\* signature, though step 0 takes it from entries verified only later.
THEOREM TimeWasAttestedHolds == Spec => []TimeWasAttested
BY InvHolds, InvIsAttested, PTL
-----------------------------------------------------------------------------
(* What was put together as it should be passes every step.                *)

\* The clock is past the signing of what is verified.
Signed ==
  /\ Genuine(request)
  /\ now \in Nat /\ request.signed <= now

\* A window that has begun when something was done by the signing has begun now.
LEMMA StartedBySigning ==
  ASSUME Signed, NEW window, window.start \in Nat \cup {Unset},
         NEW t \in Nat, t <= request.signed, HasStartedBy(window, t)
  PROVE  HasStartedBy(window, now)
BY StartStays DEF Signed, Genuine

\* It is well formed: what is required is there, and a log signed each checkpoint.
LEMMA GenuineFormHolds ==
  ASSUME Signed, \A e \in Elements(bundle.entries) : e.proof # Unset => VerifyMerkleInclusion(e)
  PROVE  FormHolds
<1>1. GenuineForm(request) /\ \A e \in Elements(bundle.entries) : GenuineEntry(request, e)
  BY DEF Signed, Genuine, bundle
<1>2. /\ IsSequence(bundle.entries)
      /\ \A e \in Elements(bundle.entries) :
           IF bundle.version = "0.1" THEN e.promise # Unset ELSE e.proof # Unset
      /\ bundle.version = "0.1" => bundle.entries # <<>>
      /\ bundle.version = "0.3" => bundle.material.kind # "chain"
      /\ bundle.entries = <<>> => bundle.stamps # <<>> /\ ~FromLog
  BY <1>1 DEF GenuineForm, bundle, FromLog, ByKey, Keyed, policy
<1>3. bundle.entries # <<>> => Elements(bundle.entries) # {}
  BY <1>2, SequencePlaces DEF Elements
<1>4. \A e \in Elements(bundle.entries) : e.proof # Unset => ProofWellFormed(e.proof)
  <2> SUFFICES ASSUME NEW e \in Elements(bundle.entries), e.proof # Unset
               PROVE  ProofWellFormed(e.proof)
    OBVIOUS
  <2>1. PICK log \in Elements(Root.tlogs) : GenuineNote(e.proof, log)
    BY <1>1 DEF GenuineEntry
  <2>2. e.proof.note.text.root = e.proof.root /\ e.proof.note.sigs # <<>>
    BY <2>1 DEF GenuineNote, Elements
  <2>3. e.proof.index < e.proof.size
    BY DEF VerifyMerkleInclusion, VerifyInclusion
  <2> QED
    BY <2>2, <2>3 DEF ProofWellFormed, FromText
<1> QED
  BY <1>2, <1>3, <1>4 DEF FormHolds, ValidateBundle, HasInclusionPromise, HasInclusionProof

\* The policy was for this signer.
LEMMA GenuineIdentityHolds ==
  ASSUME Signed
  PROVE  IdentityHolds
BY DEF Signed, Genuine, GenuineCertificate, IdentityHolds, PolicyHolds, ByKey, Keyed, policy, bundle,
  Cert, Leaf, Certificates

\* The one signature, its key and what it is over, in the terms of verify.
LEMMA GenuineSignature ==
  ASSUME Signed
  PROVE  /\ bundle.content.sigs # <<>>
         /\ bundle.content.sigs = <<bundle.content.sigs[1]>>
         /\ Elements(bundle.content.sigs) = {Signature(request)}
         /\ Signature(request) = bundle.content.sigs[1]
         /\ Verifies(Signature(request), Signature(request).over)
         /\ IF bundle.content.kind = "dsse"
            THEN PayloadBindsArtifact(bundle.content) /\ Signature(request).over = Pae(bundle.content)
            ELSE bundle.content.over \in {Unset, artifact} /\ Signature(request).over = artifact
         /\ bundle.content.kind \in {"message", "dsse"}
         /\ HasCert <=> HasLeaf(request)
         /\ Cert = Leaf(request)
         /\ ByKey <=> Keyed(request)
<1>1. GenuineContent(request)
  BY DEF Signed, Genuine
<1>2. /\ HasCert <=> HasLeaf(request)
      /\ Cert = Leaf(request)
      /\ ByKey <=> Keyed(request)
      /\ Signature(request) = bundle.content.sigs[1]
  BY DEF HasCert, HasLeaf, Cert, Leaf, Certificates, ByKey, Keyed, Signature, bundle, policy
<1>3. bundle.content.sigs = <<Signature(request)>>
  BY <1>1 DEF GenuineContent, bundle
<1>4. Elements(bundle.content.sigs) = {Signature(request)} /\ bundle.content.sigs # <<>>
  BY <1>3 DEF Elements
<1>5. Verifies(Signature(request), Signature(request).over)
  BY <1>1, <1>2 DEF GenuineContent, Verifies, VerifyingKey, policy
<1>6. IF bundle.content.kind = "dsse"
      THEN PayloadBindsArtifact(bundle.content) /\ Signature(request).over = Pae(bundle.content)
      ELSE bundle.content.over \in {Unset, artifact} /\ Signature(request).over = artifact
  BY <1>1 DEF GenuineContent, PayloadBindsArtifact, MatchesSha256, bundle, artifact
<1>7. bundle.content.kind \in {"message", "dsse"}
  BY <1>1 DEF GenuineContent, bundle
<1> QED
  BY <1>2, <1>3, <1>4, <1>5, <1>6, <1>7

\* It verifies, and binds the artifact.
LEMMA GenuineSignatureVerifies ==
  ASSUME Signed
  PROVE  SignatureVerifies
BY GenuineSignature DEF SignatureVerifies

\* Every entry has the body that was asked for, which step 8 compares with the rest.
LEMMA GenuineEntriesHold ==
  ASSUME Signed
  PROVE  EntriesHold
<1> SUFFICES ASSUME NEW e \in Elements(bundle.entries)
             PROVE  EntryConsistent(e)
  BY DEF EntriesHold, TlogConsistent
<1> DEFINE body == e.body.sigs[1]
           cert == IF HasCert THEN Cert ELSE Unset
           sig == bundle.content.sigs[1]
           over == Signature(request).over
<1>1. GenuineBody(request, e) /\ GenuineEntry(request, e)
  BY DEF Signed, Genuine, bundle
<1>2. e.body.sigs = <<[sig |-> sig, cert |-> cert]>>
  BY <1>1, GenuineSignature DEF GenuineBody
<1>3. Elements(e.body.sigs) = {body} /\ body.sig = sig /\ body.cert = cert /\ Len(e.body.sigs) = 1
  BY <1>2 DEF Elements
<1>4. /\ e.body.kind = e.kind /\ e.body.version = e.version
      /\ <<e.kind, e.version>> \in
           IF bundle.content.kind = "dsse"
           THEN {<<"hashedrekord", "0.0.2">>, <<"dsse", "0.0.1">>, <<"intoto", "0.0.2">>}
           ELSE {<<"hashedrekord", "0.0.1">>, <<"hashedrekord", "0.0.2">>}
      /\ e.body.over = IF e.kind = "hashedrekord" THEN over ELSE bundle.content.over
  BY <1>1 DEF GenuineBody, bundle
<1>5. FromBase64Json(e)
  BY <1>4 DEF FromBase64Json
<1>6. /\ Len(bundle.content.sigs) = 1 /\ Elements(bundle.content.sigs) = {sig}
      /\ bundle.content.sigs # <<>>
      /\ bundle.content.kind \in {"message", "dsse"}
      /\ bundle.content.kind = "dsse" => over = Pae(bundle.content)
      /\ bundle.content.kind # "dsse" => over = artifact
  BY GenuineSignature
<1> HIDE DEF body, cert, sig, over
<1>7. CASE e.kind = "hashedrekord"
  <2>1. /\ e.version = "0.0.1" => bundle.content.kind = "message"
        /\ e.version \in {"0.0.1", "0.0.2"}
    BY <1>4, <1>6, <1>7
  <2>2. CertificateMatches(e)
    BY <1>3 DEF CertificateMatches, cert, body
  <2>3. SignatureMatches(e)
    BY <1>3, <1>6 DEF SignatureMatches, sig, body
  <2>4. IntegratedInTime(e)
    BY <1>1, GenuineSignature DEF GenuineEntry, InTime, IntegratedInTime
  <2> QED
    BY <1>4, <1>5, <1>6, <1>7, <2>1, <2>2, <2>3, <2>4 DEF EntryConsistent, VerifyHashedRekord
<1>8. CASE e.kind = "dsse"
  <2>1. VerifyDsseV001(e)
    BY <1>3, <1>4, <1>5, <1>6, <1>8 DEF VerifyDsseV001, cert
  <2> QED
    BY <1>4, <1>8, <2>1 DEF EntryConsistent
<1>9. CASE e.kind = "intoto"
  <2>1. VerifyIntotoV002(e)
    BY <1>3, <1>4, <1>5, <1>6, <1>9 DEF VerifyIntotoV002
  <2> QED
    BY <1>4, <1>9, <2>1 DEF EntryConsistent
<1> QED
  BY <1>4, <1>7, <1>8, <1>9

\* The stamp of an authority verifies although its successor may be in use by now.
LEMMA GenuineStampVerifies ==
  ASSUME Signed, NEW t \in Elements(bundle.stamps)
  PROVE  /\ TimestampVerifies(t, bundle.content.sigs[1])
         /\ InTime(request, t.info.time)
<1> DEFINE own == WithId(t.certs, t.signer)
           leaves == TsaLeafCerts(Root, now)
           ofRoot == WithId(leaves, t.signer)
           cert == First(SignerCertificates(t))
           at == t.info.time
<1>1. GenuineStamp(request, t)
  BY DEF Signed, Genuine, bundle
<1>2. /\ t.granted /\ t.info # Unset /\ t.info.over = bundle.content.sigs[1] /\ t.attrs = t.info
      /\ InTime(request, at) /\ IsSequence(t.certs)
  BY <1>1, GenuineSignature DEF GenuineStamp
<1>3. PICK tsa \in Elements(Root.tsas) :
        /\ Covers(tsa.window, at) /\ Covers(tsa.leaf.window, at)
        /\ tsa.leaf.root = tsa.root /\ tsa.leaf.timeStamping
        /\ t.signer = tsa.leaf.id
        /\ t.signature = [key |-> tsa.leaf.key, over |-> t.info]
        /\ \A c \in Elements(t.certs) \cup {x.leaf : x \in Elements(Root.tsas)} :
             c.id = t.signer => c = tsa.leaf
  BY <1>1 DEF GenuineStamp
<1>4. PICK i \in DOMAIN Root.tsas : Root.tsas[i] = tsa
  BY DEF Elements
<1>5. HasStartedBy(tsa.window, now)
  <2>1. HasStartedBy(tsa.window, at) /\ at \in Nat /\ at <= request.signed
    BY <1>2, <1>3 DEF Covers, InTime, Signed, Genuine
  <2>2. tsa.window.start \in Nat \cup {Unset}
    BY <1>4, RootWindows
  <2> HIDE DEF at
  <2> QED
    BY <2>1, <2>2, StartedBySigning
<1>6. DOMAIN t.certs \subseteq Nat /\ DOMAIN Root.tsas \subseteq Nat
  BY <1>2, FormAssumption, SequencePlaces
<1>7. /\ DOMAIN leaves \subseteq Nat
      /\ Elements(leaves) \subseteq {x.leaf : x \in Elements(Root.tsas)}
      /\ i \in DOMAIN leaves /\ leaves[i] = tsa.leaf
  BY <1>4, <1>5, <1>6 DEF TsaLeafCerts, Usable, UsableForVerification, Elements
<1>8. DOMAIN SignerCertificates(t) # {} /\ cert = tsa.leaf
  <2>1. CASE DOMAIN own # {}
    <3>1. SignerCertificates(t) = own
      BY <2>1 DEF SignerCertificates
    <3>2. First(own) \in Elements(t.certs) /\ First(own).id = t.signer
      BY <1>6, <2>1, WithIdIsGiven
    <3> QED
      BY <1>3, <2>1, <3>1, <3>2
  <2>2. CASE DOMAIN own = {}
    <3>1. SignerCertificates(t) = ofRoot
      BY <2>2 DEF SignerCertificates
    <3>2. i \in DOMAIN ofRoot
      BY <1>3, <1>7 DEF WithId
    <3>3. First(ofRoot) \in Elements(leaves) /\ First(ofRoot).id = t.signer
      <4> HIDE DEF leaves
      <4> QED
        BY <1>7, <3>2, WithIdIsGiven
    <3> HIDE DEF ofRoot, leaves
    <3> QED
      BY <1>3, <1>7, <3>1, <3>2, <3>3
  <2> QED
    BY <2>1, <2>2
<1>9. tsa.root \in Elements(TsaRootCerts(Root, now))
  BY <1>4, <1>5 DEF TsaRootCerts, Usable, UsableForVerification, Elements
<1>10. IsTimestampWithinTsaValidity(Root, at)
  BY <1>3, <1>4 DEF IsTimestampWithinTsaValidity
<1> HIDE DEF cert
<1>11. VerifyCmsSignature(t, cert)
  BY <1>2, <1>3, <1>8 DEF VerifyCmsSignature, VerifyMessageDigest
<1>12. TsaCertificateChains(cert, at)
  BY <1>3, <1>8, <1>9 DEF TsaCertificateChains
<1> QED
  BY <1>2, <1>8, <1>10, <1>11, <1>12
     DEF TimestampVerifies, VerifyTimestampResponse, ParseTimestampToken, cert

\* Step 0 finds a time, and one in the window of the certificate.
LEMMA GenuineTimeHolds ==
  ASSUME Signed, ~ByKey
  PROVE  TimeDetermined /\ InTime(request, ValidationTime)
<1> DEFINE stamped == {t.info.time : t \in Elements(bundle.stamps)}
<1>1. HasCert /\ bundle.content.sigs # <<>>
  BY GenuineSignature DEF Signed, Genuine, GenuineCertificate
<1>2. /\ IsSequence(bundle.stamps) /\ GenuineTime(request)
      /\ \A e \in Elements(bundle.entries) : GenuineEntry(request, e)
  BY GenuineSignature DEF Signed, Genuine, GenuineForm, bundle
<1>3. \A t : InTime(request, t) => t \in Nat
  BY DEF InTime, Signed, Genuine
<1>4. CASE bundle.stamps # <<>>
  <2>1. \A t \in Elements(bundle.stamps) :
          TimestampVerifies(t, bundle.content.sigs[1]) /\ InTime(request, t.info.time)
    BY GenuineStampVerifies
  <2>2. stamped # {} /\ \A t \in stamped : InTime(request, t)
    BY <1>2, <1>4, <2>1, SequencePlaces DEF Elements
  <2>3. Minimum(stamped) \in stamped
    <3> HIDE DEF stamped
    <3>1. stamped \subseteq Nat
      BY <1>3, <2>2
    <3> QED
      BY <2>2, <3>1, MinimumIsLeast
  <2> QED
    BY <1>1, <1>4, <2>1, <2>2, <2>3 DEF TimeDetermined, ValidationTime
<1>5. CASE bundle.stamps = <<>>
  <2>1. PICK e \in Elements(bundle.entries) :
          /\ e.version = "0.0.1" /\ e.kind \in {"hashedrekord", "dsse"}
          /\ e.promise # Unset /\ e.integrated # 0
    BY <1>2, <1>5 DEF GenuineTime, bundle
  <2>2. InTime(request, e.integrated)
    BY <1>2, <2>1 DEF GenuineEntry
  <2>3. e.integrated \in V1IntegratedTimes
    BY <1>3, <2>1, <2>2 DEF V1IntegratedTimes
  <2>4. \A x \in V1IntegratedTimes : InTime(request, x)
    <3> SUFFICES ASSUME NEW x \in V1IntegratedTimes
                 PROVE  InTime(request, x)
      OBVIOUS
    <3>1. PICK d \in Elements(bundle.entries) : x = d.integrated /\ d.integrated > 0
      BY DEF V1IntegratedTimes
    <3>2. d.integrated # 0
      BY <3>1
    <3> QED
      BY <1>2, <3>1, <3>2 DEF GenuineEntry
  <2>5. Minimum(V1IntegratedTimes) \in V1IntegratedTimes
    <3>1. V1IntegratedTimes \subseteq Nat /\ V1IntegratedTimes # {}
      BY <1>3, <2>3, <2>4
    <3> QED
      BY <3>1, MinimumIsLeast
  <2> QED
    BY <1>1, <1>5, <2>3, <2>4, <2>5 DEF TimeDetermined, ValidationTime
<1> QED
  BY <1>4, <1>5

\* What an authority of the root issued is anchored in the root ever after.
LEMMA IssuedIsAnchored ==
  ASSUME Signed, NEW cert, IssuedByRoot(request, cert)
  PROVE  /\ Anchored(cert)
         /\ \E p \in CertPlaces(now) : Issues(Root.cas[p[1]].certs[p[2]], cert)
<1>1. PICK i \in DOMAIN Root.cas :
        /\ HasStartedBy(Root.cas[i].window, request.signed)
        /\ \E c \in Elements(Root.cas[i].certs) : Issues(c, cert)
  BY DEF IssuedByRoot, Elements
<1>2. PICK k \in DOMAIN Root.cas[i].certs : Issues(Root.cas[i].certs[k], cert)
  BY <1>1 DEF Elements
<1>3. HasStartedBy(Root.cas[i].window, now)
  <2>1. request.signed \in Nat /\ request.signed <= request.signed
    BY DEF Signed, Genuine
  <2>2. Root.cas[i].window.start \in Nat \cup {Unset}
    BY RootWindows
  <2> QED
    BY <1>1, <2>1, <2>2, StartedBySigning
<1>4. i \in Nat /\ k \in Nat
  <2>1. IsSequence(Root.cas) /\ IsSequence(Root.cas[i].certs)
    BY FormAssumption DEF Elements
  <2> QED
    BY <2>1, SequencePlaces
<1>5. <<i, k>> \in CertPlaces(now)
  BY <1>2, <1>3, <1>4 DEF CertPlaces
<1>6. Root.cas[i].certs[k] \in Elements(FulcioCerts(Root, now))
  BY <1>5, FulcioCertsAre DEF Elements
<1> QED
  BY <1>2, <1>5, <1>6 DEF Anchored, Issues

\* The certificate chains at the time that step 0 takes.
LEMMA GenuineChainHolds ==
  ASSUME Signed
  PROVE  ChainHolds
<1> SUFFICES ASSUME ~ByKey, policy.cert
             PROVE  ChainsAt(ValidationTime)
  BY DEF ChainHolds
<1> DEFINE at == ValidationTime
<1>1. InTime(request, at)
  BY GenuineTimeHolds
<1>2. GenuineChain(request) /\ HasLeaf(request)
  BY GenuineSignature DEF Signed, Genuine, GenuineCertificate, policy
<1> HIDE DEF at
<1>3. Covers(Cert.window, at) /\ Cert.codeSigning /\ at \in 0 .. request.signed
  BY <1>1, <1>2, GenuineSignature DEF InTime, GenuineChain
<1>4. CASE IssuedByRoot(request, Leaf(request))
  <2>1. Anchored(Cert)
    BY <1>4, IssuedIsAnchored, GenuineSignature
  <2> QED
    BY <1>3, <2>1 DEF ChainsAt, at
<1>5. ASSUME NEW ca \in Elements(Tail(bundle.material.certs)),
             Issues(ca, Leaf(request)), IssuedByRoot(request, ca),
             \A t \in 0 .. request.signed : Covers(Leaf(request).window, t) => Covers(ca.window, t)
      PROVE  ChainsAt(at)
  <2>1. Anchored(ca)
    BY <1>5, IssuedIsAnchored
  <2>2. Covers(ca.window, at)
    BY <1>3, <1>5, GenuineSignature
  <2>3. ca.subject = Cert.issuer /\ ca.key = Cert.by
    BY <1>5, GenuineSignature DEF Issues
  <2> QED
    BY <1>3, <2>1, <2>2, <2>3 DEF ChainsAt
<1>6. ChainsAt(at)
  BY <1>2, <1>4, <1>5 DEF GenuineChain, Certificates, bundle, at
<1> QED
  BY <1>6 DEF at

\* The issuer's key that the SCT names is the one found for it.
LEMMA GenuineSctHolds ==
  ASSUME Signed
  PROVE  SctHolds
<1> SUFFICES ASSUME ~ByKey, policy.sct
             PROVE  SctVerifies
  BY DEF SctHolds
<1> DEFINE CertAt(p) == Root.cas[p[1]].certs[p[2]]
           Named == {p \in CertPlaces(now) : CertAt(p).subject = Cert.issuer}
<1>1. GenuineSct(request)
  BY GenuineSignature DEF Signed, Genuine, GenuineCertificate, policy
<1>2. /\ Len(Cert.scts) = 1
      /\ Cert.scts[1].issuerKey = Cert.by
      /\ IssuerKnown => bundle.material.certs[2].key = Cert.by
      /\ ~IssuerKnown =>
           /\ IssuedByRoot(request, Cert)
           /\ \A ca \in Elements(Root.cas) : \A c \in Elements(ca.certs) :
                c.subject = Cert.issuer => c.key = Cert.by
  BY <1>1, GenuineSignature DEF GenuineSct, IssuerKnown, Certificates, bundle
<1>3. \E log \in Elements(CtfeKeys(Root, now)) : log.key = Cert.scts[1].by
  <2>1. PICK i \in DOMAIN Root.ctlogs :
          HasStartedBy(Root.ctlogs[i].window, request.signed) /\ Root.ctlogs[i].key = Cert.scts[1].by
    BY <1>1, GenuineSignature DEF GenuineSct, Elements
  <2>2. HasStartedBy(Root.ctlogs[i].window, now)
    <3>1. request.signed \in Nat /\ request.signed <= request.signed
      BY DEF Signed, Genuine
    <3>2. Root.ctlogs[i].window.start \in Nat \cup {Unset}
      BY RootWindows
    <3> QED
      BY <2>1, <3>1, <3>2, StartedBySigning
  <2> QED
    BY <2>1, <2>2 DEF CtfeKeys, Usable, UsableForVerification, Elements
<1>4. CASE IssuerKnown
  BY <1>2, <1>3, <1>4 DEF SctVerifies, SignedByCtLog, IssuerKey
<1>5. CASE ~IssuerKnown
  <2>1. Issuers = [p \in Named |-> CertAt(p)]
    BY FulcioCertsAre DEF Issuers
  <2>2. Named # {} /\ Named \subseteq Nat \X Nat
    <3>1. \E p \in CertPlaces(now) : Issues(CertAt(p), Cert)
      BY <1>2, <1>5, IssuedIsAnchored
    <3> QED
      BY <3>1 DEF Issues, CertPlaces
  <2>3. \A p \in Named : CertAt(p).key = Cert.by
    BY <1>2, <1>5 DEF CertPlaces, Elements
  <2> HIDE DEF CertAt, Named
  <2>4. FirstCert(Issuers) = Issuers[FirstPlace(Named)]
    BY <2>1 DEF FirstCert, FirstPlace, NotAfter
  <2>5. FirstPlace(Named) \in Named
    BY <2>2, FirstPlaceIsFirst
  <2>6. IssuerKey = Cert.by /\ DOMAIN Issuers # {}
    BY <1>5, <2>1, <2>2, <2>3, <2>4, <2>5 DEF IssuerKey
  <2> QED
    BY <1>2, <1>3, <2>6 DEF SctVerifies, SignedByCtLog
<1> QED
  BY <1>4, <1>5

\* Of the logs in use the one of that ID is found.
LEMMA LogIsFound ==
  ASSUME Signed, NEW log \in Elements(Root.tlogs), HasStartedBy(log.window, request.signed),
         \A other \in Elements(Root.tlogs) : other.id = log.id => other.key = log.key
  PROVE  /\ DOMAIN RekorKeyForLog(Root, log.id, now) # {}
         /\ First(RekorKeyForLog(Root, log.id, now)).key = log.key
<1> DEFINE used == Usable(Root.tlogs, now)
<1>1. PICK i \in DOMAIN Root.tlogs : Root.tlogs[i] = log
  BY DEF Elements
<1>2. HasStartedBy(log.window, now)
  <2>1. request.signed \in Nat /\ request.signed <= request.signed
    BY DEF Signed, Genuine
  <2>2. log.window.start \in Nat \cup {Unset}
    BY <1>1, RootWindows
  <2> QED
    BY <2>1, <2>2, StartedBySigning
<1>3. DOMAIN Root.tlogs \subseteq Nat
  BY FormAssumption, SequencePlaces
<1>4. DOMAIN used \subseteq Nat /\ Elements(used) \subseteq Elements(Root.tlogs)
  BY <1>3, UsableIsGiven
<1>5. i \in DOMAIN WithId(used, log.id)
  BY <1>1, <1>2 DEF WithId, Usable, UsableForVerification
<1> HIDE DEF used
<1>6. /\ First(WithId(used, log.id)) \in Elements(used)
      /\ First(WithId(used, log.id)).id = log.id
  BY <1>4, <1>5, WithIdIsGiven
<1> QED
  BY <1>4, <1>5, <1>6 DEF RekorKeyForLog, used

\* So the checkpoint verifies: of its signatures that of the log decides.
LEMMA GenuineNoteVerifies ==
  ASSUME Signed, NEW e, e.proof # Unset,
         NEW log \in Elements(Root.tlogs), HasStartedBy(log.window, request.signed),
         \A other \in Elements(Root.tlogs) : other.id = log.id => other.key = log.key,
         GenuineNote(e.proof, log)
  PROVE  VerifyCheckpoint(e)
<1> DEFINE note == e.proof.note
           Hints == {l.id : l \in Elements(Root.tlogs)}
           Known == {j \in DOMAIN note.sigs : DOMAIN RekorKeyForLog(Root, note.sigs[j].hint, now) # {}}
<1>1. /\ note.text.root = e.proof.root
      /\ IsSequence(note.sigs)
      /\ \A g, h \in DOMAIN note.sigs :
           {note.sigs[g].hint, note.sigs[h].hint} \subseteq Hints => g = h
  BY DEF GenuineNote
<1>2. PICK k \in DOMAIN note.sigs :
        note.sigs[k] = [hint |-> log.id, by |-> log.key, over |-> note.text]
  BY DEF GenuineNote, Elements
<1>3. KnownSignatures(note) = [i \in Known |-> note.sigs[i]]
  BY DEF KnownSignatures, RekorKeys, RekorKeyForLog
<1>4. k \in Known
  BY <1>2, LogIsFound
<1>5. \A j \in Known : j = k
  <2> SUFFICES ASSUME NEW j \in Known
               PROVE  j = k
    OBVIOUS
  <2>1. note.sigs[j].hint \in Hints
    BY DEF RekorKeyForLog, WithId, Usable, Elements
  <2>2. note.sigs[k].hint \in Hints
    BY <1>2
  <2>3. j \in DOMAIN note.sigs
    OBVIOUS
  <2> HIDE DEF note, Hints, Known
  <2> QED
    BY <1>1, <2>1, <2>2, <2>3
<1>6. Known = {k} /\ k \in Nat
  <2>1. DOMAIN note.sigs \subseteq Nat
    <3> HIDE DEF note
    <3> QED
      BY <1>1, SequencePlaces
  <2> QED
    BY <1>4, <1>5, <2>1
<1>7. First(KnownSignatures(note)) = note.sigs[k] /\ DOMAIN KnownSignatures(note) # {}
  <2>1. Minimum({k}) = k
    BY <1>6, MinimumIsLeast
  <2> HIDE DEF note, Known
  <2> QED
    BY <1>3, <1>6, <2>1 DEF First
<1>8. First(WithId(RekorKeys(Root, now), log.id)).key = log.key
  BY LogIsFound DEF RekorKeyForLog, RekorKeys
<1>9. NoteVerifies(note.sigs[k], log.key, note) /\ note.sigs[k].hint = log.id
  BY <1>2 DEF NoteVerifies
<1>10. FromText(note)
  BY <1>2 DEF FromText
<1> QED
  BY <1>1, <1>7, <1>8, <1>9, <1>10 DEF VerifyCheckpoint

\* The promise verifies with the log's key, as of the integrated time or now.
LEMMA GenuineSetVerifies ==
  ASSUME Signed, NEW e, e.integrated \in Nat, NEW log \in Elements(Root.tlogs),
         log.id = e.id, HasStartedBy(log.window, request.signed),
         e.integrated # 0 => Covers(log.window, e.integrated),
         \A other \in Elements(Root.tlogs) : other.id = log.id => other.key = log.key,
         e.promise = [by |-> log.key, id |-> e.id, integrated |-> e.integrated, body |-> e.body]
  PROVE  VerifySet(e)
<1>1. CASE e.integrated = 0
  <2>1. LogKeys(e) = RekorKeyForLog(Root, log.id, now)
    BY <1>1 DEF LogKeys
  <2> QED
    BY <2>1, LogIsFound DEF VerifySet
<1>2. CASE e.integrated # 0
  <2> DEFINE covering == [i \in {j \in DOMAIN Root.tlogs : Covers(Root.tlogs[j].window, e.integrated)}
                            |-> Root.tlogs[i]]
  <2>1. LogKeys(e) = WithId(covering, log.id)
    BY <1>2 DEF LogKeys, RekorKeyForLogAt
  <2>2. DOMAIN Root.tlogs \subseteq Nat
    BY FormAssumption, SequencePlaces
  <2>3. DOMAIN covering \subseteq Nat /\ Elements(covering) \subseteq Elements(Root.tlogs)
    BY <2>2 DEF Elements
  <2>4. DOMAIN WithId(covering, log.id) # {}
    BY <1>2 DEF WithId, Elements
  <2> HIDE DEF covering
  <2>5. First(WithId(covering, log.id)) \in Elements(Root.tlogs)
        /\ First(WithId(covering, log.id)).id = log.id
    BY <2>3, <2>4, WithIdIsGiven
  <2> QED
    BY <2>1, <2>4, <2>5 DEF VerifySet
<1> QED
  BY <1>1, <1>2

\* Steps 4 to 6 pass for entries whose proofs do.
LEMMA GenuineLogHolds ==
  ASSUME Signed, \A e \in Elements(bundle.entries) : e.proof # Unset => VerifyMerkleInclusion(e)
  PROVE  LogHolds
<1> SUFFICES ASSUME NEW e \in Elements(bundle.entries)
             PROVE  VerifyEntryInclusion(e) /\ (ByKey \/ IntegratedTimeHolds(e))
  BY DEF LogHolds, LogEntriesVerify
<1>1. GenuineEntry(request, e)
  BY DEF Signed, Genuine, bundle
<1>2. /\ request.signed \in Nat /\ policy.skew \in Nat
      /\ now \in Nat /\ request.signed <= now
  BY DEF Signed, Genuine, policy
<1>3. e.integrated \in Nat /\ (e.integrated # 0 => InTime(request, e.integrated))
  BY <1>1, <1>2 DEF GenuineEntry, InTime
<1>4. PICK log \in Elements(Root.tlogs) :
        /\ log.id = e.id
        /\ HasStartedBy(log.window, request.signed)
        /\ e.integrated # 0 => Covers(log.window, e.integrated)
        /\ \A other \in Elements(Root.tlogs) : other.id = log.id => other.key = log.key
        /\ e.promise \in {Unset, [by |-> log.key, id |-> e.id,
                                  integrated |-> e.integrated, body |-> e.body]}
        /\ e.proof # Unset => GenuineNote(e.proof, log)
  BY <1>1 DEF GenuineEntry
<1>5. e.proof # Unset => VerifyMerkleInclusion(e) /\ VerifyCheckpoint(e)
  BY <1>4, GenuineNoteVerifies
<1>6. e.promise # Unset => VerifySet(e)
  BY <1>3, <1>4, GenuineSetVerifies
<1>7. ~ByKey => IntegratedTimeHolds(e)
  <2> SUFFICES ASSUME ~ByKey, e.integrated > 0
               PROVE  e.integrated <= now + policy.skew /\ Covers(Cert.window, e.integrated)
    BY DEF IntegratedTimeHolds
  <2>1. HasLeaf(request)
    BY GenuineSignature DEF Signed, Genuine, GenuineCertificate
  <2>2. InTime(request, e.integrated)
    BY <1>3
  <2>3. e.integrated <= request.signed /\ Covers(Cert.window, e.integrated)
    BY <1>2, <2>1, <2>2, GenuineSignature DEF InTime
  <2> DEFINE skew == policy.skew
             signed == request.signed
  <2> HIDE DEF skew, signed
  <2>4. e.integrated <= now + skew
    BY <1>2, <1>3, <2>3 DEF skew, signed
  <2> QED
    BY <2>3, <2>4 DEF skew
<1> QED
  BY <1>5, <1>6, <1>7 DEF VerifyEntryInclusion

-----------------------------------------------------------------------------
\* The lemmas about Merkle trees.  The one cited says nothing about the state of the
\* client there, and the bounds given satisfy BoundsAssumption.
Tree == INSTANCE MerkleLog_proofs
          WITH MaxSize <- 1, MaxAlterations <- 0, log <- <<>>, seen <- <<>>, claim <- 0,
               verdict <- "none", alterations <- 0

\* The operators of that instance are those of Merkle.
LEMMA SameTrees ==
  /\ \A leaf : Tree!HashLeaf(leaf) = HashLeaf(leaf)
  /\ \A leaves : Tree!MTH(leaves) = MTH(leaves)
  /\ \A leaves, m, n : Tree!Path(leaves, m, n) = Path(leaves, m, n)
<1>1. \A leaf : Tree!HashLeaf(leaf) = HashLeaf(leaf)
  BY Zenon DEF Tree!HashLeaf, HashLeaf
<1>2. Tree!Split = Split
  BY Zenon DEF Tree!Split, Split
<1>3. \A nodes, n : Tree!Roots(nodes, n) = Roots(nodes, n)
  BY <1>2, Zenon DEF Tree!Roots, Roots, Tree!HashChildren, HashChildren, Tree!EmptyRoot, EmptyRoot
<1>4. \A leaves : Tree!Subtrees(leaves) = Subtrees(leaves)
  <2>1. \A leaves : Tree!Leaves(leaves) = Leaves(leaves)
    BY <1>1, Zenon DEF Tree!Leaves, Leaves
  <2> QED
    BY <1>3, <2>1, Zenon DEF Tree!Subtrees, Subtrees
<1>5. \A leaves : Tree!MTH(leaves) = MTH(leaves)
  BY <1>4, Zenon DEF Tree!MTH, MTH, Tree!Subtree, Subtree
<1>6. ASSUME NEW root, NEW m, NEW n
      PROVE  Tree!Paths(root, m, n) = Paths(root, m, n)
  BY <1>2, Zenon DEF Tree!Paths, Paths
<1>7. \A leaves, m, n : Tree!Path(leaves, m, n) = Path(leaves, m, n)
  BY <1>4, <1>6, Zenon DEF Tree!Path, Path
<1> QED
  BY <1>1, <1>5, <1>7

\* So is the verification of an inclusion.
LEMMA SameClimb ==
  \A leafHash, index, size, proof, root :
    Tree!VerifyInclusion(leafHash, index, size, proof, root)
      <=> VerifyInclusion(leafHash, index, size, proof, root)
<1>1. Tree!Siblings = Siblings
  BY Zenon DEF Tree!Siblings, Siblings
<1>2. \A at : Tree!OnTheRight(at) = OnTheRight(at)
  BY Zenon DEF Tree!OnTheRight, OnTheRight
<1>3. \A at, sibling : Tree!Climb(at, sibling) = Climb(at, sibling)
  BY <1>2, Zenon DEF Tree!Climb, Climb, Tree!HashChildren, HashChildren
<1>4. \A leafHash, index, size, proof :
        Tree!Ascent(leafHash, index, size, proof) = Ascent(leafHash, index, size, proof)
  BY <1>3, Zenon DEF Tree!Ascent, Ascent
<1>5. \A index, size : Tree!ExpectedLength(index, size) = ExpectedLength(index, size)
  BY <1>1, Zenon DEF Tree!ExpectedLength, ExpectedLength
<1>6. \A leafHash, index, size, proof :
        Tree!RootFromInclusion(leafHash, index, size, proof)
          = RootFromInclusion(leafHash, index, size, proof)
  BY <1>4, Zenon DEF Tree!RootFromInclusion, RootFromInclusion
<1> QED
  BY <1>5, <1>6, Zenon DEF Tree!VerifyInclusion, VerifyInclusion

\* What RFC 6962 tells the log to send for one of its entries verifies.
LEMMA HonestIsIncluded ==
  ASSUME NEW entries, IsSequence(entries), NEW i \in 0 .. Len(entries) - 1
  PROVE  VerifyInclusion(HashLeaf(entries[i + 1]), i, Len(entries), Path(entries, i, Len(entries)),
                         MTH(entries))
<1>1. Len(entries) \in Nat /\ DOMAIN entries = 1 .. Len(entries)
  BY DEF IsSequence
<1>2. Tree!VerifyInclusion(Tree!HashLeaf(entries[i + 1]), i, Len(entries),
                           Tree!Path(entries, i, Len(entries)), Tree!MTH(entries))
  BY <1>1, Tree!HonestInclusion
<1> QED
  BY <1>2, SameTrees, SameClimb, Zenon

LEMMA ProvedIsIncluded ==
  ASSUME NEW e, ProvedFromLog(e)
  PROVE  VerifyMerkleInclusion(e)
<1>1. PICK log \in Logs : \E i \in 0 .. Len(log) - 1 :
        /\ log[i + 1] = e.body
        /\ e.proof.index = i /\ e.proof.size = Len(log)
        /\ e.proof.hashes = Path(log, i, Len(log)) /\ e.proof.root = MTH(log)
  BY DEF ProvedFromLog
<1>2. PICK i \in 0 .. Len(log) - 1 :
        /\ log[i + 1] = e.body
        /\ e.proof.index = i /\ e.proof.size = Len(log)
        /\ e.proof.hashes = Path(log, i, Len(log)) /\ e.proof.root = MTH(log)
  BY <1>1
<1>3. VerifyInclusion(HashLeaf(log[i + 1]), i, Len(log), Path(log, i, Len(log)), MTH(log))
  BY GenuineAssumption, HonestIsIncluded
<1> QED
  BY <1>2, <1>3 DEF VerifyMerkleInclusion

-----------------------------------------------------------------------------
\* Every step of verify passes a bundle that was put together as it should be.
LEMMA GenuinePasses ==
  ASSUME Signed, \A e \in Elements(bundle.entries) : e.proof # Unset => VerifyMerkleInclusion(e)
  PROVE  /\ FormHolds /\ TimeHolds /\ ChainHolds /\ SctHolds /\ IdentityHolds /\ LogHolds
         /\ SignatureVerifies /\ EntriesHold
BY GenuineFormHolds, GenuineTimeHolds, GenuineChainHolds, GenuineSctHolds, GenuineIdentityHolds,
   GenuineLogHolds, GenuineSignatureVerifies, GenuineEntriesHold DEF TimeHolds

\* A step rejects only what it finds wanting, and the clock is past the signing.
LEMMA GenuineStep ==
  ASSUME IInv, Stays, GenuineIsAccepted, [Next]_vars
  PROVE  GenuineIsAccepted'
<1> SUFFICES ASSUME request'.signed # Unset, began' >= request'.signed, pc' = "rejected"
             PROVE  FALSE
  BY DEF GenuineIsAccepted
<1>1. request' = request /\ request \in Request /\ (began' = began \/ pc' # "rejected")
  BY DEF IInv, vars, Next, Structure, DetermineTime, VerifyCertificateChain, VerifySct, CheckPolicy,
         VerifyTlogEntries, VerifySignature, VerifyTlogConsistency, VerifyAgain, Tick, Step
<1>2. pc # "rejected"
  BY <1>1 DEF GenuineIsAccepted
<1>3. Genuine(request)
  BY <1>1, GenuineAssumption
<1>4. \A e \in Elements(bundle.entries) : e.proof # Unset => VerifyMerkleInclusion(e)
  BY <1>1, GenuineAssumption, ProvedIsIncluded DEF bundle
<1>5. Signed
  <2>1. began \in Nat /\ now \in Nat /\ began <= now
    BY TimeAssumption DEF IInv, TypeOK
  <2>2. request.signed \in Nat /\ request.signed <= began
    BY <1>1, <1>3 DEF Genuine
  <2> QED
    BY <1>3, <2>1, <2>2 DEF Signed
<1>6. /\ FormHolds /\ TimeHolds /\ ChainHolds /\ SctHolds /\ IdentityHolds /\ LogHolds
      /\ SignatureVerifies /\ EntriesHold
  BY <1>4, <1>5, GenuinePasses
<1>7. ~Structure
  BY <1>6 DEF Structure, Step, FormHolds, FromLog
<1>8. ~DetermineTime
  BY <1>6 DEF DetermineTime, Step, TimeHolds, Stays
<1>9. ~VerifyCertificateChain
  BY <1>6 DEF VerifyCertificateChain, Step, ChainHolds, ChainsAt, CertificateChains, Stays
<1>10. ~VerifySct
  BY <1>6 DEF VerifySct, Step, SctHolds, Stays
<1>11. ~CheckPolicy
  BY <1>6 DEF CheckPolicy, Step, IdentityHolds, Stays
<1>12. ~VerifyTlogEntries
  BY <1>6 DEF VerifyTlogEntries, Step, LogHolds, FromLog
<1>13. ~VerifySignature
  BY <1>6 DEF VerifySignature, Step
<1>14. ~VerifyTlogConsistency
  BY <1>6 DEF VerifyTlogConsistency, Step, EntriesHold, FromLog
<1>15. ~VerifyAgain /\ ~Tick /\ ~UNCHANGED vars
  BY <1>2 DEF VerifyAgain, Tick, vars
<1> QED
  BY <1>7, <1>8, <1>9, <1>10, <1>11, <1>12, <1>13, <1>14, <1>15 DEF Next

\* verify and verify_with_key reject no bundle that was signed, logged and stamped
\* as it should be by services of the root, in whatever form it is written and
\* however long ago (trusted_root.rs, usable_for_verification).
THEOREM GenuineIsAcceptedHolds == Spec => []GenuineIsAccepted
<1>1. Init => GenuineIsAccepted
  BY DEF Init, GenuineIsAccepted
<1>2. IInv /\ Stays /\ GenuineIsAccepted /\ [Next]_vars => GenuineIsAccepted'
  BY GenuineStep
<1> QED
  BY <1>1, <1>2, InvHolds, StaysHolds, PTL DEF Spec
=============================================================================
