---------------------------- MODULE GenuineBundle ----------------------------
(***************************************************************************)
(* What verify is there to accept: a bundle that a signer put together by   *)
(* the time r.signed from what services of the trusted root answered by     *)
(* then, with the artifact and a policy that fits.                          *)
(*                                                                         *)
(* Nothing is said about the clock of the verification.  The services were  *)
(* in use when they answered, and the root may have replaced them since.    *)
(***************************************************************************)
EXTENDS Verifier

CONSTANT Logs       \* the contents of the logs, sequences of bodies, when they
                    \* proved an inclusion

Keyed(r) == r.policy.key # Unset
Certificates(r) == r.bundle.material.certs
Leaf(r) == Certificates(r)[1]
HasLeaf(r) == r.bundle.material.kind # "publicKey" /\ Certificates(r) # <<>>
Signature(r) == r.bundle.content.sigs[1]

\* By the end of the signing, and while its certificate is valid.
InTime(r, t) ==
  /\ t \in 0 .. r.signed
  /\ HasLeaf(r) => Covers(Leaf(r).window, t)

-----------------------------------------------------------------------------
(* The signer.                                                             *)

\* Bundles of version 0.1 came with promises, later ones with proofs; one without
\* entries is for a policy that wants none.
GenuineForm(r) ==
  LET given == r.bundle
  IN /\ IsSequence(given.entries) /\ IsSequence(given.stamps) /\ IsSequence(Certificates(r))
     /\ \A e \in Elements(given.entries) :
          IF given.version = "0.1" THEN e.promise # Unset ELSE e.proof # Unset
     /\ given.version = "0.1" => given.entries # <<>>
     /\ given.version = "0.3" => given.material.kind # "chain"
     /\ given.entries = <<>> => given.stamps # <<>> /\ ~Keyed(r) /\ ~r.policy.tlog

GenuineContent(r) ==
  LET content == r.bundle.content
  IN /\ content.kind \in {"message", "dsse"}
     /\ content.sigs = <<Signature(r)>>
     /\ Signature(r).key = IF Keyed(r) THEN r.policy.key ELSE Leaf(r).key
     /\ IF content.kind = "dsse"
        THEN /\ content.type = InTotoPayloadType /\ content.over.statement
             /\ r.artifact \in content.over.subjects
             /\ Signature(r).over = Pae(content)
        ELSE /\ content.over \in {Unset, r.artifact}
             /\ Signature(r).over = r.artifact

\* What step 0 can take a time from.
GenuineTime(r) ==
  \/ r.bundle.stamps # <<>>
  \/ \E e \in Elements(r.bundle.entries) :
       /\ e.version = "0.0.1" /\ e.kind \in {"hashedrekord", "dsse"}
       /\ e.promise # Unset /\ e.integrated # 0

-----------------------------------------------------------------------------
(* The authority.                                                          *)

Issues(ca, cert) == ca.subject = cert.issuer /\ ca.key = cert.by

IssuedByRoot(r, cert) ==
  \E ca \in Elements(Root.cas) :
    HasStartedBy(ca.window, r.signed) /\ \E c \in Elements(ca.certs) : Issues(c, cert)

\* An intermediate of the bundle is valid when the certificates it issues are.
GenuineChain(r) ==
  /\ Leaf(r).codeSigning
  /\ \/ IssuedByRoot(r, Leaf(r))
     \/ \E ca \in Elements(Tail(Certificates(r))) :
          /\ Issues(ca, Leaf(r)) /\ IssuedByRoot(r, ca)
          /\ \A t \in 0 .. r.signed : Covers(Leaf(r).window, t) => Covers(ca.window, t)

\* The issuer follows in the chain; or it is of the root, and the only one of its
\* name there.
GenuineSct(r) ==
  /\ Len(Leaf(r).scts) = 1
  /\ Leaf(r).scts[1].issuerKey = Leaf(r).by
  /\ \E log \in Elements(Root.ctlogs) :
       HasStartedBy(log.window, r.signed) /\ log.key = Leaf(r).scts[1].by
  /\ IF r.bundle.material.kind = "chain" /\ Len(Certificates(r)) > 1
     THEN Certificates(r)[2].key = Leaf(r).by
     ELSE /\ IssuedByRoot(r, Leaf(r))
          /\ \A ca \in Elements(Root.cas) : \A c \in Elements(ca.certs) :
               c.subject = Leaf(r).issuer => c.key = Leaf(r).by

GenuineCertificate(r) ==
  /\ HasLeaf(r)
  /\ r.policy.cert => GenuineChain(r)
  /\ r.policy.sct => GenuineSct(r)
  /\ r.policy.identity # Unset => Leaf(r).identity = r.policy.identity
  /\ r.policy.issuer # Unset => Leaf(r).oidcIssuer = r.policy.issuer

-----------------------------------------------------------------------------
(* The timestamp authority and the log.                                    *)

\* An authority of the root stamps the signature; its certificate is in the token,
\* in the root or in both, and no other has its issuer and serial number.
GenuineStamp(r, t) ==
  /\ t.granted /\ t.info # Unset /\ t.info.over = Signature(r) /\ t.attrs = t.info
  /\ InTime(r, t.info.time)
  /\ IsSequence(t.certs)
  /\ \E tsa \in Elements(Root.tsas) :
       /\ Covers(tsa.window, t.info.time) /\ Covers(tsa.leaf.window, t.info.time)
       /\ tsa.leaf.root = tsa.root /\ tsa.leaf.timeStamping
       /\ t.signer = tsa.leaf.id
       /\ t.signature = [key |-> tsa.leaf.key, over |-> t.info]
       /\ \A c \in Elements(t.certs) \cup {x.leaf : x \in Elements(Root.tsas)} :
            c.id = t.signer => c = tsa.leaf

\* The log answers for the root that the proof ends in; of the other signatures none
\* has the hint of a log.
GenuineNote(proof, log) ==
  LET note == proof.note
      Hints == {l.id : l \in Elements(Root.tlogs)}
  IN /\ note.text.root = proof.root
     /\ IsSequence(note.sigs)
     /\ [hint |-> log.id, by |-> log.key, over |-> note.text] \in Elements(note.sigs)
     /\ \A g, h \in DOMAIN note.sigs :
          {note.sigs[g].hint, note.sigs[h].hint} \subseteq Hints => g = h

\* The ID of a log is that of its key.
GenuineEntry(r, e) ==
  /\ e.integrated # 0 => InTime(r, e.integrated)
  /\ \E log \in Elements(Root.tlogs) :
       /\ log.id = e.id
       /\ HasStartedBy(log.window, r.signed)
       /\ e.integrated # 0 => Covers(log.window, e.integrated)
       /\ \A other \in Elements(Root.tlogs) : other.id = log.id => other.key = log.key
       /\ e.promise \in {Unset, [by |-> log.key, id |-> e.id,
                                 integrated |-> e.integrated, body |-> e.body]}
       /\ e.proof # Unset => GenuineNote(e.proof, log)

\* The body of the entry that the signer asked for.
GenuineBody(r, e) ==
  LET content == r.bundle.content
  IN /\ <<e.kind, e.version>> \in
          IF content.kind = "dsse"
          THEN {<<"hashedrekord", "0.0.2">>, <<"dsse", "0.0.1">>, <<"intoto", "0.0.2">>}
          ELSE {<<"hashedrekord", "0.0.1">>, <<"hashedrekord", "0.0.2">>}
     /\ e.body.kind = e.kind /\ e.body.version = e.version
     /\ e.body.over = IF e.kind = "hashedrekord" THEN Signature(r).over ELSE content.over
     /\ e.body.sigs = <<[sig |-> Signature(r),
                         cert |-> IF HasLeaf(r) THEN Leaf(r) ELSE Unset]>>

Genuine(r) ==
  /\ r.signed \in Nat /\ r.policy.skew \in Nat
  /\ GenuineForm(r) /\ GenuineContent(r)
  /\ ~Keyed(r) => GenuineCertificate(r) /\ GenuineTime(r)
  /\ \A t \in Elements(r.bundle.stamps) : GenuineStamp(r, t)
  /\ \A e \in Elements(r.bundle.entries) : GenuineEntry(r, e) /\ GenuineBody(r, e)

\* The proof that RFC 6962 gives for the body in the log as it was.
ProvedFromLog(e) ==
  \E log \in Logs : \E i \in 0 .. Len(log) - 1 :
    /\ log[i + 1] = e.body
    /\ e.proof.index = i /\ e.proof.size = Len(log)
    /\ e.proof.hashes = Path(log, i, Len(log)) /\ e.proof.root = MTH(log)

\* What is presented as signed and unchanged is.
ASSUME GenuineAssumption ==
  /\ \A log \in Logs : IsSequence(log)
  /\ \A r \in Request : r.signed # Unset =>
       /\ Genuine(r)
       /\ \A e \in Elements(r.bundle.entries) : e.proof # Unset => ProvedFromLog(e)
=============================================================================
