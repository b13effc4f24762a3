------------------------------ MODULE MCVerifier ------------------------------
(***************************************************************************)
(* Signings, the bundle forms they are written in, and bundles in which one *)
(* part is exchanged, missing or added, or in which the parts of two        *)
(* signings are mixed in any way.                                          *)
(*                                                                         *)
(* Fulcio, Rekor and the TSA are rotated between times 3 and 4.  Alice     *)
(* signs artifact a at 1 and, with a renewed certificate for the same key, *)
(* at 2; Bob signs b at 3; Alice signs a at 4, and once more with a key    *)
(* whose entry never reached the log.                                      *)
(***************************************************************************)
EXTENDS GenuineBundle, FiniteSets

CONSTANTS
  a, b,          \* two artifacts
  Other,         \* the body of an entry of somebody else
  Skew           \* clock_skew_seconds

MCMinTime == 3
MCMaxTime == 5

Window(from, to) == [start |-> from, end |-> to]

OldCA == [subject |-> "ca1", key |-> "ck1"]
NewCA == [subject |-> "ca2", key |-> "ck2"]

TsaCert(key, root, from, to) ==
  [id |-> key, key |-> key, root |-> root, timeStamping |-> TRUE,
   window |-> Window(from, to)]

MCRoot ==
  [tlogs  |-> <<[id |-> "log1", key |-> "rk1", window |-> Window(Unset, 3)],
                [id |-> "log2", key |-> "rk2", window |-> Window(4, Unset)]>>,
   cas    |-> <<[certs |-> <<OldCA>>, window |-> Window(1, 3)],
                [certs |-> <<NewCA>>, window |-> Window(4, Unset)]>>,
   ctlogs |-> <<[key |-> "ctk", window |-> Window(Unset, Unset)]>>,
   tsas   |-> <<[leaf |-> TsaCert("tk1", "tr1", 1, 3), root |-> "tr1", window |-> Window(1, 3)],
                [leaf |-> TsaCert("tk2", "tr2", 4, 9), root |-> "tr2",
                 window |-> Window(4, Unset)]>>]

-----------------------------------------------------------------------------
(* Signings by number.                                                     *)

Sig == 1 .. 5
Unlogged == 5

TimeOf(s) == <<1, 2, 3, 4, 4>>[s]
KeyOf(s) == <<"k1", "k1", "k2", "k3", "k4">>[s]
ArtifactOf(s) == IF s = 3 THEN b ELSE a
Late(s) == TimeOf(s) >= 4
LogOf(s) == IF Late(s) THEN "log2" ELSE "log1"
LogKeyOf(s) == IF Late(s) THEN "rk2" ELSE "rk1"
CAOf(s) == IF Late(s) THEN NewCA ELSE OldCA

CertOf(s) ==
  [key |-> KeyOf(s), issuer |-> CAOf(s).subject, by |-> CAOf(s).key,
   window |-> Window(TimeOf(s) - 1, TimeOf(s) + 1), codeSigning |-> TRUE,
   identity |-> IF s = 3 THEN "bob" ELSE "alice", oidcIssuer |-> "oidc",
   scts |-> <<[by |-> "ctk", issuerKey |-> CAOf(s).key]>>]

\* Forms: bundle version, content, entry kind and version (or no entry),
\* what it carries, and its material.
FormsOf ==
  {[version |-> "0.1", content |-> "message", kind |-> "hashedrekord", kv |-> "0.0.1",
    promise |-> TRUE, proof |-> FALSE, stamp |-> FALSE, material |-> "chain"],
   [version |-> "0.2", content |-> "dsse", kind |-> "dsse", kv |-> "0.0.1",
    promise |-> TRUE, proof |-> TRUE, stamp |-> FALSE, material |-> "chain"],
   [version |-> "0.2", content |-> "dsse", kind |-> "intoto", kv |-> "0.0.2",
    promise |-> TRUE, proof |-> TRUE, stamp |-> TRUE, material |-> "chain"],
   [version |-> "0.3", content |-> "message", kind |-> "hashedrekord", kv |-> "0.0.1",
    promise |-> TRUE, proof |-> TRUE, stamp |-> TRUE, material |-> "certificate"],
   [version |-> "0.3", content |-> "message", kind |-> "hashedrekord", kv |-> "0.0.2",
    promise |-> FALSE, proof |-> TRUE, stamp |-> TRUE, material |-> "certificate"],
   [version |-> "0.3", content |-> "dsse", kind |-> "hashedrekord", kv |-> "0.0.2",
    promise |-> FALSE, proof |-> TRUE, stamp |-> TRUE, material |-> "certificate"],
   [version |-> "0.3", content |-> "dsse", kind |-> "none", kv |-> "none",
    promise |-> FALSE, proof |-> FALSE, stamp |-> TRUE, material |-> "certificate"],
   [version |-> "0.3", content |-> "message", kind |-> "hashedrekord", kv |-> "0.0.1",
    promise |-> TRUE, proof |-> TRUE, stamp |-> FALSE, material |-> "publicKey"]}

HasEntry(f) == f.kind # "none"

PayloadOf(s) == [statement |-> TRUE, subjects |-> {ArtifactOf(s)}]
ContentOf(f, s) == IF f.content = "dsse" THEN PayloadOf(s) ELSE ArtifactOf(s)
SignedBy(f, s) ==
  IF f.content = "dsse" THEN Pae([type |-> InTotoPayloadType, over |-> PayloadOf(s)])
  ELSE ArtifactOf(s)
SigOf(f, s) == [key |-> KeyOf(s), over |-> SignedBy(f, s), nonce |-> s]

BodyOf(f, s) ==
  [kind |-> f.kind, version |-> f.kv,
   over |-> IF f.kind = "hashedrekord" THEN SignedBy(f, s) ELSE ContentOf(f, s),
   sigs |-> <<[sig |-> SigOf(f, s),
               cert |-> IF f.material = "publicKey" THEN Unset ELSE CertOf(s)]>>]

\* Both logs as they end up; the second has entries of others around ours.
LogBodies(f, log) ==
  IF log = "log1" THEN <<BodyOf(f, 1), BodyOf(f, 2), BodyOf(f, 3)>>
  ELSE <<Other, BodyOf(f, 4)>>

MCLogs == {LogBodies(f, log) : f \in {g \in FormsOf : HasEntry(g)}, log \in {"log1", "log2"}}

PlaceOf(s) == <<0, 1, 2, 1, 1>>[s]

IntegratedOf(f, s) ==
  IF s # 0 /\ (f.kv = "0.0.1" \/ f.kind = "intoto") THEN TimeOf(s) ELSE 0

\* The log promises only what it logs: to the unlogged signing belongs
\* whatever its log has at that place.
LoggedAs(s) == IF s = Unlogged THEN 4 ELSE s

PromiseOf(f, s) ==
  [by |-> LogKeyOf(s), id |-> LogOf(s), integrated |-> IntegratedOf(f, s),
   body |-> BodyOf(f, LoggedAs(s))]

Proofs ==
  [f \in {g \in FormsOf : HasEntry(g)}, s \in Sig |->
     LET bodies == LogBodies(f, LogOf(s))
         root == MTH(bodies)
         text == [size |-> Len(bodies), root |-> root]
     IN [index |-> PlaceOf(s), size |-> Len(bodies),
         hashes |-> Path(bodies, PlaceOf(s), Len(bodies)), root |-> root,
         note |-> [text |-> text,
                   sigs |-> <<[hint |-> "witness", by |-> "wk", over |-> text],
                              [hint |-> LogOf(s), by |-> LogKeyOf(s), over |-> text]>>]]]

ProofOf(f, s) == Proofs[f, s]

NoteOf(f, s) == IF s = 0 THEN [text |-> Unset, sigs |-> <<>>] ELSE Proofs[f, s].note

\* The older authority leaves its certificate out of the token.  An unknown one
\* stamps the signature of signing 2, at the wrong time.
Unknown == 6

Stamp(info, key, certs) ==
  [granted |-> TRUE, info |-> info, attrs |-> info,
   signature |-> [key |-> key, over |-> info], signer |-> key, certs |-> certs]

StampOf(f, s) ==
  LET info == [over |-> SigOf(f, s), time |-> TimeOf(s)]
  IN CASE s = Unknown ->
            Stamp([over |-> SigOf(f, 2), time |-> 3], "tk3", <<TsaCert("tk3", "tr3", 1, 9)>>)
       [] s # Unknown /\ Late(s) -> Stamp(info, "tk2", <<TsaCert("tk2", "tr2", 4, 9)>>)
       [] OTHER -> Stamp(info, "tk1", <<>>)

\* The token of one signing, in which the signature of another one was put, and
\* a refusal.
StampWith(f, from) ==
  CASE from["info"] = 0 -> [StampOf(f, from["stamp"]) EXCEPT !.granted = FALSE, !.info = Unset]
    [] from["info"] = from["stamp"] -> StampOf(f, from["stamp"])
    [] OTHER -> [StampOf(f, from["info"]) EXCEPT !.info.over = SigOf(f, from["stamp"])]

-----------------------------------------------------------------------------
(* Bundles.  from says which signing each part comes from; 0 is none.      *)

Part == {"sig", "type", "over", "cert", "stamp", "info", "body", "integrated", "promise",
         "proof", "note", "second", "bare", "extra"}

\* Parts that a bundle has once more, of another entry or envelope signature.
Additional == {"second", "bare", "extra"}

Optional == {"type", "stamp", "info", "promise", "proof", "note", "over", "integrated"}

Unchanged(s) == [p \in Part |-> IF p \in Additional THEN 0 ELSE s]

Choices(p) ==
  Sig \cup (IF p = "stamp" THEN {Unknown} ELSE {}) \cup IF p \in Optional \cup Additional THEN {0} ELSE {}

\* Parts of a part go with it.
LeadOf(p) == IF p = "info" THEN "stamp" ELSE IF p = "note" THEN "proof" ELSE p

Exchange(s, p, x) == [q \in Part |-> IF p \in {q, LeadOf(q)} THEN x ELSE Unchanged(s)[q]]

OneExchanged(s) ==
  {Unchanged(s)} \cup UNION {{Exchange(s, p, x) : x \in Choices(p)} : p \in Part}

\* The parts that a bundle of a form has.
PartsOf(f) ==
  {"sig", "over"}
    \cup (IF f.material # "publicKey" THEN {"cert"} ELSE {})
    \cup (IF f.stamp THEN {"stamp"} ELSE {})
    \cup (IF HasEntry(f) THEN {"body", "integrated"} ELSE {})
    \cup (IF f.promise THEN {"promise"} ELSE {})
    \cup (IF f.proof THEN {"proof"} ELSE {})

\* Any parts of one signing among the others of another, promise or not.
Crossed(f, s, t) ==
  LET mixed == {[p \in Part |-> IF p \in Additional THEN 0 ELSE IF LeadOf(p) \in T THEN t ELSE s] :
                   T \in SUBSET PartsOf(f)}
  IN mixed \cup IF f.promise THEN {[m EXCEPT !["promise"] = 0] : m \in mixed} ELSE {}

Crossings == {<<2, 1>>, <<2, 3>>, <<4, 2>>, <<4, Unlogged>>}

CertsOf(f, s) ==
  CASE f.material = "chain" ->
         <<CertOf(s), [key |-> CAOf(s).key, subject |-> CAOf(s).subject,
                       issuer |-> CAOf(s).subject, by |-> CAOf(s).key,
                       window |-> Window(1, 9)]>>
    [] f.material = "certificate" -> <<CertOf(s)>>
    [] OTHER -> <<>>

Seq1(present, x) == IF present THEN <<x>> ELSE <<>>

EntryOf(f, from) ==
  [kind |-> f.kind, version |-> f.kv, id |-> LogOf(from["body"]),
   integrated |-> IntegratedOf(f, from["integrated"]),
   body |-> BodyOf(f, from["body"]),
   promise |-> IF f.promise /\ from["promise"] # 0
               THEN PromiseOf(f, from["promise"]) ELSE Unset,
   proof |-> IF f.proof /\ from["proof"] # 0
             THEN [ProofOf(f, from["proof"]) EXCEPT !.note = NoteOf(f, from["note"])]
             ELSE Unset]

BareEntryOf(f, s) ==
  [EntryOf(f, Unchanged(s)) EXCEPT !.promise = Unset, !.proof = Unset]

BundleOf(f, from) ==
  [version |-> f.version,
   material |-> [kind |-> f.material, certs |-> CertsOf(f, from["cert"])],
   content |-> [kind |-> f.content,
                sigs |-> <<SigOf(f, from["sig"])>>
                           \o Seq1(f.content = "dsse" /\ from["extra"] # 0,
                                   SigOf(f, from["extra"])),
                type |-> IF f.content = "message" THEN Unset
                         ELSE IF from["type"] = 0 THEN "another" ELSE InTotoPayloadType,
                over |-> IF from["over"] = 0
                         THEN IF f.content = "dsse"
                              THEN [statement |-> FALSE, subjects |-> {}] ELSE Unset
                         ELSE ContentOf(f, from["over"])],
   entries |-> IF HasEntry(f)
               THEN <<EntryOf(f, from)>>
                      \o Seq1(from["second"] # 0, EntryOf(f, Unchanged(from["second"])))
                      \o Seq1(from["bare"] # 0, BareEntryOf(f, from["bare"]))
               ELSE <<>>,
   stamps |-> Seq1(f.stamp /\ from["stamp"] # 0, StampWith(f, from))]

-----------------------------------------------------------------------------
(* Policies and requests.                                                  *)

AlicePolicy == RequireIssuer(RequireIdentity(DefaultPolicy(Skew), "alice"), "oidc")

Policies(s) ==
  {AlicePolicy, SkipSct(SkipTlog(AlicePolicy)),
   SkipCertificateChain(RequireIssuer(DefaultPolicy(Skew), "oidc")),
   [AlicePolicy EXCEPT !.key = KeyOf(s)]}

Suits(p, f) ==
  IF f.material = "publicKey" THEN p.key # Unset ELSE HasEntry(f) \/ (p.key = Unset /\ ~p.tlog)

Base == {2, 4, Unlogged}

\* One bundle, verified under all the policies for all the artifacts.
RequestsFor(f, s, from, policies, inputs) ==
  LET presented == BundleOf(f, from)
      at == IF from = Unchanged(s) /\ s # Unlogged THEN TimeOf(s) ELSE Unset
  IN {[bundle |-> presented, artifact |-> input, policy |-> p,
       signed |-> IF input = ArtifactOf(s) /\ Suits(p, f) THEN at ELSE Unset] :
         p \in policies, input \in inputs}

CrossPolicy(f, s) ==
  IF f.material = "publicKey" THEN [AlicePolicy EXCEPT !.key = KeyOf(s)] ELSE AlicePolicy

MCRequest ==
  UNION UNION {{RequestsFor(f, s, from, Policies(s), {a, b}) : from \in OneExchanged(s)} :
                 f \in FormsOf, s \in Base}
  \cup
  UNION UNION {{RequestsFor(f, c[1], from, {CrossPolicy(f, c[1])}, {a}) :
                  from \in Crossed(f, c[1], c[2])} :
                f \in FormsOf, c \in Crossings}

MCSigning ==
  {[artifacts |-> {ArtifactOf(s)}, sig |-> SigOf(f, s), cert |-> CertOf(s),
    time |-> TimeOf(s),
    bodies |-> IF s = Unlogged THEN {} ELSE {BodyOf(f, s)}] : f \in FormsOf, s \in Sig}
=============================================================================
