----------------------------- MODULE TrustedRoot -----------------------------
(***************************************************************************)
(* What trusted_root.rs selects from a trusted root, and when.             *)
(*                                                                         *)
(* A root is a record of four sequences of instances, in file order:       *)
(*   tlogs   [id, key, window]           Rekor                             *)
(*   cas     [certs, window]             Fulcio, certs a sequence of       *)
(*                                       [subject, key]                    *)
(*   ctlogs  [key, window]               certificate transparency          *)
(*   tsas    [leaf, root, window]        time stamping, leaf a certificate *)
(*                                       and root the key of its root      *)
(* A window is [start, end], each a time or Unset; an instance without     *)
(* validFor has both Unset.  Malformed times, which make every selection   *)
(* an error, are left out.                                                 *)
(***************************************************************************)
EXTENDS Naturals, Sequences

CONSTANT Unset      \* an optional field that is not there

HasStartedBy(window, time) == window.start = Unset \/ time >= window.start

\* Mutant: only what is valid now is used, so expired instances are dropped.
ValidNow(window, time) ==
  /\ window.start = Unset \/ time >= window.start
  /\ window.end = Unset \/ time <= window.end

UsableForVerification(window, now) == HasStartedBy(window, now)

Covers(window, time) ==
  HasStartedBy(window, time) /\ (window.end = Unset \/ time <= window.end)

\* A selection keeps the places that its instances have in the file.
Usable(instances, now) ==
  [i \in {j \in DOMAIN instances : UsableForVerification(instances[j].window, now)}
     |-> instances[i]]

WithId(instances, id) ==
  [i \in {j \in DOMAIN instances : instances[j].id = id} |-> instances[i]]

Minimum(S) == CHOOSE x \in S : \A y \in S : x <= y

First(instances) == instances[Minimum(DOMAIN instances)]

\* Of each usable authority all certificates, at its place and theirs.
FulcioCerts(root, now) ==
  [p \in UNION {{i} \X (DOMAIN root.cas[i].certs) : i \in DOMAIN Usable(root.cas, now)}
     |-> root.cas[p[1]].certs[p[2]]]

\* The one that comes first in the file.
FirstCert(certs) ==
  certs[CHOOSE p \in DOMAIN certs :
          \A q \in DOMAIN certs : p[1] < q[1] \/ (p[1] = q[1] /\ p[2] <= q[2])]

RekorKeys(root, now) == Usable(root.tlogs, now)

\* Of what these two return, the first one is taken.
RekorKeyForLog(root, id, now) == WithId(Usable(root.tlogs, now), id)

RekorKeyForLogAt(root, id, time) ==
  WithId([i \in {j \in DOMAIN root.tlogs : Covers(root.tlogs[j].window, time)}
            |-> root.tlogs[i]], id)

CtfeKeys(root, now) == Usable(root.ctlogs, now)

TsaLeafCerts(root, now) ==
  [i \in DOMAIN Usable(root.tsas, now) |-> root.tsas[i].leaf]

TsaRootCerts(root, now) ==
  [i \in DOMAIN Usable(root.tsas, now) |-> root.tsas[i].root]

\* Any authority will do, not only the one that signed the timestamp.
IsTimestampWithinTsaValidity(root, time) ==
  \/ root.tsas = <<>>
  \/ \E i \in DOMAIN root.tsas : Covers(root.tsas[i].window, time)
=============================================================================
