------------------------ MODULE SigningSession_proofs ------------------------
(***************************************************************************)
(* Proofs about SigningSession and the OAuthFlow in it, for any number of   *)
(* flows, ports and attempts, any configurations, services and logs, with   *)
(* callers that satisfy the assumptions of SigningSession.                  *)
(*                                                                         *)
(* A code that a flow gets over its redirect is followed backwards.  It is  *)
(* honoured if it was issued, for this flow and this redirect URI, and was   *)
(* not spent.  The first two are what the state says when it is the flow's   *)
(* own (OwnCode), because whoever calls a port has a code that was issued    *)
(* for that port, under the state of the URL it was issued at                *)
(* (HeardIsIssued).  It was not spent because only its own flow can spend    *)
(* it, and ends when it does (SpentByEnded).                                *)
(*                                                                         *)
(* That no two log entries are by one key is not inductive either: a call   *)
(* that still may log must have a key that is in no log yet (KeysAreSpent),  *)
(* and what it signs as an envelope must be a statement by then, which the    *)
(* type invariant says of every call past the certificate.                  *)
(*                                                                         *)
(* That only what is timely is accepted joins the two sides: what is known   *)
(* of the parts that the signer puts together (PartsFit) and what each step  *)
(* of the verifier says of the bundle they make.                            *)
(*                                                                         *)
(* That what is timely is accepted takes more: who made each part and when   *)
(* (PartsKnown).  From that the bundle is shown to be one that the verifier  *)
(* is there to accept, Genuine in the words of GenuineBundle, and the lemmas  *)
(* of Verifier_proofs about those are used with it as the request.           *)
(***************************************************************************)
EXTENDS SigningSession, WellFoundedInduction, TLAPS

\* A call that was accepted at port q: what it brings was issued for that port.
Heard(c, q) ==
  /\ c \in Call
  /\ c.code # None => c.code \in codes /\ c.code[2] = q /\ c.state = c.code[1]

HeardIsIssued ==
  \A f \in Flow :
    /\ stage[f] = "read" => caller[f] = Malformed \/ Heard(caller[f], redirect[f])
    /\ stage[f] = "drain" => Heard(caller[f], redirect[f])

OwnCode ==
  \A f \in Flow :
    stage[f] = "exchange" /\ redirect[f] \in Port =>
      code[f] \in codes /\ code[f] = <<f, redirect[f]>>

PromptedOutOfBand == \A f \in Flow : stage[f] = "prompt" => redirect[f] = Oob

SpentByEnded == \A u \in spent : stage[u[1]] \in Ended

RefusedFailed == \A f \in Flow : refused[f] => stage[f] = "failed"

FlowInv ==
  /\ TypeOK
  /\ HeardIsIssued
  /\ OwnCode
  /\ PromptedOutOfBand
  /\ SpentByEnded
  /\ RefusedFailed
  /\ RedirectedCodeIsHonoured

-----------------------------------------------------------------------------
\* Whoever calls a port says nothing else than what was issued for it.
LEMMA CallsAreHeard ==
  ASSUME TypeOK, NEW q, NEW c \in Calls(q)
  PROVE  c = Malformed \/ Heard(c, q)
<1>1. \A u \in codes \cup denied : u \in AuthUrl /\ u[1] \in Flow
  BY DEF TypeOK, AuthUrl
<1>2. CASE \E u \in {d \in codes : d[2] = q} : c = [code |-> u, state |-> u[1], error |-> FALSE]
  BY <1>1, <1>2 DEF Heard, Call
<1>3. CASE \E u \in {d \in denied : d[2] = q} : c = [code |-> None, state |-> u[1], error |-> TRUE]
  BY <1>1, <1>3 DEF Heard, Call
<1>4. CASE c = [code |-> None, state |-> None, error |-> FALSE]
  BY <1>4 DEF Heard, Call
<1>5. QED
  BY <1>2, <1>3, <1>4 DEF Calls

-----------------------------------------------------------------------------
LEMMA FlowTypeInit == Init => TypeOK
BY DEF Init, TypeOK, Waiting, Ended

\* One step of a flow keeps every variable well typed, a code because a call
\* that is being answered was heard.
LEMMA TypeFlowStep ==
  ASSUME TypeOK, HeardIsIssued, NEW f \in Flow, FlowStep(f)
  PROVE  TypeOK'
<1> USE DEF To
<1>1. CASE OpenBrowser(f)
  BY <1>1 DEF TypeOK, OpenBrowser, Redirect, AuthUrl, Waiting, provider
<1>2. CASE OutOfBand(f)
  BY <1>2 DEF TypeOK, OutOfBand, Redirect, AuthUrl, provider
<1>3. CASE StartFails(f) \/ TimesOut(f) \/ ReadFails(f) \/ PromptFails(f) \/ RequestFails(f)
  BY <1>3 DEF TypeOK, StartFails, TimesOut, ReadFails, PromptFails, RequestFails, Fail, Ended,
              provider
<1>4. CASE Accept(f)
  BY <1>4, CallsAreHeard DEF TypeOK, Accept, Heard, Waiting, provider
<1>5. CASE ReadLine(f)
  BY <1>5 DEF TypeOK, ReadLine, Waiting, provider
<1>6. CASE Answer(f)
  <2>1. page' \in [Flow -> {"success", "error", None}]
    BY <1>6 DEF TypeOK, Answer
  <2>2. caller[f].code \in AuthUrl \cup {None}
    BY <1>6 DEF HeardIsIssued, Heard, Call, Answer
  <2>3. stage' \in [Flow -> {"idle", "prompt"} \cup Waiting \cup Ended]
    BY <1>6 DEF TypeOK, Answer, Waiting, Ended
  <2>4. code' \in [Flow -> AuthUrl \cup {None}]
    BY <1>6, <2>2 DEF TypeOK, Answer
  <2>5. QED
    BY <1>6, <2>1, <2>3, <2>4 DEF TypeOK, Answer, provider
<1>7. CASE TypeCode(f)
  BY <1>7 DEF TypeOK, TypeCode, Waiting, provider
<1>8. CASE Exchanged(f)
  BY <1>8 DEF TypeOK, Exchanged, Honoured, Ended
<1>9. CASE AnswerLost(f)
  BY <1>9 DEF TypeOK, AnswerLost, Honoured, Ended
<1>10. CASE Refused(f)
  BY <1>10 DEF TypeOK, Refused, Ended, provider
<1>11. QED
  BY <1>1, <1>2, <1>3, <1>4, <1>5, <1>6, <1>7, <1>8, <1>9, <1>10 DEF FlowStep

LEMMA TypeProvider ==
  ASSUME TypeOK, NEW u \in AuthUrl, LogIn(u) \/ Deny(u)
  PROVE  TypeOK'
BY DEF TypeOK, LogIn, Deny, flowVars

-----------------------------------------------------------------------------
\* What was heard stays issued: codes are never taken back.
LEMMA HeardStays ==
  ASSUME codes \subseteq codes', NEW c, NEW q, Heard(c, q)
  PROVE  Heard(c, q)'
BY DEF Heard

LEMMA HeardFlowStep ==
  ASSUME TypeOK, HeardIsIssued, NEW f \in Flow, FlowStep(f)
  PROVE  HeardIsIssued'
<1> USE DEF To
<1>1. codes' = codes
  BY DEF FlowStep, OpenBrowser, OutOfBand, StartFails, Accept, TimesOut, ReadLine, ReadFails,
         Answer, TypeCode, PromptFails, Exchanged, AnswerLost, Refused, RequestFails, Fail, provider
<1>2. \A c, q : Heard(c, q) => Heard(c, q)'
  BY <1>1, HeardStays
<1>3. CASE OpenBrowser(f) \/ OutOfBand(f)
  BY <1>2, <1>3 DEF TypeOK, HeardIsIssued, OpenBrowser, OutOfBand
<1>4. CASE Accept(f)
  <2>1. PICK c \in Calls(redirect[f]) : caller' = [caller EXCEPT ![f] = c]
    BY <1>4 DEF Accept
  <2>2. c = Malformed \/ Heard(c, redirect[f])
    BY <2>1, CallsAreHeard
  <2>3. caller'[f] = c /\ redirect' = redirect
    BY <1>4, <2>1 DEF TypeOK, Accept
  <2>4. (caller[f] = Malformed \/ Heard(caller[f], redirect[f]))'
    BY <1>1, <2>2, <2>3 DEF Heard
  <2>5. QED
    BY <1>2, <1>4, <2>1, <2>4 DEF TypeOK, HeardIsIssued, Accept
<1>5. CASE ReadLine(f)
  BY <1>2, <1>5 DEF TypeOK, HeardIsIssued, ReadLine
<1>6. CASE StartFails(f) \/ TimesOut(f) \/ ReadFails(f) \/ PromptFails(f) \/ RequestFails(f)
  BY <1>2, <1>6 DEF TypeOK, HeardIsIssued, StartFails, TimesOut, ReadFails, PromptFails,
                    RequestFails, Fail
<1>7. CASE Answer(f)
  BY <1>2, <1>7 DEF TypeOK, HeardIsIssued, Answer
<1>8. CASE TypeCode(f) \/ Exchanged(f) \/ AnswerLost(f) \/ Refused(f)
  BY <1>2, <1>8 DEF TypeOK, HeardIsIssued, TypeCode, Exchanged, AnswerLost, Refused
<1>9. QED
  BY <1>3, <1>4, <1>5, <1>6, <1>7, <1>8 DEF FlowStep

-----------------------------------------------------------------------------
\* The code that a flow goes to exchange is its own.
LEMMA OwnCodeFlowStep ==
  ASSUME TypeOK, HeardIsIssued, OwnCode, PromptedOutOfBand, NEW f \in Flow, FlowStep(f)
  PROVE  OwnCode'
<1> USE DEF To
<1>1. CASE OpenBrowser(f)
  BY <1>1 DEF TypeOK, OwnCode, OpenBrowser, provider
<1>2. CASE OutOfBand(f)
  BY <1>2 DEF TypeOK, OwnCode, OutOfBand, provider
<1>3. CASE StartFails(f) \/ TimesOut(f) \/ ReadFails(f) \/ PromptFails(f) \/ RequestFails(f)
  BY <1>3 DEF TypeOK, OwnCode, StartFails, TimesOut, ReadFails, PromptFails, RequestFails,
              Fail, provider
<1>4. CASE Accept(f) \/ ReadLine(f)
  BY <1>4 DEF TypeOK, OwnCode, Accept, ReadLine, provider
<1>5. CASE Answer(f)
  <2>1. ASSUME stage'[f] = "exchange"
        PROVE  code'[f] \in codes /\ code'[f] = <<f, redirect[f]>>
    <3>1. /\ code'[f] = caller[f].code /\ caller[f].code # None
          /\ caller[f].state = f
      BY <1>5, <2>1 DEF TypeOK, Answer, StateMatches
    <3>2. Heard(caller[f], redirect[f])
      BY <1>5 DEF HeardIsIssued, Answer
    <3>3. code'[f] \in codes /\ code'[f][2] = redirect[f] /\ code'[f][1] = f
      BY <3>1, <3>2 DEF Heard
    <3>4. \A u \in codes : u = <<u[1], u[2]>>
      BY DEF TypeOK, AuthUrl
    <3>5. QED
      BY <3>3, <3>4
  <2>2. \A g \in Flow \ {f} : stage'[g] = stage[g] /\ code'[g] = code[g]
    BY <1>5 DEF TypeOK, Answer
  <2>3. UNCHANGED <<redirect, codes>>
    BY <1>5 DEF Answer, provider
  <2>4. QED
    BY <2>1, <2>2, <2>3 DEF OwnCode
<1>6. CASE TypeCode(f)
  <2>1. stage[f] = "prompt" /\ redirect' = redirect /\ codes' = codes
    BY <1>6 DEF TypeCode, provider
  <2>2. redirect[f] \notin Port
    BY <2>1, FlowAssumption DEF PromptedOutOfBand
  <2>3. QED
    BY <1>6, <2>1, <2>2 DEF TypeOK, OwnCode, TypeCode
<1>7. CASE Exchanged(f) \/ AnswerLost(f)
  BY <1>7 DEF TypeOK, OwnCode, Exchanged, AnswerLost
<1>8. CASE Refused(f)
  BY <1>8 DEF TypeOK, OwnCode, Refused, provider
<1>9. QED
  BY <1>1, <1>2, <1>3, <1>4, <1>5, <1>6, <1>7, <1>8 DEF FlowStep

-----------------------------------------------------------------------------
\* A flow that has ended takes no more steps, and nobody takes one for another.
LEMMA FlowFrame ==
  ASSUME TypeOK, NEW f \in Flow, FlowStep(f)
  PROVE  /\ stage[f] \notin Ended
         /\ \A g \in Flow \ {f} :
              stage'[g] = stage[g] /\ redirect'[g] = redirect[g] /\ refused'[g] = refused[g]
<1> USE DEF To
<1>1. CASE OpenBrowser(f) \/ OutOfBand(f) \/ Accept(f) \/ ReadLine(f) \/ TypeCode(f)
  BY <1>1 DEF TypeOK, OpenBrowser, OutOfBand, Accept, ReadLine, TypeCode, Ended
<1>2. CASE StartFails(f) \/ TimesOut(f) \/ ReadFails(f) \/ PromptFails(f) \/ RequestFails(f)
  BY <1>2 DEF TypeOK, StartFails, TimesOut, ReadFails, PromptFails, RequestFails, Fail, Ended
<1>3. CASE Answer(f)
  BY <1>3 DEF TypeOK, Answer, Ended
<1>4. CASE Exchanged(f) \/ AnswerLost(f) \/ Refused(f)
  BY <1>4 DEF TypeOK, Exchanged, AnswerLost, Refused, Ended
<1>5. QED
  BY <1>1, <1>2, <1>3, <1>4 DEF FlowStep

LEMMA PromptFlowStep ==
  ASSUME TypeOK, PromptedOutOfBand, NEW f \in Flow, FlowStep(f)
  PROVE  PromptedOutOfBand'
<1> USE DEF To
<1>1. stage'[f] = "prompt" => redirect'[f] = Oob
  <2>1. CASE OutOfBand(f)
    BY <2>1 DEF TypeOK, OutOfBand
  <2>2. CASE OpenBrowser(f) \/ Accept(f) \/ ReadLine(f) \/ TypeCode(f)
    BY <2>2 DEF TypeOK, OpenBrowser, Accept, ReadLine, TypeCode
  <2>3. CASE StartFails(f) \/ TimesOut(f) \/ ReadFails(f) \/ PromptFails(f) \/ RequestFails(f)
    BY <2>3 DEF TypeOK, StartFails, TimesOut, ReadFails, PromptFails, RequestFails, Fail
  <2>4. CASE Answer(f)
    BY <2>4 DEF TypeOK, Answer
  <2>5. CASE Exchanged(f) \/ AnswerLost(f) \/ Refused(f)
    BY <2>5 DEF TypeOK, Exchanged, AnswerLost, Refused
  <2>6. QED
    BY <2>1, <2>2, <2>3, <2>4, <2>5 DEF FlowStep
<1>2. QED
  BY <1>1, FlowFrame DEF PromptedOutOfBand

\* Only the flow that a code was issued for can spend it, and it ends with that.
LEMMA SpentFlowStep ==
  ASSUME TypeOK, SpentByEnded, NEW f \in Flow, FlowStep(f)
  PROVE  SpentByEnded'
<1>1. \A u \in spent : u[1] \in Flow /\ u[1] # f /\ stage'[u[1]] \in Ended
  BY FlowFrame DEF TypeOK, SpentByEnded, AuthUrl
<1>2. CASE Exchanged(f) \/ AnswerLost(f)
  <2>1. spent' = spent \cup {code[f]} /\ code[f][1] = f
    BY <1>2 DEF Exchanged, AnswerLost, Honoured
  <2>2. stage'[f] \in Ended
    BY <1>2 DEF TypeOK, Exchanged, AnswerLost, To, Ended
  <2>3. QED
    BY <1>1, <2>1, <2>2 DEF SpentByEnded
<1>3. CASE spent' = spent
  BY <1>1, <1>3 DEF SpentByEnded
<1>4. spent' = spent \/ Exchanged(f) \/ AnswerLost(f)
  BY DEF FlowStep, OpenBrowser, OutOfBand, StartFails, Accept, TimesOut, ReadLine, ReadFails,
         Answer, TypeCode, PromptFails, Refused, RequestFails, Fail, provider
<1>5. QED
  BY <1>2, <1>3, <1>4

\* Only a code that came over no redirect is ever refused.
LEMMA RefusedFlowStep ==
  ASSUME TypeOK, OwnCode, SpentByEnded, RefusedFailed, RedirectedCodeIsHonoured,
         NEW f \in Flow, FlowStep(f)
  PROVE  RefusedFailed' /\ RedirectedCodeIsHonoured'
<1>1. ~refused[f]
  BY FlowFrame DEF RefusedFailed, Ended
<1>2. CASE refused' = refused
  BY <1>1, <1>2, FlowFrame DEF RefusedFailed, RedirectedCodeIsHonoured
<1>3. CASE Refused(f)
  <2>1. redirect[f] \notin Port
    <3>1. SUFFICES ASSUME redirect[f] \in Port
                   PROVE  FALSE
      OBVIOUS
    <3>2. code[f] \in codes /\ code[f] = <<f, redirect[f]>> /\ stage[f] = "exchange"
      BY <1>3, <3>1 DEF OwnCode, Refused
    <3>3. code[f] \in spent
      BY <1>3, <3>2 DEF Refused, Honoured, RedirectUri
    <3>4. stage[f] \in Ended
      BY <3>2, <3>3 DEF SpentByEnded
    <3>5. QED
      BY <3>2, <3>4 DEF Ended
  <2>2. redirect' = redirect /\ stage'[f] = "failed"
    BY <1>3 DEF TypeOK, Refused, To
  <2>3. QED
    BY <2>1, <2>2, FlowFrame DEF RefusedFailed, RedirectedCodeIsHonoured
<1>4. refused' = refused \/ Refused(f)
  BY DEF FlowStep, OpenBrowser, OutOfBand, StartFails, Accept, TimesOut, ReadLine, ReadFails,
         Answer, TypeCode, PromptFails, Exchanged, AnswerLost, RequestFails, Fail
<1>5. QED
  BY <1>2, <1>3, <1>4

-----------------------------------------------------------------------------
\* The user and the provider take no code back.
LEMMA ProviderStep ==
  ASSUME FlowInv, NEW u \in AuthUrl, LogIn(u) \/ Deny(u)
  PROVE  FlowInv'
<1>1. TypeOK'
  BY TypeProvider DEF FlowInv
<1>2. UNCHANGED flowVars /\ spent' = spent /\ codes \subseteq codes'
  BY DEF LogIn, Deny
<1>3. HeardIsIssued'
  BY <1>2, HeardStays DEF FlowInv, HeardIsIssued, flowVars
<1>4. (OwnCode /\ PromptedOutOfBand /\ SpentByEnded)'
  BY <1>2 DEF FlowInv, OwnCode, PromptedOutOfBand, SpentByEnded, flowVars
<1>5. (RefusedFailed /\ RedirectedCodeIsHonoured)'
  BY <1>2 DEF FlowInv, RefusedFailed, RedirectedCodeIsHonoured, flowVars
<1>6. QED
  BY <1>1, <1>3, <1>4, <1>5 DEF FlowInv

LEMMA FlowInvInit == Init => FlowInv
<1>1. Init => TypeOK
  BY FlowTypeInit
<1>2. Init => HeardIsIssued /\ OwnCode /\ PromptedOutOfBand
  BY DEF Init, HeardIsIssued, OwnCode, PromptedOutOfBand
<1>3. Init => SpentByEnded /\ RefusedFailed /\ RedirectedCodeIsHonoured
  BY DEF Init, SpentByEnded, RefusedFailed, RedirectedCodeIsHonoured
<1>4. QED
  BY <1>1, <1>2, <1>3 DEF FlowInv

LEMMA FlowInvNext == FlowInv /\ [Next]_oauthVars => FlowInv'
<1>1. ASSUME FlowInv, NEW f \in Flow, FlowStep(f)
      PROVE  FlowInv'
  BY <1>1, TypeFlowStep, HeardFlowStep, OwnCodeFlowStep, PromptFlowStep, SpentFlowStep,
     RefusedFlowStep DEF FlowInv
<1>2. ASSUME FlowInv, UNCHANGED oauthVars
      PROVE  FlowInv'
  <2>1. (TypeOK /\ HeardIsIssued)'
    BY <1>2 DEF FlowInv, TypeOK, HeardIsIssued, Heard, oauthVars
  <2>2. (OwnCode /\ PromptedOutOfBand /\ SpentByEnded)'
    BY <1>2 DEF FlowInv, OwnCode, PromptedOutOfBand, SpentByEnded, oauthVars
  <2>3. (RefusedFailed /\ RedirectedCodeIsHonoured)'
    BY <1>2 DEF FlowInv, RefusedFailed, RedirectedCodeIsHonoured, oauthVars
  <2>4. QED
    BY <2>1, <2>2, <2>3 DEF FlowInv
<1>3. QED
  BY <1>1, <1>2, ProviderStep DEF Next

\* Every state of the authorization flows is well typed (oauth.rs).
THEOREM TypeCorrect == Spec => []TypeOK
<1>1. FlowInv => TypeOK
  BY DEF FlowInv
<1>2. QED
  BY <1>1, FlowInvInit, FlowInvNext, PTL DEF Spec

\* The code that a flow receives over its redirect is its own, is unspent and is
\* sent back with the redirect URI it was issued for, however many flows share
\* the ports of the machine (oauth.rs wait_for_callback, exchange_code).
THEOREM RedirectedCodeHonoured == Spec => []RedirectedCodeIsHonoured
<1>1. FlowInv => RedirectedCodeIsHonoured
  BY DEF FlowInv
<1>2. QED
  BY <1>1, FlowInvInit, FlowInvNext, PTL DEF Spec

-----------------------------------------------------------------------------
(* The signer.                                                             *)

\* The first of several places exists.
LEMMA LeastPlace ==
  ASSUME NEW Places, Places \subseteq Nat, Places # {}
  PROVE  S!Minimum(Places) \in Places /\ \A i \in Places : S!Minimum(Places) <= i
<1> DEFINE Less == OpToRel(<, Nat)
<1>1. IsWellFoundedOn(Less, Nat)
  BY NatLessThanWellFounded
<1>2. PICK i \in Places : \A j \in Places : ~ (<<j, i>> \in Less)
  <2> HIDE DEF Less
  <2> QED
    BY <1>1, WFMin
<1>3. \A j \in Places : i <= j
  <2> TAKE j \in Places
  <2>1. ~ (<<j, i>> \in Less)
    BY <1>2
  <2>2. ~ (j < i)
    BY <2>1 DEF OpToRel
  <2> QED
    BY <2>2
<1> QED
  BY <1>3 DEF S!Minimum

\* The places of a list are numbers.
LEMMA ListPlaces ==
  ASSUME NEW s, S!IsSequence(s)
  PROVE  DOMAIN s \subseteq Nat
BY DEF S!IsSequence

\* Of the usable endpoints of a log there is a first one among those of the
\* highest version, as there are two versions only (get_rekor_urls).
LEMMA BestIsUsable ==
  ASSUME NEW tuf \in TufConfig, NEW force, NEW at, S!GetRekorUrls(tuf, force, at) # {}
  PROVE  LET found == S!GetRekorUrls(tuf, force, at)
         IN \E i \in found : /\ S!GetRekorUrl(tuf, force, at) = tuf.rekors[i]
                             /\ \A j \in found : tuf.rekors[j].version <= tuf.rekors[i].version
<1> DEFINE found == S!GetRekorUrls(tuf, force, at)
           newest == {i \in found : \A j \in found : tuf.rekors[j].version <= tuf.rekors[i].version}
<1>1. found \subseteq DOMAIN tuf.rekors /\ \A i \in found : tuf.rekors[i].version \in {1, 2}
  BY DEF S!GetRekorUrls, S!OfVersion, S!SupportedRekor
<1>2. newest \subseteq Nat
  <2>1. DOMAIN tuf.rekors \subseteq Nat
    BY ListAssumption, ListPlaces
  <2> HIDE DEF found
  <2> QED
    BY <1>1, <2>1
<1>3. newest # {}
  <2>1. CASE \E i \in found : tuf.rekors[i].version = 2
    BY <1>1, <2>1
  <2>2. CASE \A i \in found : tuf.rekors[i].version = 1
    BY <1>1, <2>2
  <2> QED
    BY <1>1, <2>1, <2>2
<1>4. S!GetRekorUrl(tuf, force, at) = tuf.rekors[S!Minimum(newest)]
  BY DEF S!GetRekorUrl
<1>5. S!Minimum(newest) \in newest
  <2> HIDE DEF newest
  <2> QED
    BY <1>2, <1>3, LeastPlace
<1> QED
  BY <1>4, <1>5

\* What a configuration gives is a context (from_tuf_config).
LEMMA ConfigIsContext ==
  ASSUME NEW tuf, NEW force, NEW at
  PROVE  S!IsContext(S!FromTufConfig(tuf, force, at))
BY DEF S!IsContext, S!FromTufConfig, S!SupportedRekor

\* Every step of a call leaves a state in which it has what its steps gave it.
LEMMA SignerTypeStep ==
  ASSUME S!TypeOK, SessionNext
  PROVE  S!TypeOK'
<1> USE SessionAssumption DEF S!TypeOK, S!Time, S!call
<1>1. CASE Authenticating
  BY <1>1 DEF Authenticating, signerVars, S!IsContext, S!IsStatement, S!Key
<1>2. CASE S!Tick
  BY <1>2 DEF S!Tick, S!IsContext, S!IsStatement, S!Key
<1>3. CASE S!Configuring
  <2>1. context' # Unset => S!IsContext(context')
    <3>1. CASE S!Configure
      BY <3>1, ConfigIsContext DEF S!Configure
    <3>2. CASE S!UseDefault
      BY <3>2, ListAssumption DEF S!UseDefault
    <3>3. CASE S!WithRekorVersion
      BY <3>3 DEF S!WithRekorVersion, S!IsContext
    <3> QED
      BY <1>3, <3>1, <3>2, <3>3 DEF S!Configuring
  <2>2. S!Idle /\ UNCHANGED <<clock, step, S!call, log>>
    BY <1>3 DEF S!Configuring, S!Configure, S!UseDefault, S!WithRekorVersion
  <2>3. /\ clock' = clock /\ step' = step /\ attempt' = attempt /\ cert' = cert
        /\ entry' = entry /\ bundle' = bundle
        /\ step \notin {"certificate", "entry", "stamp"}
    BY <2>2 DEF S!Idle
  <2> QED
    BY <2>1, <2>3 DEF S!Key
<1>4. CASE Signing
  <2>1. PICK j \in Job, f \in Flow : S!Sign(j, TokenOf(f))
    BY <1>4 DEF Signing
  <2>2. /\ step' \in {"certificate", "failed"} /\ bundle' = Unset
        /\ clock' = clock /\ context' = context /\ context # Unset
    BY <2>1 DEF S!Sign
  <2>3. attempt' \in 0 .. MaxAttempts
    BY <2>1 DEF S!Sign
  <2>4. step' = "certificate" => job' \in {S!AsSigned(i) : i \in Job} /\ job'.kind # "digest"
    BY <2>1 DEF S!Sign, S!AsSigned
  <2> QED
    BY <2>2, <2>3, <2>4
<1>5. CASE S!RequestCertificate
  BY <1>5 DEF S!RequestCertificate, S!Issue, S!CertificateRequest, S!IsStatement, S!Key
<1>6. CASE S!CreateEntry
  BY <1>6 DEF S!CreateEntry, S!IntoBundle, S!IsStatement, S!Key
<1>7. CASE S!EntryLost
  BY <1>7 DEF S!EntryLost
<1>8. CASE S!RequestTimestamp
  BY <1>8 DEF S!RequestTimestamp, S!IntoBundle, S!Key
<1>9. CASE S!ServiceFails
  BY <1>9 DEF S!ServiceFails, S!Fail
<1> QED
  BY <1>1, <1>2, <1>3, <1>4, <1>5, <1>6, <1>7, <1>8, <1>9 DEF SessionNext, Other, S!Calling

-----------------------------------------------------------------------------
(* What is in the logs.                                                    *)

Logged(m) == log[m[1]][m[2]].body
KeyOf(m) == Logged(m).sigs[1].sig.key

\* Logs only grow.
LogsGrow ==
  /\ DOMAIN log = DOMAIN InLog
  /\ \A id \in DOMAIN log : S!IsSequence(log[id]) /\ Len(InLog[id]) <= Len(log[id])

\* A key that is in a log is of an attempt that has got that far, and a call that
\* has not logged yet has a key that is in no log.
KeysAreSpent ==
  \A m \in S!Made :
    /\ KeyOf(m) \in 1 .. attempt
    /\ step \in {"certificate", "entry"} => KeyOf(m) # attempt

EnvelopesAreStatements ==
  \A m \in S!Made, j \in Job :
    j.kind = "statement" /\ Logged(m).sigs[1].sig.over = S!Pae(j.content)
      => j.content.statement

KeysDiffer == \A m, n \in S!Made : m # n => KeyOf(m) # KeyOf(n)

SignerInv ==
  /\ S!TypeOK
  /\ step \in {"certificate", "entry"} => attempt > 0
  /\ LogsGrow
  /\ KeysAreSpent
  /\ KeysDiffer
  /\ EnvelopesAreStatements

\* A list with one more element.
LEMMA AppendToList ==
  ASSUME NEW s, S!IsSequence(s), NEW e
  PROVE  /\ S!IsSequence(Append(s, e))
         /\ Len(s) \in Nat /\ Len(Append(s, e)) = Len(s) + 1
         /\ Append(s, e)[Len(s) + 1] = e
         /\ \A i \in 1 .. Len(s) : Append(s, e)[i] = s[i]
<1> DEFINE T == {s[i] : i \in DOMAIN s} \cup {e}
           r == Append(s, e)
<1>1. s \in Seq(T) /\ e \in T
  BY DEF S!IsSequence
<1>2. r \in Seq(T)
  BY <1>1
<1>3. DOMAIN r = 1 .. Len(r) /\ Len(r) \in Nat
  <2> HIDE DEF r
  <2> QED
    BY <1>2
<1>4. r = [i \in 1 .. Len(r) |-> r[i]]
  <2> HIDE DEF r
  <2> QED
    BY <1>2
<1>5. r \in Seq({r[i] : i \in DOMAIN r})
  <2> DEFINE R == {r[i] : i \in DOMAIN r}
  <2>1. r \in [1 .. Len(r) -> R]
    <3> HIDE DEF r
    <3> QED
      BY <1>3, <1>4
  <2> HIDE DEF r, R
  <2>2. r \in Seq(R)
    BY <1>3, <2>1
  <2> QED
    BY <2>2 DEF R
<1> QED
  BY <1>1, <1>5 DEF S!IsSequence

\* The log that makes an entry makes one, at its end (create_entry).
LEMMA OneEntryIsMade ==
  ASSUME LogsGrow, S!LogBody
  PROVE  /\ LogsGrow'
         /\ \E new : \A m \in S!Made' :
              /\ m # new => m \in S!Made /\ Logged(m)' = Logged(m)
              /\ m = new => Logged(m)' = S!Body
<1> DEFINE id == S!Service.id
           made == [body |-> S!Body, time |-> clock]
<1>1. log' = [log EXCEPT ![id] = Append(log[id], made)]
  BY DEF S!LogBody
<1>2. CASE id \notin DOMAIN log
  <2>1. \A x \in DOMAIN log : log'[x] = log[x]
    BY <1>1, <1>2
  <2>2. DOMAIN log' = DOMAIN log
    BY <1>1
  <2>3. S!Made' = S!Made
    BY <2>1, <2>2 DEF S!Made
  <2>4. \A m \in S!Made : m[1] \in DOMAIN log
    BY DEF S!Made
  <2>5. \A m \in S!Made' : m # <<id, 0>> /\ m \in S!Made /\ Logged(m)' = Logged(m)
    BY <1>2, <2>1, <2>3, <2>4 DEF Logged
  <2>6. LogsGrow'
    BY <2>1, <2>2 DEF LogsGrow
  <2> QED
    BY <2>5, <2>6
<1>3. CASE id \in DOMAIN log
  <2> DEFINE new == <<id, Len(log[id]) + 1>>
  <2>1. /\ DOMAIN log' = DOMAIN log
        /\ log'[id] = Append(log[id], made)
        /\ \A x \in DOMAIN log \ {id} : log'[x] = log[x]
    BY <1>1, <1>3
  <2>2. /\ S!IsSequence(log'[id])
        /\ Len(log[id]) \in Nat /\ Len(log'[id]) = Len(log[id]) + 1
        /\ log'[id][Len(log[id]) + 1] = made
        /\ \A i \in 1 .. Len(log[id]) : log'[id][i] = log[id][i]
    BY <1>3, <2>1, AppendToList DEF LogsGrow
  <2>3. Len(InLog[id]) \in Nat
    BY <1>3, ListAssumption, AppendToList DEF LogsGrow
  <2>4. LogsGrow'
    <3>1. \A x \in DOMAIN log' : S!IsSequence(log'[x]) /\ Len(InLog[x]) <= Len(log'[x])
      <4> TAKE x \in DOMAIN log'
      <4>1. CASE x = id
        BY <1>3, <2>2, <2>3, <4>1 DEF LogsGrow
      <4>2. CASE x # id
        BY <2>1, <4>2 DEF LogsGrow
      <4> QED
        BY <4>1, <4>2
    <3> QED
      BY <2>1, <3>1 DEF LogsGrow, S!IsSequence
  <2>5. ASSUME NEW m \in S!Made'
        PROVE  /\ m # new => m \in S!Made /\ Logged(m)' = Logged(m)
               /\ m = new => Logged(m)' = S!Body
    <3> DEFINE x == m[1]
               n == m[2]
    <3>1. m = <<x, n>> /\ x \in DOMAIN log /\ n \in Len(InLog[x]) + 1 .. Len(log'[x])
      BY <2>1, <2>5 DEF S!Made
    <3> HIDE DEF x, n
    <3>2. CASE x # id
      BY <2>1, <3>1, <3>2 DEF S!Made, Logged
    <3>3. CASE x = id /\ n = Len(log[id]) + 1
      BY <2>2, <3>1, <3>3 DEF Logged
    <3>4. CASE x = id /\ n # Len(log[id]) + 1
      <4>1. n \in Len(InLog[id]) + 1 .. Len(log[id]) /\ n \in 1 .. Len(log[id])
        BY <2>2, <2>3, <3>1, <3>4
      <4> QED
        BY <1>3, <2>2, <3>1, <3>4, <4>1 DEF S!Made, Logged
    <3> QED
      BY <3>2, <3>3, <3>4
  <2> QED
    BY <2>4, <2>5
<1> QED
  BY <1>2, <1>3

\* What a call logs has its key and, of an envelope, a statement (sign_raw_statement).
LEMMA BodyIsOfCall ==
  ASSUME S!TypeOK, step = "entry"
  PROVE  /\ S!Body.sigs[1].sig.key = attempt
         /\ \A j \in Job :
              j.kind = "statement" /\ S!Body.sigs[1].sig.over = S!Pae(j.content)
                => j.content.statement
<1>1. S!Body.sigs[1].sig = S!Signature
  BY DEF S!Body, S!HashedRekordV2, S!DsseEntry, S!HashedRekord, S!Proposed
<1>2. S!Signature.key = attempt /\ S!Signature.over = S!Signable
  BY DEF S!Signature, S!Key
<1>3. ASSUME NEW j \in Job, j.kind = "statement", S!Signable = S!Pae(j.content)
      PROVE  j.content.statement
  <2>1. PICK i \in Job : job = S!AsSigned(i) /\ job.kind # "digest"
    BY DEF S!TypeOK
  <2>2. CASE job.kind = "statement"
    <3>1. job.content = j.content
      BY <1>3, <2>2 DEF S!Signable, S!ForEnvelope, S!Pae
    <3> QED
      BY <2>2, <3>1 DEF S!TypeOK, S!IsStatement
  <2>3. CASE job.kind # "statement"
    <3>1. i.kind = "bytes" /\ job = i
      BY <2>1, <2>3, SessionAssumption DEF S!AsSigned
    <3> QED
      BY <1>3, <2>3, <3>1, CallerAssumption DEF S!Signable, S!ForEnvelope
  <2> QED
    BY <2>2, <2>3
<1> QED
  BY <1>1, <1>2, <1>3

\* A step that makes no entry.
LEMMA LogsStay ==
  ASSUME SignerInv, SessionNext, log' = log
  PROVE  LogsGrow' /\ KeysDiffer' /\ EnvelopesAreStatements' /\ S!Made' = S!Made
         /\ \A m : KeyOf(m)' = KeyOf(m)
<1>1. S!Made' = S!Made /\ \A m : Logged(m)' = Logged(m)
  BY DEF S!Made, Logged
<1>2. \A m : KeyOf(m)' = KeyOf(m)
  BY <1>1 DEF KeyOf
<1> QED
  BY <1>1, <1>2 DEF SignerInv, LogsGrow, KeysDiffer, EnvelopesAreStatements, S!IsSequence

\* A step that makes one.
LEMMA LogsAreAccountable ==
  ASSUME SignerInv, step = "entry", S!LogBody, step' \notin {"certificate", "entry"},
         attempt' = attempt
  PROVE  LogsGrow' /\ KeysAreSpent' /\ KeysDiffer' /\ EnvelopesAreStatements'
<1> USE DEF SignerInv
<1>1. attempt \in Nat /\ attempt >= 1
  <2>1. attempt \in Nat
    BY SessionAssumption DEF S!TypeOK
  <2> QED
    BY <2>1
<1>2. LogsGrow'
  BY OneEntryIsMade
<1>3. PICK new : \A m \in S!Made' :
        /\ m # new => m \in S!Made /\ Logged(m)' = Logged(m)
        /\ m = new => Logged(m)' = S!Body
  BY OneEntryIsMade
<1>4. \A m \in S!Made' :
        /\ m # new => m \in S!Made /\ KeyOf(m)' = KeyOf(m) /\ KeyOf(m) \in 1 .. attempt
                      /\ KeyOf(m) # attempt
        /\ m = new => KeyOf(m)' = attempt
  BY <1>3, BodyIsOfCall DEF KeyOf, KeysAreSpent
<1>5. KeysAreSpent'
  BY <1>1, <1>4 DEF KeysAreSpent
<1>6. KeysDiffer'
  BY <1>4 DEF KeysDiffer
<1>7. EnvelopesAreStatements'
  BY <1>3, BodyIsOfCall DEF EnvelopesAreStatements
<1> QED
  BY <1>2, <1>5, <1>6, <1>7

LEMMA SignerInvInit == S!Init => SignerInv
<1> SUFFICES ASSUME S!Init
             PROVE  SignerInv
  OBVIOUS
<1> USE DEF S!Init
<1>1. S!TypeOK
  BY SessionAssumption DEF S!TypeOK, S!Time
<1>2. LogsGrow
  BY ListAssumption, AppendToList DEF LogsGrow
<1>3. S!Made = {}
  BY <1>2 DEF LogsGrow, S!Made
<1> QED
  BY <1>1, <1>2, <1>3 DEF SignerInv, KeysAreSpent, KeysDiffer, EnvelopesAreStatements

\* Every step of a session keeps the account of the logs: only the step that asks
\* for an entry makes one, and it ends the use of the key.
LEMMA SignerInvStep ==
  ASSUME SignerInv, SessionNext
  PROVE  SignerInv'
<1> USE DEF SignerInv
<1>1. S!TypeOK'
  BY SignerTypeStep
<1>2. attempt \in Nat
  BY SessionAssumption DEF S!TypeOK
<1>3. CASE S!CreateEntry \/ S!EntryLost
  <2>1. /\ step = "entry" /\ S!LogBody /\ attempt' = attempt
        /\ step' \notin {"certificate", "entry"}
    BY <1>3 DEF S!CreateEntry, S!EntryLost, S!call
  <2> QED
    BY <1>1, <2>1, LogsAreAccountable
<1>4. CASE Signing
  <2>1. PICK j \in Job, f \in Flow : S!Sign(j, TokenOf(f))
    BY <1>4 DEF Signing
  <2>2. log' = log /\ attempt' = attempt + 1
    BY <2>1 DEF S!Sign
  <2>3. KeysAreSpent'
    BY <1>2, <2>2, LogsStay DEF KeysAreSpent
  <2> QED
    BY <1>1, <1>2, <2>2, <2>3, LogsStay
<1>5. CASE \/ Authenticating \/ S!Tick \/ S!Configuring
           \/ S!RequestCertificate \/ S!RequestTimestamp \/ S!ServiceFails
  <2>1. /\ log' = log /\ attempt' = attempt
        /\ step' \in {"certificate", "entry"} => step \in {"certificate", "entry"}
    BY <1>5 DEF Authenticating, signerVars, S!Tick, S!call, S!Configuring, S!Configure,
       S!UseDefault, S!WithRekorVersion, S!RequestCertificate, S!RequestTimestamp,
       S!ServiceFails, S!Fail
  <2>2. KeysAreSpent'
    BY <2>1, LogsStay DEF KeysAreSpent
  <2> QED
    BY <1>1, <2>1, <2>2, LogsStay
<1> QED
  BY <1>3, <1>4, <1>5 DEF SessionNext, Other, S!Calling

LEMMA SignerInvStutter ==
  ASSUME SignerInv, UNCHANGED vars
  PROVE  SignerInv'
<1> USE DEF SignerInv
<1>1. UNCHANGED signerVars
  BY DEF vars
<1>2. S!TypeOK'
  BY <1>1 DEF signerVars, S!TypeOK, S!IsContext, S!IsStatement, S!Key
<1>3. S!Made' = S!Made /\ \A m : Logged(m)' = Logged(m) /\ KeyOf(m)' = KeyOf(m)
  BY <1>1 DEF signerVars, S!Made, Logged, KeyOf
<1>4. LogsGrow' /\ KeysAreSpent' /\ KeysDiffer' /\ EnvelopesAreStatements'
  BY <1>1, <1>3 DEF signerVars, LogsGrow, KeysAreSpent, KeysDiffer, EnvelopesAreStatements,
     S!IsSequence
<1> QED
  BY <1>1, <1>2, <1>4 DEF signerVars

-----------------------------------------------------------------------------
(* What is returned and what the verifier makes of it.                     *)

\* An entry as a log keeps it: its signatures are a list, and it has a time.
Kept(e) == S!IsSequence(e.body.sigs) /\ e.time \in Nat

PartsFit ==
  /\ context # Unset => context.rekor \in DOMAIN Rekor
  /\ \A id \in DOMAIN log : \A n \in DOMAIN log[id] : Kept(log[id][n])
  /\ step \in {"entry", "stamp", "returned"} => cert.window.start \in Nat
  /\ step \in {"stamp", "returned"} =>
       /\ S!IsSequence(entry.body.sigs)
       /\ entry.integrated \in Nat
       /\ entry.kind \in {"hashedrekord", "dsse"}
  /\ step = "returned" =>
       /\ bundle.content.sigs = <<bundle.content.sigs[1]>>
       /\ bundle.stamps = <<>> \/ bundle.stamps = <<bundle.stamps[1]>>
       /\ bundle.stamps # <<>> => bundle.stamps[1].info.time \in Nat

\* The log behind the URL of a context is one that there is.
LEMMA ServiceIsLog ==
  ASSUME SignerInv, PartsFit, step \in {"entry", "stamp"}
  PROVE  S!Service.id \in DOMAIN log
<1>1. context # Unset /\ clock \in S!Time /\ DOMAIN log = DOMAIN InLog
  BY DEF SignerInv, S!TypeOK, LogsGrow
<1> QED
  BY <1>1, ServiceAssumption DEF PartsFit, S!Service

\* The log that makes an entry keeps it.
LEMMA EntryIsKept ==
  ASSUME SignerInv, PartsFit, step = "entry", S!LogBody
  PROVE  \A id \in DOMAIN log' :
           S!IsSequence(log'[id]) /\ \A n \in DOMAIN log'[id] : Kept(log'[id][n])
<1> DEFINE x == S!Service.id
           made == [body |-> S!Body, time |-> clock]
<1>1. x \in DOMAIN log /\ log' = [log EXCEPT ![x] = Append(log[x], made)]
  BY ServiceIsLog DEF S!LogBody
<1>2. Kept(made)
  <2>1. clock \in Nat
    BY SessionAssumption DEF SignerInv, S!TypeOK, S!Time
  <2>2. PICK g : S!Body.sigs = <<g>>
    BY DEF S!Body, S!HashedRekordV2, S!DsseEntry, S!HashedRekord, S!Proposed
  <2>3. S!IsSequence(<<g>>)
    BY DEF S!IsSequence
  <2> QED
    BY <2>1, <2>2, <2>3 DEF Kept
<1>3. /\ S!IsSequence(log'[x])
      /\ Len(log[x]) \in Nat /\ Len(log'[x]) = Len(log[x]) + 1
      /\ log'[x][Len(log[x]) + 1] = made
      /\ \A n \in 1 .. Len(log[x]) : log'[x][n] = log[x][n]
  BY <1>1, AppendToList DEF SignerInv, LogsGrow
<1>4. DOMAIN log[x] = 1 .. Len(log[x]) /\ DOMAIN log'[x] = 1 .. Len(log'[x])
  BY <1>1, <1>3 DEF SignerInv, LogsGrow, S!IsSequence
<1> HIDE DEF made, x
<1>5. \A n \in DOMAIN log'[x] : Kept(log'[x][n])
  <2> TAKE n \in DOMAIN log'[x]
  <2>1. CASE n = Len(log[x]) + 1
    BY <1>2, <1>3, <2>1
  <2>2. CASE n # Len(log[x]) + 1
    <3>1. n \in 1 .. Len(log[x])
      BY <1>3, <1>4, <2>2
    <3> QED
      BY <1>1, <1>3, <1>4, <3>1 DEF PartsFit
  <2> QED
    BY <2>1, <2>2
<1> QED
  BY <1>1, <1>3, <1>5 DEF PartsFit, SignerInv, LogsGrow

\* The last entry of what the log answers for is one that it keeps.
LEMMA AnswerIsKept ==
  ASSUME SignerInv, PartsFit, S!CreateEntry
  PROVE  /\ S!IsSequence(entry'.body.sigs)
         /\ entry'.integrated \in Nat
         /\ entry'.kind \in {"hashedrekord", "dsse"}
<1>1. step = "entry" /\ S!LogBody
  BY DEF S!CreateEntry
<1>2. PICK entries \in {log[S!Service.id], log'[S!Service.id]} :
        entries # <<>> /\ entry' = S!FromLogEntry(S!LogEntry(entries))
  BY DEF S!CreateEntry
<1>3. S!IsSequence(entries) /\ \A n \in DOMAIN entries : Kept(entries[n])
  <2>1. S!Service.id \in DOMAIN log /\ DOMAIN log' = DOMAIN log
    BY <1>1, ServiceIsLog DEF S!LogBody
  <2> QED
    BY <1>1, <1>2, <2>1, EntryIsKept DEF SignerInv, LogsGrow, PartsFit
<1>4. Kept(entries[Len(entries)])
  BY <1>2, <1>3 DEF S!IsSequence
<1> QED
  BY <1>2, <1>4 DEF Kept, S!FromLogEntry, S!LogEntry, S!LogEntryV1, S!LogEntryV2, S!EntryKind

\* The context that a configuration gives is of a log that there is.
LEMMA ConfigHasLog ==
  ASSUME NEW tuf \in TufConfig, NEW force, S!GetRekorUrls(tuf, force, clock) # {}
  PROVE  S!FromTufConfig(tuf, force, clock).rekor \in DOMAIN Rekor
<1>1. PICK i \in S!GetRekorUrls(tuf, force, clock) :
        S!GetRekorUrl(tuf, force, clock) = tuf.rekors[i]
  BY BestIsUsable
<1>2. i \in DOMAIN tuf.rekors /\ tuf.rekors[i].version \in S!SupportedRekor
  BY DEF S!GetRekorUrls, S!OfVersion
<1> QED
  BY <1>1, <1>2, ServiceAssumption DEF S!FromTufConfig

\* What no call of theirs touches stays as it was in the logs.
LEMMA KeptStays ==
  ASSUME PartsFit, UNCHANGED log
  PROVE  (\A id \in DOMAIN log : \A n \in DOMAIN log[id] : Kept(log[id][n]))'
<1>1. \A id \in DOMAIN log : \A n \in DOMAIN log[id] : Kept(log[id][n])
  BY DEF PartsFit
<1>2. \A id \in DOMAIN log' : \A n \in DOMAIN log'[id] : Kept(log'[id][n])
  BY <1>1
<1> QED
  BY <1>2 DEF Kept, S!IsSequence

\* Nor does what is left of the parts of a bundle, when no call changes them.
LEMMA PartsStay ==
  ASSUME PartsFit, UNCHANGED <<step, cert, entry, bundle, log>>,
         context' # Unset => context'.rekor \in DOMAIN Rekor
  PROVE  PartsFit'
<1>1. (\A id \in DOMAIN log : \A n \in DOMAIN log[id] : Kept(log[id][n]))'
  BY KeptStays
<1>2. S!IsSequence(entry'.body.sigs) <=> S!IsSequence(entry.body.sigs)
  BY DEF S!IsSequence
<1> QED
  BY <1>1, <1>2 DEF PartsFit, S!IsSequence

LEMMA PartsFitStep ==
  ASSUME SignerInv, PartsFit, SessionNext
  PROVE  PartsFit'
<1> USE DEF PartsFit, S!call
<1>1. CASE Authenticating
  <2>1. UNCHANGED <<step, cert, entry, bundle, log, context>>
    BY <1>1 DEF Authenticating, signerVars
  <2> QED
    BY <2>1, PartsStay
<1>2. CASE S!Tick
  <2>1. UNCHANGED <<step, cert, entry, bundle, log, context>>
    BY <1>2 DEF S!Tick
  <2> QED
    BY <2>1, PartsStay
<1>3. CASE S!Configuring
  <2>1. context' # Unset => context'.rekor \in DOMAIN Rekor
    <3>1. CASE S!Configure
      BY <3>1, ConfigHasLog DEF S!Configure
    <3>2. CASE S!UseDefault
      BY <3>2, ServiceAssumption DEF S!UseDefault
    <3>3. CASE S!WithRekorVersion
      BY <3>3, ServiceAssumption DEF S!WithRekorVersion, SignerInv, S!TypeOK, S!IsContext
    <3> QED
      BY <1>3, <3>1, <3>2, <3>3 DEF S!Configuring
  <2>2. UNCHANGED <<clock, step, S!call, log>>
    BY <1>3 DEF S!Configuring, S!Configure, S!UseDefault, S!WithRekorVersion
  <2> QED
    BY <2>1, <2>2, PartsStay
<1>4. CASE Signing
  <2>1. PICK j \in Job, f \in Flow : S!Sign(j, TokenOf(f))
    BY <1>4 DEF Signing
  <2> QED
    BY <2>1, KeptStays DEF S!Sign
<1>5. CASE S!RequestCertificate
  <2>1. cert'.window.start \in Nat
    BY <1>5, SessionAssumption DEF S!RequestCertificate, S!Issue, SignerInv, S!TypeOK, S!Time
  <2> QED
    BY <1>5, <2>1, KeptStays DEF S!RequestCertificate, S!Fail
<1>6. CASE S!CreateEntry
  <2>1. \A id \in DOMAIN log' : \A n \in DOMAIN log'[id] : Kept(log'[id][n])
    BY <1>6, EntryIsKept DEF S!CreateEntry
  <2>2. (\A id \in DOMAIN log : \A n \in DOMAIN log[id] : Kept(log[id][n]))'
    BY <2>1 DEF Kept, S!IsSequence
  <2>3. /\ S!IsSequence(entry'.body.sigs)
        /\ entry'.integrated \in Nat
        /\ entry'.kind \in {"hashedrekord", "dsse"}
    BY <1>6, AnswerIsKept
  <2>4. step = "entry" /\ step' \in {"stamp", "returned"} /\ cert' = cert /\ context' = context
    BY <1>6 DEF S!CreateEntry
  <2>5. step' = "returned" => bundle' = S!IntoBundle(entry', <<>>)
    BY <1>6 DEF S!CreateEntry
  <2>6. step' = "returned" => /\ bundle'.content.sigs = <<bundle'.content.sigs[1]>>
                              /\ bundle'.stamps = <<>>
    BY <2>5 DEF S!IntoBundle, S!Content
  <2> QED
    BY <2>2, <2>3, <2>4, <2>6 DEF S!IsSequence
<1>7. CASE S!EntryLost
  <2>1. \A id \in DOMAIN log' : \A n \in DOMAIN log'[id] : Kept(log'[id][n])
    BY <1>7, EntryIsKept DEF S!EntryLost
  <2>2. (\A id \in DOMAIN log : \A n \in DOMAIN log[id] : Kept(log[id][n]))'
    BY <2>1 DEF Kept, S!IsSequence
  <2> QED
    BY <1>7, <2>2 DEF S!EntryLost
<1>8. CASE S!RequestTimestamp
  <2>1. /\ bundle'.content.sigs = <<bundle'.content.sigs[1]>>
        /\ bundle'.stamps = <<bundle'.stamps[1]>>
        /\ bundle'.stamps[1].info.time = clock
    BY <1>8 DEF S!RequestTimestamp, S!IntoBundle, S!Content, S!Timestamp
  <2>2. clock \in Nat
    BY SessionAssumption DEF SignerInv, S!TypeOK, S!Time
  <2> QED
    BY <1>8, <2>1, <2>2, KeptStays DEF S!RequestTimestamp, S!IsSequence
<1>9. CASE S!ServiceFails
  BY <1>9, KeptStays DEF S!ServiceFails, S!Fail
<1> QED
  BY <1>1, <1>2, <1>3, <1>4, <1>5, <1>6, <1>7, <1>8, <1>9 DEF SessionNext, Other, S!Calling

LEMMA PartsFitInit == S!Init => PartsFit
<1> SUFFICES ASSUME S!Init
             PROVE  PartsFit
  OBVIOUS
<1>1. context = Unset /\ step = "idle" /\ log = InLog
  BY DEF S!Init
<1>2. \A id \in DOMAIN log : \A n \in DOMAIN log[id] : Kept(log[id][n])
  BY <1>1, ServiceAssumption DEF Kept
<1> QED
  BY <1>1, <1>2 DEF PartsFit

LEMMA PartsFitStutter ==
  ASSUME PartsFit, UNCHANGED signerVars
  PROVE  PartsFit'
<1>1. UNCHANGED <<step, cert, entry, bundle, log, context>>
  BY DEF signerVars
<1> QED
  BY <1>1, PartsStay DEF PartsFit

\* A signature that the verifier ties to the entry is the one that was logged: an
\* entry of either kind that the signer names has one signature, and that is it.
LEMMA SignatureIsLogged ==
  ASSUME NEW a, NEW STATE at, NEW STATE t, PartsFit, step = "returned",
         bundle.entries = <<entry>>, V(bundle, a, at, t)!EntryConsistent(entry)
  PROVE  entry.body.sigs[1].sig = bundle.content.sigs[1]
<1>1. CASE V(bundle, a, at, t)!SignatureMatches(entry)
  BY <1>1 DEF V!SignatureMatches, V!bundle
<1>2. CASE V(bundle, a, at, t)!VerifyDsseV001(entry)
  <2> DEFINE g == bundle.content.sigs[1]
  <2>1. bundle.content.sigs = <<g>> /\ S!IsSequence(entry.body.sigs)
    BY DEF PartsFit
  <2>2. Len(entry.body.sigs) = 1
    BY <1>2, <2>1 DEF V!VerifyDsseV001, V!bundle
  <2>3. PICK i \in DOMAIN entry.body.sigs : entry.body.sigs[i].sig = g
    <3>1. g \in V(bundle, a, at, t)!Elements(bundle.content.sigs)
      BY <2>1 DEF V!Elements
    <3> HIDE DEF g
    <3> QED
      BY ONLY <1>2, <3>1, Zenon DEF V!VerifyDsseV001, V!bundle, V!Elements
  <2>4. DOMAIN entry.body.sigs = {1}
    BY <2>1, <2>2 DEF S!IsSequence
  <2> QED
    BY <2>3, <2>4
<1>3. entry.kind # "intoto"
  BY DEF PartsFit
<1> QED
  BY <1>1, <1>2, <1>3 DEF V!EntryConsistent, V!VerifyHashedRekord

\* What is accepted has a time, and each of its times is in the certificate: the
\* one that the certificate is checked at is that of the only timestamp, and the
\* time of the only entry is checked against the certificate as well.
LEMMA AcceptedIsTimely ==
  ASSUME SignerInv, PartsFit, step = "returned", NEW a, Accepts(bundle, a, clock)
  PROVE  Timely
<1> DEFINE at == clock
           seen == V(bundle, a, at, 0)!ValidationTime
<1>1. bundle.entries = <<entry>> /\ bundle.material.certs = <<cert>>
  BY DEF SignerInv, S!TypeOK
<1>2. /\ V(bundle, a, at, 0)!TimeDetermined
      /\ V(bundle, a, at, seen)!CertificateChains
      /\ V(bundle, a, at, seen)!LogEntriesVerify
      /\ V(bundle, a, at, seen)!TlogConsistent
  BY DEF Accepts
<1>3. cert.window.start \in Nat /\ cert.window.start # Unset /\ entry.integrated \in Nat
  BY ServiceAssumption DEF PartsFit
<1>4. \A t \in Nat : V(bundle, a, at, seen)!Covers(cert.window, t) => Within(cert.window, t)
  BY <1>3 DEF V!Covers, V!HasStartedBy, Within
<1>5. V(bundle, a, at, seen)!Elements(bundle.entries) = {entry}
  BY <1>1 DEF V!Elements
<1>6. V(bundle, a, at, 0)!Elements(bundle.entries) = {entry}
  BY <1>1 DEF V!Elements
<1>7. bundle.entries[1] = entry /\ bundle.material.certs[1] = cert
  BY <1>1
<1>8. entry.body.sigs[1].sig = bundle.content.sigs[1]
  <2>1. V(bundle, a, at, seen)!EntryConsistent(entry)
    BY <1>2, <1>5 DEF V!TlogConsistent, V!bundle
  <2> QED
    BY <1>1, <2>1, SignatureIsLogged
<1>9. entry.integrated # 0 => Within(cert.window, entry.integrated)
  <2>1. V(bundle, a, at, seen)!IntegratedTimeHolds(entry)
    BY <1>2, <1>5 DEF V!LogEntriesVerify, V!bundle, V!ByKey, V!policy
  <2> QED
    BY <1>3, <1>4, <1>7, <2>1 DEF V!IntegratedTimeHolds, V!Cert, V!bundle
<1>10. CASE bundle.stamps = <<>>
  <2>1. entry.integrated > 0
    BY <1>2, <1>6, <1>10 DEF V!TimeDetermined, V!V1IntegratedTimes, V!bundle
  <2>2. Attested = {entry.integrated}
    BY <1>3, <1>7, <1>10, <2>1 DEF Attested
  <2> QED
    BY <1>3, <1>7, <1>8, <1>9, <2>1, <2>2 DEF Timely
<1>11. CASE bundle.stamps # <<>>
  <2> DEFINE t == bundle.stamps[1].info.time
  <2>1. bundle.stamps = <<bundle.stamps[1]>> /\ t \in Nat
    BY <1>11 DEF PartsFit
  <2>2. {bundle.stamps[i] : i \in DOMAIN bundle.stamps} = {bundle.stamps[1]}
    BY <2>1
  <2>3. seen = V(bundle, a, at, 0)!Minimum({t})
    BY ONLY <1>11, <2>2 DEF V!ValidationTime, V!bundle, V!Elements
  <2>4. seen = t
    <3> HIDE DEF t
    <3> QED
      BY <2>1, <2>3 DEF V!Minimum
  <2>5. Within(cert.window, t)
    BY <1>2, <1>4, <1>7, <2>1, <2>4 DEF V!CertificateChains, V!Cert, V!bundle
  <2>6. Attested = {t} \cup ({entry.integrated} \ {0})
    BY <1>7, <2>2 DEF Attested
  <2> QED
    BY <1>7, <1>8, <1>9, <2>5, <2>6 DEF Timely
<1> QED
  BY <1>10, <1>11

-----------------------------------------------------------------------------
(* What was returned, part by part: who made it, and when.                  *)

\* The certificate that an authority issued to this call at time t.
CertificateOf(ca, t) ==
  [key |-> S!Key(attempt), issuer |-> ca.subject, by |-> ca.key,
   window |-> [start |-> t, end |-> t + Lifetime], codeSigning |-> TRUE,
   identity |-> bearer.identity, oidcIssuer |-> "oidc",
   scts |-> <<[by |-> ca.ctlog, issuerKey |-> ca.key]>>]

CertIsIssued ==
  step \in {"entry", "stamp", "returned"} =>
    \E url \in DOMAIN Fulcio, t \in 0 .. clock : cert = CertificateOf(Fulcio[url][t], t)

\* What this call asks a log of version v to keep.
BodyFor(v) ==
  IF v = 2 THEN S!HashedRekordV2 ELSE IF S!ForEnvelope THEN S!DsseEntry ELSE S!HashedRekord

\* What becomes of the answer of a log of version v that holds these entries.
EntryOf(service, v, entries) ==
  LET last == entries[Len(entries)]
  IN [kind |-> IF S!ForEnvelope /\ v = 1 THEN "dsse" ELSE "hashedrekord",
      version |-> IF v = 1 THEN "0.0.1" ELSE "0.0.2",
      id |-> service.id, integrated |-> IF v = 1 THEN last.time ELSE 0, body |-> last.body,
      promise |-> IF v = 1
                  THEN [by |-> service.key, id |-> service.id, integrated |-> last.time,
                        body |-> last.body]
                  ELSE Unset,
      proof |-> Prove(entries, service)]

\* An entry by the key of this call is what it asked for, just made.
LastIsOfCall(v, entries) ==
  LET last == entries[Len(entries)]
  IN last.body.sigs[1].sig.key = S!Key(attempt) =>
       last.body = BodyFor(v) /\ last.time \in 0 .. clock

EntryIsAnswer ==
  step \in {"stamp", "returned"} =>
    \E url \in DOMAIN Rekor, t \in 0 .. clock, v \in S!SupportedRekor : \E entries :
      /\ S!IsSequence(entries) /\ entries # <<>>
      /\ LastIsOfCall(v, entries)
      /\ entry = EntryOf(Rekor[url][t], v, entries)

\* The token of a timestamp authority for this call at time t.
StampOf(tsa, t) ==
  LET info == [over |-> S!Signature, time |-> t]
  IN [granted |-> TRUE, info |-> info, attrs |-> info,
      signature |-> [key |-> tsa.key, over |-> info], signer |-> tsa.key,
      certs |-> <<S!TsaCertificate(tsa)>>]

BundleIsBuilt ==
  step = "returned" =>
    \/ bundle = S!IntoBundle(entry, <<>>)
    \/ \E url \in DOMAIN Tsa, t \in 0 .. clock :
         bundle = S!IntoBundle(entry, <<StampOf(Tsa[url][t], t)>>)

JobIsSigned ==
  /\ step \in {"certificate", "entry", "stamp", "returned"} =>
       job \in {S!AsSigned(j) : j \in Job} /\ job.kind # "digest"
  /\ step \in {"entry", "stamp", "returned"} => S!IsStatement(job)

\* The services of a context are there.
ContextIsServed ==
  /\ context # Unset =>
       context.fulcio \in DOMAIN Fulcio /\ context.tsa \in DOMAIN Tsa \cup {Unset}
  /\ step = "stamp" => context.tsa # Unset

\* A log keeps what it held before.
HeldBefore ==
  \A id \in DOMAIN InLog : \A n \in DOMAIN InLog[id] : log[id][n] = InLog[id][n]

\* Each part as the service or the step made it, of whatever time it is.
PartsKnown ==
  /\ ContextIsServed /\ HeldBefore /\ JobIsSigned
  /\ CertIsIssued /\ EntryIsAnswer /\ BundleIsBuilt

\* Nothing is known of a call before there is one.
LEMMA PartsKnownInit == S!Init => PartsKnown
BY DEF S!Init, PartsKnown, ContextIsServed, HeldBefore, JobIsSigned, CertIsIssued, EntryIsAnswer,
       BundleIsBuilt

\* Time passes and contexts change, but not what a call has.
LEMMA PartsKnownStay ==
  ASSUME SignerInv, PartsKnown, UNCHANGED <<step, S!call, log>>,
         clock' \in Nat, clock <= clock', ContextIsServed'
  PROVE  PartsKnown'
<1> USE DEF PartsKnown
<1>1. clock \in Nat /\ 0 .. clock \subseteq 0 .. clock'
  BY SessionAssumption DEF SignerInv, S!TypeOK, S!Time
<1>2. UNCHANGED <<job, bearer, attempt, cert, entry, bundle>> /\ step' = step /\ log' = log
  BY DEF S!call
<1>3. HeldBefore'
  BY <1>2 DEF HeldBefore
<1>4. JobIsSigned'
  BY <1>2 DEF JobIsSigned, S!IsStatement
<1>5. /\ \A ca, t : CertificateOf(ca, t)' = CertificateOf(ca, t)
      /\ \A v : BodyFor(v)' = BodyFor(v)
      /\ \A service, v, entries : EntryOf(service, v, entries)' = EntryOf(service, v, entries)
      /\ \A tsa, t : StampOf(tsa, t)' = StampOf(tsa, t)
      /\ \A e, stamps : S!IntoBundle(e, stamps)' = S!IntoBundle(e, stamps)
  BY <1>2 DEF CertificateOf, BodyFor, EntryOf, StampOf, S!IntoBundle, S!Content, S!Key, S!Signature,
     S!Signable, S!ForEnvelope, S!HashedRekordV2, S!DsseEntry, S!HashedRekord, S!Proposed
<1>6. CertIsIssued'
  BY <1>1, <1>2, <1>5 DEF CertIsIssued
<1>7. \A v, entries : LastIsOfCall(v, entries) => LastIsOfCall(v, entries)'
  BY <1>1, <1>2, <1>5 DEF LastIsOfCall, S!Key
<1>8. EntryIsAnswer'
  BY <1>1, <1>2, <1>5, <1>7 DEF EntryIsAnswer, S!IsSequence
<1>9. BundleIsBuilt'
  BY <1>1, <1>2, <1>5 DEF BundleIsBuilt
<1> QED
  BY <1>3, <1>4, <1>6, <1>8, <1>9

\* The first usable endpoint of a list, by version, is in the list.
LEMMA EndpointIsListed ==
  ASSUME NEW endpoints, S!IsSequence(endpoints), NEW at, S!OfVersion(endpoints, {1}, at) # {}
  PROVE  LET i == S!Minimum(S!OfVersion(endpoints, {1}, at))
         IN i \in DOMAIN endpoints /\ endpoints[i].version = 1
<1> DEFINE found == S!OfVersion(endpoints, {1}, at)
<1>1. found \subseteq DOMAIN endpoints /\ \A i \in found : endpoints[i].version = 1
  BY DEF S!OfVersion
<1>2. found \subseteq Nat /\ found # {}
  BY <1>1, ListPlaces
<1>3. S!Minimum(found) \in found
  <2> HIDE DEF found
  <2> QED
    BY <1>2, LeastPlace
<1> QED
  BY <1>1, <1>3

\* Contexts are of services that there are (from_tuf_config, with_rekor_version).
LEMMA ConfiguringIsServed ==
  ASSUME ContextIsServed, S!Configuring
  PROVE  ContextIsServed'
<1> USE DEF ContextIsServed
<1>1. step' = step /\ step # "stamp"
  BY DEF S!Configuring, S!Configure, S!UseDefault, S!WithRekorVersion, S!Idle
<1>2. CASE S!Configure
  <2>1. PICK tuf \in TufConfig, force \in {Unset, 1, 2} :
          /\ S!GetFulcioUrls(tuf, clock) # {}
          /\ context' = S!FromTufConfig(tuf, force, clock)
    BY <1>2 DEF S!Configure
  <2>2. context'.fulcio \in DOMAIN Fulcio
    BY <2>1, ListAssumption, ServiceAssumption, EndpointIsListed
       DEF S!FromTufConfig, S!GetFulcioUrls
  <2>3. context'.tsa \in DOMAIN Tsa \cup {Unset}
    <3>1. CASE S!GetTsaUrls(tuf, clock) = {}
      BY <2>1, <3>1 DEF S!FromTufConfig
    <3>2. CASE S!GetTsaUrls(tuf, clock) # {}
      BY <2>1, <3>2, ListAssumption, ServiceAssumption, EndpointIsListed
         DEF S!FromTufConfig, S!GetTsaUrls
    <3> QED
      BY <3>1, <3>2
  <2> QED
    BY <1>1, <2>2, <2>3
<1>3. CASE S!UseDefault
  BY <1>1, <1>3, ServiceAssumption DEF S!UseDefault
<1>4. CASE S!WithRekorVersion
  <2>1. /\ context # Unset
        /\ \E v \in S!SupportedRekor :
             context' = [context EXCEPT !.version = v, !.rekor = DefaultUrl[v]]
    BY <1>4 DEF S!WithRekorVersion
  <2>2. context'.fulcio = context.fulcio /\ context'.tsa = context.tsa
    BY <2>1
  <2> QED
    BY <1>1, <2>1, <2>2
<1> QED
  BY <1>2, <1>3, <1>4 DEF S!Configuring

\* Keys of calls are in no log before their own call puts them there.
LEMMA KeyIsNew ==
  ASSUME SignerInv, HeldBefore, step = "entry", NEW id \in DOMAIN log, NEW n \in DOMAIN log[id]
  PROVE  log[id][n].body.sigs[1].sig.key # S!Key(attempt)
<1>1. /\ S!IsSequence(log[id]) /\ S!IsSequence(InLog[id]) /\ id \in DOMAIN InLog
  BY ListAssumption DEF SignerInv, LogsGrow
<1>2. /\ DOMAIN log[id] = 1 .. Len(log[id]) /\ DOMAIN InLog[id] = 1 .. Len(InLog[id])
      /\ Len(log[id]) \in Nat /\ Len(InLog[id]) \in Nat
  BY <1>1 DEF S!IsSequence
<1>3. attempt \in 1 .. MaxAttempts
  BY SessionAssumption DEF SignerInv, S!TypeOK
<1>4. CASE n \in DOMAIN InLog[id]
  BY <1>1, <1>3, <1>4, ServiceAssumption DEF HeldBefore, S!Key
<1>5. CASE n \notin DOMAIN InLog[id]
  <2>1. n \in Len(InLog[id]) + 1 .. Len(log[id])
    BY <1>2, <1>5
  <2>2. <<id, n>> \in S!Made
    BY <2>1 DEF S!Made
  <2> QED
    BY <2>2 DEF SignerInv, KeysAreSpent, KeyOf, Logged, S!Key
<1> QED
  BY <1>4, <1>5

\* A log adds an entry and changes none.
LEMMA LogBodyAdds ==
  ASSUME SignerInv, PartsFit, step = "entry", S!LogBody
  PROVE  LET id == S!Service.id
         IN /\ id \in DOMAIN log
            /\ S!IsSequence(log[id])
            /\ log'[id] = Append(log[id], [body |-> S!Body, time |-> clock])
            /\ \A x \in DOMAIN log : \A n \in DOMAIN log[x] : log'[x][n] = log[x][n]
<1> DEFINE id == S!Service.id
           made == [body |-> S!Body, time |-> clock]
<1>1. /\ id \in DOMAIN log /\ S!IsSequence(log[id])
      /\ log' = [log EXCEPT ![id] = Append(log[id], made)]
  BY ServiceIsLog DEF S!LogBody, SignerInv, LogsGrow
<1>2. DOMAIN log[id] = 1 .. Len(log[id])
  BY <1>1 DEF S!IsSequence
<1> HIDE DEF made, id
<1>3. \A n \in 1 .. Len(log[id]) : Append(log[id], made)[n] = log[id][n]
  BY <1>1, AppendToList
<1>4. ASSUME NEW x \in DOMAIN log, NEW n \in DOMAIN log[x]
      PROVE  log'[x][n] = log[x][n]
  <2>1. CASE x = id
    BY <1>1, <1>2, <1>3, <1>4, <2>1
  <2>2. CASE x # id
    BY <1>1, <2>2
  <2> QED
    BY <2>1, <2>2
<1> QED
  BY <1>1, <1>4 DEF id, made

LEMMA HeldBeforeStays ==
  ASSUME SignerInv, PartsFit, HeldBefore, step = "entry", S!LogBody
  PROVE  HeldBefore'
<1> SUFFICES ASSUME NEW id \in DOMAIN InLog, NEW n \in DOMAIN InLog[id]
             PROVE  log'[id][n] = InLog[id][n]
  BY DEF HeldBefore
<1>1. id \in DOMAIN log /\ S!IsSequence(log[id]) /\ Len(InLog[id]) <= Len(log[id])
      /\ S!IsSequence(InLog[id])
  BY ListAssumption DEF SignerInv, LogsGrow
<1>2. n \in DOMAIN log[id]
  BY <1>1 DEF S!IsSequence
<1> QED
  BY <1>1, <1>2, LogBodyAdds DEF HeldBefore

\* What the certificate authority answers.
LEMMA CertificateIsKnown ==
  ASSUME SignerInv, PartsKnown, S!RequestCertificate
  PROVE  PartsKnown'
<1> USE DEF PartsKnown
<1>1. /\ step = "certificate" /\ step' \in {"entry", "failed"}
      /\ step' = "entry" => S!IsStatement(job)
      /\ UNCHANGED <<clock, context, job, bearer, attempt, log>>
      /\ cert' = S!Issue(Fulcio[context.fulcio][clock], S!CertificateRequest)
  BY DEF S!RequestCertificate
<1>2. context.fulcio \in DOMAIN Fulcio /\ clock \in 0 .. clock
  BY <1>1, SessionAssumption DEF ContextIsServed, SignerInv, S!TypeOK, S!Time
<1>3. cert' = CertificateOf(Fulcio[context.fulcio][clock], clock)'
  BY <1>1 DEF S!Issue, S!CertificateRequest, CertificateOf, S!Key
<1>4. ContextIsServed' /\ HeldBefore' /\ JobIsSigned'
  BY <1>1 DEF ContextIsServed, HeldBefore, JobIsSigned, S!IsStatement
<1>5. CertIsIssued'
  <2>1. \A ca, t : CertificateOf(ca, t)' = CertificateOf(ca, t)
    BY <1>1 DEF CertificateOf, S!Key
  <2> QED
    BY <1>1, <1>2, <1>3, <2>1 DEF CertIsIssued
<1> QED
  BY <1>1, <1>4, <1>5 DEF EntryIsAnswer, BundleIsBuilt

\* The log makes an entry, and perhaps its answer arrives.
LEMMA EntryIsKnown ==
  ASSUME SignerInv, PartsFit, PartsKnown, S!CreateEntry
  PROVE  PartsKnown'
<1> USE DEF PartsKnown
<1> DEFINE id == S!Service.id
           v == context.version
<1>1. /\ step = "entry" /\ step' \in {"stamp", "returned"} /\ S!LogBody
      /\ step' = "returned" => bundle' = S!IntoBundle(entry', <<>>)
      /\ UNCHANGED <<clock, context, job, bearer, attempt, cert>>
  BY DEF S!CreateEntry
<1>2. PICK entries \in {log[id], log'[id]} :
        entries # <<>> /\ entry' = S!FromLogEntry(S!LogEntry(entries))
  BY DEF S!CreateEntry
<1>3. /\ context # Unset /\ v \in S!SupportedRekor /\ context.rekor \in DOMAIN Rekor
      /\ clock \in 0 .. clock
  BY <1>1, SessionAssumption DEF SignerInv, S!TypeOK, S!IsContext, PartsFit, S!Time
<1>4. /\ id \in DOMAIN log /\ S!IsSequence(log[id])
      /\ log'[id] = Append(log[id], [body |-> S!Body, time |-> clock])
  BY <1>1, LogBodyAdds
<1>5. S!IsSequence(entries) /\ LastIsOfCall(v, entries)
  <2>1. CASE entries = log[id]
    <3>1. Len(entries) \in DOMAIN entries
      BY <1>2, <1>4, <2>1 DEF S!IsSequence
    <3> QED
      BY <1>1, <1>4, <2>1, <3>1, KeyIsNew DEF LastIsOfCall
  <2>2. CASE entries = log'[id]
    <3>1. S!IsSequence(entries) /\ entries[Len(entries)] = [body |-> S!Body, time |-> clock]
      BY <1>4, <2>2, AppendToList
    <3>2. S!Body = BodyFor(v)
      BY <1>3 DEF S!Body, BodyFor
    <3> QED
      BY <1>3, <3>1, <3>2 DEF LastIsOfCall
  <2> QED
    BY <1>2, <2>1, <2>2
<1>6. entry' = EntryOf(Rekor[context.rekor][clock], v, entries)
  BY <1>2, <1>3 DEF S!FromLogEntry, S!LogEntry, S!LogEntryV1, S!LogEntryV2, S!EntryKind, EntryOf,
     S!Service,
     S!SupportedRekor
<1>7. /\ \A ca, t : CertificateOf(ca, t)' = CertificateOf(ca, t)
      /\ \A w : BodyFor(w)' = BodyFor(w)
      /\ \A service, w, list : EntryOf(service, w, list)' = EntryOf(service, w, list)
      /\ \A e, stamps : S!IntoBundle(e, stamps)' = S!IntoBundle(e, stamps)
  BY <1>1 DEF CertificateOf, BodyFor, EntryOf, S!IntoBundle, S!Content, S!Key, S!Signature,
     S!Signable, S!ForEnvelope, S!HashedRekordV2, S!DsseEntry, S!HashedRekord, S!Proposed
<1>8. \A w, list : LastIsOfCall(w, list)' <=> LastIsOfCall(w, list)
  BY <1>1, <1>7 DEF LastIsOfCall, S!Key
<1>9. EntryIsAnswer'
  BY <1>1, <1>2, <1>3, <1>5, <1>6, <1>7, <1>8 DEF EntryIsAnswer, S!IsSequence
<1>10. ContextIsServed' /\ JobIsSigned'
  <2>1. step' = "stamp" => context.tsa # Unset
    BY DEF S!CreateEntry
  <2> QED
    BY <1>1, <2>1 DEF ContextIsServed, JobIsSigned, S!IsStatement
<1>11. HeldBefore'
  BY <1>1, HeldBeforeStays
<1>12. CertIsIssued'
  BY <1>1, <1>7 DEF CertIsIssued
<1>13. BundleIsBuilt'
  BY <1>1, <1>7 DEF BundleIsBuilt
<1> QED
  BY <1>9, <1>10, <1>11, <1>12, <1>13

\* The timestamp authority answers, and the call returns.
LEMMA StampIsKnown ==
  ASSUME SignerInv, PartsKnown, S!RequestTimestamp
  PROVE  PartsKnown'
<1> USE DEF PartsKnown
<1>1. /\ step = "stamp" /\ step' = "returned"
      /\ bundle' = S!IntoBundle(entry, <<S!Timestamp(Tsa[context.tsa][clock])>>)
      /\ UNCHANGED <<clock, context, job, bearer, attempt, cert, entry, log>>
  BY DEF S!RequestTimestamp
<1>2. context.tsa \in DOMAIN Tsa /\ clock \in 0 .. clock
  BY <1>1, SessionAssumption DEF ContextIsServed, SignerInv, S!TypeOK, S!Time
<1>3. S!Timestamp(Tsa[context.tsa][clock]) = StampOf(Tsa[context.tsa][clock], clock)
  BY DEF S!Timestamp, StampOf, S!Stamped
<1>4. /\ \A ca, t : CertificateOf(ca, t)' = CertificateOf(ca, t)
      /\ \A v : BodyFor(v)' = BodyFor(v)
      /\ \A service, v, entries : EntryOf(service, v, entries)' = EntryOf(service, v, entries)
      /\ \A tsa, t : StampOf(tsa, t)' = StampOf(tsa, t)
      /\ \A e, stamps : S!IntoBundle(e, stamps)' = S!IntoBundle(e, stamps)
  BY <1>1 DEF CertificateOf, BodyFor, EntryOf, StampOf, S!IntoBundle, S!Content, S!Key, S!Signature,
     S!Signable, S!ForEnvelope, S!HashedRekordV2, S!DsseEntry, S!HashedRekord, S!Proposed
<1>5. \A v, entries : LastIsOfCall(v, entries)' <=> LastIsOfCall(v, entries)
  BY <1>1, <1>4 DEF LastIsOfCall, S!Key
<1>6. ContextIsServed' /\ HeldBefore' /\ JobIsSigned'
  BY <1>1 DEF ContextIsServed, HeldBefore, JobIsSigned, S!IsStatement
<1>7. CertIsIssued'
  BY <1>1, <1>4 DEF CertIsIssued
<1>8. EntryIsAnswer'
  BY <1>1, <1>4, <1>5 DEF EntryIsAnswer, S!IsSequence
<1>9. BundleIsBuilt'
  BY <1>1, <1>2, <1>3, <1>4 DEF BundleIsBuilt
<1> QED
  BY <1>6, <1>7, <1>8, <1>9

LEMMA PartsKnownStep ==
  ASSUME SignerInv, PartsFit, PartsKnown, SessionNext
  PROVE  PartsKnown'
<1>1. clock \in Nat
  BY SessionAssumption DEF SignerInv, S!TypeOK, S!Time
<1>2. CASE Authenticating
  <2>1. UNCHANGED <<step, S!call, log>> /\ clock' = clock /\ context' = context
    BY <1>2 DEF Authenticating, signerVars, S!call
  <2> QED
    BY <1>1, <2>1, PartsKnownStay DEF PartsKnown, ContextIsServed
<1>3. CASE S!Tick
  <2>1. UNCHANGED <<step, S!call, log>> /\ clock' = clock + 1 /\ context' = context
    BY <1>3 DEF S!Tick
  <2> QED
    BY <1>1, <2>1, PartsKnownStay DEF PartsKnown, ContextIsServed
<1>4. CASE S!Configuring
  <2>1. UNCHANGED <<step, S!call, log>> /\ clock' = clock
    BY <1>4 DEF S!Configuring, S!Configure, S!UseDefault, S!WithRekorVersion
  <2> QED
    BY <1>1, <1>4, <2>1, PartsKnownStay, ConfiguringIsServed DEF PartsKnown
<1>5. CASE Signing
  <2>1. PICK j \in Job, f \in Flow : S!Sign(j, TokenOf(f))
    BY <1>5 DEF Signing
  <2>2. /\ step' \in {"certificate", "failed"} /\ job' = S!AsSigned(j)
        /\ step' = "certificate" => j.kind # "digest"
        /\ UNCHANGED <<context, log>>
    BY <2>1 DEF S!Sign
  <2> QED
    BY <2>2 DEF PartsKnown, ContextIsServed, HeldBefore, JobIsSigned, CertIsIssued, EntryIsAnswer,
       BundleIsBuilt, S!AsSigned
<1>6. CASE S!EntryLost \/ S!ServiceFails
  <2>1. HeldBefore'
    <3>1. CASE S!EntryLost
      BY <3>1, HeldBeforeStays DEF S!EntryLost, PartsKnown
    <3>2. CASE S!ServiceFails
      BY <3>2 DEF S!ServiceFails, S!Fail, PartsKnown, HeldBefore
    <3> QED
      BY <1>6, <3>1, <3>2
  <2>2. step' = "failed" /\ context' = context
    BY <1>6 DEF S!EntryLost, S!ServiceFails, S!Fail
  <2> QED
    BY <2>1, <2>2 DEF PartsKnown, ContextIsServed, JobIsSigned, CertIsIssued, EntryIsAnswer,
       BundleIsBuilt
<1> QED
  BY <1>2, <1>3, <1>4, <1>5, <1>6, CertificateIsKnown, EntryIsKnown, StampIsKnown
     DEF SessionNext, Other, S!Calling

LEMMA PartsKnownStutter ==
  ASSUME SignerInv, PartsKnown, UNCHANGED signerVars
  PROVE  PartsKnown'
<1>1. clock \in Nat
  BY SessionAssumption DEF SignerInv, S!TypeOK, S!Time
<1>2. UNCHANGED <<step, S!call, log>> /\ clock' = clock /\ context' = context
  BY DEF signerVars, S!call
<1> QED
  BY <1>1, <1>2, PartsKnownStay DEF PartsKnown, ContextIsServed

-----------------------------------------------------------------------------
(* So it is what the verifier is there to accept.                           *)

\* What is returned, for an artifact for which it would not be accepted.
Unaccepted == CHOOSE a \in Artifacts(job) : ~Accepts(bundle, a, clock)

Returned ==
  [bundle |-> bundle, artifact |-> Unaccepted, signed |-> clock,
   policy |-> [key |-> Unset, identity |-> bearer.identity, issuer |-> "oidc", tlog |-> TRUE,
               cert |-> TRUE, sct |-> TRUE, skew |-> Skew]]

\* The lemmas about a request that is Genuine, for this one.  They rest on the
\* assumptions of Verifier under the same names: those of the root are RootAssumption,
\* the others are about requests, signings and readings of the clock that are among
\* the constants, and none are here.
G == INSTANCE Verifier_proofs
  WITH request <- Returned, now <- clock, time <- 0, began <- clock, pc <- "structure",
       before <- "none", Request <- {}, Signing <- {}, Logs <- {}, MinTime <- 1, MaxTime <- 0

LEMMA RootIsAsAssumed ==
  /\ G!TimeAssumption /\ G!FormAssumption /\ G!OrderAssumption /\ G!LogAssumption
  /\ G!TsaAssumption /\ G!BodyAssumption /\ G!SigningAssumption /\ G!GenuineAssumption
<1>1. G!Presented = {} /\ G!Entries = {} /\ G!Stamps = {}
  <2>1. G!Presented = {}
    BY DEF G!Presented
  <2> QED
    BY <2>1 DEF G!Entries, G!Stamps
<1>2. /\ G!LogAssumption /\ G!TsaAssumption /\ G!BodyAssumption /\ G!SigningAssumption
      /\ G!GenuineAssumption
  BY <1>1
<1>3. \A s : G!IsSequence(s) <=> S!IsSequence(s)
  BY DEF G!IsSequence, S!IsSequence, G!Elements
<1>4. \A v, w : G!NoLaterThan(v, w)
  BY DEF G!NoLaterThan
<1>5. G!OrderAssumption
  BY <1>1, <1>4
<1>6. G!FormAssumption
  BY <1>1, <1>3, RootAssumption DEF G!Elements
<1>7. G!TimeAssumption
  BY <1>1, RootAssumption DEF G!Elements
<1> QED
  BY <1>2, <1>5, <1>6, <1>7

\* A record is not the absence of one.
UnsetIsNoRecord ==
  /\ \A sig, t : [over |-> sig, time |-> t] # Unset
  /\ \A key, id, t, body : [by |-> key, id |-> id, integrated |-> t, body |-> body] # Unset
  /\ \A entries, service : HonestProof(entries, service) # Unset

HonestLogs == \A entries, service : Prove(entries, service) = HonestProof(entries, service)

\* The parts of the bundle under the verifier's names.
LEMMA PartsOfReturned ==
  ASSUME SignerInv, PartsKnown, step = "returned"
  PROVE  /\ bundle.version = "0.3" /\ bundle.material = [kind |-> "certificate", certs |-> <<cert>>]
         /\ bundle.content = S!Content /\ bundle.entries = <<entry>>
         /\ G!Elements(bundle.entries) = {entry}
         /\ bundle.stamps = <<>> \/ \E s : bundle.stamps = <<s>>
         /\ G!Certificates(Returned) = <<cert>> /\ G!Leaf(Returned) = cert /\ G!HasLeaf(Returned)
         /\ ~G!Keyed(Returned)
         /\ S!Content.sigs = <<S!Signature>> /\ G!Signature(Returned) = S!Signature
         /\ cert.key = S!Key(attempt)
         /\ clock \in Nat
<1>1. PICK stamps : bundle = S!IntoBundle(entry, stamps) /\ (stamps = <<>> \/ \E s : stamps = <<s>>)
  BY DEF PartsKnown, BundleIsBuilt
<1>2. /\ bundle.version = "0.3" /\ bundle.material = [kind |-> "certificate", certs |-> <<cert>>]
      /\ bundle.content = S!Content /\ bundle.entries = <<entry>>
      /\ bundle.stamps = <<>> \/ \E s : bundle.stamps = <<s>>
  BY <1>1 DEF S!IntoBundle
<1>3. S!Content.sigs = <<S!Signature>>
  BY DEF S!Content
<1>4. clock \in Nat
  BY SessionAssumption DEF SignerInv, S!TypeOK, S!Time
<1>5. cert.key = S!Key(attempt)
  BY DEF SignerInv, S!TypeOK
<1>6. G!Elements(<<entry>>) = {entry}
  BY DEF G!Elements
<1>7. Returned.bundle = bundle /\ Returned.policy.key = Unset
  BY DEF Returned
<1> QED
  BY <1>2, <1>3, <1>4, <1>5, <1>6, <1>7 DEF G!Certificates, G!Leaf, G!HasLeaf, G!Keyed, G!Signature

\* The log's answer.
LEMMA EntryOfReturned ==
  ASSUME SignerInv, PartsKnown, step = "returned"
  PROVE  \E url \in DOMAIN Rekor, t \in S!Time, v \in S!SupportedRekor : \E entries :
           /\ S!IsSequence(entries) /\ entries # <<>>
           /\ LastIsOfCall(v, entries)
           /\ entry = EntryOf(Rekor[url][t], v, entries)
<1>1. 0 .. clock \subseteq S!Time
  BY SessionAssumption DEF SignerInv, S!TypeOK, S!Time
<1> QED
  BY <1>1 DEF PartsKnown, EntryIsAnswer

LEMMA ReturnedForm ==
  ASSUME SignerInv, PartsKnown, step = "returned", HonestLogs, UnsetIsNoRecord
  PROVE  G!GenuineForm(Returned)
<1>1. entry.proof # Unset
  BY EntryOfReturned DEF EntryOf, HonestLogs, UnsetIsNoRecord
<1>2. Returned.bundle = bundle
  BY DEF Returned
<1>3. G!IsSequence(<<entry>>) /\ G!IsSequence(<<>>) /\ G!IsSequence(<<cert>>)
      /\ \A s : G!IsSequence(<<s>>)
  BY DEF G!IsSequence, G!Elements
<1>4. bundle.material.kind = "certificate" /\ bundle.entries # <<>>
  BY PartsOfReturned
<1> QED
  BY <1>1, <1>2, <1>3, <1>4, PartsOfReturned DEF G!GenuineForm

LEMMA ReturnedContent ==
  ASSUME SignerInv, PartsKnown, step = "returned", Unaccepted \in Artifacts(job)
  PROVE  G!GenuineContent(Returned)
<1>1. Returned.bundle = bundle /\ Returned.artifact = Unaccepted
  BY DEF Returned
<1>2. S!Signature.key = S!Key(attempt) /\ S!Signature.over = S!Signable
  BY DEF S!Signature
<1>3. CASE job.kind = "statement"
  <2>1. /\ S!Content.kind = "dsse" /\ S!Content.type = S!InTotoPayloadType
        /\ S!Content.over = job.content
        /\ S!Signable = S!Pae(job.content)
    BY <1>3 DEF S!Content, S!ForEnvelope, S!Signable
  <2>2. job.content.statement /\ Unaccepted \in job.content.subjects
    BY <1>3 DEF PartsKnown, JobIsSigned, S!IsStatement, Artifacts
  <2>3. S!Pae(job.content) = G!Pae(S!Content) /\ S!InTotoPayloadType = G!InTotoPayloadType
    BY <2>1 DEF S!Pae, G!Pae, S!InTotoPayloadType, G!InTotoPayloadType
  <2> QED
    BY <1>1, <1>2, <2>1, <2>2, <2>3, PartsOfReturned DEF G!GenuineContent
<1>4. CASE job.kind # "statement"
  <2>1. /\ S!Content.kind = "message" /\ S!Content.over = job.content
        /\ S!Signable = job.content
    BY <1>4 DEF S!Content, S!ForEnvelope, S!Signable
  <2>2. Unaccepted = job.content
    BY <1>4 DEF Artifacts
  <2> QED
    BY <1>1, <1>2, <2>1, <2>2, PartsOfReturned DEF G!GenuineContent
<1> QED
  BY <1>3, <1>4

\* The entry is what the call asked for, if the log's answer is for it at all.
LEMMA TimelyEntry ==
  ASSUME SignerInv, PartsKnown, step = "returned", Timely
  PROVE  \E url \in DOMAIN Rekor, t \in S!Time, v \in S!SupportedRekor : \E entries :
           /\ S!IsSequence(entries) /\ entries # <<>>
           /\ entries[Len(entries)].body = BodyFor(v) /\ entries[Len(entries)].time \in 0 .. clock
           /\ entry = EntryOf(Rekor[url][t], v, entries)
<1>1. PICK url \in DOMAIN Rekor, t \in S!Time, v \in S!SupportedRekor : \E entries :
        /\ S!IsSequence(entries) /\ entries # <<>>
        /\ LastIsOfCall(v, entries)
        /\ entry = EntryOf(Rekor[url][t], v, entries)
  BY EntryOfReturned
<1>2. PICK entries :
        /\ S!IsSequence(entries) /\ entries # <<>>
        /\ LastIsOfCall(v, entries)
        /\ entry = EntryOf(Rekor[url][t], v, entries)
  BY <1>1
<1>3. entry.body.sigs[1].sig = S!Signature
  BY PartsOfReturned DEF Timely
<1>4. entry.body = entries[Len(entries)].body
  BY <1>2 DEF EntryOf
<1>5. S!Signature.key = S!Key(attempt)
  BY DEF S!Signature
<1> QED
  BY <1>2, <1>3, <1>4, <1>5 DEF LastIsOfCall

\* Whatever is attested is by now and in the certificate.
LEMMA AttestedIsInTime ==
  ASSUME SignerInv, PartsKnown, step = "returned", Timely
  PROVE  /\ \A t \in Attested : G!InTime(Returned, t) /\ t \in 0 .. clock
         /\ \A t : entry.integrated # 0 /\ t = entry.integrated => t \in Attested
         /\ \A s \in G!Elements(bundle.stamps) : s.info.time \in Attested
<1>1. PICK url \in DOMAIN Rekor, x \in S!Time, v \in S!SupportedRekor : \E entries :
        /\ S!IsSequence(entries) /\ entries # <<>>
        /\ entries[Len(entries)].body = BodyFor(v) /\ entries[Len(entries)].time \in 0 .. clock
        /\ entry = EntryOf(Rekor[url][x], v, entries)
  BY TimelyEntry
<1>2. entry.integrated \in 0 .. clock
  BY <1>1, PartsOfReturned DEF EntryOf
<1>3. Attested = {s.info.time : s \in G!Elements(bundle.stamps)} \cup ({entry.integrated} \ {0})
  BY PartsOfReturned DEF Attested, G!Elements
<1>4. \A s \in G!Elements(bundle.stamps) : s.info.time \in 0 .. clock
  <2>1. CASE bundle = S!IntoBundle(entry, <<>>)
    <3>1. bundle.stamps = <<>>
      BY <2>1 DEF S!IntoBundle
    <3> QED
      BY <3>1 DEF G!Elements
  <2>2. CASE \E u \in DOMAIN Tsa, t \in 0 .. clock :
               bundle = S!IntoBundle(entry, <<StampOf(Tsa[u][t], t)>>)
    <3>1. PICK u \in DOMAIN Tsa, t \in 0 .. clock :
            bundle = S!IntoBundle(entry, <<StampOf(Tsa[u][t], t)>>)
      BY <2>2
    <3>2. bundle.stamps = <<StampOf(Tsa[u][t], t)>>
      BY <3>1 DEF S!IntoBundle
    <3>3. StampOf(Tsa[u][t], t).info.time = t
      BY DEF StampOf
    <3> QED
      BY <3>2, <3>3 DEF G!Elements
  <2> QED
    BY <2>1, <2>2 DEF PartsKnown, BundleIsBuilt
<1>5. ASSUME NEW t \in Attested
      PROVE  G!InTime(Returned, t) /\ t \in 0 .. clock
  <2>1. t \in 0 .. clock
    BY <1>2, <1>3, <1>4
  <2>2. Within(cert.window, t)
    BY DEF Timely
  <2>3. cert.window.start \in Nat
    BY DEF PartsKnown, CertIsIssued, CertificateOf
  <2>4. G!Covers(cert.window, t)
    BY <2>1, <2>2, <2>3, PartsOfReturned DEF Within, G!Covers, G!HasStartedBy
  <2>5. Returned.signed = clock
    BY DEF Returned
  <2> QED
    BY <2>1, <2>4, <2>5, PartsOfReturned DEF G!InTime
<1> QED
  BY <1>3, <1>5

LEMMA ReturnedTime ==
  ASSUME SignerInv, PartsKnown, step = "returned", Timely, UnsetIsNoRecord
  PROVE  G!GenuineTime(Returned)
<1>1. PICK url \in DOMAIN Rekor, x \in S!Time, v \in S!SupportedRekor : \E entries :
        /\ S!IsSequence(entries) /\ entries # <<>>
        /\ entries[Len(entries)].body = BodyFor(v) /\ entries[Len(entries)].time \in 0 .. clock
        /\ entry = EntryOf(Rekor[url][x], v, entries)
  BY TimelyEntry
<1>2. Returned.bundle = bundle
  BY DEF Returned
<1>3. CASE bundle.stamps = <<>>
  <2>1. Attested \subseteq {entry.integrated} \ {0}
    BY <1>3, PartsOfReturned DEF Attested
  <2>2. entry.integrated # 0
    BY <2>1 DEF Timely
  <2>3. v = 1
    BY <1>1, <2>2 DEF EntryOf, S!SupportedRekor
  <2>4. entry.version = "0.0.1" /\ entry.kind \in {"hashedrekord", "dsse"} /\ entry.promise # Unset
    BY <1>1, <2>3 DEF EntryOf, UnsetIsNoRecord
  <2> QED
    BY <1>2, <2>2, <2>4, PartsOfReturned DEF G!GenuineTime
<1> QED
  BY <1>2, <1>3 DEF G!GenuineTime

\* The authority is one of the root's.
LEMMA ReturnedCertificate ==
  ASSUME SignerInv, PartsKnown, step = "returned", Trusted
  PROVE  G!GenuineCertificate(Returned)
<1>1. PICK url \in DOMAIN Fulcio, s \in 0 .. clock : cert = CertificateOf(Fulcio[url][s], s)
  BY DEF PartsKnown, CertIsIssued
<1> DEFINE ca == Fulcio[url][s]
<1>2. s \in S!Time /\ s \in Nat /\ s <= clock /\ clock \in Nat
  BY SessionAssumption DEF SignerInv, S!TypeOK, S!Time
<1>3. /\ cert.issuer = ca.subject /\ cert.by = ca.key /\ cert.window.start = s /\ cert.codeSigning
      /\ cert.identity = bearer.identity /\ cert.oidcIssuer = "oidc"
      /\ cert.scts = <<[by |-> ca.ctlog, issuerKey |-> ca.key]>>
  BY <1>1 DEF CertificateOf
<1>4. PICK i \in DOMAIN Root.cas :
        /\ Within(Root.cas[i].window, s)
        /\ \E k \in DOMAIN Root.cas[i].certs : Root.cas[i].certs[k].key = ca.key
  BY <1>3 DEF Trusted
<1>5. PICK k \in DOMAIN Root.cas[i].certs : Root.cas[i].certs[k].key = ca.key
  BY <1>4
<1>6. \A j \in DOMAIN Root.cas : \A n \in DOMAIN Root.cas[j].certs :
        /\ Root.cas[j].certs[n].subject = ca.subject <=> Root.cas[j].certs[n].key = ca.key
        /\ Root.cas[j].certs[n].key = ca.key =>
             \E m \in DOMAIN Root.ctlogs :
               Root.ctlogs[m].key = ca.ctlog /\ Within(Root.ctlogs[m].window, s)
  BY <1>2, TrustAssumption
<1> HIDE DEF ca
<1>7. \A window :
        window.start \in Nat \cup {Unset} /\ Within(window, s) => G!HasStartedBy(window, clock)
  BY <1>2 DEF Within, G!HasStartedBy
<1>8. Returned.signed = clock /\ Returned.bundle = bundle
      /\ Returned.policy.identity = bearer.identity /\ Returned.policy.issuer = "oidc"
  BY DEF Returned
<1>9. G!IssuedByRoot(Returned, cert)
  <2>1. G!HasStartedBy(Root.cas[i].window, clock)
    BY <1>4, <1>7, RootAssumption
  <2>2. G!Issues(Root.cas[i].certs[k], cert)
    BY <1>3, <1>5, <1>6 DEF G!Issues
  <2> QED
    BY <1>8, <2>1, <2>2 DEF G!IssuedByRoot, G!Elements
<1>10. G!GenuineChain(Returned)
  BY <1>3, <1>9, PartsOfReturned DEF G!GenuineChain
<1>11. G!GenuineSct(Returned)
  <2>1. Len(cert.scts) = 1 /\ cert.scts[1] = [by |-> ca.ctlog, issuerKey |-> ca.key]
    BY <1>3
  <2>2. \E log_ \in G!Elements(Root.ctlogs) :
          G!HasStartedBy(log_.window, clock) /\ log_.key = ca.ctlog
    BY <1>5, <1>6, <1>7, RootAssumption DEF G!Elements
  <2>3. \A a \in G!Elements(Root.cas) : \A c \in G!Elements(a.certs) :
          c.subject = cert.issuer => c.key = cert.by
    BY <1>3, <1>6 DEF G!Elements
  <2> QED
    BY <1>3, <1>8, <1>9, <2>1, <2>2, <2>3, PartsOfReturned DEF G!GenuineSct
<1> QED
  BY <1>3, <1>8, <1>10, <1>11, PartsOfReturned DEF G!GenuineCertificate

\* So is the timestamp authority,
LEMMA ReturnedStamp ==
  ASSUME SignerInv, PartsKnown, step = "returned", Timely, Trusted, UnsetIsNoRecord,
         NEW stamp \in G!Elements(bundle.stamps)
  PROVE  G!GenuineStamp(Returned, stamp)
<1>1. PICK url \in DOMAIN Tsa, t \in 0 .. clock :
        bundle = S!IntoBundle(entry, <<StampOf(Tsa[url][t], t)>>)
  <2>1. bundle.stamps # <<>>
    BY DEF G!Elements
  <2>2. bundle # S!IntoBundle(entry, <<>>)
    BY <2>1 DEF S!IntoBundle
  <2> QED
    BY <2>2 DEF PartsKnown, BundleIsBuilt
<1> DEFINE tsa == Tsa[url][t]
           info == [over |-> S!Signature, time |-> t]
<1>2. bundle.stamps = <<StampOf(tsa, t)>>
  BY <1>1 DEF S!IntoBundle
<1>3. stamp = StampOf(tsa, t)
  BY <1>2 DEF G!Elements
<1>4. /\ stamp.granted /\ stamp.info = info /\ stamp.attrs = info
      /\ stamp.signature = [key |-> tsa.key, over |-> info] /\ stamp.signer = tsa.key
      /\ stamp.certs = <<S!TsaCertificate(tsa)>>
  BY <1>3 DEF StampOf
<1>5. t \in S!Time
  BY SessionAssumption DEF SignerInv, S!TypeOK, S!Time
<1>6. PICK i \in DOMAIN Root.tsas :
        Root.tsas[i].leaf.key = tsa.key /\ Within(Root.tsas[i].window, t)
  <2>1. bundle.stamps[1] = stamp /\ 1 \in DOMAIN bundle.stamps
    BY <1>2, <1>3
  <2>2. PICK i \in DOMAIN Root.tsas :
          /\ Root.tsas[i].leaf.key = bundle.stamps[1].signer
          /\ Within(Root.tsas[i].window, bundle.stamps[1].info.time)
    BY <2>1 DEF Trusted
  <2> QED
    BY <1>4, <2>1, <2>2
<1>7. \A j \in DOMAIN Root.tsas :
        Root.tsas[j].leaf.id = tsa.key \/ Root.tsas[j].leaf.key = tsa.key =>
          /\ Root.tsas[j].leaf = S!TsaCertificate(tsa) /\ Root.tsas[j].root = tsa.root
          /\ Within(Root.tsas[j].leaf.window, t)
  BY <1>5, TrustAssumption
<1>8. /\ S!TsaCertificate(tsa).id = tsa.key /\ S!TsaCertificate(tsa).key = tsa.key
      /\ S!TsaCertificate(tsa).root = tsa.root /\ S!TsaCertificate(tsa).timeStamping
  BY DEF S!TsaCertificate
<1> HIDE DEF tsa, info
<1>9. \A window : Within(window, t) <=> G!Covers(window, t)
  BY DEF Within, G!Covers, G!HasStartedBy
<1>10. G!InTime(Returned, t)
  <2>1. t \in Attested
    BY <1>4, AttestedIsInTime DEF info
  <2> QED
    BY <2>1, AttestedIsInTime
<1>11. \A c \in G!Elements(stamp.certs) \cup {x.leaf : x \in G!Elements(Root.tsas)} :
         c.id = tsa.key => c = Root.tsas[i].leaf
  BY <1>4, <1>6, <1>7 DEF G!Elements
<1>12. G!IsSequence(stamp.certs)
  BY <1>4 DEF G!IsSequence, G!Elements
<1>13. Root.tsas[i] \in G!Elements(Root.tsas)
  BY DEF G!Elements
<1>14. info # Unset /\ info.over = G!Signature(Returned) /\ info.time = t
  BY PartsOfReturned DEF info, UnsetIsNoRecord
<1> QED
  BY <1>4, <1>6, <1>7, <1>8, <1>9, <1>10, <1>11, <1>12, <1>13, <1>14 DEF G!GenuineStamp

\* and the log, which signed a checkpoint for its proof.
LEMMA ReturnedEntry ==
  ASSUME SignerInv, PartsKnown, step = "returned", Timely, Trusted, HonestLogs
  PROVE  G!GenuineEntry(Returned, entry)
<1>1. PICK url \in DOMAIN Rekor, x \in S!Time, v \in S!SupportedRekor : \E entries :
        /\ S!IsSequence(entries) /\ entries # <<>>
        /\ entries[Len(entries)].body = BodyFor(v) /\ entries[Len(entries)].time \in 0 .. clock
        /\ entry = EntryOf(Rekor[url][x], v, entries)
  BY TimelyEntry
<1>2. PICK entries : entry = EntryOf(Rekor[url][x], v, entries)
  BY <1>1
<1> DEFINE service == Rekor[url][x]
<1>3. /\ entry.id = service.id
      /\ entry.promise \in {Unset, [by |-> service.key, id |-> entry.id,
                                    integrated |-> entry.integrated, body |-> entry.body]}
      /\ entry.proof = HonestProof(entries, service)
  BY <1>2 DEF EntryOf, HonestLogs, S!SupportedRekor
<1>4. PICK i \in DOMAIN Root.tlogs :
        /\ Root.tlogs[i].id = service.id
        /\ \A t \in Attested : Within(Root.tlogs[i].window, t)
  BY <1>3, PartsOfReturned DEF Trusted
<1> DEFINE found == Root.tlogs[i]
<1>5. \A other \in G!Elements(Root.tlogs) : other.id = service.id => other.key = service.key
  BY TrustAssumption DEF G!Elements
<1> HIDE DEF service
<1>6. found.id = service.id /\ found.key = service.key /\ found \in G!Elements(Root.tlogs)
  BY <1>4, <1>5 DEF G!Elements
<1>7. found.window.start \in Nat \cup {Unset}
  BY RootAssumption
<1>8. G!HasStartedBy(found.window, clock)
  <2>1. PICK t \in Attested : t \in 0 .. clock
    BY AttestedIsInTime DEF Timely
  <2>2. Within(found.window, t)
    BY <1>4
  <2>3. clock \in Nat
    BY PartsOfReturned
  <2> HIDE DEF found
  <2> QED
    BY <1>7, <2>1, <2>2, <2>3 DEF Within, G!HasStartedBy
<1>9. entry.integrated # 0 =>
        G!InTime(Returned, entry.integrated) /\ G!Covers(found.window, entry.integrated)
  <2> SUFFICES ASSUME entry.integrated # 0
               PROVE  /\ G!InTime(Returned, entry.integrated)
                      /\ G!Covers(found.window, entry.integrated)
    OBVIOUS
  <2>1. entry.integrated \in Attested
    BY AttestedIsInTime
  <2>2. Within(found.window, entry.integrated) /\ entry.integrated \in 0 .. clock
    BY <1>4, <2>1, AttestedIsInTime
  <2>3. G!Covers(found.window, entry.integrated)
    BY <1>7, <2>2 DEF Within, G!Covers, G!HasStartedBy
  <2> QED
    BY <2>1, <2>3, AttestedIsInTime
<1>10. G!GenuineNote(entry.proof, found)
  <2> DEFINE proof == HonestProof(entries, service)
             line == [hint |-> service.id, by |-> service.key, over |-> proof.note.text]
  <2>1. proof.note.text.root = proof.root /\ proof.note.sigs = <<line>>
    BY DEF HonestProof
  <2> HIDE DEF proof
  <2>2. G!IsSequence(<<line>>) /\ G!Elements(<<line>>) = {line} /\ DOMAIN <<line>> = {1}
    BY DEF G!IsSequence, G!Elements
  <2> HIDE DEF line
  <2>3. G!GenuineNote(proof, found)
    BY <1>6, <2>1, <2>2 DEF G!GenuineNote, line
  <2> QED
    BY <1>3, <2>3 DEF proof
<1>11. Returned.signed = clock
  BY DEF Returned
<1> HIDE DEF found
<1> QED
  BY <1>3, <1>5, <1>6, <1>8, <1>9, <1>10, <1>11 DEF G!GenuineEntry

\* It logged what the call signed.
LEMMA ReturnedBody ==
  ASSUME SignerInv, PartsKnown, step = "returned", Timely
  PROVE  G!GenuineBody(Returned, entry)
<1>1. PICK url \in DOMAIN Rekor, x \in S!Time, v \in S!SupportedRekor : \E entries :
        /\ S!IsSequence(entries) /\ entries # <<>>
        /\ entries[Len(entries)].body = BodyFor(v) /\ entries[Len(entries)].time \in 0 .. clock
        /\ entry = EntryOf(Rekor[url][x], v, entries)
  BY TimelyEntry
<1>2. /\ entry.body = BodyFor(v) /\ v \in {1, 2}
      /\ entry.kind = IF S!ForEnvelope /\ v = 1 THEN "dsse" ELSE "hashedrekord"
      /\ entry.version = IF v = 1 THEN "0.0.1" ELSE "0.0.2"
  BY <1>1 DEF EntryOf, S!SupportedRekor
<1>3. /\ S!Content.kind = (IF S!ForEnvelope THEN "dsse" ELSE "message")
      /\ S!Content.over = job.content
      /\ S!Signature.over = S!Signable
  BY DEF S!Content, S!Signature
<1>4. /\ entry.body.kind = entry.kind /\ entry.body.version = entry.version
      /\ entry.body.over = IF entry.kind = "hashedrekord" THEN S!Signable ELSE job.content
      /\ entry.body.sigs = <<[sig |-> S!Signature, cert |-> cert]>>
  BY <1>2 DEF BodyFor, S!HashedRekordV2, S!DsseEntry, S!HashedRekord, S!Proposed
<1>5. Returned.bundle = bundle
  BY DEF Returned
<1> QED
  BY <1>2, <1>3, <1>4, <1>5, PartsOfReturned DEF G!GenuineBody

LEMMA ReturnedIsGenuine ==
  ASSUME SignerInv, PartsKnown, step = "returned", Timely, Trusted, HonestLogs, UnsetIsNoRecord,
         Unaccepted \in Artifacts(job)
  PROVE  G!Signed
<1>1. /\ Returned.signed = clock /\ Returned.bundle = bundle /\ Returned.policy.skew = Skew
      /\ clock \in Nat /\ Skew \in Nat
  BY PartsOfReturned, RootAssumption DEF Returned
<1>2. G!Elements(bundle.entries) = {entry}
  BY PartsOfReturned
<1> QED
  BY <1>1, <1>2, ReturnedForm, ReturnedContent, ReturnedCertificate, ReturnedTime, ReturnedStamp,
     ReturnedEntry, ReturnedBody DEF G!Signed, G!Genuine

\* The hashes of the log are those of the verifier.
LEMMA SameHashes ==
  /\ \A leaves : M!MTH(leaves) = G!MTH(leaves)
  /\ \A leaves, m, n : M!Path(leaves, m, n) = G!Path(leaves, m, n)
<1>1. \A leaf : M!HashLeaf(leaf) = G!HashLeaf(leaf)
  BY Zenon DEF M!HashLeaf, G!HashLeaf
<1>2. \A nodes, n : M!Roots(nodes, n) = G!Roots(nodes, n)
  BY Zenon DEF M!Roots, G!Roots, M!Split, G!Split, M!HashChildren, G!HashChildren,
     M!EmptyRoot, G!EmptyRoot
<1>3. \A leaves : M!Subtrees(leaves) = G!Subtrees(leaves)
  <2>1. \A leaves : M!Leaves(leaves) = G!Leaves(leaves)
    BY <1>1, Zenon DEF M!Leaves, G!Leaves
  <2> QED
    BY <1>2, <2>1, Zenon DEF M!Subtrees, G!Subtrees
<1>4. \A leaves : M!MTH(leaves) = G!MTH(leaves)
  BY <1>3, Zenon DEF M!MTH, G!MTH, M!Subtree, G!Subtree
<1>5. ASSUME NEW root, NEW m, NEW n
      PROVE  M!Paths(root, m, n) = G!Paths(root, m, n)
  BY Zenon DEF M!Paths, G!Paths, M!Split, G!Split
<1>6. \A leaves, m, n : M!Path(leaves, m, n) = G!Path(leaves, m, n)
  BY <1>3, <1>5, Zenon DEF M!Path, G!Path
<1> QED
  BY <1>4, <1>6

\* So the proof of the log is accepted.
LEMMA ReturnedIsIncluded ==
  ASSUME SignerInv, PartsKnown, step = "returned", HonestLogs
  PROVE  G!VerifyMerkleInclusion(entry)
<1>1. PICK url \in DOMAIN Rekor, t \in S!Time, v \in S!SupportedRekor : \E entries :
        /\ S!IsSequence(entries) /\ entries # <<>>
        /\ entry = EntryOf(Rekor[url][t], v, entries)
  BY EntryOfReturned
<1>2. PICK entries : /\ S!IsSequence(entries) /\ entries # <<>>
                     /\ entry = EntryOf(Rekor[url][t], v, entries)
  BY <1>1
<1> DEFINE bodies == [i \in DOMAIN entries |-> entries[i].body]
           n == Len(entries)
<1>3. DOMAIN entries = 1 .. n /\ n \in Nat /\ n >= 1
  BY <1>2 DEF S!IsSequence
<1>4. /\ entry.body = entries[n].body
      /\ entry.proof = HonestProof(entries, Rekor[url][t])
  BY <1>2 DEF EntryOf, HonestLogs
<1>5. /\ entry.proof.index = n - 1 /\ entry.proof.size = n
      /\ entry.proof.hashes = G!Path(bodies, n - 1, n) /\ entry.proof.root = G!MTH(bodies)
  BY <1>4, SameHashes DEF HonestProof
<1> HIDE DEF n
<1>6. G!IsSequence(bodies) /\ Len(bodies) = n
  <2>1. bodies \in [1 .. n -> G!Elements(bodies)] /\ DOMAIN bodies = 1 .. n
    BY <1>3 DEF G!Elements
  <2> HIDE DEF bodies
  <2>2. bodies \in Seq(G!Elements(bodies)) /\ Len(bodies) = n
    BY <1>3, <2>1
  <2> QED
    BY <2>2 DEF G!IsSequence
<1>7. bodies[(n - 1) + 1] = entry.body /\ n - 1 \in 0 .. n - 1
  BY <1>3, <1>4
<1> HIDE DEF bodies
<1>8. G!VerifyInclusion(G!HashLeaf(bodies[(n - 1) + 1]), n - 1, Len(bodies),
                        G!Path(bodies, n - 1, Len(bodies)), G!MTH(bodies))
  BY <1>6, <1>7, RootIsAsAssumed, G!HonestIsIncluded
<1> QED
  BY <1>5, <1>6, <1>7, <1>8 DEF G!VerifyMerkleInclusion

LEMMA ReturnedPasses ==
  ASSUME SignerInv, PartsKnown, step = "returned", Timely, Trusted, HonestLogs, UnsetIsNoRecord,
         Unaccepted \in Artifacts(job)
  PROVE  /\ G!FormHolds /\ G!TimeHolds /\ G!ChainHolds /\ G!SctHolds /\ G!IdentityHolds
         /\ G!LogHolds /\ G!SignatureVerifies /\ G!EntriesHold
<1>1. G!Elements(G!bundle.entries) = {entry}
  BY PartsOfReturned DEF G!bundle, Returned
<1>2. \A e \in G!Elements(G!bundle.entries) : e.proof # Unset => G!VerifyMerkleInclusion(e)
  BY <1>1, ReturnedIsIncluded
<1>3. G!Signed
  BY ReturnedIsGenuine
<1> QED
  BY <1>2, <1>3, RootIsAsAssumed, G!GenuinePasses

\* The steps of the verification are those of the verifier of the instance.
LEMMA SameTime == \A t : V(bundle, Unaccepted, clock, t)!ValidationTime = G!ValidationTime
BY Zenon DEF V!ValidationTime, G!ValidationTime, V!V1IntegratedTimes, G!V1IntegratedTimes,
   V!Elements, G!Elements, V!Minimum, G!Minimum, V!bundle, G!bundle, Returned

LEMMA SameStructure ==
  G!ValidateBundle(bundle, TRUE) => V(bundle, Unaccepted, clock, 0)!ValidateBundle(bundle, TRUE)
BY Zenon DEF G!ValidateBundle, V!ValidateBundle, G!HasInclusionPromise, V!HasInclusionPromise,
   G!HasInclusionProof, V!HasInclusionProof, G!ProofWellFormed, V!ProofWellFormed,
   G!FromText, V!FromText, G!Elements, V!Elements

LEMMA SameTimeDetermined ==
  \A t : G!TimeDetermined => V(bundle, Unaccepted, clock, t)!TimeDetermined
BY Zenon DEF G!TimeDetermined, V!TimeDetermined, G!TimestampVerifies, V!TimestampVerifies,
   G!VerifyTimestampResponse, V!VerifyTimestampResponse,
   G!ParseTimestampToken, V!ParseTimestampToken, G!SignerCertificates, V!SignerCertificates,
   G!VerifyCmsSignature, V!VerifyCmsSignature, G!VerifyMessageDigest, V!VerifyMessageDigest,
   G!TsaCertificateChains, V!TsaCertificateChains, G!TsaLeafCerts, V!TsaLeafCerts,
   G!TsaRootCerts, V!TsaRootCerts,
   G!IsTimestampWithinTsaValidity, V!IsTimestampWithinTsaValidity,
   G!First, V!First, G!Minimum, V!Minimum, G!WithId, V!WithId,
   G!V1IntegratedTimes, V!V1IntegratedTimes, G!Usable, V!Usable,
   G!UsableForVerification, V!UsableForVerification, G!HasStartedBy, V!HasStartedBy,
   G!Covers, V!Covers, G!HasCert, V!HasCert, G!bundle, V!bundle, Returned,
   G!Elements, V!Elements

LEMMA SameChain ==
  \A t : G!ChainsAt(t) => V(bundle, Unaccepted, clock, t)!CertificateChains
BY Zenon DEF G!ChainsAt, V!CertificateChains, G!Anchored, V!Anchored,
   G!FulcioCerts, V!FulcioCerts, G!Usable, V!Usable,
   G!UsableForVerification, V!UsableForVerification, G!HasStartedBy, V!HasStartedBy,
   G!Covers, V!Covers, G!Cert, V!Cert, G!bundle, V!bundle, Returned, G!Elements, V!Elements

LEMMA SameSct == \A t : G!SctVerifies => V(bundle, Unaccepted, clock, t)!SctVerifies
BY Zenon DEF G!SctVerifies, V!SctVerifies, G!SignedByCtLog, V!SignedByCtLog,
   G!IssuerKey, V!IssuerKey, G!IssuerKnown, V!IssuerKnown, G!Issuers, V!Issuers,
   G!FirstCert, V!FirstCert, G!FulcioCerts, V!FulcioCerts, G!CtfeKeys, V!CtfeKeys,
   G!Usable, V!Usable, G!UsableForVerification, V!UsableForVerification,
   G!HasStartedBy, V!HasStartedBy, G!Cert, V!Cert, G!bundle, V!bundle, Returned,
   G!Elements, V!Elements

LEMMA SamePolicy == \A t : G!PolicyHolds => V(bundle, Unaccepted, clock, t)!PolicyHolds
BY Zenon DEF G!PolicyHolds, V!PolicyHolds, G!policy, V!policy, G!Cert, V!Cert,
   G!bundle, V!bundle, Returned

LEMMA SameInclusion ==
  \A t : \A hash, index, size, proof, root :
    G!VerifyInclusion(hash, index, size, proof, root)
      = V(bundle, Unaccepted, clock, t)!VerifyInclusion(hash, index, size, proof, root)
<1> TAKE t
<1>1. G!Siblings = V(bundle, Unaccepted, clock, t)!Siblings
  BY Zenon DEF G!Siblings, V!Siblings
<1>2. \A index, size :
        G!ExpectedLength(index, size) = V(bundle, Unaccepted, clock, t)!ExpectedLength(index, size)
  BY <1>1, Zenon DEF G!ExpectedLength, V!ExpectedLength
<1>3. ASSUME NEW hash, NEW index, NEW size, NEW proof
      PROVE  G!RootFromInclusion(hash, index, size, proof)
               = V(bundle, Unaccepted, clock, t)!RootFromInclusion(hash, index, size, proof)
  BY Zenon DEF G!RootFromInclusion, V!RootFromInclusion, G!Ascent, V!Ascent, G!Climb, V!Climb,
     G!OnTheRight, V!OnTheRight, G!HashChildren, V!HashChildren
<1> QED
  BY <1>2, <1>3, Zenon DEF G!VerifyInclusion, V!VerifyInclusion

LEMMA SameLog == \A t : G!LogEntriesVerify => V(bundle, Unaccepted, clock, t)!LogEntriesVerify
<1> TAKE t
<1>1. \A e : G!VerifyMerkleInclusion(e)
               = V(bundle, Unaccepted, clock, t)!VerifyMerkleInclusion(e)
  BY SameInclusion, Zenon
     DEF G!VerifyMerkleInclusion, V!VerifyMerkleInclusion, G!HashLeaf, V!HashLeaf
<1>2. \A e : G!VerifyCheckpoint(e) = V(bundle, Unaccepted, clock, t)!VerifyCheckpoint(e)
  BY Zenon DEF G!VerifyCheckpoint, V!VerifyCheckpoint, G!KnownSignatures, V!KnownSignatures,
     G!NoteVerifies, V!NoteVerifies, G!FromText, V!FromText, G!RekorKeys, V!RekorKeys,
     G!First, V!First, G!Minimum, V!Minimum, G!WithId, V!WithId, G!Usable, V!Usable,
     G!UsableForVerification, V!UsableForVerification, G!HasStartedBy, V!HasStartedBy
<1>3. \A e : G!VerifySet(e) = V(bundle, Unaccepted, clock, t)!VerifySet(e)
  BY Zenon DEF G!VerifySet, V!VerifySet, G!LogKeys, V!LogKeys,
     G!RekorKeyForLog, V!RekorKeyForLog, G!RekorKeyForLogAt, V!RekorKeyForLogAt,
     G!First, V!First, G!Minimum, V!Minimum, G!WithId, V!WithId, G!Usable, V!Usable,
     G!UsableForVerification, V!UsableForVerification, G!HasStartedBy, V!HasStartedBy,
     G!Covers, V!Covers
<1>4. \A e : G!IntegratedTimeHolds(e) = V(bundle, Unaccepted, clock, t)!IntegratedTimeHolds(e)
  BY Zenon DEF G!IntegratedTimeHolds, V!IntegratedTimeHolds, G!policy, V!policy, G!Cert, V!Cert,
     G!bundle, V!bundle, Returned, G!HasStartedBy, V!HasStartedBy, G!Covers, V!Covers
<1>5. /\ G!bundle = V(bundle, Unaccepted, clock, t)!bundle
      /\ G!ByKey = V(bundle, Unaccepted, clock, t)!ByKey
  BY Zenon DEF G!bundle, V!bundle, Returned, G!ByKey, V!ByKey, G!policy, V!policy
<1>6. \A s : G!Elements(s) = V(bundle, Unaccepted, clock, t)!Elements(s)
  BY Zenon DEF G!Elements, V!Elements
<1> QED
  BY <1>1, <1>2, <1>3, <1>4, <1>5, <1>6, Zenon
     DEF G!LogEntriesVerify, V!LogEntriesVerify, G!VerifyEntryInclusion, V!VerifyEntryInclusion

LEMMA SameSignature ==
  \A t : G!SignatureVerifies => V(bundle, Unaccepted, clock, t)!SignatureVerifies
BY Zenon DEF G!SignatureVerifies, V!SignatureVerifies, G!Verifies, V!Verifies,
   G!VerifyingKey, V!VerifyingKey, G!Pae, V!Pae, G!PayloadBindsArtifact, V!PayloadBindsArtifact,
   G!InTotoPayloadType, V!InTotoPayloadType, G!MatchesSha256, V!MatchesSha256,
   G!ByKey, V!ByKey, G!policy, V!policy, G!Cert, V!Cert, G!artifact, V!artifact,
   G!bundle, V!bundle, Returned, G!Elements, V!Elements

LEMMA SameConsistent ==
  \A t : G!TlogConsistent => V(bundle, Unaccepted, clock, t)!TlogConsistent
BY Zenon DEF G!TlogConsistent, V!TlogConsistent, G!EntryConsistent, V!EntryConsistent,
   G!VerifyHashedRekord, V!VerifyHashedRekord, G!VerifyDsseV001, V!VerifyDsseV001,
   G!VerifyIntotoV002, V!VerifyIntotoV002, G!FromBase64Json, V!FromBase64Json,
   G!CertificateMatches, V!CertificateMatches, G!SignatureMatches, V!SignatureMatches,
   G!IntegratedInTime, V!IntegratedInTime, G!Covers, V!Covers, G!HasStartedBy, V!HasStartedBy,
   G!Pae, V!Pae, G!HasCert, V!HasCert, G!Cert, V!Cert, G!artifact, V!artifact,
   G!bundle, V!bundle, Returned, G!Elements, V!Elements

\* So where none of them rejects, all of them accept.
LEMMA PassedIsAccepted ==
  ASSUME G!FormHolds, G!TimeHolds, G!ChainHolds, G!SctHolds, G!IdentityHolds,
         G!LogHolds, G!SignatureVerifies, G!EntriesHold
  PROVE  Accepts(bundle, Unaccepted, clock)
<1>1. /\ Returned.policy.key = Unset /\ Returned.policy.tlog
      /\ Returned.policy.cert /\ Returned.policy.sct
  BY DEF Returned
<1>2. ~G!ByKey /\ G!FromLog /\ G!policy.cert /\ G!policy.sct
  BY <1>1, Zenon DEF G!policy, G!ByKey, G!FromLog
<1>3. /\ G!ValidateBundle(G!bundle, TRUE) /\ G!TimeDetermined
      /\ G!ChainsAt(G!ValidationTime) /\ G!SctVerifies /\ G!PolicyHolds
      /\ G!LogEntriesVerify /\ G!SignatureVerifies /\ G!TlogConsistent
  BY <1>2, Zenon DEF G!FormHolds, G!TimeHolds, G!ChainHolds, G!SctHolds, G!IdentityHolds,
                      G!LogHolds, G!EntriesHold
<1>4. G!ValidateBundle(bundle, TRUE)
  BY <1>3, Zenon DEF G!bundle, Returned
<1> DEFINE time == V(bundle, Unaccepted, clock, 0)!ValidationTime
<1>5. V(bundle, Unaccepted, clock, time)!CertificateChains
  BY <1>3, SameTime, SameChain, Zenon
<1> HIDE DEF time
<1>6. /\ V(bundle, Unaccepted, clock, 0)!ValidateBundle(bundle, TRUE)
      /\ V(bundle, Unaccepted, clock, 0)!TimeDetermined
      /\ V(bundle, Unaccepted, clock, time)!SctVerifies
      /\ V(bundle, Unaccepted, clock, time)!PolicyHolds
      /\ V(bundle, Unaccepted, clock, time)!LogEntriesVerify
      /\ V(bundle, Unaccepted, clock, time)!SignatureVerifies
      /\ V(bundle, Unaccepted, clock, time)!TlogConsistent
  BY <1>3, <1>4, SameStructure, SameTimeDetermined, SameSct, SamePolicy, SameLog,
     SameSignature, SameConsistent, Zenon
<1> QED
  BY <1>5, <1>6, Zenon DEF Accepts, time

\* Nothing that is returned and timely is not accepted.
LEMMA PartsVerify ==
  ASSUME SignerInv, PartsKnown, HonestLogs, UnsetIsNoRecord
  PROVE  ReturnedVerifies
<1> SUFFICES ASSUME step = "returned", Timely, Trusted,
                    NEW x \in Artifacts(job), ~Accepts(bundle, x, clock)
             PROVE  FALSE
  BY DEF ReturnedVerifies
<1>1. Unaccepted \in Artifacts(job) /\ ~Accepts(bundle, Unaccepted, clock)
  BY Zenon DEF Unaccepted
<1>2. /\ G!FormHolds /\ G!TimeHolds /\ G!ChainHolds /\ G!SctHolds /\ G!IdentityHolds
      /\ G!LogHolds /\ G!SignatureVerifies /\ G!EntriesHold
  BY <1>1, ReturnedPasses
<1> QED
  BY <1>1, <1>2, PassedIsAccepted, Zenon

-----------------------------------------------------------------------------
(* Sessions.                                                               *)

SessionInv == FlowInv /\ SignerInv /\ PartsFit /\ PartsKnown

LEMMA SessionInvHolds == SessionSpec => []SessionInv
<1>1. SessionInit => SessionInv
  BY FlowInvInit, SignerInvInit, PartsFitInit, PartsKnownInit DEF SessionInit, SessionInv
<1>2. SessionInv /\ [SessionNext]_vars => SessionInv'
  <2>1. SessionNext \/ UNCHANGED vars => [Next]_oauthVars
    BY DEF SessionNext, Authenticating, Signing, Other, vars
  <2> QED
    BY <2>1, FlowInvNext, SignerInvStep, SignerInvStutter, PartsFitStep, PartsFitStutter,
       PartsKnownStep, PartsKnownStutter DEF vars, SessionInv
<1> QED
  BY <1>1, <1>2, PTL DEF SessionSpec

\* Every state of a session is well typed, and what a call has is what the steps
\* it has taken gave it (sign.rs sign).
THEOREM SessionTypeCorrect == SessionSpec => []SessionTypeOK
<1>1. SessionInv => SessionTypeOK
  BY DEF SessionInv, FlowInv, SignerInv, SessionTypeOK
<1> QED
  BY <1>1, SessionInvHolds, PTL

\* In a session too, a code that came over the redirect is honoured.
THEOREM SessionCodeHonoured == SessionSpec => []RedirectedCodeIsHonoured
<1>1. SessionInv => RedirectedCodeIsHonoured
  BY DEF SessionInv, FlowInv
<1> QED
  BY <1>1, SessionInvHolds, PTL

\* Whatever fails or is lost, no two entries in any log are by one key, and an
\* envelope in a log is a statement (sign.rs generate_ephemeral_keypair,
\* sign_raw_statement).
THEOREM LogIsAccountableHolds == SessionSpec => []LogIsAccountable
<1>1. SignerInv => LogIsAccountable
  BY DEF SignerInv, KeysDiffer, EnvelopesAreStatements, KeyOf, Logged, LogIsAccountable,
     S!LogIsAccountable
<1> QED
  BY <1>1, SessionInvHolds, PTL DEF SessionInv

\* Of every configuration the log that is used is valid, supported and of the
\* highest version of those (get_rekor_urls, from_tuf_config).
THEOREM BestEndpointHolds == SessionSpec => []BestEndpoint
<1>1. BestEndpoint
  <2> SUFFICES ASSUME NEW tuf \in TufConfig,
                      NEW x \in {e \in {tuf.rekors[i] : i \in DOMAIN tuf.rekors} :
                                   S!IsValid(e, clock) /\ e.version \in S!SupportedRekor}
               PROVE  LET best == S!GetRekorUrl(tuf, Unset, clock)
                          usable == {e \in {tuf.rekors[i] : i \in DOMAIN tuf.rekors} :
                                       S!IsValid(e, clock) /\ e.version \in S!SupportedRekor}
                      IN best \in usable /\ \A e \in usable : e.version <= best.version
    BY DEF BestEndpoint, S!BestEndpoint, S!IsValid
  <2> DEFINE found == S!GetRekorUrls(tuf, Unset, clock)
  <2>1. found = {i \in DOMAIN tuf.rekors : S!IsValid(tuf.rekors[i], clock)
                                           /\ tuf.rekors[i].version \in S!SupportedRekor}
    BY DEF S!GetRekorUrls, S!OfVersion
  <2>2. found # {}
    BY <2>1
  <2>3. PICK i \in found : /\ S!GetRekorUrl(tuf, Unset, clock) = tuf.rekors[i]
                           /\ \A j \in found : tuf.rekors[j].version <= tuf.rekors[i].version
    BY <2>2, BestIsUsable
  <2> HIDE DEF found
  <2> QED
    BY <2>1, <2>3
<1> QED
  BY <1>1, PTL

\* What the services did not answer in time is returned all the same, and nobody
\* accepts it, whatever it is put forward for (sign.rs sign; verify.rs).
THEOREM AcceptedWasTimelyHolds == SessionSpec => []AcceptedWasTimely
<1>1. SessionInv => AcceptedWasTimely
  BY AcceptedIsTimely DEF SessionInv, AcceptedWasTimely
<1> QED
  BY <1>1, SessionInvHolds, PTL

\* And if they did answer in time, and are services that the root names, whatever
\* is returned is accepted, then and later, for everything it signed, whichever
\* endpoints, formats and versions of the log were used: what the signer builds and
\* what the verifier asks for fit together for every configuration and root (sign.rs;
\* builder.rs; verify.rs).
THEOREM ReturnedVerifiesHolds ==
  ASSUME HonestLogs, UnsetIsNoRecord
  PROVE  SessionSpec => []ReturnedVerifies
<1>1. SessionInv => ReturnedVerifies
  BY PartsVerify DEF SessionInv
<1> QED
  BY <1>1, SessionInvHolds, PTL
==============================================================================
