------------------------------ MODULE OAuthFlow ------------------------------
(***************************************************************************)
(* The authorization code flow of sigstore-oidc/src/oauth.rs: several calls *)
(* of `OAuthClient::auth_with_options`, at once or one after the other, on  *)
(* one machine.  A call waits for the browser on a port of its own, which    *)
(* the system gives to another call when it is free again, while a tab of    *)
(* the browser outlives the call that opened it.                            *)
(*                                                                         *)
(* A flow's random state and PKCE verifier are its own: the flow itself     *)
(* stands for both.  An authorization URL is then <<flow, redirect>>, and a  *)
(* code is the URL it was issued for.                                       *)
(***************************************************************************)
EXTENDS Naturals, FiniteSets

CONSTANTS
  Flow,       \* calls of auth_with_options
  Port,       \* local ports
  Expiry,     \* the expiration times that the provider gives a token
  Oob,        \* OOB_REDIRECT_URI
  None,       \* no port, code, state, page or token
  Malformed   \* bytes that are not an HTTP request

ASSUME FlowAssumption ==
  /\ Oob \notin Port
  /\ None \notin Port \cup {Oob} \cup Flow \cup Expiry

Redirect == Port \cup {Oob}
AuthUrl == Flow \X Redirect

VARIABLES
  stage,      \* stage[f]: where the call is
  redirect,   \* redirect[f]: its redirect URI; a port is also listened on
  caller,     \* caller[f]: what the connection it accepted says
  page,       \* page[f]: what it answered the browser
  code,       \* code[f]: the code it has to exchange
  refused,    \* refused[f]: the provider did not honour the code
  token,      \* token[f]: the expiration of the token it returned
  urls,       \* authorization URLs shown to a user
  codes,      \* codes the provider issued,
  denied,     \* URLs at which it ended in an error,
  spent       \* and codes it gave a token for

flowVars == <<stage, redirect, caller, page, code, refused, token>>
provider == <<codes, denied, spent>>
oauthVars == <<stage, redirect, caller, page, code, refused, token, urls, codes, denied, spent>>

Waiting == {"accept", "read", "drain", "exchange"}
Ended == {"done", "failed"}

\* A listener lives as long as auth_browser.
Listening(f) == redirect[f] \in Port /\ stage[f] \in Waiting

\* What a request line may carry.
Call == [code : AuthUrl \cup {None}, state : Flow \cup {None}, error : BOOLEAN]

Init ==
  /\ stage = [f \in Flow |-> "idle"]
  /\ redirect = [f \in Flow |-> None]
  /\ caller = [f \in Flow |-> None]
  /\ page = [f \in Flow |-> None]
  /\ code = [f \in Flow |-> None]
  /\ refused = [f \in Flow |-> FALSE]
  /\ token = [f \in Flow |-> None]
  /\ urls = {} /\ codes = {} /\ denied = {} /\ spent = {}

To(f, next) == stage' = [stage EXCEPT ![f] = next]

\* An error of any step is the result of the call.
Fail(f) ==
  /\ To(f, "failed")
  /\ UNCHANGED <<redirect, caller, page, code, refused, token, urls, provider>>

-----------------------------------------------------------------------------
(* The user and the provider (external).                                    *)

LogIn(u) ==
  /\ u \in urls \ (codes \cup denied)
  /\ codes' = codes \cup {u}
  /\ UNCHANGED <<flowVars, urls, denied, spent>>

Deny(u) ==
  /\ u \in urls \ (codes \cup denied)
  /\ denied' = denied \cup {u}
  /\ UNCHANGED <<flowVars, urls, codes, spent>>

\* A code is good once, with the verifier and the redirect URI of its URL.
Honoured(c, verifier, uri) == c \in codes \ spent /\ c = <<verifier, uri>>

\* Who may connect to a port: a tab that the provider redirected there, whatever
\* flow opened it, and anything else that probes it.
Calls(q) ==
  {[code |-> u, state |-> u[1], error |-> FALSE] : u \in {c \in codes : c[2] = q}}
  \cup {[code |-> None, state |-> u[1], error |-> TRUE] : u \in {d \in denied : d[2] = q}}
  \cup {[code |-> None, state |-> None, error |-> FALSE], Malformed}

-----------------------------------------------------------------------------
(* auth_browser and wait_for_callback.                                      *)

\* The browser opens on a URL that redirects to the port that was bound.
OpenBrowser(f) ==
  /\ stage[f] = "idle"
  /\ \E q \in Port :
       /\ \A g \in Flow : ~(Listening(g) /\ redirect[g] = q)
       /\ redirect' = [redirect EXCEPT ![f] = q]
       /\ urls' = urls \cup {<<f, q>>}
  /\ To(f, "accept")
  /\ UNCHANGED <<caller, page, code, refused, token, provider>>

\* force_oob, no `browser` feature, or the browser does not open: the listener is
\* dropped, state and verifier are kept.
OutOfBand(f) ==
  /\ stage[f] = "idle"
  /\ redirect' = [redirect EXCEPT ![f] = Oob]
  /\ urls' = urls \cup {<<f, Oob>>}
  /\ To(f, "prompt")
  /\ UNCHANGED <<caller, page, code, refused, token, provider>>

\* The authorization URL does not parse, or no port can be bound.
StartFails(f) == stage[f] = "idle" /\ Fail(f)

\* Only one connection is ever accepted.
Accept(f) ==
  /\ stage[f] = "accept"
  /\ \E c \in Calls(redirect[f]) : caller' = [caller EXCEPT ![f] = c]
  /\ To(f, "read")
  /\ UNCHANGED <<redirect, page, code, refused, token, urls, provider>>

\* CALLBACK_TIMEOUT: it can only go off while accept is awaited; what follows reads
\* and writes without awaiting anything.
TimesOut(f) == stage[f] = "accept" /\ Fail(f)

\* The first line arrives; a peer that says nothing is waited for.
ReadLine(f) ==
  /\ stage[f] = "read"
  /\ caller[f] # Malformed
  /\ To(f, "drain")
  /\ UNCHANGED <<redirect, caller, page, code, refused, token, urls, provider>>

ReadFails(f) == stage[f] \in {"read", "drain"} /\ Fail(f)

\* Mutant: the state is not compared.
AnyState(f) == TRUE

StateMatches(f) == caller[f].state = f

\* The rest of the request arrives and is answered; then error, state and code are
\* looked at.  The success page is sent whatever the last two will say.
Answer(f) ==
  LET c == caller[f] IN
  /\ stage[f] = "drain"
  /\ page' = [page EXCEPT ![f] = IF c.error THEN "error" ELSE "success"]
  /\ IF ~c.error /\ StateMatches(f) /\ c.code # None
     THEN code' = [code EXCEPT ![f] = c.code] /\ To(f, "exchange")
     ELSE To(f, "failed") /\ UNCHANGED code
  /\ UNCHANGED <<redirect, caller, refused, token, urls, provider>>

-----------------------------------------------------------------------------
(* auth_oob: any code that the provider showed may be typed in.             *)

TypeCode(f) ==
  /\ stage[f] = "prompt"
  /\ \E c \in codes :
       /\ c[2] = Oob
       /\ code' = [code EXCEPT ![f] = c]
  /\ To(f, "exchange")
  /\ UNCHANGED <<redirect, caller, page, refused, token, urls, provider>>

PromptFails(f) == stage[f] = "prompt" /\ Fail(f)

-----------------------------------------------------------------------------
(* exchange_code.                                                           *)

RedirectUri(f) == redirect[f]

Exchanged(f) ==
  /\ stage[f] = "exchange"
  /\ Honoured(code[f], f, RedirectUri(f))
  /\ spent' = spent \cup {code[f]}
  /\ \E t \in Expiry : token' = [token EXCEPT ![f] = t]
  /\ To(f, "done")
  /\ UNCHANGED <<redirect, caller, page, code, refused, urls, codes, denied>>

\* The answer is lost, or holds no identity token or one that does not parse.
AnswerLost(f) ==
  /\ stage[f] = "exchange"
  /\ Honoured(code[f], f, RedirectUri(f))
  /\ spent' = spent \cup {code[f]}
  /\ To(f, "failed")
  /\ UNCHANGED <<redirect, caller, page, code, refused, token, urls, codes, denied>>

Refused(f) ==
  /\ stage[f] = "exchange"
  /\ ~Honoured(code[f], f, RedirectUri(f))
  /\ refused' = [refused EXCEPT ![f] = TRUE]
  /\ To(f, "failed")
  /\ UNCHANGED <<redirect, caller, page, code, token, urls, provider>>

RequestFails(f) == stage[f] = "exchange" /\ Fail(f)

-----------------------------------------------------------------------------
FlowStep(f) ==
  \/ OpenBrowser(f) \/ OutOfBand(f) \/ StartFails(f) \/ Accept(f) \/ TimesOut(f)
  \/ ReadLine(f) \/ ReadFails(f) \/ Answer(f)
  \/ TypeCode(f) \/ PromptFails(f)
  \/ Exchanged(f) \/ AnswerLost(f) \/ Refused(f) \/ RequestFails(f)

Next ==
  \/ \E u \in AuthUrl : LogIn(u) \/ Deny(u)
  \/ \E f \in Flow : FlowStep(f)

Spec == Init /\ [][Next]_oauthVars

-----------------------------------------------------------------------------
TypeOK ==
  /\ stage \in [Flow -> {"idle", "prompt"} \cup Waiting \cup Ended]
  /\ redirect \in [Flow -> Redirect \cup {None}]
  /\ caller \in [Flow -> Call \cup {None, Malformed}]
  /\ page \in [Flow -> {"success", "error", None}]
  /\ code \in [Flow -> AuthUrl \cup {None}]
  /\ refused \in [Flow -> BOOLEAN]
  /\ token \in [Flow -> Expiry \cup {None}]
  /\ urls \subseteq AuthUrl
  /\ codes \subseteq urls /\ denied \subseteq urls /\ spent \subseteq codes
  /\ codes \cap denied = {}

\* A code that came over the redirect is honoured: it is the code of this call and
\* no other, although the tab of an earlier call may still be sent to the port; it
\* was not spent before, and the redirect URI sent with it is the one it was issued
\* for (oauth.rs wait_for_callback, "Verify state"; exchange_code).
RedirectedCodeIsHonoured ==
  \A f \in Flow : redirect[f] \in Port => ~refused[f]
==============================================================================
