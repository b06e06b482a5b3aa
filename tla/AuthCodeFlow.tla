---------------------------- MODULE AuthCodeFlow ----------------------------
(***************************************************************************)
(* rp/authrequest.go and rp/callback.go: AuthorizationURL and              *)
(* HandleCallback of one RP shared by concurrent request goroutines,       *)
(* composed with a state store (SingleUseTickets, the contract MemoryStore *)
(* implements), the browsers and one authorization server.                 *)
(*                                                                         *)
(* A login is the fresh (state, nonce, code verifier) triple drawn by one  *)
(* AuthorizationURL call; the three random values of a login are named by  *)
(* its number, and 0 is an empty parameter.  A callback is handled in the  *)
(* order of handleCallback, one step between two requests to the server.   *)
(* Callback parameters travel through the browser: a callback may be lost, *)
(* repeated, late, or carry a code and a state that do not belong          *)
(* together; a signed (JARM) response is what the server put together.     *)
(***************************************************************************)
EXTENDS Naturals

CONSTANTS
  Logins,      \* AuthorizationURL calls
  Codes,       \* authorization codes the server may issue
  Browsers,
  NoBrowser,
  Handlers,    \* HandleCallback calls
  Configs      \* configurations of RP, server and store

ASSUME FlowAssumption ==
  /\ Logins \subseteq Nat \ {0}
  /\ Codes \subseteq Nat \ {0}
  /\ NoBrowser \notin Browsers
  /\ Configs \subseteq
       [openid : BOOLEAN,     \* the scopes contain openid
        fapi : BOOLEAN,       \* a FAPI profile
        jarm : BOOLEAN,       \* response_mode asks for a JWT response
        checkIss : BOOLEAN,   \* validateAuthorizationResponseIssuer
        par : BOOLEAN,        \* shouldUsePAR
        userinfo : BOOLEAN,   \* the provider has a userinfo endpoint
        pkce : BOOLEAN,       \* the server enforces code_challenge
        strict : BOOLEAN]     \* the store removes on its own side (memory),
                              \* or in the cookie it hands back (cookie)

VARIABLES
  config,
  phase,       \* phase[l]: progress of the AuthorizationURL call of login l
  ticket,      \* the state store: one ticket per login
  holder,
  taker,
  codeLogin,   \* codeLogin[c]: the login code c was issued for
  redeemed,    \* codes the token endpoint has accepted
  handler      \* handler[h]: a HandleCallback call

storeVars == <<ticket, holder, taker>>
vars == <<config, phase, ticket, holder, taker, codeLogin, redeemed, handler>>

Store == INSTANCE SingleUseTickets WITH Tickets <- Logins

\* The parameters of a callback that names a code and a state.  front # 0: it
\* also carries an ID token, which the server made for code front and its login.
Params ==
  [jarm : BOOLEAN, code : Codes, state : Logins,
   iss : {"none", "own", "other"}, front : Codes \cup {0}]

\* A HandleCallback call: the code it redeems, the login whose correlation it
\* consumed, the browser it serves, whether the server vouched for the pair
\* (JARM, front-channel ID token), and the user its tokens are about.
Handler ==
  [pc : {"idle", "exchange", "token", "userinfo", "ok", "failed"},
   code : Codes \cup {0}, state : Logins \cup {0},
   by : Browsers \cup {NoBrowser}, vouched : BOOLEAN, subject : Logins \cup {0}]

HandlerAt(pc) ==
  [pc |-> pc, code |-> 0, state |-> 0, by |-> NoBrowser, vouched |-> FALSE,
   subject |-> 0]

Init ==
  /\ config \in Configs
  /\ phase = [l \in Logins |-> "none"]
  /\ Store!Init
  /\ codeLogin = [c \in Codes |-> 0]
  /\ redeemed = {}
  /\ handler = [h \in Handlers |-> HandlerAt("idle")]

-----------------------------------------------------------------------------
(* AuthorizationURL *)

\* Mutant: a failed request leaves a state of its own.
PushAuthorizationRequest_Retry(l) ==
  /\ config.par
  /\ phase[l] = "none"
  /\ phase' \in {[phase EXCEPT ![l] = "pushed"], [phase EXCEPT ![l] = "retry"]}
  /\ UNCHANGED <<config, storeVars, codeLogin, redeemed, handler>>

\* The pushed authorization request of login l; a failure ends the call
\* before anything is stored.
PushAuthorizationRequest(l) ==
  /\ config.par
  /\ phase[l] = "none"
  /\ phase' \in {[phase EXCEPT ![l] = "pushed"], [phase EXCEPT ![l] = "failed"]}
  /\ UNCHANGED <<config, storeVars, codeLogin, redeemed, handler>>

\* saveCorrelation, then the redirect: browser b learns the state of login l
\* only after the store has it.
AuthorizationURL(l, b) ==
  /\ phase[l] = IF config.par THEN "pushed" ELSE "none"
  /\ Store!Issue(l, b, {})
  /\ phase' = [phase EXCEPT ![l] = "redirected"]
  /\ UNCHANGED <<config, codeLogin, redeemed, handler>>

\* The store loses a correlation: expiry, eviction, DeleteState.
LoseCorrelation(l) ==
  /\ Store!Drop({l})
  /\ ticket[l] = "open"
  /\ UNCHANGED <<config, phase, codeLogin, redeemed, handler>>

-----------------------------------------------------------------------------
(* The authorization server *)

\* The user of login l authenticates; the server issues code c with the
\* challenge and the nonce of that login.  A reloaded page issues another.
IssueCode(l, c) ==
  /\ phase[l] = "redirected"
  /\ codeLogin[c] = 0
  /\ codeLogin' = [codeLogin EXCEPT ![c] = l]
  /\ UNCHANGED <<config, phase, storeVars, redeemed, handler>>

\* The token endpoint accepts a code once, for the verifier of its login.
Accepts(c, verifier) ==
  /\ c \in Codes /\ codeLogin[c] # 0
  /\ c \notin redeemed
  /\ config.pkce => codeLogin[c] = verifier

\* Parameters a callback may arrive with.  A JARM response and a front-channel
\* ID token are signed by the server, so each was made for one login.
Deliverable(p) ==
  /\ codeLogin[p.code] # 0
  /\ p.jarm => p.state = codeLogin[p.code]
  /\ p.front # 0 => codeLogin[p.front] # 0

-----------------------------------------------------------------------------
(* HandleCallback *)

Fail(h) == handler' = [handler EXCEPT ![h] = HandlerAt("failed")]
Goto(h, pc) == handler' = [handler EXCEPT ![h].pc = pc]

\* A callback that ends before it has consumed anything: an error response, a
\* missing code or state, a plain response where a JWT is required, a state
\* the store does not know or does not hand to this browser.
Refuse(h) ==
  /\ handler[h].pc = "idle"
  /\ Fail(h)
  /\ UNCHANGED <<config, phase, storeVars, codeLogin, redeemed>>

\* Mutant: c_hash is not compared.
FrontIDTokenOK_NoCHash(p) == p.front # 0 => codeLogin[p.front] = p.state

\* validateAuthorizationResponseIDTokenAs: nonce, s_hash and c_hash of the
\* front-channel ID token.
FrontIDTokenOK(p) ==
  p.front # 0 => codeLogin[p.front] = p.state /\ p.front = p.code

\* The issuer a response names: its iss, or the one of its ID token.
ResponseIssuer(p) ==
  IF p.iss = "none" /\ p.front # 0 THEN "own" ELSE p.iss

IssuerOK(p) == p.jarm \/ config.checkIss => ResponseIssuer(p) = "own"

\* Mutant: the state is only loaded.
ConsumeCorrelation_Load(l, b) ==
  /\ ticket[l] = "open" /\ holder[l] = b
  /\ UNCHANGED storeVars

\* ConsumeCorrelation hands the correlation of login l to the request of b:
\* once, or again to a request that still carries the cookie of before.
ConsumeCorrelation(l, b) ==
  \/ Store!Take(l, b, {})
  \/ /\ ~config.strict
     /\ ticket[l] = "taken" /\ holder[l] = b
     /\ UNCHANGED storeVars

\* handleCallback from parseAuthorizationResponse to the issuer checks.  The
\* correlation is gone even when a later check fails.
AcceptCallback(h, p, b) ==
  /\ handler[h].pc = "idle"
  /\ Deliverable(p)
  /\ config.jarm => p.jarm
  /\ ConsumeCorrelation(p.state, b)
  /\ IF FrontIDTokenOK(p) /\ IssuerOK(p)
     THEN handler' = [handler EXCEPT ![h] =
                        [pc |-> "exchange", code |-> p.code, state |-> p.state,
                         by |-> b, vouched |-> p.jarm \/ p.front # 0,
                         subject |-> 0]]
     ELSE Fail(h)
  /\ UNCHANGED <<config, phase, codeLogin, redeemed>>

\* exchangeTokenAs: the code goes out with the verifier of the consumed
\* correlation.  The server may accept it and the answer still be lost.
ExchangeToken(h) ==
  LET c == handler[h].code
  IN /\ handler[h].pc = "exchange"
     /\ \/ /\ Accepts(c, handler[h].state)
           /\ redeemed' = redeemed \cup {c}
           /\ \/ handler' = [handler EXCEPT ![h].pc = "token",
                                            ![h].subject = codeLogin[c]]
              \/ Fail(h)
        \/ Fail(h) /\ UNCHANGED redeemed
     /\ UNCHANGED <<config, phase, storeVars, codeLogin>>

\* Mutant: the nonce is not compared.
NonceOK_Skip(h) == handler[h].subject # 0

\* validateIDTokenClaimsAs compares the nonce of the ID token, which is the
\* one of the login the code was issued for.
NonceOK(h) == handler[h].subject = handler[h].state

\* The checks on the token response: without openid the access token is the
\* result; with it the ID token is validated and, outside FAPI, userinfo is
\* asked.  A response may lack a token or fail any other validation.
ValidateToken(h) ==
  /\ handler[h].pc = "token"
  /\ \/ ~config.openid /\ Goto(h, "ok")
     \/ config.openid /\ NonceOK(h)
        /\ Goto(h, IF config.fapi \/ ~config.userinfo THEN "ok" ELSE "userinfo")
     \/ Fail(h)
  /\ UNCHANGED <<config, phase, storeVars, codeLogin, redeemed>>

\* fetchUserInfoAs: the subject must be the one of the ID token.
FetchUserInfo(h) ==
  /\ handler[h].pc = "userinfo"
  /\ Goto(h, "ok") \/ Fail(h)
  /\ UNCHANGED <<config, phase, storeVars, codeLogin, redeemed>>

Next ==
  \/ \E l \in Logins :
       \/ PushAuthorizationRequest(l)
       \/ \E b \in Browsers : AuthorizationURL(l, b)
       \/ LoseCorrelation(l)
       \/ \E c \in Codes : IssueCode(l, c)
  \/ \E h \in Handlers :
       \/ Refuse(h)
       \/ \E p \in Params, b \in Browsers : AcceptCallback(h, p, b)
       \/ ExchangeToken(h)
       \/ ValidateToken(h)
       \/ FetchUserInfo(h)

Spec == Init /\ [][Next]_vars

-----------------------------------------------------------------------------
(* Properties *)

TypeOK ==
  /\ config \in Configs
  /\ phase \in [Logins -> {"none", "pushed", "redirected", "failed"}]
  /\ ticket \in [Logins -> {"none", "open", "taken", "gone"}]
  /\ holder \in [Logins -> Browsers \cup {NoBrowser}]
  /\ taker \in [Logins -> Browsers \cup {NoBrowser}]
  /\ codeLogin \in [Codes -> Logins \cup {0}]
  /\ redeemed \subseteq Codes
  /\ handler \in [Handlers -> Handler]

Succeeded == {h \in Handlers : handler[h].pc = "ok"}

\* With a store that consumes on its own side, repeated, late and parallel
\* callbacks of one login produce one CallbackResult, even when the server
\* issued several codes for it.
OneResultPerLogin ==
  config.strict =>
    \A g, h \in Succeeded :
      handler[g].state = handler[h].state => g = h

\* "the authorization server's single-use authorization code remains the
\* replay barrier" (rp/store/cookie/store.go:142): even when a replayed cookie
\* yields the correlation again, one code produces one CallbackResult.
OneResultPerCode ==
  \A g, h \in Succeeded :
    handler[g].code = handler[h].code => g = h

\* One login gives one result, whichever of the two barriers holds.
OneResult == OneResultPerLogin /\ OneResultPerCode

\* A CallbackResult describes the login its state belongs to, in the browser
\* that started it, whatever code the callback came with: the nonce of the ID
\* token or the server's check of the code challenge catches a foreign code.
ResultBelongsToLogin ==
  \A h \in Succeeded :
    config.openid \/ config.pkce =>
      /\ handler[h].subject = handler[h].state
      /\ holder[handler[h].state] = handler[h].by

\* A response with a front-channel ID token or in a signed JWT never makes the
\* RP send a code of another login to the token endpoint.
NoForeignCodeSpent ==
  \A h \in Handlers :
    /\ handler[h].pc = "exchange"
    /\ handler[h].vouched
    => codeLogin[handler[h].code] = handler[h].state
=============================================================================
