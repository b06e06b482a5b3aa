---------------------------- MODULE TokenRefresh ----------------------------
(***************************************************************************)
(* rp/refresh_rotation.go on top of rp/token_exchange.go and rp/dpop.go:   *)
(* refresh token sources used by concurrent goroutines of one RP, and the  *)
(* state every grant of that RP shares: the negotiated client              *)
(* authentication method and the DPoP nonce of the token endpoint.         *)
(*                                                                         *)
(* One Refresh call holds the mutex of its source across up to four        *)
(* requests: with the negotiated method and, where allowed, with the other *)
(* one, each repeated once with the nonce the server asked for.            *)
(*                                                                         *)
(* A refresh token is a pair: the number of its grant and its generation.  *)
(* The server rotates: it accepts the newest generation only, and an older *)
(* one makes it revoke the grant.  Each source is used for one user, and   *)
(* grant g of source s is written <<s, g>>.                                *)
(***************************************************************************)
EXTENDS Naturals

CONSTANTS
  Callers,     \* goroutines
  NoCaller,
  Sources,     \* RefreshTokenSource values, one per user
  Configs,     \* configurations of client and server
  MaxGrant,    \* bound on authorization flows per user
  MaxGen,      \* bound on rotations per grant
  MaxNonce     \* bound on nonces the server uses

Methods == {"post", "basic"}

ASSUME RefreshAssumption ==
  /\ NoCaller \notin Callers
  /\ MaxGrant \in Nat \ {0}
  /\ MaxGen \in Nat
  /\ MaxNonce \in Nat \ {0}
  /\ Configs \subseteq
       [dpop : BOOLEAN,              \* shouldUseDPoP
        method : Methods,            \* what selectAuthMethodFromSupported picks
        guess : BOOLEAN,             \* ... without the server's metadata
        accepts : SUBSET Methods]    \* what the server really accepts
  /\ \A c \in Configs : c.guess => c.method = "post"

VARIABLES
  config,
  auth,        \* resolvedAuthMethod and allowMethodFallback
  nonces,      \* the nonce store: the entry of the token endpoint
  current,     \* current[s]: RefreshTokenSource.current
  mu,          \* mu[s]: the caller that holds RefreshTokenSource.mu
  caller,      \* caller[c]: progress of a Refresh call
  fetched,     \* fetched[s]: a token of a new grant, to be handed to Replace
  newest,      \* server: newest[s][g], generation of the valid token
  revoked,     \* server: grants it revoked for the use of an old token
  ended,       \* server: grants a later authorization flow has ended
  wanted,      \* server: the nonce it accepts
  unsure       \* history: grants with a rotation the source never learnt of

vars == <<config, auth, nonces, current, mu, caller, fetched, newest, revoked,
          ended, wanted, unsure>>

Grants == 1..MaxGrant
Gens == 0..MaxGen
Tokens == Grants \X Gens
None == <<0, 0>>
Nonces == 1..MaxNonce

\* The answer of the token endpoint: its DPoP-Nonce header (0: none), its
\* refresh token (None: none), and whether a 200 is fit for use: it has the
\* required fields and the required token type.
Statuses == {"ok", "badRequest", "invalidGrant", "unauthorized", "lost"}
Replies ==
  [status : Statuses, nonce : Nonces \cup {0},
   token : Tokens \cup {None}, fit : BOOLEAN]
NoReply == [status |-> "lost", nonce |-> 0, token |-> None, fit |-> FALSE]

Idle ==
  [pc |-> "idle", src |-> "none", method |-> "post", fallback |-> FALSE,
   nonce |-> 0, retry |-> FALSE, reply |-> NoReply, seen |-> {}]

Init ==
  /\ config \in Configs
  /\ auth = [method |-> config.method, fallback |-> config.guess]
  /\ nonces = [nonce |-> 0, expired |-> FALSE]
  /\ current = [s \in Sources |-> <<1, 0>>]
  /\ mu = [s \in Sources |-> NoCaller]
  /\ caller = [c \in Callers |-> Idle]
  /\ fetched = [s \in Sources |-> None]
  /\ newest = [s \in Sources |-> [g \in Grants |-> 0]]
  /\ revoked = {}
  /\ ended = {}
  /\ wanted = 1
  /\ unsure = {}

server == <<newest, revoked, ended, wanted, unsure>>

-----------------------------------------------------------------------------
(* State shared by the grants of an RP *)

\* resolveAuthMethodFromProvider, run by every AuthorizationURL call: it
\* forgets what earlier grants have found out.
ResolveAuthMethod ==
  /\ auth' = [method |-> config.method, fallback |-> config.guess]
  /\ UNCHANGED <<config, nonces, current, mu, caller, fetched, server>>

\* Other grants of the RP (the code exchange of HandleCallback) run through the
\* same executeTokenGrant: one of them settles a method that was a guess when it
\* started, stores the nonce of a reply, or deletes a nonce it saw expired.
OtherGrant ==
  /\ \/ /\ config.guess
        /\ \E m \in config.accepts : auth' = [method |-> m, fallback |-> FALSE]
        /\ UNCHANGED nonces
     \/ /\ config.dpop
        /\ nonces' \in {[nonce |-> wanted, expired |-> FALSE],
                       [nonce |-> 0, expired |-> FALSE]}
        /\ UNCHANGED auth
  /\ UNCHANGED <<config, current, mu, caller, fetched, server>>

\* The entry of the nonce store outlives its ttl.
ExpireNonce ==
  /\ nonces.nonce # 0 /\ ~nonces.expired
  /\ nonces' = [nonce |-> nonces.nonce, expired |-> TRUE]
  /\ UNCHANGED <<config, auth, current, mu, caller, fetched, server>>

\* The server changes the nonce it accepts.
ChangeNonce ==
  /\ config.dpop /\ wanted < MaxNonce
  /\ wanted' = wanted + 1
  /\ UNCHANGED <<config, auth, nonces, current, mu, caller, fetched, newest,
                 revoked, ended, unsure>>

-----------------------------------------------------------------------------
(* Refresh *)

Goto(c, pc) == caller' = [caller EXCEPT ![c].pc = pc]

\* Mutant: Refresh without the mutex.
Lock_NoMutex(c, s) ==
  /\ caller[c].pc = "idle"
  /\ mu' = [mu EXCEPT ![s] = c]
  /\ caller' = [caller EXCEPT ![c] = [Idle EXCEPT !.pc = "method", !.src = s]]
  /\ UNCHANGED <<config, auth, nonces, current, fetched, server>>

\* Refresh takes the mutex and reads the current token, which cannot change
\* before it is released.
Lock(c, s) ==
  /\ caller[c].pc = "idle"
  /\ mu[s] = NoCaller
  /\ mu' = [mu EXCEPT ![s] = c]
  /\ caller' = [caller EXCEPT ![c] = [Idle EXCEPT !.pc = "method", !.src = s]]
  /\ UNCHANGED <<config, auth, nonces, current, fetched, server>>

\* authMethodState at the start of executeTokenGrant.
authMethodState(c) ==
  /\ caller[c].pc = "method"
  /\ caller' = [caller EXCEPT ![c].pc = "nonce", ![c].method = auth.method,
                              ![c].fallback = auth.fallback]
  /\ UNCHANGED <<config, auth, nonces, current, mu, fetched, server>>

\* cachedDPoPNonce: an expired nonce is not used, and deleted in a second
\* critical section.
cachedDPoPNonce(c) ==
  /\ caller[c].pc = "nonce"
  /\ caller' = [caller EXCEPT
                  ![c].pc = IF nonces.expired THEN "evict" ELSE "send",
                  ![c].nonce = IF nonces.expired THEN 0 ELSE nonces.nonce,
                  ![c].retry = FALSE]
  /\ UNCHANGED <<config, auth, nonces, current, mu, fetched, server>>

EvictNonce(c) ==
  /\ caller[c].pc = "evict"
  /\ nonces' = [nonce |-> 0, expired |-> FALSE]
  /\ Goto(c, "send")
  /\ UNCHANGED <<config, auth, current, mu, fetched, server>>

-----------------------------------------------------------------------------
(* The token endpoint *)

\* The reply reaches the caller, or is lost (a transport error or a body that
\* does not decode, either of which ends the call without another attempt).
Answer(c, reply) ==
  caller' \in {[caller EXCEPT ![c].pc = "reply", ![c].reply = reply,
                              ![c].seen = @ \cup {reply.status}],
               [caller EXCEPT ![c].pc = "failed", ![c].reply = NoReply]}

Headers == IF config.dpop THEN {0, wanted} ELSE {0}
Error(status, nonce) ==
  [status |-> status, nonce |-> nonce, token |-> None, fit |-> FALSE]

\* The request is refused before the refresh token is looked at: the client
\* does not authenticate, or the proof has not the nonce the server wants.
RefuseRequest(c) ==
  /\ caller[c].pc = "send"
  /\ \/ /\ caller[c].method \notin config.accepts
        /\ \E n \in Headers : Answer(c, Error("unauthorized", n))
     \/ /\ caller[c].method \in config.accepts
        /\ config.dpop /\ caller[c].nonce # wanted
        /\ Answer(c, Error("badRequest", wanted))
  /\ UNCHANGED <<config, auth, nonces, current, mu, fetched, server>>

Admitted(c) ==
  /\ caller[c].pc = "send"
  /\ caller[c].method \in config.accepts
  /\ config.dpop => caller[c].nonce = wanted

\* The token is the newest of its grant: it is accepted, and mostly rotated.
AcceptToken(c) ==
  LET s == caller[c].src
      g == current[s][1]
      n == current[s][2]
  IN /\ Admitted(c)
     /\ newest[s][g] = n /\ <<s, g>> \notin revoked \cup ended
     /\ \E fit \in BOOLEAN, h \in Headers :
          \/ /\ n < MaxGen
             /\ newest' = [newest EXCEPT ![s][g] = n + 1]
             /\ unsure' = unsure \cup {<<s, g>>}
             /\ Answer(c, [status |-> "ok", nonce |-> h, token |-> <<g, n + 1>>,
                           fit |-> fit])
          \/ /\ UNCHANGED <<newest, unsure>>
             /\ Answer(c, [status |-> "ok", nonce |-> h, token |-> None,
                           fit |-> fit])
     /\ UNCHANGED <<config, auth, nonces, current, mu, fetched, revoked, ended,
                    wanted>>

\* invalid_grant: a token of a grant that is over, or an old one, after which
\* the whole grant is revoked.
RejectToken(c) ==
  LET s == caller[c].src
      g == current[s][1]
  IN /\ Admitted(c)
     /\ newest[s][g] # current[s][2] \/ <<s, g>> \in revoked \cup ended
     /\ revoked' = IF newest[s][g] # current[s][2]
                   THEN revoked \cup {<<s, g>>} ELSE revoked
     /\ \E h \in Headers : Answer(c, Error("invalidGrant", h))
     /\ UNCHANGED <<config, auth, nonces, current, mu, fetched, newest, ended,
                    wanted, unsure>>

-----------------------------------------------------------------------------
(* doRequestWithDPoPRetry and executeTokenGrant *)

isUseDPoPNonce(reply) == reply.status # "ok" /\ reply.nonce # 0

\* The nonce of a reply is stored, and a refused request repeated with it,
\* once.
doRequestWithDPoPRetry(c) ==
  LET reply == caller[c].reply
  IN /\ caller[c].pc = "reply"
     /\ nonces' = IF config.dpop /\ reply.nonce # 0
                  THEN [nonce |-> reply.nonce, expired |-> FALSE] ELSE nonces
     /\ caller' = [caller EXCEPT ![c] =
                     IF config.dpop /\ isUseDPoPNonce(reply) /\ ~caller[c].retry
                     THEN [@ EXCEPT !.pc = "send", !.nonce = reply.nonce,
                                    !.retry = TRUE]
                     ELSE [@ EXCEPT !.pc = "result"]]
     /\ UNCHANGED <<config, auth, current, mu, fetched, server>>

\* executeTokenGrant with a usable 200: a method that was a guess is settled.
GrantSucceeds(c) ==
  /\ caller[c].pc = "result"
  /\ caller[c].reply.status = "ok" /\ caller[c].reply.fit
  /\ auth' = IF caller[c].fallback
             THEN [method |-> caller[c].method, fallback |-> FALSE] ELSE auth
  /\ Goto(c, "adopt")
  /\ UNCHANGED <<config, nonces, current, mu, fetched, server>>

\* The other method is tried after a refusal of a method that was a guess.
FallBack(c) ==
  /\ caller[c].pc = "result"
  /\ caller[c].reply.status # "ok"
  /\ caller[c].fallback /\ caller[c].method = "post"
  /\ caller' = [caller EXCEPT ![c].pc = "nonce", ![c].method = "basic"]
  /\ UNCHANGED <<config, auth, nonces, current, mu, fetched, server>>

\* Mutant: no second method is tried.
GrantFails_NoFallback(c) ==
  /\ caller[c].pc = "result"
  /\ caller[c].reply.status # "ok" \/ ~caller[c].reply.fit
  /\ Goto(c, "failed")
  /\ UNCHANGED <<config, auth, nonces, current, mu, fetched, server>>

\* Everything else is an error.
GrantFails(c) ==
  /\ caller[c].pc = "result"
  /\ \/ caller[c].reply.status = "ok" /\ ~caller[c].reply.fit
     \/ /\ caller[c].reply.status # "ok"
        /\ ~ (caller[c].fallback /\ caller[c].method = "post")
  /\ Goto(c, "failed")
  /\ UNCHANGED <<config, auth, nonces, current, mu, fetched, server>>

\* Mutant: an omitted refresh token is adopted as an empty one.
Adopt_Always(c) ==
  LET s == caller[c].src
  IN /\ caller[c].pc = "adopt"
     /\ current' = [current EXCEPT ![s] = caller[c].reply.token]
     /\ mu' = [mu EXCEPT ![s] = NoCaller]
     /\ caller' = [caller EXCEPT ![c] = Idle]
     /\ UNCHANGED <<config, auth, nonces, fetched, server>>

\* Refresh adopts the token of the reply, if it has one.
Adopt(c) ==
  LET s == caller[c].src
      token == caller[c].reply.token
  IN /\ caller[c].pc = "adopt"
     /\ current' = [current EXCEPT ![s] = IF token = None THEN @ ELSE token]
     /\ unsure' = IF token = None THEN unsure ELSE unsure \ {<<s, token[1]>>}
     /\ mu' = [mu EXCEPT ![s] = NoCaller]
     /\ caller' = [caller EXCEPT ![c] = Idle]
     /\ UNCHANGED <<config, auth, nonces, fetched, newest, revoked, ended, wanted>>

\* Refresh returns the error; the source keeps its token.
ReturnError(c) ==
  /\ caller[c].pc = "failed"
  /\ mu' = [mu EXCEPT ![caller[c].src] = NoCaller]
  /\ caller' = [caller EXCEPT ![c] = Idle]
  /\ UNCHANGED <<config, auth, nonces, current, fetched, server>>

-----------------------------------------------------------------------------
(* The application *)

\* A new authorization flow (a merge or replace of grant management) ends the
\* grant of source s and brings the first token of the next one ...
NewGrant(s) ==
  LET g == current[s][1]
  IN /\ fetched[s] = None
     /\ g < MaxGrant
     /\ fetched' = [fetched EXCEPT ![s] = <<g + 1, 0>>]
     /\ ended' = ended \cup {<<s, g>>}
     /\ UNCHANGED <<config, auth, nonces, current, mu, caller, newest, revoked,
                    wanted, unsure>>

\* Mutant: Replace does not wait for the mutex.
Replace_NoMutex(s) ==
  /\ fetched[s] # None
  /\ current' = [current EXCEPT ![s] = fetched[s]]
  /\ fetched' = [fetched EXCEPT ![s] = None]
  /\ UNCHANGED <<config, auth, nonces, mu, caller, server>>

\* ... which the application hands to the source.
Replace(s) ==
  /\ fetched[s] # None
  /\ mu[s] = NoCaller
  /\ current' = [current EXCEPT ![s] = fetched[s]]
  /\ fetched' = [fetched EXCEPT ![s] = None]
  /\ UNCHANGED <<config, auth, nonces, mu, caller, server>>

Next ==
  \/ ResolveAuthMethod \/ OtherGrant \/ ExpireNonce \/ ChangeNonce
  \/ \E s \in Sources : NewGrant(s) \/ Replace(s)
  \/ \E c \in Callers :
       \/ \E s \in Sources : Lock(c, s)
       \/ authMethodState(c) \/ cachedDPoPNonce(c) \/ EvictNonce(c)
       \/ RefuseRequest(c) \/ AcceptToken(c) \/ RejectToken(c)
       \/ doRequestWithDPoPRetry(c)
       \/ GrantSucceeds(c) \/ FallBack(c) \/ GrantFails(c)
       \/ Adopt(c) \/ ReturnError(c)

Spec == Init /\ [][Next]_vars

-----------------------------------------------------------------------------
(* Properties *)

CallerState ==
  [pc : {"idle", "method", "nonce", "evict", "send", "reply", "result",
         "adopt", "failed"},
   src : Sources \cup {"none"}, method : Methods, fallback : BOOLEAN,
   nonce : Nonces \cup {0}, retry : BOOLEAN, reply : Replies,
   seen : SUBSET Statuses]

TypeOK ==
  /\ config \in Configs
  /\ auth \in [method : Methods, fallback : BOOLEAN]
  /\ nonces \in [nonce : Nonces \cup {0}, expired : BOOLEAN]
  /\ current \in [Sources -> Tokens]
  /\ mu \in [Sources -> Callers \cup {NoCaller}]
  /\ caller \in [Callers -> CallerState]
  /\ fetched \in [Sources -> Tokens \cup {None}]
  /\ newest \in [Sources -> [Grants -> Gens]]
  /\ revoked \subseteq Sources \X Grants
  /\ ended \subseteq Sources \X Grants
  /\ wanted \in Nonces
  /\ unsure \subseteq Sources \X Grants

\* "The serialized source must never trip it" (rp/refresh_rotation_test.go):
\* concurrent Refresh calls, with their repeated requests, never present a
\* token the server has rotated, unless the answer to a rotation was lost or
\* unfit.
NeverReplays == revoked \subseteq unsure

\* Between calls a source holds the newest token of its grant, unless the
\* answer that brought it was lost or unfit, and once Replace has returned that
\* grant is the latest one: no Refresh that was under way makes it step back.
InStep ==
  \A s \in Sources :
    LET grant == <<s, current[s][1]>>
    IN mu[s] = NoCaller =>
         /\ grant \notin unsure => current[s][2] = newest[s][current[s][1]]
         /\ fetched[s] = None => grant \notin ended

\* A client whose method was a guess finds the one the server accepts, however
\* its grants, and the reset by AuthorizationURL, interleave: a call fails for
\* its client authentication only after the server refused it otherwise.
NeverUnauthorized ==
  config.guess /\ config.accepts # {} =>
    \A c \in Callers :
      caller[c].pc = "failed" /\ caller[c].reply.status = "unauthorized"
        => caller[c].seen \cap {"badRequest", "invalidGrant"} # {}
=============================================================================
