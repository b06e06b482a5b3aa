------------------------- MODULE TokenRefreshProofs -------------------------
(***************************************************************************)
(* Proofs about rp/refresh_rotation.go for any number of goroutines,       *)
(* sources, grants, rotations and nonces, and every configuration.         *)
(***************************************************************************)
EXTENDS TokenRefresh, TLAPS

-----------------------------------------------------------------------------
(* The inductive invariant *)

\* A Refresh call holds the mutex of its source from Lock to its return.
Holding ==
  \A c \in Callers :
    caller[c].pc # "idle" => /\ caller[c].src \in Sources
                             /\ mu[caller[c].src] = c

\* The stages of a call that still have the reply's token to adopt.
Answered == {"reply", "result", "adopt"}

\* A token on its way to be adopted is the newest of the source's grant, and
\* the server has not revoked that grant.
Carrying(s, token) ==
  /\ token = <<current[s][1], newest[s][current[s][1]]>>
  /\ <<s, current[s][1]>> \notin revoked

Pending ==
  \A c \in Callers :
    caller[c].pc \in Answered /\ caller[c].reply.token # None =>
      caller[c].reply.status = "ok" /\ Carrying(caller[c].src, caller[c].reply.token)

\* A source is behind the server only when it missed a rotation.
Known ==
  \A s \in Sources :
    <<s, current[s][1]>> \notin unsure => current[s][2] = newest[s][current[s][1]]

\* A fetched token is the first of the next grant; without one the grant of the
\* source is not over.
FetchedNext ==
  \A s \in Sources :
    /\ fetched[s] # None => fetched[s] = <<current[s][1] + 1, 0>>
    /\ fetched[s] = None => <<s, current[s][1]>> \notin ended

\* Grants to come are untouched.
Ahead ==
  \A s \in Sources, g \in Grants :
    g > current[s][1] => newest[s][g] = 0 /\ <<s, g>> \notin ended

Inv ==
  TypeOK /\ Holding /\ Pending /\ Known /\ FetchedNext /\ Ahead /\ NeverReplays

-----------------------------------------------------------------------------
(* Type correctness *)

\* A call that has not started, and a reply that was lost, are well typed.
LEMMA IdleType == Idle \in CallerState /\ NoReply \in Replies
BY DEF Idle, NoReply, CallerState, Replies, Statuses, Methods

\* What the first state and an error answer consist of.
LEMMA ErrorType ==
  ASSUME TypeOK, NEW status \in Statuses, NEW n \in Headers \cup {wanted}
  PROVE  Error(status, n) \in Replies
BY DEF TypeOK, Error, Replies, Headers

\* Whatever the server answers, the calls stay well typed.
LEMMA AnswerType ==
  ASSUME TypeOK, NEW c \in Callers, NEW reply \in Replies, Answer(c, reply)
  PROVE  caller' \in [Callers -> CallerState]
<1>1. /\ caller \in [Callers -> CallerState]
      /\ caller[c] \in CallerState
      /\ caller[c].seen \cup {reply.status} \in SUBSET Statuses
  BY DEF TypeOK, Replies, CallerState
<1>2. ASSUME NEW r \in CallerState, NEW x \in SUBSET Statuses
      PROVE  [r EXCEPT !.pc = "reply", !.reply = reply, !.seen = x] \in CallerState
  BY DEF CallerState
<1>3. CASE caller' = [caller EXCEPT ![c].pc = "reply", ![c].reply = reply,
                                    ![c].seen = @ \cup {reply.status}]
  <2> DEFINE x == caller[c].seen \cup {reply.status}
  <2>1. caller' = [caller EXCEPT ![c] = [caller[c] EXCEPT
                     !.pc = "reply", !.reply = reply, !.seen = x]]
    BY <1>1, <1>3, Zenon
  <2> HIDE DEF x
  <2>2. [caller[c] EXCEPT !.pc = "reply", !.reply = reply, !.seen = x] \in CallerState
    BY <1>1, <1>2 DEF x
  <2>3. QED
    BY <1>1, <2>1, <2>2, Zenon
<1>4. CASE caller' = [caller EXCEPT ![c].pc = "failed", ![c].reply = NoReply]
  BY <1>1, <1>4, IdleType DEF CallerState
<1>5. QED
  BY <1>3, <1>4 DEF Answer

\* The first state is well typed.
LEMMA InitType == Init => TypeOK
<1> SUFFICES ASSUME Init PROVE TypeOK
  OBVIOUS
<1>1. config \in Configs /\ auth \in [method : Methods, fallback : BOOLEAN]
  BY RefreshAssumption DEF Init
<1>2. <<1, 0>> \in Tokens
  BY RefreshAssumption DEF Tokens, Grants, Gens
<1>3. /\ newest \in [Sources -> [Grants -> Gens]]
      /\ wanted \in Nonces
  BY RefreshAssumption DEF Init, Gens, Nonces
<1>4. QED
  BY <1>1, <1>2, <1>3, IdleType DEF Init, TypeOK

\* Every step keeps the types; the source of a call that is under way is known
\* from Holding.
LEMMA StepType == TypeOK /\ Holding /\ [Next]_vars => TypeOK'
<1> SUFFICES ASSUME TypeOK, Holding, [Next]_vars PROVE TypeOK'
  OBVIOUS
<1>0. /\ config \in Configs
      /\ auth \in [method : Methods, fallback : BOOLEAN]
      /\ nonces \in [nonce : Nonces \cup {0}, expired : BOOLEAN]
      /\ caller \in [Callers -> CallerState]
  BY DEF TypeOK
<1>1. CASE ResolveAuthMethod
  BY <1>0, <1>1, RefreshAssumption DEF ResolveAuthMethod, TypeOK, server
<1>2. CASE OtherGrant
  <2>1. config.accepts \subseteq Methods
    BY <1>0, RefreshAssumption
  <2>2. auth' \in [method : Methods, fallback : BOOLEAN]
    <3>1. UNCHANGED auth
            \/ \E m \in config.accepts : auth' = [method |-> m, fallback |-> FALSE]
      BY <1>2, Zenon DEF OtherGrant
    <3>2. ASSUME NEW m \in Methods
          PROVE  [method |-> m, fallback |-> FALSE]
                   \in [method : Methods, fallback : BOOLEAN]
      OBVIOUS
    <3>3. QED
      BY <1>0, <2>1, <3>1, <3>2, Zenon
  <2>3. nonces' \in [nonce : Nonces \cup {0}, expired : BOOLEAN]
    <3>1. \/ UNCHANGED nonces
          \/ nonces' = [nonce |-> wanted, expired |-> FALSE]
          \/ nonces' = [nonce |-> 0, expired |-> FALSE]
      BY <1>2, Zenon DEF OtherGrant
    <3>2. /\ [nonce |-> wanted, expired |-> FALSE]
                \in [nonce : Nonces \cup {0}, expired : BOOLEAN]
          /\ [nonce |-> 0, expired |-> FALSE]
                \in [nonce : Nonces \cup {0}, expired : BOOLEAN]
      BY DEF TypeOK
    <3>3. QED
      BY <1>0, <3>1, <3>2, Zenon
  <2>4. UNCHANGED <<config, current, mu, caller, fetched, newest, revoked, ended,
                    wanted, unsure>>
    BY <1>2 DEF OtherGrant, server
  <2>5. QED
    BY <2>2, <2>3, <2>4 DEF TypeOK
<1>3. CASE ExpireNonce
  BY <1>3 DEF ExpireNonce, TypeOK, server
<1>4. CASE ChangeNonce
  BY <1>4, RefreshAssumption DEF ChangeNonce, TypeOK, Nonces
<1>5. ASSUME NEW s \in Sources, NewGrant(s) PROVE TypeOK'
  <2>1. current[s] \in Tokens /\ current[s][1] < MaxGrant
    BY <1>5 DEF NewGrant, TypeOK
  <2>2. current[s][1] \in Grants /\ <<current[s][1] + 1, 0>> \in Tokens
    BY <2>1, RefreshAssumption DEF Tokens, Grants, Gens
  <2>3. QED
    BY <1>5, <2>2 DEF NewGrant, TypeOK
<1>6. ASSUME NEW s \in Sources, Replace(s) PROVE TypeOK'
  BY <1>6 DEF Replace, TypeOK, server
<1>7. ASSUME NEW c \in Callers, NEW s \in Sources, Lock(c, s) PROVE TypeOK'
  <2>1. [Idle EXCEPT !.pc = "method", !.src = s] \in CallerState
    BY IdleType DEF CallerState
  <2>2. QED
    BY <1>7, <2>1 DEF Lock, TypeOK, server
<1>8. ASSUME NEW c \in Callers, authMethodState(c) PROVE TypeOK'
  <2>1. ASSUME NEW r \in CallerState, NEW m \in Methods, NEW b \in BOOLEAN
        PROVE  [r EXCEPT !.pc = "nonce", !.method = m, !.fallback = b] \in CallerState
    BY DEF CallerState
  <2>2. caller' = [caller EXCEPT ![c] = [caller[c] EXCEPT
                     !.pc = "nonce", !.method = auth.method,
                     !.fallback = auth.fallback]]
    BY <1>0, <1>8, Zenon DEF authMethodState
  <2>3. auth.method \in Methods /\ auth.fallback \in BOOLEAN /\ caller[c] \in CallerState
    BY <1>0
  <2>4. caller' \in [Callers -> CallerState]
    BY <1>0, <2>1, <2>2, <2>3, Zenon
  <2>5. QED
    BY <1>8, <2>4 DEF authMethodState, TypeOK, server
<1>9. ASSUME NEW c \in Callers, cachedDPoPNonce(c) PROVE TypeOK'
  <2>1. ASSUME NEW r \in CallerState, NEW p \in {"evict", "send"},
               NEW n \in Nonces \cup {0}
        PROVE  [r EXCEPT !.pc = p, !.nonce = n, !.retry = FALSE] \in CallerState
    BY DEF CallerState
  <2> DEFINE p == IF nonces.expired THEN "evict" ELSE "send"
             n == IF nonces.expired THEN 0 ELSE nonces.nonce
  <2>2. caller' = [caller EXCEPT ![c] = [caller[c] EXCEPT
                     !.pc = p, !.nonce = n, !.retry = FALSE]]
    BY <1>0, <1>9, Zenon DEF cachedDPoPNonce
  <2>3. p \in {"evict", "send"} /\ n \in Nonces \cup {0} /\ caller[c] \in CallerState
    BY <1>0
  <2> HIDE DEF p, n
  <2>4. caller' \in [Callers -> CallerState]
    BY <1>0, <2>1, <2>2, <2>3, Zenon
  <2>5. QED
    BY <1>9, <2>4 DEF cachedDPoPNonce, TypeOK, server
<1>10. ASSUME NEW c \in Callers, EvictNonce(c) PROVE TypeOK'
  <2>1. caller' \in [Callers -> CallerState]
    BY <1>0, <1>10 DEF EvictNonce, Goto, CallerState
  <2>2. QED
    BY <1>10, <2>1 DEF EvictNonce, TypeOK, server
<1>11. ASSUME NEW c \in Callers, RefuseRequest(c) PROVE TypeOK'
  <2>1. caller' \in [Callers -> CallerState]
    <3>1. \E st \in Statuses, n \in Headers \cup {wanted} : Answer(c, Error(st, n))
      BY <1>11 DEF RefuseRequest, Statuses
    <3>2. QED
      BY <3>1, ErrorType, AnswerType
  <2>2. QED
    BY <1>11, <2>1 DEF RefuseRequest, TypeOK, server
<1>12. ASSUME NEW c \in Callers, AcceptToken(c) PROVE TypeOK'
  <2> DEFINE s == caller[c].src
             g == current[s][1]
             n == current[s][2]
  <2>1. s \in Sources
    BY <1>12 DEF AcceptToken, Admitted, Holding
  <2>2. g \in Grants /\ n \in Gens
    BY <2>1 DEF TypeOK, Tokens
  <2>3. PICK token \in Tokens \cup {None}, fit \in BOOLEAN, h \in Headers :
          /\ \/ /\ n < MaxGen
                /\ newest' = [newest EXCEPT ![s][g] = n + 1]
                /\ unsure' = unsure \cup {<<s, g>>}
                /\ token = <<g, n + 1>>
             \/ UNCHANGED <<newest, unsure>> /\ token = None
          /\ Answer(c, [status |-> "ok", nonce |-> h, token |-> token, fit |-> fit])
    <3>1. n < MaxGen => <<g, n + 1>> \in Tokens
      BY <2>2, RefreshAssumption DEF Tokens, Gens
    <3> HIDE DEF s, g, n
    <3>2. PICK fit \in BOOLEAN, h \in Headers :
            \/ /\ n < MaxGen
               /\ newest' = [newest EXCEPT ![s][g] = n + 1]
               /\ unsure' = unsure \cup {<<s, g>>}
               /\ Answer(c, [status |-> "ok", nonce |-> h, token |-> <<g, n + 1>>,
                             fit |-> fit])
            \/ /\ UNCHANGED <<newest, unsure>>
               /\ Answer(c, [status |-> "ok", nonce |-> h, token |-> None,
                             fit |-> fit])
      BY <1>12, Zenon DEF AcceptToken, s, g, n
    <3>3. None \in Tokens \cup {None}
      OBVIOUS
    <3>4. QED
      BY <3>1, <3>2, <3>3, Zenon
  <2>4. [status |-> "ok", nonce |-> h, token |-> token, fit |-> fit] \in Replies
    BY DEF Replies, Statuses, Headers, TypeOK
  <2>5. caller' \in [Callers -> CallerState]
    BY <2>3, <2>4, AnswerType
  <2>6. newest' \in [Sources -> [Grants -> Gens]]
    <3>1. newest \in [Sources -> [Grants -> Gens]]
      BY DEF TypeOK
    <3>2. n < MaxGen => n + 1 \in Gens
      BY <2>2, RefreshAssumption DEF Gens
    <3> HIDE DEF s, g, n
    <3>3. QED
      BY <2>1, <2>2, <2>3, <3>1, <3>2
  <2>7. unsure' \subseteq Sources \X Grants
    <3> HIDE DEF s, g, n
    <3>1. QED
      BY <2>1, <2>2, <2>3 DEF TypeOK
  <2>8. UNCHANGED <<config, auth, nonces, current, mu, fetched, revoked, ended,
                    wanted>>
    BY <1>12 DEF AcceptToken
  <2>9. QED
    BY <2>5, <2>6, <2>7, <2>8 DEF TypeOK
<1>13. ASSUME NEW c \in Callers, RejectToken(c) PROVE TypeOK'
  <2>1. caller[c].src \in Sources /\ current[caller[c].src][1] \in Grants
    BY <1>13 DEF RejectToken, Admitted, Holding, TypeOK, Tokens
  <2>2. caller' \in [Callers -> CallerState]
    <3>1. \E n \in Headers \cup {wanted} : Answer(c, Error("invalidGrant", n))
      BY <1>13 DEF RejectToken
    <3>2. QED
      BY <3>1, ErrorType, AnswerType DEF Statuses
  <2>3. revoked' \subseteq Sources \X Grants
    <3>1. revoked' \subseteq revoked \cup {<<caller[c].src, current[caller[c].src][1]>>}
      BY <1>13 DEF RejectToken
    <3>2. revoked \subseteq Sources \X Grants
      BY DEF TypeOK
    <3>3. QED
      BY <2>1, <3>1, <3>2
  <2>4. UNCHANGED <<config, auth, nonces, current, mu, fetched, newest, ended,
                    wanted, unsure>>
    BY <1>13 DEF RejectToken
  <2>5. QED
    BY <2>2, <2>3, <2>4 DEF TypeOK
<1>14. ASSUME NEW c \in Callers, doRequestWithDPoPRetry(c) PROVE TypeOK'
  <2>1. caller[c] \in CallerState /\ caller[c].reply.nonce \in Nonces \cup {0}
    BY <1>0 DEF CallerState, Replies
  <2>2. ASSUME NEW r \in CallerState, NEW n \in Nonces \cup {0}
        PROVE  /\ [r EXCEPT !.pc = "send", !.nonce = n, !.retry = TRUE] \in CallerState
               /\ [r EXCEPT !.pc = "result"] \in CallerState
    BY DEF CallerState
  <2>3. PICK r \in CallerState : caller' = [caller EXCEPT ![c] = r]
    BY <1>14, <2>1, <2>2, Zenon DEF doRequestWithDPoPRetry
  <2>4. caller' \in [Callers -> CallerState]
    BY <1>0, <2>3
  <2>5. nonces' \in [nonce : Nonces \cup {0}, expired : BOOLEAN]
    BY <1>0, <1>14, <2>1 DEF doRequestWithDPoPRetry
  <2>6. UNCHANGED <<config, auth, current, mu, fetched, newest, revoked, ended,
                    wanted, unsure>>
    BY <1>14 DEF doRequestWithDPoPRetry, server
  <2>7. QED
    BY <2>4, <2>5, <2>6 DEF TypeOK
<1>15. ASSUME NEW c \in Callers, GrantSucceeds(c) PROVE TypeOK'
  <2>1. caller' \in [Callers -> CallerState]
    BY <1>0, <1>15 DEF GrantSucceeds, Goto, CallerState
  <2>2. caller[c].method \in Methods
    BY <1>0 DEF CallerState
  <2>3. auth' \in [method : Methods, fallback : BOOLEAN]
    BY <1>0, <1>15, <2>2 DEF GrantSucceeds
  <2>4. QED
    BY <1>15, <2>1, <2>3 DEF GrantSucceeds, TypeOK, server
<1>16. ASSUME NEW c \in Callers, FallBack(c) PROVE TypeOK'
  <2>1. caller' \in [Callers -> CallerState]
    BY <1>0, <1>16 DEF FallBack, CallerState, Methods
  <2>2. QED
    BY <1>16, <2>1 DEF FallBack, TypeOK, server
<1>17. ASSUME NEW c \in Callers, GrantFails(c) PROVE TypeOK'
  <2>1. caller' \in [Callers -> CallerState]
    BY <1>0, <1>17 DEF GrantFails, Goto, CallerState
  <2>2. QED
    BY <1>17, <2>1 DEF GrantFails, TypeOK, server
<1>18. ASSUME NEW c \in Callers, Adopt(c) PROVE TypeOK'
  <2>1. caller[c].src \in Sources /\ caller[c].reply.token \in Tokens \cup {None}
    BY <1>0, <1>18 DEF Adopt, Holding, CallerState, Replies
  <2>2. current' \in [Sources -> Tokens]
    BY <1>18, <2>1 DEF Adopt, TypeOK
  <2>3. unsure' \subseteq Sources \X Grants
    BY <1>18 DEF Adopt, TypeOK
  <2>4. /\ mu' \in [Sources -> Callers \cup {NoCaller}]
        /\ caller' \in [Callers -> CallerState]
    BY <1>18, IdleType DEF Adopt, TypeOK
  <2>5. UNCHANGED <<config, auth, nonces, fetched, newest, revoked, ended, wanted>>
    BY <1>18 DEF Adopt
  <2>6. QED
    BY <2>2, <2>3, <2>4, <2>5 DEF TypeOK
<1>19. ASSUME NEW c \in Callers, ReturnError(c) PROVE TypeOK'
  BY <1>19, IdleType DEF ReturnError, TypeOK, server
<1>20. CASE UNCHANGED vars
  BY <1>20 DEF vars, TypeOK
<1>21. QED
  BY <1>1, <1>2, <1>3, <1>4, <1>5, <1>6, <1>7, <1>8, <1>9, <1>10, <1>11, <1>12,
     <1>13, <1>14, <1>15, <1>16, <1>17, <1>18, <1>19, <1>20 DEF Next

-----------------------------------------------------------------------------
(* Preservation of the invariant *)

\* Call d goes on without a token to adopt that it had not before.
GoesOn(d) ==
  /\ caller[d].pc # "idle" /\ caller'[d].pc # "idle"
  /\ caller'[d].src = caller[d].src
  /\ caller'[d].pc \in Answered /\ caller'[d].reply.token # None =>
       caller[d].pc \in Answered /\ caller'[d].reply = caller[d].reply

\* A step that only moves calls on keeps the invariant.
LEMMA QuietStep ==
  ASSUME Inv, TypeOK',
         UNCHANGED <<current, mu, fetched, newest, revoked, ended, unsure>>,
         \A d \in Callers : caller'[d] = caller[d] \/ GoesOn(d)
  PROVE  Inv'
<1>1. Holding'
  BY DEF Inv, Holding, GoesOn
<1>2. Pending'
  BY DEF Inv, Pending, Carrying, GoesOn
<1>3. (Known /\ FetchedNext /\ Ahead /\ NeverReplays)'
  BY DEF Inv, Known, FetchedNext, Ahead, NeverReplays
<1>4. QED
  BY <1>1, <1>2, <1>3 DEF Inv

\* An answer without a refresh token only moves its call on.
LEMMA TokenlessAnswer ==
  ASSUME TypeOK, NEW c \in Callers, NEW reply \in Replies, reply.token = None,
         caller[c].pc = "send", Answer(c, reply)
  PROVE  \A d \in Callers : caller'[d] = caller[d] \/ GoesOn(d)
<1>1. /\ caller \in [Callers -> CallerState]
      /\ caller[c] \in CallerState
  BY DEF TypeOK
<1>2. /\ \A d \in Callers : d # c => caller'[d] = caller[d]
      /\ caller'[c].src = caller[c].src
      /\ \/ caller'[c].pc = "reply" /\ caller'[c].reply = reply
         \/ caller'[c].pc = "failed"
  BY <1>1 DEF Answer, CallerState
<1>3. QED
  BY <1>2 DEF GoesOn, Answered

\* The first state satisfies the invariant.
LEMMA InitInv == Init => Inv
<1> SUFFICES ASSUME Init PROVE Inv
  OBVIOUS
<1>1. TypeOK
  BY InitType
<1>2. \A c \in Callers : caller[c].pc = "idle"
  BY DEF Init, Idle
<1>3. \A s \in Sources : /\ current[s] = <<1, 0>>
                         /\ fetched[s] = None
                         /\ \A g \in Grants : newest[s][g] = 0
  BY DEF Init
<1>4. 1 \in Grants
  BY RefreshAssumption DEF Grants
<1>5. revoked = {} /\ ended = {} /\ unsure = {}
  BY DEF Init
<1>6. Holding /\ Pending
  BY <1>2 DEF Holding, Pending, Answered
<1>7. Known /\ FetchedNext /\ Ahead /\ NeverReplays
  BY <1>3, <1>4, <1>5 DEF Known, FetchedNext, Ahead, NeverReplays
<1>8. QED
  BY <1>1, <1>6, <1>7 DEF Inv

\* Calls under way have sources of their own.
LEMMA OwnSource ==
  ASSUME Holding, NEW c \in Callers, NEW d \in Callers, c # d,
         caller[c].pc # "idle", caller[d].pc # "idle"
  PROVE  caller[c].src # caller[d].src
BY DEF Holding

\* A rotation puts the new token into the answer and the grant into doubt.
LEMMA AcceptStep ==
  ASSUME Inv, TypeOK', NEW c \in Callers, AcceptToken(c)
  PROVE  Inv'
<1> DEFINE s == caller[c].src
           g == current[s][1]
           n == current[s][2]
<1>1. s \in Sources /\ caller[c].pc = "send"
  BY DEF AcceptToken, Admitted, Inv, Holding
<1>2. g \in Grants /\ n \in Gens
  BY <1>1 DEF Inv, TypeOK, Tokens
<1>3. /\ UNCHANGED <<current, mu, fetched, revoked, ended>>
      /\ <<s, g>> \notin revoked
  BY DEF AcceptToken
<1> HIDE DEF s, g, n
<1>4. PICK fit \in BOOLEAN, h \in Headers :
        \/ /\ n < MaxGen
           /\ newest' = [newest EXCEPT ![s][g] = n + 1]
           /\ unsure' = unsure \cup {<<s, g>>}
           /\ Answer(c, [status |-> "ok", nonce |-> h, token |-> <<g, n + 1>>,
                         fit |-> fit])
        \/ /\ UNCHANGED <<newest, unsure>>
           /\ Answer(c, [status |-> "ok", nonce |-> h, token |-> None, fit |-> fit])
  BY Zenon DEF AcceptToken, s, g, n
<1>5. CASE /\ UNCHANGED <<newest, unsure>>
           /\ Answer(c, [status |-> "ok", nonce |-> h, token |-> None, fit |-> fit])
  <2> DEFINE reply == [status |-> "ok", nonce |-> h, token |-> None, fit |-> fit]
  <2>1. reply \in Replies /\ reply.token = None
    BY DEF Replies, Statuses, Headers, Inv, TypeOK
  <2>2. Answer(c, reply)
    BY <1>5
  <2> HIDE DEF reply
  <2>3. \A d \in Callers : caller'[d] = caller[d] \/ GoesOn(d)
    BY <1>1, <2>1, <2>2, TokenlessAnswer DEF Inv
  <2>4. QED
    BY <1>3, <1>5, <2>3, QuietStep
<1>6. CASE /\ n < MaxGen
           /\ newest' = [newest EXCEPT ![s][g] = n + 1]
           /\ unsure' = unsure \cup {<<s, g>>}
           /\ Answer(c, [status |-> "ok", nonce |-> h, token |-> <<g, n + 1>>,
                         fit |-> fit])
  <2> DEFINE reply == [status |-> "ok", nonce |-> h, token |-> <<g, n + 1>>,
                       fit |-> fit]
  <2>1. reply.token = <<g, n + 1>> /\ reply.status = "ok"
    OBVIOUS
  <2>2. Answer(c, reply)
    BY <1>6
  <2> HIDE DEF reply
  <2>3. /\ \A d \in Callers : d # c => caller'[d] = caller[d]
        /\ caller'[c].src = s
        /\ \/ caller'[c].pc = "reply" /\ caller'[c].reply = reply
           \/ caller'[c].pc = "failed"
    BY <2>2 DEF Answer, CallerState, Inv, TypeOK, s
  <2>4. /\ newest'[s][g] = n + 1
        /\ \A k \in Grants : k # g => newest'[s][k] = newest[s][k]
        /\ \A u \in Sources : u # s => newest'[u] = newest[u]
    BY <1>1, <1>2, <1>6 DEF Inv, TypeOK
  <2>5. Holding'
    BY <1>1, <1>3, <2>3 DEF Inv, Holding, s
  <2>6. Pending'
    <3> SUFFICES ASSUME NEW d \in Callers, caller'[d].pc \in Answered,
                        caller'[d].reply.token # None
                 PROVE  /\ caller'[d].reply.status = "ok"
                        /\ Carrying(caller[d].src, caller[d].reply.token)'
      BY DEF Pending
    <3>1. CASE d = c
      BY <1>3, <2>1, <2>3, <2>4, <3>1 DEF Carrying, Answered, s, g
    <3>2. CASE d # c
      <4>1. caller[d].src # s /\ caller[d].src \in Sources /\ caller'[d] = caller[d]
        BY <1>1, <2>3, <3>2, OwnSource DEF Inv, Holding, Answered, s
      <4>2. QED
        BY <1>3, <2>4, <4>1 DEF Inv, Pending, Carrying
    <3>3. QED
      BY <3>1, <3>2
  <2>7. Known'
    BY <1>1, <1>3, <1>6, <2>4 DEF Inv, Known, g
  <2>8. FetchedNext'
    BY <1>3 DEF Inv, FetchedNext
  <2>9. Ahead'
    BY <1>2, <1>3, <2>4 DEF Inv, Ahead, Grants, g
  <2>10. NeverReplays'
    BY <1>3, <1>6 DEF Inv, NeverReplays
  <2>11. QED
    BY <2>5, <2>6, <2>7, <2>8, <2>9, <2>10 DEF Inv
<1>7. QED
  BY <1>4, <1>5, <1>6

\* A grant is revoked only when its source missed a rotation.
LEMMA RejectStep ==
  ASSUME Inv, TypeOK', NEW c \in Callers, RejectToken(c)
  PROVE  Inv'
<1> DEFINE s == caller[c].src
           g == current[s][1]
<1>1. s \in Sources /\ caller[c].pc = "send"
  BY DEF RejectToken, Admitted, Inv, Holding
<1>2. /\ UNCHANGED <<current, mu, fetched, newest, ended, unsure>>
      /\ revoked' \subseteq revoked \cup {<<s, g>>}
      /\ newest[s][g] = current[s][2] => revoked' = revoked
  BY DEF RejectToken
<1>3. \A d \in Callers : caller'[d] = caller[d] \/ GoesOn(d)
  <2>1. PICK h \in Headers : Answer(c, Error("invalidGrant", h))
    BY DEF RejectToken
  <2>2. Error("invalidGrant", h) \in Replies
    BY ErrorType DEF Inv, Statuses
  <2>3. Error("invalidGrant", h).token = None
    BY DEF Error
  <2>4. QED
    BY <1>1, <2>1, <2>2, <2>3, TokenlessAnswer DEF Inv
<1>4. \A d \in Callers : d # c => caller'[d] = caller[d]
  BY DEF RejectToken, Answer, Inv, TypeOK
<1>5. Holding'
  BY <1>2, <1>3 DEF Inv, Holding, GoesOn
<1>6. Pending'
  <2> SUFFICES ASSUME NEW d \in Callers, caller'[d].pc \in Answered,
                      caller'[d].reply.token # None
               PROVE  /\ caller'[d].reply.status = "ok"
                      /\ Carrying(caller[d].src, caller[d].reply.token)'
    BY DEF Pending
  <2>1. d # c /\ caller'[d] = caller[d]
    BY <1>1, <1>3, <1>4 DEF GoesOn, Answered
  <2>2. caller[d].src # s
    BY <1>1, <2>1, OwnSource DEF Inv, Answered
  <2> HIDE DEF s, g
  <2>3. QED
    BY <1>2, <2>1, <2>2 DEF Inv, Pending, Carrying
<1>7. Known' /\ FetchedNext' /\ Ahead'
  BY <1>2 DEF Inv, Known, FetchedNext, Ahead
<1>8. NeverReplays'
  BY <1>1, <1>2 DEF Inv, Known, NeverReplays
<1>9. QED
  BY <1>5, <1>6, <1>7, <1>8 DEF Inv

\* A call that returns, with or without a token adopted, leaves its source in
\* step.
LEMMA AdoptStep ==
  ASSUME Inv, TypeOK', NEW c \in Callers, Adopt(c)
  PROVE  Inv'
<1> DEFINE s == caller[c].src
           g == current[s][1]
           token == caller[c].reply.token
<1>1. s \in Sources /\ caller[c].pc = "adopt"
  BY DEF Adopt, Inv, Holding
<1>2. /\ UNCHANGED <<fetched, newest, revoked, ended>>
      /\ mu' = [mu EXCEPT ![s] = NoCaller]
      /\ caller' = [caller EXCEPT ![c] = Idle]
      /\ current' = [current EXCEPT ![s] = IF token = None THEN @ ELSE token]
      /\ unsure' = IF token = None THEN unsure ELSE unsure \ {<<s, token[1]>>}
  BY DEF Adopt
<1>3. token # None => token = <<g, newest[s][g]>> /\ <<s, g>> \notin revoked
  BY <1>1 DEF Inv, Pending, Carrying, Answered
<1>4. g \in Grants /\ current[s] \in Tokens
  BY <1>1 DEF Inv, TypeOK, Tokens
<1> HIDE DEF s, g, token
<1>5. /\ \A u \in Sources : u # s => current'[u] = current[u]
      /\ current'[s][1] = g
      /\ token # None => current'[s][2] = newest[s][g]
      /\ token = None => current'[s] = current[s]
  BY <1>1, <1>2, <1>3 DEF Inv, TypeOK, g
<1>6. /\ \A d \in Callers : d # c => caller'[d] = caller[d]
      /\ caller'[c].pc = "idle"
  BY <1>2 DEF Inv, TypeOK, Idle
<1>7. \A d \in Callers :
        d # c /\ caller[d].pc # "idle" => caller[d].src \in Sources \ {s}
  BY <1>1, OwnSource DEF Inv, Holding, s
<1>8. \A u \in Sources : u # s => mu'[u] = mu[u]
  BY <1>2 DEF Inv, TypeOK
<1>9. Holding'
  BY <1>6, <1>7, <1>8 DEF Inv, Holding
<1>10. Pending'
  <2> SUFFICES ASSUME NEW d \in Callers, caller'[d].pc \in Answered,
                      caller'[d].reply.token # None
               PROVE  /\ caller'[d].reply.status = "ok"
                      /\ Carrying(caller[d].src, caller[d].reply.token)'
    BY DEF Pending
  <2>1. d # c /\ caller'[d] = caller[d] /\ caller[d].src \in Sources \ {s}
    BY <1>6, <1>7 DEF Answered
  <2>2. /\ caller[d].reply.status = "ok"
        /\ Carrying(caller[d].src, caller[d].reply.token)
    BY <2>1 DEF Inv, Pending
  <2>3. current'[caller[d].src] = current[caller[d].src]
    BY <1>5, <2>1
  <2>4. UNCHANGED <<newest, revoked>>
    BY <1>2
  <2>5. QED
    BY <2>1, <2>2, <2>3, <2>4 DEF Carrying
<1>11. \A u \in Sources : current'[u][1] = current[u][1]
  BY <1>5 DEF g
<1>12. Known'
  <2> SUFFICES ASSUME NEW u \in Sources, <<u, current'[u][1]>> \notin unsure'
               PROVE  current'[u][2] = newest'[u][current'[u][1]]
    BY DEF Known
  <2>1. CASE u = s /\ token # None
    BY <1>2, <1>5, <2>1
  <2>2. CASE u = s /\ token = None
    BY <1>2, <1>5, <2>2 DEF Inv, Known
  <2>3. CASE u # s
    <3>1. <<u, current[u][1]>> \notin unsure
      BY <1>2, <1>11, <2>3
    <3>2. QED
      BY <1>2, <1>5, <2>3, <3>1 DEF Inv, Known
  <2>4. QED
    BY <2>1, <2>2, <2>3
<1>13. FetchedNext' /\ Ahead'
  BY <1>2, <1>11 DEF Inv, FetchedNext, Ahead
<1>14. NeverReplays'
  BY <1>2, <1>3 DEF Inv, NeverReplays
<1>15. QED
  BY <1>9, <1>10, <1>12, <1>13, <1>14 DEF Inv

\* Taking and giving back the mutex touch no token.
LEMMA MutexStep ==
  ASSUME Inv, TypeOK', NEW c \in Callers,
         ReturnError(c) \/ \E s \in Sources : Lock(c, s)
  PROVE  Inv'
<1>1. UNCHANGED <<current, fetched, newest, revoked, ended, unsure>>
  BY DEF ReturnError, Lock, server
<1>2. /\ \A d \in Callers : d # c => caller'[d] = caller[d]
      /\ caller'[c].pc \notin Answered
  <2>1. CASE ReturnError(c)
    BY <2>1 DEF ReturnError, Idle, Inv, TypeOK, Answered
  <2>2. ASSUME NEW s \in Sources, Lock(c, s)
        PROVE  /\ \A d \in Callers : d # c => caller'[d] = caller[d]
               /\ caller'[c].pc \notin Answered
    <3>1. caller' = [caller EXCEPT ![c] = [Idle EXCEPT !.pc = "method", !.src = s]]
      BY <2>2 DEF Lock
    <3>2. [Idle EXCEPT !.pc = "method", !.src = s].pc = "method"
      BY DEF Idle
    <3>3. QED
      BY <3>1, <3>2 DEF Inv, TypeOK, Answered
  <2>3. QED
    BY <2>1, <2>2
<1>3. Holding'
  <2>1. CASE ReturnError(c)
    <3>1. \A d \in Callers :
            d # c /\ caller[d].pc # "idle" => caller[d].src # caller[c].src
      BY <2>1, OwnSource DEF ReturnError, Inv
    <3>2. /\ caller'[c].pc = "idle"
          /\ \A u \in Sources : u # caller[c].src => mu'[u] = mu[u]
      BY <2>1 DEF ReturnError, Idle, Inv, TypeOK
    <3>3. QED
      BY <1>2, <3>1, <3>2 DEF Inv, Holding
  <2>2. ASSUME NEW s \in Sources, Lock(c, s) PROVE Holding'
    <3>1. /\ mu[s] = NoCaller
          /\ mu' = [mu EXCEPT ![s] = c]
          /\ caller' = [caller EXCEPT ![c] = [Idle EXCEPT !.pc = "method", !.src = s]]
      BY <2>2 DEF Lock
    <3>2. \A d \in Callers : caller[d].pc # "idle" => caller[d].src # s
      BY <3>1, RefreshAssumption DEF Inv, Holding
    <3>3. caller'[c].src = s
      <4>1. [Idle EXCEPT !.pc = "method", !.src = s].src = s
        BY DEF Idle
      <4>2. caller'[c] = [Idle EXCEPT !.pc = "method", !.src = s]
        BY <3>1, Zenon DEF Inv, TypeOK
      <4>3. QED
        BY <4>1, <4>2, Zenon
    <3>4. mu'[s] = c /\ \A u \in Sources : u # s => mu'[u] = mu[u]
      BY <3>1 DEF Inv, TypeOK
    <3>5. QED
      BY <1>2, <3>2, <3>3, <3>4 DEF Inv, Holding
  <2>3. QED
    BY <2>1, <2>2
<1>4. Pending'
  BY <1>1, <1>2 DEF Inv, Pending, Carrying
<1>5. Known' /\ FetchedNext' /\ Ahead' /\ NeverReplays'
  BY <1>1 DEF Inv, Known, FetchedNext, Ahead, NeverReplays
<1>6. QED
  BY <1>3, <1>4, <1>5 DEF Inv

\* The token of a new grant waits for Replace, which waits for the mutex.
LEMMA ApplicationStep ==
  ASSUME Inv, TypeOK', NEW s \in Sources, NewGrant(s) \/ Replace(s)
  PROVE  Inv'
<1>1. UNCHANGED <<mu, caller, newest, revoked, unsure>>
  BY DEF NewGrant, Replace, server
<1>2. Holding'
  BY <1>1 DEF Inv, Holding
<1>3. NeverReplays'
  BY <1>1 DEF Inv, NeverReplays
<1>4. current[s][1] \in Grants
  BY DEF Inv, TypeOK, Tokens
<1>5. CASE NewGrant(s)
  <2> DEFINE g == current[s][1]
  <2>1. /\ UNCHANGED current
        /\ fetched' = [fetched EXCEPT ![s] = <<g + 1, 0>>]
        /\ ended' = ended \cup {<<s, g>>}
    BY <1>5 DEF NewGrant
  <2>2. Pending' /\ Known'
    BY <1>1, <2>1 DEF Inv, Pending, Carrying, Known
  <2>3. FetchedNext'
    <3>1. <<g + 1, 0>> # None
      BY <1>4 DEF None, Grants
    <3>2. fetched'[s] = <<g + 1, 0>>
      BY <2>1 DEF Inv, TypeOK
    <3>3. \A u \in Sources :
            u # s => fetched'[u] = fetched[u]
                     /\ (<<u, current[u][1]>> \in ended' => <<u, current[u][1]>> \in ended)
      BY <2>1 DEF Inv, TypeOK
    <3> HIDE DEF g
    <3>4. QED
      BY <2>1, <3>1, <3>2, <3>3 DEF Inv, FetchedNext, g
  <2>4. Ahead'
    BY <1>1, <1>4, <2>1 DEF Inv, Ahead, Grants
  <2>5. QED
    BY <1>2, <1>3, <2>2, <2>3, <2>4 DEF Inv
<1>6. CASE Replace(s)
  <2>1. /\ UNCHANGED ended
        /\ mu[s] = NoCaller
        /\ fetched[s] = <<current[s][1] + 1, 0>>
        /\ current' = [current EXCEPT ![s] = fetched[s]]
        /\ fetched' = [fetched EXCEPT ![s] = None]
    BY <1>6 DEF Replace, server, Inv, FetchedNext
  <2>2. /\ current'[s] = <<current[s][1] + 1, 0>>
        /\ fetched'[s] = None
        /\ \A u \in Sources : u # s => current'[u] = current[u] /\ fetched'[u] = fetched[u]
    BY <2>1 DEF Inv, TypeOK
  <2>3. current'[s][1] \in Grants /\ current'[s][1] = current[s][1] + 1
    BY <2>2 DEF TypeOK, Tokens
  <2>4. /\ newest[s][current'[s][1]] = 0
        /\ <<s, current'[s][1]>> \notin ended
    BY <1>4, <2>3 DEF Inv, Ahead, Grants
  <2>5. Pending'
    <3>1. \A d \in Callers : caller[d].pc \in Answered => caller[d].src \in Sources \ {s}
      BY <2>1, RefreshAssumption DEF Inv, Holding, Answered
    <3>2. QED
      BY <1>1, <2>2, <3>1 DEF Inv, Pending, Carrying
  <2>6. Known'
    BY <1>1, <2>2, <2>4 DEF Inv, Known
  <2>7. FetchedNext'
    BY <2>1, <2>2, <2>4 DEF Inv, FetchedNext
  <2>8. Ahead'
    BY <1>1, <1>4, <2>1, <2>2, <2>3 DEF Inv, Ahead, Grants
  <2>9. QED
    BY <1>2, <1>3, <2>5, <2>6, <2>7, <2>8 DEF Inv
<1>7. QED
  BY <1>5, <1>6

\* Every step keeps the invariant.
LEMMA StepInv == Inv /\ [Next]_vars => Inv'
<1> SUFFICES ASSUME Inv, [Next]_vars PROVE Inv'
  OBVIOUS
<1>0. TypeOK'
  BY StepType DEF Inv
<1>1. caller \in [Callers -> CallerState]
  BY DEF Inv, TypeOK
<1>2. CASE ResolveAuthMethod \/ OtherGrant \/ ExpireNonce \/ ChangeNonce
  <2>1. UNCHANGED <<current, mu, fetched, newest, revoked, ended, unsure, caller>>
    BY <1>2 DEF ResolveAuthMethod, OtherGrant, ExpireNonce, ChangeNonce, server
  <2>2. QED
    BY <1>0, <2>1, QuietStep
<1>3. ASSUME NEW s \in Sources, NewGrant(s) \/ Replace(s) PROVE Inv'
  BY <1>0, <1>3, ApplicationStep
<1>4. ASSUME NEW c \in Callers, \E s \in Sources : Lock(c, s) PROVE Inv'
  BY <1>0, <1>4, MutexStep
<1>5. ASSUME NEW c \in Callers,
             \/ authMethodState(c) \/ cachedDPoPNonce(c) \/ EvictNonce(c)
             \/ doRequestWithDPoPRetry(c)
             \/ GrantSucceeds(c) \/ FallBack(c) \/ GrantFails(c)
      PROVE  Inv'
  <2>1. UNCHANGED <<current, mu, fetched, newest, revoked, ended, unsure>>
    BY <1>5 DEF authMethodState, cachedDPoPNonce, EvictNonce,
                doRequestWithDPoPRetry, GrantSucceeds, FallBack, GrantFails, server
  <2>2. \A d \in Callers : d # c => caller'[d] = caller[d]
    BY <1>1, <1>5 DEF authMethodState, cachedDPoPNonce, EvictNonce,
                doRequestWithDPoPRetry, GrantSucceeds, FallBack, GrantFails, Goto
  <2>3. GoesOn(c)
    <3>1. CASE authMethodState(c)
      BY <1>1, <3>1 DEF authMethodState, GoesOn, CallerState, Answered
    <3>2. CASE cachedDPoPNonce(c)
      BY <1>1, <3>2 DEF cachedDPoPNonce, GoesOn, CallerState, Answered
    <3>3. CASE EvictNonce(c)
      BY <1>1, <3>3 DEF EvictNonce, Goto, GoesOn, CallerState, Answered
    <3>4. CASE doRequestWithDPoPRetry(c)
      BY <1>1, <3>4 DEF doRequestWithDPoPRetry, GoesOn, CallerState, Answered
    <3>5. CASE GrantSucceeds(c)
      BY <1>1, <3>5 DEF GrantSucceeds, Goto, GoesOn, CallerState, Answered
    <3>6. CASE FallBack(c)
      BY <1>1, <3>6 DEF FallBack, GoesOn, CallerState, Answered
    <3>7. CASE GrantFails(c)
      BY <1>1, <3>7 DEF GrantFails, Goto, GoesOn, CallerState, Answered
    <3>8. QED
      BY <1>5, <3>1, <3>2, <3>3, <3>4, <3>5, <3>6, <3>7
  <2>4. QED
    BY <1>0, <2>1, <2>2, <2>3, QuietStep
<1>6. ASSUME NEW c \in Callers, RefuseRequest(c) PROVE Inv'
  <2>1. PICK st \in Statuses, n \in Headers \cup {wanted} : Answer(c, Error(st, n))
    BY <1>6 DEF RefuseRequest, Statuses
  <2>2. Error(st, n) \in Replies /\ Error(st, n).token = None
    BY ErrorType DEF Inv, Error
  <2>3. \A d \in Callers : caller'[d] = caller[d] \/ GoesOn(d)
    BY <1>6, <2>1, <2>2, TokenlessAnswer DEF RefuseRequest, Inv
  <2>4. UNCHANGED <<current, mu, fetched, newest, revoked, ended, unsure>>
    BY <1>6 DEF RefuseRequest, server
  <2>5. QED
    BY <1>0, <2>3, <2>4, QuietStep
<1>7. ASSUME NEW c \in Callers,
             AcceptToken(c) \/ RejectToken(c) \/ Adopt(c) \/ ReturnError(c)
      PROVE  Inv'
  BY <1>0, <1>7, AcceptStep, RejectStep, AdoptStep, MutexStep
<1>8. CASE UNCHANGED vars
  BY <1>0, <1>8, QuietStep DEF vars
<1>9. QED
  BY <1>2, <1>3, <1>4, <1>5, <1>6, <1>7, <1>8 DEF Next

-----------------------------------------------------------------------------
(* Theorems *)

\* Every reachable state is well typed; in particular a source is never left
\* with an empty refresh token.
THEOREM TypeCorrect == Spec => []TypeOK
<1>1. Spec => []Inv
  BY InitInv, StepInv, PTL DEF Spec
<1>2. Inv => TypeOK
  BY DEF Inv
<1>3. QED
  BY <1>1, <1>2, PTL

\* Whatever Refresh calls, retries, fallbacks and replacements interleave, a
\* source presents a rotated token only when it never got the answer to the
\* rotation.
THEOREM RotatedTokenNotReplayed == Spec => []NeverReplays
<1>1. Spec => []Inv
  BY InitInv, StepInv, PTL DEF Spec
<1>2. Inv => NeverReplays
  BY DEF Inv
<1>3. QED
  BY <1>1, <1>2, PTL

\* Between calls a source holds the newest token of the latest grant it was
\* given, unless it missed a rotation.
THEOREM SourceInStep == Spec => []InStep
<1>1. Spec => []Inv
  BY InitInv, StepInv, PTL DEF Spec
<1>2. Inv => InStep
  BY DEF Inv, Known, FetchedNext, InStep
<1>3. QED
  BY <1>1, <1>2, PTL

-----------------------------------------------------------------------------
(* Client authentication that was a guess *)

Guessing == config.guess /\ config.accepts # {}

\* The client authentication was not what the server refused first.
RefusedOtherwise(r) == r.seen \cap {"badRequest", "invalidGrant"} # {}

\* The method of the RP is either still a guess, or one that worked.
SharedMethod(a, accepts) ==
  IF a.fallback THEN a.method = "post" ELSE a.method \in accepts

\* So is the one a call works with, and basic after post only because the
\* server accepts it or refused post for something else.
CallMethod(r, accepts) ==
  r.pc \notin {"idle", "method"} =>
    \/ r.method \in accepts
    \/ r.fallback /\ r.method = "post"
    \/ RefusedOtherwise(r)

\* A reply is remembered, and blames the method only if that is not accepted.
CallReply(r, accepts) ==
  /\ r.pc \in {"reply", "result"} =>
       /\ r.reply.status \in r.seen
       /\ r.reply.status # "lost"
       /\ r.reply.status \in {"ok", "badRequest", "invalidGrant"} =>
            r.method \in accepts
       /\ r.reply.status = "unauthorized" => r.method \notin accepts
  /\ r.pc = "failed" /\ r.reply.status = "unauthorized" => RefusedOtherwise(r)

CallOK(r, accepts) == CallMethod(r, accepts) /\ CallReply(r, accepts)

\* With TypeOK the inductive strengthening of NeverUnauthorized.
GuessInv ==
  Guessing => /\ SharedMethod(auth, config.accepts)
              /\ \A c \in Callers : CallOK(caller[c], config.accepts)

\* The first call works with the guess.
LEMMA InitGuess == Init => GuessInv
BY RefreshAssumption
   DEF Init, GuessInv, Guessing, SharedMethod, CallOK, CallMethod, CallReply, Idle

\* An answer is remembered; one that is lost ends the call.
LEMMA AnswerGuess ==
  ASSUME TypeOK, GuessInv, Guessing, NEW c \in Callers, NEW reply,
         Answer(c, reply), caller[c].pc = "send",
         reply.status # "lost",
         reply.status \in {"ok", "badRequest", "invalidGrant"} =>
           caller[c].method \in config.accepts,
         reply.status = "unauthorized" => caller[c].method \notin config.accepts
  PROVE  \A d \in Callers : CallOK(caller'[d], config.accepts)
<1> DEFINE x == caller[c].seen \cup {reply.status}
<1>1. caller \in [Callers -> CallerState] /\ caller[c] \in CallerState
  BY DEF TypeOK
<1>2. CallOK(caller[c], config.accepts)
  BY DEF GuessInv
<1>3. /\ \A d \in Callers : d # c => caller'[d] = caller[d]
      /\ caller'[c].method = caller[c].method
      /\ caller'[c].fallback = caller[c].fallback
      /\ \/ /\ caller'[c].pc = "reply"
            /\ caller'[c].reply = reply
            /\ caller'[c].seen = x
         \/ /\ caller'[c].pc = "failed"
            /\ caller'[c].reply = NoReply
            /\ caller'[c].seen = caller[c].seen
  <2>1. CASE caller' = [caller EXCEPT ![c].pc = "reply", ![c].reply = reply,
                                      ![c].seen = @ \cup {reply.status}]
    <3>1. caller' = [caller EXCEPT ![c] = [caller[c] EXCEPT
                       !.pc = "reply", !.reply = reply, !.seen = x]]
      BY <1>1, <2>1, Zenon
    <3> HIDE DEF x
    <3>2. QED
      BY <1>1, <3>1 DEF CallerState
  <2>2. CASE caller' = [caller EXCEPT ![c].pc = "failed", ![c].reply = NoReply]
    BY <1>1, <2>2 DEF CallerState
  <2>3. QED
    BY <2>1, <2>2 DEF Answer
<1>4. CallOK(caller'[c], config.accepts)
  BY <1>2, <1>3 DEF CallOK, CallMethod, CallReply, RefusedOtherwise, NoReply
<1>5. QED
  BY <1>3, <1>4 DEF GuessInv

\* Every step keeps it.
LEMMA StepGuess == TypeOK /\ GuessInv /\ [Next]_vars => GuessInv'
<1> SUFFICES ASSUME TypeOK, GuessInv, [Next]_vars, Guessing' PROVE GuessInv'
  BY DEF GuessInv
<1>1. config' = config
  BY DEF Next, vars, ResolveAuthMethod, OtherGrant, ExpireNonce, ChangeNonce,
         NewGrant, Replace, Lock, authMethodState, cachedDPoPNonce, EvictNonce,
         RefuseRequest, AcceptToken, RejectToken, doRequestWithDPoPRetry,
         GrantSucceeds, FallBack, GrantFails, Adopt, ReturnError
<1> DEFINE accepts == config.accepts
<1>2. /\ Guessing
      /\ SharedMethod(auth, accepts)
      /\ \A c \in Callers : CallOK(caller[c], accepts)
  BY <1>1 DEF Guessing, GuessInv
<1>3. /\ caller \in [Callers -> CallerState]
      /\ config \in Configs
      /\ accepts \subseteq Methods
      /\ accepts # {}
      /\ config.guess
  BY <1>2, RefreshAssumption DEF TypeOK, Guessing
<1>4. SUFFICES /\ SharedMethod(auth', accepts)
               /\ \A c \in Callers : CallOK(caller'[c], accepts)
  BY <1>1 DEF GuessInv
<1> HIDE DEF accepts
<1>5. CASE ResolveAuthMethod
  BY <1>2, <1>3, <1>5, RefreshAssumption DEF ResolveAuthMethod, SharedMethod
<1>6. CASE OtherGrant
  <2>1. caller' = caller
    BY <1>6 DEF OtherGrant
  <2>2. \/ auth' = auth
        \/ \E m \in accepts : auth' = [method |-> m, fallback |-> FALSE]
    BY <1>6, Zenon DEF OtherGrant, accepts
  <2>3. QED
    BY <1>2, <2>1, <2>2 DEF SharedMethod
<1>7. CASE ExpireNonce \/ ChangeNonce \/ \E s \in Sources : NewGrant(s) \/ Replace(s)
  BY <1>2, <1>7 DEF ExpireNonce, ChangeNonce, NewGrant, Replace
<1>8. ASSUME NEW c \in Callers,
             (\E s \in Sources : Lock(c, s)) \/ Adopt(c) \/ ReturnError(c)
      PROVE  /\ auth' = auth
             /\ \A d \in Callers : CallOK(caller'[d], accepts)
  <2>1. /\ auth' = auth
        /\ \A d \in Callers : d # c => caller'[d] = caller[d]
        /\ caller'[c].pc \in {"idle", "method"}
    <3>1. CASE \E s \in Sources : Lock(c, s)
      BY <1>3, <3>1 DEF Lock, Idle
    <3>2. CASE Adopt(c) \/ ReturnError(c)
      <4>1. auth' = auth /\ caller' = [caller EXCEPT ![c] = Idle]
        BY <3>2 DEF Adopt, ReturnError
      <4>2. QED
        BY <1>3, <4>1 DEF Idle
    <3>3. QED
      BY <1>8, <3>1, <3>2
  <2>2. QED
    BY <1>2, <2>1 DEF CallOK, CallMethod, CallReply
<1>9. ASSUME NEW c \in Callers, authMethodState(c)
      PROVE  /\ auth' = auth
             /\ \A d \in Callers : CallOK(caller'[d], accepts)
  <2>1. /\ auth' = auth
        /\ \A d \in Callers : d # c => caller'[d] = caller[d]
        /\ caller'[c].pc = "nonce"
        /\ caller'[c].method = auth.method
        /\ caller'[c].fallback = auth.fallback
    BY <1>3, <1>9 DEF authMethodState, CallerState
  <2>2. QED
    BY <1>2, <2>1 DEF CallOK, CallMethod, CallReply, SharedMethod
<1>10. ASSUME NEW c \in Callers, cachedDPoPNonce(c) \/ EvictNonce(c)
       PROVE  /\ auth' = auth
              /\ \A d \in Callers : CallOK(caller'[d], accepts)
  <2>1. /\ auth' = auth
        /\ \A d \in Callers : d # c => caller'[d] = caller[d]
        /\ caller[c].pc \in {"nonce", "evict"}
        /\ caller'[c].pc \in {"evict", "send"}
        /\ caller'[c].method = caller[c].method
        /\ caller'[c].fallback = caller[c].fallback
        /\ caller'[c].seen = caller[c].seen
    BY <1>3, <1>10 DEF cachedDPoPNonce, EvictNonce, Goto, CallerState
  <2>2. QED
    BY <1>2, <2>1 DEF CallOK, CallMethod, CallReply, RefusedOtherwise
<1>11. ASSUME NEW c \in Callers, RefuseRequest(c)
       PROVE  /\ auth' = auth
              /\ \A d \in Callers : CallOK(caller'[d], accepts)
  <2>1. PICK st \in {"unauthorized", "badRequest"}, n \in Headers \cup {wanted} :
          /\ Answer(c, Error(st, n))
          /\ st = "unauthorized" => caller[c].method \notin config.accepts
          /\ st = "badRequest" => caller[c].method \in config.accepts
    BY <1>11 DEF RefuseRequest
  <2>2. Error(st, n) \in Replies /\ Error(st, n).status = st
    BY ErrorType DEF Error, Statuses
  <2>3. QED
    BY <1>2, <1>11, <2>1, <2>2, AnswerGuess DEF RefuseRequest, accepts
<1>12. ASSUME NEW c \in Callers, AcceptToken(c) \/ RejectToken(c)
       PROVE  /\ auth' = auth
              /\ \A d \in Callers : CallOK(caller'[d], accepts)
  <2>1. \E reply : Answer(c, reply) /\ reply.status \in {"ok", "invalidGrant"}
    <3>1. CASE AcceptToken(c)
      <4> DEFINE s == caller[c].src
                 next == <<current[s][1], current[s][2] + 1>>
      <4>1. PICK fit \in BOOLEAN, h \in Headers :
              \/ Answer(c, [status |-> "ok", nonce |-> h, token |-> next, fit |-> fit])
              \/ Answer(c, [status |-> "ok", nonce |-> h, token |-> None, fit |-> fit])
        BY <3>1, Zenon DEF AcceptToken
      <4> HIDE DEF next
      <4>2. QED
        BY <4>1
    <3>2. CASE RejectToken(c)
      <4>1. PICK h \in Headers : Answer(c, Error("invalidGrant", h))
        BY <3>2, Zenon DEF RejectToken
      <4>2. QED
        BY <4>1 DEF Error
    <3>3. QED
      BY <1>12, <3>1, <3>2
  <2>2. PICK reply : Answer(c, reply) /\ reply.status \in {"ok", "invalidGrant"}
    BY <2>1
  <2>3. /\ caller[c].pc = "send"
        /\ caller[c].method \in config.accepts
        /\ auth' = auth
    BY <1>12 DEF AcceptToken, RejectToken, Admitted
  <2>4. QED
    BY <1>2, <2>2, <2>3, AnswerGuess DEF accepts
<1>13. ASSUME NEW c \in Callers, doRequestWithDPoPRetry(c)
       PROVE  /\ auth' = auth
              /\ \A d \in Callers : CallOK(caller'[d], accepts)
  <2>1. /\ auth' = auth
        /\ \A d \in Callers : d # c => caller'[d] = caller[d]
        /\ caller[c].pc = "reply"
        /\ caller'[c].pc \in {"send", "result"}
        /\ caller'[c].method = caller[c].method
        /\ caller'[c].fallback = caller[c].fallback
        /\ caller'[c].seen = caller[c].seen
        /\ caller'[c].reply = caller[c].reply
    BY <1>3, <1>13 DEF doRequestWithDPoPRetry, CallerState
  <2>2. QED
    BY <1>2, <2>1 DEF CallOK, CallMethod, CallReply, RefusedOtherwise
<1>14. ASSUME NEW c \in Callers, GrantSucceeds(c) \/ GrantFails(c)
       PROVE  /\ SharedMethod(auth', accepts)
              /\ \A d \in Callers : CallOK(caller'[d], accepts)
  <2>1. /\ \A d \in Callers : d # c => caller'[d] = caller[d]
        /\ caller[c].pc = "result"
        /\ caller'[c].pc \in {"adopt", "failed"}
        /\ caller'[c].method = caller[c].method
        /\ caller'[c].fallback = caller[c].fallback
        /\ caller'[c].seen = caller[c].seen
        /\ caller'[c].reply = caller[c].reply
    BY <1>3, <1>14 DEF GrantSucceeds, GrantFails, Goto, CallerState
  <2>2. \/ auth' = auth
        \/ /\ auth' = [method |-> caller[c].method, fallback |-> FALSE]
           /\ caller[c].reply.status = "ok"
    BY <1>14 DEF GrantSucceeds, GrantFails
  <2>3. caller[c].reply.status = "unauthorized" =>
          ~ (caller[c].fallback /\ caller[c].method = "post")
            \/ caller'[c].pc = "adopt"
    BY <1>14 DEF GrantSucceeds, GrantFails
  <2>4. QED
    BY <1>2, <2>1, <2>2, <2>3
       DEF CallOK, CallMethod, CallReply, RefusedOtherwise, SharedMethod
<1>15. ASSUME NEW c \in Callers, FallBack(c)
       PROVE  /\ auth' = auth
              /\ \A d \in Callers : CallOK(caller'[d], accepts)
  <2>1. /\ auth' = auth
        /\ \A d \in Callers : d # c => caller'[d] = caller[d]
        /\ caller[c].pc = "result"
        /\ caller[c].method = "post"
        /\ caller[c].reply.status # "ok"
        /\ caller'[c].pc = "nonce"
        /\ caller'[c].method = "basic"
        /\ caller'[c].seen = caller[c].seen
    BY <1>3, <1>15 DEF FallBack, CallerState
  <2>2. "post" \notin accepts => "basic" \in accepts
    BY <1>3 DEF Methods
  <2>3. caller[c].reply.status \in Statuses
    BY <1>3 DEF CallerState, Replies
  <2>4. QED
    BY <1>2, <2>1, <2>2, <2>3
       DEF CallOK, CallMethod, CallReply, RefusedOtherwise, Statuses
<1>16. CASE UNCHANGED vars
  BY <1>2, <1>16 DEF vars
<1>17. QED
  BY <1>2, <1>5, <1>6, <1>7, <1>8, <1>9, <1>10, <1>11, <1>12, <1>13, <1>14,
     <1>15, <1>16 DEF Next

\* A client whose authentication method was a guess, and whose server accepts
\* one of the two, fails for its authentication only after the server refused
\* the request for another reason, whatever the other grants of the RP and
\* AuthorizationURL do to the shared method in between.
THEOREM GuessIsCorrected == Spec => []NeverUnauthorized
<1>1. Spec => []TypeOK
  BY TypeCorrect
<1>2. Spec => []GuessInv
  BY <1>1, InitGuess, StepGuess, PTL DEF Spec
<1>3. GuessInv => NeverUnauthorized
  BY DEF GuessInv, Guessing, CallOK, CallReply, RefusedOtherwise, NeverUnauthorized
<1>4. QED
  BY <1>2, <1>3, PTL
=============================================================================
