------------------------- MODULE AuthCodeFlowProofs -------------------------
(***************************************************************************)
(* Proofs about AuthorizationURL and HandleCallback for every set of       *)
(* logins, codes, browsers, concurrent callbacks and configurations, and   *)
(* about the key set (RemoteKeySet) with which the callbacks validate ID   *)
(* tokens.                                                                 *)
(***************************************************************************)
EXTENDS AuthCodeFlow, RemoteKeySet, TLAPS

-----------------------------------------------------------------------------
(* The inductive invariant *)

\* A callback that consumed its correlation and has not failed.
Busy(h) == handler[h].pc \in {"exchange", "token", "userinfo", "ok"}

\* A callback whose code the token endpoint accepted.
Redeemer(h) == handler[h].pc \in {"token", "userinfo", "ok"}

\* A login that left AuthorizationURL belongs to a browser.
HoldersKnown == \A l \in Logins : ticket[l] # "none" => holder[l] \in Browsers

\* A busy callback has the code and the state it came with, the correlation of
\* that state was taken for its browser, and a response the server vouched for
\* names the login of its code.
CallbacksGrounded ==
  \A h \in Handlers : Busy(h) =>
    /\ handler[h].code \in Codes
    /\ handler[h].state \in Logins
    /\ codeLogin[handler[h].code] # 0
    /\ ticket[handler[h].state] = "taken"
    /\ holder[handler[h].state] = handler[h].by
    /\ handler[h].vouched => codeLogin[handler[h].code] = handler[h].state

\* What an accepted code leaves behind: the code is spent, the tokens are about
\* its login, and the challenge and then the nonce tie that to the state.
TokensGrounded ==
  \A h \in Handlers : Redeemer(h) =>
    /\ handler[h].code \in redeemed
    /\ handler[h].subject = codeLogin[handler[h].code]
    /\ config.pkce => handler[h].subject = handler[h].state
    /\ handler[h].pc # "token" /\ config.openid =>
         handler[h].subject = handler[h].state

\* Where the store removes on its own side, no two busy callbacks share a
\* login; and no two share an accepted code, whatever the store.
OneTaker ==
  config.strict =>
    \A g, h \in Handlers :
      Busy(g) /\ Busy(h) /\ handler[g].state = handler[h].state => g = h

OneRedeemer ==
  \A g, h \in Handlers :
    Redeemer(g) /\ Redeemer(h) /\ handler[g].code = handler[h].code => g = h

Inv ==
  /\ TypeOK
  /\ HoldersKnown
  /\ CallbacksGrounded
  /\ TokensGrounded
  /\ OneTaker
  /\ OneRedeemer

-----------------------------------------------------------------------------
(* Steps that leave the callbacks alone *)

LEMMA InitInv == Init => Inv
<1> SUFFICES ASSUME Init PROVE Inv
  OBVIOUS
<1>1. \A h \in Handlers : handler[h] = HandlerAt("idle")
  BY DEF Init
<1>2. TypeOK
  BY FlowAssumption DEF Init, TypeOK, Store!Init, Handler, HandlerAt
<1>3. \A h \in Handlers : ~Busy(h) /\ ~Redeemer(h)
  BY <1>1 DEF HandlerAt, Busy, Redeemer
<1>4. HoldersKnown
  BY DEF Init, Store!Init, HoldersKnown
<1> QED BY <1>2, <1>3, <1>4 DEF Inv, CallbacksGrounded, TokensGrounded, OneTaker, OneRedeemer

\* A step that touches no callback and no redeemed code keeps the invariant if
\* it keeps codes that were issued and tickets that were taken.
LEMMA ServerStep ==
  ASSUME Inv, TypeOK', HoldersKnown',
         UNCHANGED <<config, redeemed, handler>>,
         \A c \in Codes : codeLogin[c] # 0 => codeLogin'[c] = codeLogin[c],
         \A l \in Logins : ticket[l] = "taken" =>
           ticket'[l] = "taken" /\ holder'[l] = holder[l]
  PROVE  Inv'
<1>1. \A h \in Handlers : (Busy(h)' <=> Busy(h)) /\ (Redeemer(h)' <=> Redeemer(h))
  BY DEF Busy, Redeemer
<1>2. \A h \in Handlers : Redeemer(h) => Busy(h)
  BY DEF Busy, Redeemer
<1>3. CallbacksGrounded'
  BY <1>1 DEF Inv, CallbacksGrounded
<1>4. TokensGrounded'
  BY <1>1, <1>2 DEF Inv, TokensGrounded, CallbacksGrounded
<1>5. OneTaker' /\ OneRedeemer'
  BY <1>1 DEF Inv, OneTaker, OneRedeemer
<1> QED BY <1>3, <1>4, <1>5 DEF Inv

LEMMA PushStep ==
  ASSUME Inv, NEW l \in Logins, PushAuthorizationRequest(l)
  PROVE  Inv'
<1>1. TypeOK'
  BY DEF Inv, TypeOK, PushAuthorizationRequest, storeVars
<1>2. HoldersKnown'
  BY DEF Inv, HoldersKnown, PushAuthorizationRequest, storeVars
<1> QED BY <1>1, <1>2, ServerStep DEF PushAuthorizationRequest, storeVars

LEMMA IssueStep ==
  ASSUME Inv, NEW l \in Logins, NEW b \in Browsers, AuthorizationURL(l, b)
  PROVE  Inv'
<1>1. TypeOK'
  BY DEF Inv, TypeOK, AuthorizationURL, Store!Issue, Store!Unissued
<1>2. HoldersKnown'
  BY DEF Inv, TypeOK, HoldersKnown, AuthorizationURL, Store!Issue, Store!Unissued
<1>3. \A k \in Logins : ticket[k] = "taken" =>
        ticket'[k] = "taken" /\ holder'[k] = holder[k]
  BY DEF Inv, TypeOK, AuthorizationURL, Store!Issue, Store!Unissued
<1> QED BY <1>1, <1>2, <1>3, ServerStep DEF AuthorizationURL

LEMMA LoseStep ==
  ASSUME Inv, NEW l \in Logins, LoseCorrelation(l)
  PROVE  Inv'
<1>1. TypeOK'
  BY DEF Inv, TypeOK, LoseCorrelation, Store!Drop
<1>2. HoldersKnown'
  BY DEF Inv, TypeOK, HoldersKnown, LoseCorrelation, Store!Drop
<1>3. \A k \in Logins : ticket[k] = "taken" =>
        ticket'[k] = "taken" /\ holder'[k] = holder[k]
  BY DEF Inv, TypeOK, LoseCorrelation, Store!Drop
<1> QED BY <1>1, <1>2, <1>3, ServerStep DEF LoseCorrelation

LEMMA IssueCodeStep ==
  ASSUME Inv, NEW l \in Logins, NEW c \in Codes, IssueCode(l, c)
  PROVE  Inv'
<1>1. TypeOK'
  BY DEF Inv, TypeOK, IssueCode, storeVars
<1>2. HoldersKnown'
  BY DEF Inv, HoldersKnown, IssueCode, storeVars
<1>3. \A d \in Codes : codeLogin[d] # 0 => codeLogin'[d] = codeLogin[d]
  BY DEF Inv, TypeOK, IssueCode
<1> QED BY <1>1, <1>2, <1>3, ServerStep DEF IssueCode, storeVars

-----------------------------------------------------------------------------
(* Steps of one callback *)

\* The store and the server keep what the other callbacks rest on.
Kept ==
  /\ config' = config
  /\ codeLogin' = codeLogin
  /\ redeemed \subseteq redeemed'
  /\ \A l \in Logins : ticket[l] = "taken" =>
       ticket'[l] = "taken" /\ holder'[l] = holder[l]

\* A callback that fails keeps nothing.
LEMMA FailStep ==
  ASSUME Inv, NEW h \in Handlers, Fail(h), Kept, TypeOK', HoldersKnown'
  PROVE  Inv'
<1>1. handler'[h].pc = "failed"
  BY DEF Fail, HandlerAt, Inv, TypeOK
<1>2. \A g \in Handlers : g # h => handler'[g] = handler[g]
  BY DEF Fail, Inv, TypeOK
<1>3. \A g \in Handlers : (Busy(g)' => g # h /\ Busy(g)) /\ (Redeemer(g)' => g # h /\ Redeemer(g))
  BY <1>1, <1>2 DEF Busy, Redeemer
<1>4. CallbacksGrounded'
  BY <1>2, <1>3 DEF Inv, CallbacksGrounded, Kept
<1>5. TokensGrounded'
  BY <1>2, <1>3 DEF Inv, TokensGrounded, Kept
<1>6. OneTaker' /\ OneRedeemer'
  BY <1>2, <1>3 DEF Inv, OneTaker, OneRedeemer, Kept
<1> QED BY <1>4, <1>5, <1>6 DEF Inv

LEMMA FailType ==
  ASSUME TypeOK, NEW h \in Handlers, Fail(h)
  PROVE  handler' \in [Handlers -> Handler]
BY FlowAssumption DEF TypeOK, Fail, HandlerAt, Handler

LEMMA RefuseStep ==
  ASSUME Inv, NEW h \in Handlers, Refuse(h)
  PROVE  Inv'
<1>1. TypeOK'
  BY FailType DEF Inv, TypeOK, Refuse, storeVars
<1>2. HoldersKnown'
  BY DEF Inv, HoldersKnown, Refuse, storeVars
<1>3. Kept
  BY DEF Refuse, Kept, storeVars
<1> QED BY <1>1, <1>2, <1>3, FailStep DEF Refuse

\* What ConsumeCorrelation leaves: the ticket is taken, for its holder; with a
\* strict store it was open before.
LEMMA Consumed ==
  ASSUME Inv, NEW l \in Logins, NEW b \in Browsers, ConsumeCorrelation(l, b)
  PROVE  /\ ticket' \in [Logins -> {"none", "open", "taken", "gone"}]
         /\ taker' \in [Logins -> Browsers \cup {NoBrowser}]
         /\ holder' = holder
         /\ ticket'[l] = "taken" /\ holder[l] = b
         /\ config.strict => ticket[l] = "open"
         /\ \A k \in Logins : ticket[k] = "taken" => ticket'[k] = "taken"
         /\ \A k \in Logins : ticket'[k] # "none" => ticket[k] # "none"
<1>1. CASE Store!Take(l, b, {})
  <2>1. ticket[l] = "open" /\ holder[l] \in {NoBrowser, b}
    BY <1>1 DEF Store!Take, Store!Open
  <2>2. holder[l] = b
    BY <2>1, FlowAssumption DEF Inv, HoldersKnown
  <2>3. /\ ticket' = [k \in Logins |-> IF k = l THEN "taken" ELSE ticket[k]]
        /\ taker' = [taker EXCEPT ![l] = b]
        /\ holder' = holder
    BY <1>1 DEF Store!Take
  <2> QED BY <2>1, <2>2, <2>3 DEF Inv, TypeOK
<1>2. CASE /\ ~config.strict
           /\ ticket[l] = "taken" /\ holder[l] = b
           /\ UNCHANGED storeVars
  BY <1>2 DEF Inv, TypeOK, storeVars
<1> QED BY <1>1, <1>2 DEF ConsumeCorrelation

LEMMA AcceptStep ==
  ASSUME Inv, NEW h \in Handlers, NEW p \in Params, NEW b \in Browsers,
         AcceptCallback(h, p, b)
  PROVE  Inv'
<1> DEFINE l == p.state
           new == [pc |-> "exchange", code |-> p.code, state |-> l, by |-> b,
                   vouched |-> p.jarm \/ p.front # 0, subject |-> 0]
<1>1. /\ p.code \in Codes /\ l \in Logins /\ p.jarm \in BOOLEAN
      /\ p.front \in Codes \cup {0}
  BY DEF Params
<1>2. /\ ticket' \in [Logins -> {"none", "open", "taken", "gone"}]
      /\ taker' \in [Logins -> Browsers \cup {NoBrowser}]
      /\ holder' = holder
      /\ ticket'[l] = "taken" /\ holder[l] = b
      /\ config.strict => ticket[l] = "open"
      /\ \A k \in Logins : ticket[k] = "taken" => ticket'[k] = "taken"
      /\ \A k \in Logins : ticket'[k] # "none" => ticket[k] # "none"
  BY <1>1, Consumed DEF AcceptCallback
<1>3. UNCHANGED <<config, phase, codeLogin, redeemed>>
  BY DEF AcceptCallback
<1>4. HoldersKnown'
  BY <1>2 DEF Inv, HoldersKnown
<1>5. Kept
  BY <1>2, <1>3 DEF Kept
<1>6. CASE Fail(h)
  <2>1. TypeOK'
    BY <1>2, <1>3, <1>6, FailType DEF Inv, TypeOK
  <2> QED BY <1>4, <1>5, <1>6, <2>1, FailStep
<1>7. CASE FrontIDTokenOK(p) /\ handler' = [handler EXCEPT ![h] = new]
  <2>1. new \in Handler
    BY <1>1 DEF Handler
  <2>2. TypeOK'
    BY <1>2, <1>3, <1>7, <2>1 DEF Inv, TypeOK
  <2>3. handler'[h] = new /\ \A g \in Handlers : g # h => handler'[g] = handler[g]
    BY <1>7 DEF Inv, TypeOK
  <2>4. \A g \in Handlers : g # h =>
          (Busy(g)' <=> Busy(g)) /\ (Redeemer(g)' <=> Redeemer(g))
    BY <2>3 DEF Busy, Redeemer
  <2>5. ~Redeemer(h)'
    BY <2>3 DEF Redeemer
  <2>6. codeLogin[p.code] # 0
    BY DEF AcceptCallback, Deliverable
  <2>7. new.vouched => codeLogin[p.code] = l
    BY <1>7 DEF AcceptCallback, Deliverable, FrontIDTokenOK
  <2>8. CallbacksGrounded'
    <3> SUFFICES ASSUME NEW g \in Handlers, Busy(g)'
                 PROVE  /\ handler'[g].code \in Codes
                        /\ handler'[g].state \in Logins
                        /\ codeLogin'[handler'[g].code] # 0
                        /\ ticket'[handler'[g].state] = "taken"
                        /\ holder'[handler'[g].state] = handler'[g].by
                        /\ handler'[g].vouched =>
                             codeLogin'[handler'[g].code] = handler'[g].state
      BY DEF CallbacksGrounded
    <3>1. CASE g = h
      BY <1>1, <1>2, <1>3, <2>3, <2>6, <2>7, <3>1
    <3>2. CASE g # h
      BY <1>2, <1>3, <2>3, <2>4, <3>2 DEF Inv, CallbacksGrounded
    <3> QED BY <3>1, <3>2
  <2>9. TokensGrounded'
    BY <1>3, <2>3, <2>4, <2>5 DEF Inv, TokensGrounded
  <2>10. OneTaker'
    <3> SUFFICES ASSUME config.strict, NEW g \in Handlers, g # h, Busy(g)
                 PROVE  handler[g].state # l
      BY <1>3, <2>3, <2>4 DEF Inv, OneTaker
    <3> QED BY <1>2 DEF Inv, CallbacksGrounded
  <2>11. OneRedeemer'
    BY <2>3, <2>4, <2>5 DEF Inv, OneRedeemer
  <2> QED BY <1>4, <2>2, <2>8, <2>9, <2>10, <2>11 DEF Inv
<1> QED BY <1>6, <1>7 DEF AcceptCallback

\* Callback h at pc with tokens about s.
Moved(h, pc, s) ==
  [pc |-> pc, code |-> handler[h].code, state |-> handler[h].state,
   by |-> handler[h].by, vouched |-> handler[h].vouched, subject |-> s]

LEMMA MovedRecord ==
  ASSUME NEW r \in Handler, NEW pc, NEW s
  PROVE  [r EXCEPT !.pc = pc, !.subject = s]
           = [pc |-> pc, code |-> r.code, state |-> r.state, by |-> r.by,
              vouched |-> r.vouched, subject |-> s]
<1> DEFINE q == [r EXCEPT !.pc = pc]
<1>1. q = [pc |-> pc, code |-> r.code, state |-> r.state, by |-> r.by,
           vouched |-> r.vouched, subject |-> r.subject]
  BY DEF Handler
<1>2. [r EXCEPT !.pc = pc, !.subject = s] = [q EXCEPT !.subject = s]
  BY DEF Handler
<1> HIDE DEF q
<1> QED BY <1>1, <1>2

\* A callback that moves on: only its pc and, with the token response, its
\* subject change.
LEMMA AdvanceStep ==
  ASSUME Inv, NEW h \in Handlers, Kept, UNCHANGED <<phase, storeVars>>,
         redeemed' \subseteq Codes, Busy(h),
         NEW pc \in {"token", "userinfo", "ok"}, NEW s \in Logins,
         handler' = [handler EXCEPT ![h] = Moved(h, pc, s)],
         s = codeLogin[handler[h].code],
         handler[h].code \in redeemed',
         config.pkce => s = handler[h].state,
         pc # "token" /\ config.openid => s = handler[h].state,
         \A g \in Handlers : Redeemer(g) /\ handler[g].code = handler[h].code => g = h
  PROVE  Inv'
<1>1. /\ handler'[h].pc = pc /\ handler'[h].subject = s
      /\ handler'[h].code = handler[h].code
      /\ handler'[h].state = handler[h].state
      /\ handler'[h].by = handler[h].by
      /\ handler'[h].vouched = handler[h].vouched
  BY DEF Inv, TypeOK, Moved
<1>2. \A g \in Handlers : g # h => handler'[g] = handler[g]
  BY DEF Inv, TypeOK
<1>3. \A g \in Handlers : (Busy(g)' <=> Busy(g))
  BY <1>1, <1>2 DEF Busy
<1>4. \A g \in Handlers : g # h => (Redeemer(g)' <=> Redeemer(g))
  BY <1>2 DEF Redeemer
<1>5. TypeOK'
  <2>1. handler[h] \in Handler
    BY DEF Inv, TypeOK
  <2>2. Moved(h, pc, s) \in Handler
    BY <2>1 DEF Moved, Handler
  <2> QED BY <2>2 DEF Inv, TypeOK, Kept, storeVars
<1>6. HoldersKnown'
  BY DEF Inv, HoldersKnown, storeVars
<1>7. CallbacksGrounded'
  BY <1>1, <1>2, <1>3 DEF Inv, CallbacksGrounded, Kept, storeVars
<1>8. TokensGrounded'
  BY <1>1, <1>2, <1>4 DEF Inv, TokensGrounded, Kept
<1>9. OneTaker'
  BY <1>1, <1>2, <1>3 DEF Inv, OneTaker, Kept
<1>10. OneRedeemer'
  BY <1>1, <1>2, <1>4 DEF Inv, OneRedeemer
<1> QED BY <1>5, <1>6, <1>7, <1>8, <1>9, <1>10 DEF Inv

LEMMA ExchangeStep ==
  ASSUME Inv, NEW h \in Handlers, ExchangeToken(h)
  PROVE  Inv'
<1> DEFINE c == handler[h].code
<1>1. handler[h].pc = "exchange" /\ Busy(h) /\ c \in Codes
  BY DEF ExchangeToken, Busy, Inv, CallbacksGrounded
<1>2. UNCHANGED <<config, phase, storeVars, codeLogin>>
  BY DEF ExchangeToken
<1>3. redeemed' \subseteq Codes /\ redeemed \subseteq redeemed'
  BY <1>1 DEF ExchangeToken, Inv, TypeOK
<1>4. Kept
  BY <1>2, <1>3 DEF Kept, storeVars
<1>5. HoldersKnown'
  BY <1>2 DEF Inv, HoldersKnown, storeVars
<1>6. CASE Fail(h)
  <2>1. TypeOK'
    BY <1>2, <1>3, <1>6, FailType DEF Inv, TypeOK, storeVars
  <2> QED BY <1>4, <1>5, <1>6, <2>1, FailStep
<1>7. CASE /\ Accepts(c, handler[h].state)
           /\ redeemed' = redeemed \cup {c}
           /\ handler' = [handler EXCEPT ![h].pc = "token",
                                         ![h].subject = codeLogin[c]]
  <2>1. codeLogin[c] \in Logins
    BY <1>1, <1>7 DEF Accepts, Inv, TypeOK
  <2>2. config.pkce => codeLogin[c] = handler[h].state
    BY <1>7 DEF Accepts
  <2>3. \A g \in Handlers : Redeemer(g) /\ handler[g].code = c => g = h
    BY <1>7 DEF Accepts, Inv, TokensGrounded
  <2>4. handler' = [handler EXCEPT ![h] = Moved(h, "token", codeLogin[c])]
    <3>1. handler[h] \in Handler /\ handler \in [Handlers -> Handler]
      BY DEF Inv, TypeOK
    <3>2. [handler[h] EXCEPT !.pc = "token", !.subject = codeLogin[c]]
            = Moved(h, "token", codeLogin[c])
      BY <3>1, MovedRecord DEF Moved
    <3>3. handler' = [handler EXCEPT
            ![h] = [handler[h] EXCEPT !.pc = "token", !.subject = codeLogin[c]]]
      BY <1>7, <3>1
    <3> QED BY <3>2, <3>3
  <2> QED BY <1>1, <1>2, <1>3, <1>4, <1>7, <2>1, <2>2, <2>3, <2>4, AdvanceStep
<1> QED BY <1>6, <1>7 DEF ExchangeToken

\* After the token response the subject is known, so setting it again changes
\* nothing.
LEMMA GotoStep ==
  ASSUME Inv, NEW h \in Handlers, Redeemer(h), NEW pc \in {"userinfo", "ok"},
         Goto(h, pc), UNCHANGED <<config, phase, storeVars, codeLogin, redeemed>>,
         config.openid => handler[h].subject = handler[h].state
  PROVE  Inv'
<1> DEFINE s == handler[h].subject
<1>1. Busy(h)
  BY DEF Busy, Redeemer
<1>2. /\ s = codeLogin[handler[h].code] /\ handler[h].code \in redeemed
      /\ config.pkce => s = handler[h].state
  BY DEF Inv, TokensGrounded
<1>3. s \in Logins
  BY <1>1, <1>2 DEF Inv, CallbacksGrounded, TypeOK
<1>4. handler' = [handler EXCEPT ![h] = Moved(h, pc, s)]
  <2>1. handler[h] \in Handler
    BY DEF Inv, TypeOK
  <2>2. [handler[h] EXCEPT !.pc = pc] = Moved(h, pc, s)
    BY <2>1 DEF Handler, Moved
  <2> QED BY <2>2 DEF Goto
<1>5. Kept
  BY DEF Kept, storeVars
<1>6. \A g \in Handlers : Redeemer(g) /\ handler[g].code = handler[h].code => g = h
  BY DEF Inv, OneRedeemer
<1>7. redeemed' \subseteq Codes
  BY DEF Inv, TypeOK
<1> QED BY <1>1, <1>2, <1>3, <1>4, <1>5, <1>6, <1>7, AdvanceStep

LEMMA QuietFail ==
  ASSUME Inv, NEW h \in Handlers, Fail(h),
         UNCHANGED <<config, phase, storeVars, codeLogin, redeemed>>
  PROVE  Inv'
<1>1. TypeOK'
  BY FailType DEF Inv, TypeOK, storeVars
<1>2. HoldersKnown' /\ Kept
  BY DEF Inv, HoldersKnown, Kept, storeVars
<1> QED BY <1>1, <1>2, FailStep

LEMMA ValidateStep ==
  ASSUME Inv, NEW h \in Handlers, ValidateToken(h)
  PROVE  Inv'
<1>1. Redeemer(h) /\ UNCHANGED <<config, phase, storeVars, codeLogin, redeemed>>
  BY DEF ValidateToken, Redeemer
<1>2. CASE ~config.openid /\ Goto(h, "ok")
  BY <1>1, <1>2, GotoStep
<1>3. CASE /\ config.openid /\ NonceOK(h)
           /\ Goto(h, IF config.fapi \/ ~config.userinfo THEN "ok" ELSE "userinfo")
  BY <1>1, <1>3, GotoStep DEF NonceOK
<1>4. CASE Fail(h)
  BY <1>1, <1>4, QuietFail
<1> QED BY <1>2, <1>3, <1>4 DEF ValidateToken

LEMMA UserInfoStep ==
  ASSUME Inv, NEW h \in Handlers, FetchUserInfo(h)
  PROVE  Inv'
<1>1. /\ Redeemer(h) /\ handler[h].pc = "userinfo"
      /\ UNCHANGED <<config, phase, storeVars, codeLogin, redeemed>>
  BY DEF FetchUserInfo, Redeemer
<1>2. config.openid => handler[h].subject = handler[h].state
  BY <1>1 DEF Inv, TokensGrounded
<1>3. CASE Goto(h, "ok")
  BY <1>1, <1>2, <1>3, GotoStep
<1>4. CASE Fail(h)
  BY <1>1, <1>4, QuietFail
<1> QED BY <1>3, <1>4 DEF FetchUserInfo

LEMMA StepInv == Inv /\ [Next]_vars => Inv'
<1> SUFFICES ASSUME Inv, [Next]_vars PROVE Inv'
  OBVIOUS
<1>1. ASSUME NEW l \in Logins, PushAuthorizationRequest(l) PROVE Inv'
  BY <1>1, PushStep
<1>2. ASSUME NEW l \in Logins, NEW b \in Browsers, AuthorizationURL(l, b) PROVE Inv'
  BY <1>2, IssueStep
<1>3. ASSUME NEW l \in Logins, LoseCorrelation(l) PROVE Inv'
  BY <1>3, LoseStep
<1>4. ASSUME NEW l \in Logins, NEW c \in Codes, IssueCode(l, c) PROVE Inv'
  BY <1>4, IssueCodeStep
<1>5. ASSUME NEW h \in Handlers, Refuse(h) PROVE Inv'
  BY <1>5, RefuseStep
<1>6. ASSUME NEW h \in Handlers, NEW p \in Params, NEW b \in Browsers,
             AcceptCallback(h, p, b)
      PROVE  Inv'
  BY <1>6, AcceptStep
<1>7. ASSUME NEW h \in Handlers, ExchangeToken(h) PROVE Inv'
  BY <1>7, ExchangeStep
<1>8. ASSUME NEW h \in Handlers, ValidateToken(h) PROVE Inv'
  BY <1>8, ValidateStep
<1>9. ASSUME NEW h \in Handlers, FetchUserInfo(h) PROVE Inv'
  BY <1>9, UserInfoStep
<1>10. CASE UNCHANGED vars
  <2>1. TypeOK' /\ HoldersKnown'
    BY <1>10 DEF vars, Inv, TypeOK, HoldersKnown
  <2> QED BY <1>10, <2>1, ServerStep DEF vars
<1> QED BY <1>1, <1>2, <1>3, <1>4, <1>5, <1>6, <1>7, <1>8, <1>9, <1>10 DEF Next

LEMMA Invariance == Spec => []Inv
BY InitInv, StepInv, PTL DEF Spec

-----------------------------------------------------------------------------
(* Theorems *)

\* Every reachable state of logins, codes and callbacks is well typed.
THEOREM TypeCorrect == Spec => []TypeOK
<1>1. Inv => TypeOK
  BY DEF Inv
<1> QED BY <1>1, Invariance, PTL

\* Repeated, late, parallel and mixed-up callbacks give one CallbackResult per
\* login where the store consumes on its own side, and one per code anywhere.
THEOREM LoginGivesOneResult == Spec => []OneResult
<1>1. Inv => OneResult
  BY DEF Inv, OneTaker, OneRedeemer, OneResult, OneResultPerLogin, OneResultPerCode,
     Succeeded, Busy, Redeemer
<1> QED BY <1>1, Invariance, PTL

\* A CallbackResult is about the login its state belongs to, and is given to
\* the browser that started it, if there is a nonce or a challenge to tell.
THEOREM ResultIsOfItsLogin == Spec => []ResultBelongsToLogin
<1>1. Inv => ResultBelongsToLogin
  BY DEF Inv, CallbacksGrounded, TokensGrounded, ResultBelongsToLogin, Succeeded,
     Busy, Redeemer
<1> QED BY <1>1, Invariance, PTL

\* A code the server tied to a login (JARM, front-channel ID token) is sent to
\* the token endpoint only for that login.
THEOREM OnlyOwnCodesSpent == Spec => []NoForeignCodeSpent
<1>1. Inv => NoForeignCodeSpent
  BY DEF Inv, CallbacksGrounded, NoForeignCodeSpent, Busy
<1> QED BY <1>1, Invariance, PTL

-----------------------------------------------------------------------------
(* The keys of ID tokens: the invariant of RemoteKeySet.  Its callers are the *)
(* goroutines that validate one.                                              *)

\* A singleflight call.
FlightState ==
  [pc : {"idle", "sent", "answered"}, existing : Addresses, answer : Answers]

\* The shape of the state, and every tag in the heap names the keys stored with
\* it, those of entries out of use included.
KeysTyped ==
  /\ published \in Versions
  /\ heap \in [Pool -> CacheEntry]
  /\ cache \in Addresses
  /\ flight \in [Instances -> FlightState]
  /\ spawned \subseteq Instances \X Pool
  /\ caller \in [Callers -> CallerState]
Tagged(h) == \A e \in Pool : h[e].etag \in {0, h[e].keys}

\* An answer has the tag of the version it brings; a 304 was given for the tag
\* of the entry the fetch started from, and that entry is kept with its tag.
AnswerOK(f, h) ==
  f.pc = "answered" =>
    /\ f.answer.etag \in {0, f.answer.version}
    /\ f.answer.status = "notModified" =>
         f.existing \in Pool /\ h[f.existing].etag = f.answer.version

\* A call that looks at the cache entry, or is to write into one, has one.
EntryKnown(r, k) ==
  /\ r.pc = "missing" => k # Nil
  /\ r.pc = "mark" => r.entry # Nil

KeysInv ==
  /\ KeysTyped
  /\ Tagged(heap)
  /\ \A i \in Instances : AnswerOK(flight[i], heap)
  /\ \A c \in Callers : EntryKnown(caller[c], cache)

\* What is owed to a call is published, and a call that has come to its last
\* fetch, or has failed, is owed nothing.
OwedOK(r, v) ==
  /\ r.owed => r.kid \in KeysOf(v)
  /\ r.pc \in {"freshAgain", "failed"} => ~r.owed
KeysOwed == \A c \in Callers : OwedOK(caller[c], published)

-----------------------------------------------------------------------------
(* Entries, answers and single calls *)

USE DEF FlightState

\* What is assumed of the constants.
LEMMA KeySetFacts ==
  /\ InstanceOf \in [Callers -> Instances]
  /\ MaxVersion \in Nat \ {0}
  /\ Tagging \subseteq BOOLEAN
  /\ Lifetimes \subseteq Nat
  /\ MinGap \in Nat
  /\ Nil \notin Pool
BY KeySetAssumption

\* Collecting garbage keeps what is referred to and frees the rest.
LEMMA CollectFacts ==
  ASSUME KeysInv, NEW h \in [Pool -> CacheEntry], Tagged(h), heap' = Collect(h)
  PROVE  /\ heap' \in [Pool -> CacheEntry]
         /\ Tagged(heap')
         /\ \A e \in Pool : e \in Reachable' => heap'[e] = h[e]
<1>1. FreeEntry \in CacheEntry /\ FreeEntry.etag = 0
  BY KeySetFacts DEF FreeEntry, CacheEntry, Versions
<1>2. \A e \in Pool : heap'[e] = IF e \in Reachable' THEN h[e] ELSE FreeEntry
  BY DEF Collect
<1>3. heap' \in [Pool -> CacheEntry]
  BY <1>1 DEF Collect
<1> QED BY <1>1, <1>2, <1>3 DEF Tagged

\* Answers that were there before the step still fit their entries.
LEMMA AnswersKept ==
  ASSUME KeysInv, NEW h \in [Pool -> CacheEntry], Tagged(h), heap' = Collect(h),
         \A i \in Instances : flight'[i].pc = "answered" => flight'[i] = flight[i],
         \A i \in Instances : flight'[i].pc = "answered" /\ flight'[i].existing \in Pool
           => h[flight'[i].existing].etag = heap[flight'[i].existing].etag
  PROVE  \A i \in Instances : AnswerOK(flight'[i], heap')
<1> SUFFICES ASSUME NEW i \in Instances, flight'[i].pc = "answered"
             PROVE  AnswerOK(flight'[i], heap')
  BY DEF AnswerOK
<1>1. flight'[i] = flight[i] /\ AnswerOK(flight[i], heap)
  BY DEF KeysInv
<1>2. flight'[i].existing \in Reachable'
  BY DEF Reachable
<1>3. flight[i].existing \in Pool => heap'[flight[i].existing].etag = heap[flight[i].existing].etag
  BY <1>1, <1>2, CollectFacts
<1> QED BY <1>1, <1>3 DEF AnswerOK

\* A step that leaves heap, cache and flights alone.
LEMMA CallStep ==
  ASSUME KeysInv, UNCHANGED <<published, heap, cache, flight>>,
         spawned' \subseteq Instances \X Pool,
         NEW c \in Callers, NEW r \in CallerState, EntryKnown(r, cache),
         caller' = [caller EXCEPT ![c] = r]
  PROVE  KeysInv'
<1>1. caller' \in [Callers -> CallerState]
  BY DEF KeysInv, KeysTyped
<1>2. \A d \in Callers : EntryKnown(caller'[d], cache')
  BY DEF KeysInv, KeysTyped
<1>3. Tagged(heap)' /\ \A i \in Instances : AnswerOK(flight'[i], heap')
  BY DEF KeysInv, Tagged, AnswerOK
<1> QED BY <1>1, <1>2, <1>3 DEF KeysInv, KeysTyped

LEMMA InitKeys == NewRemoteKeySet => KeysInv /\ KeysOwed
<1> SUFFICES ASSUME NewRemoteKeySet PROVE KeysInv /\ KeysOwed
  OBVIOUS
<1>1. 1 \in Versions
  BY KeySetAssumption DEF Versions
<1>2. FreeEntry \in CacheEntry /\ FreeEntry.etag = 0
  BY <1>1, KeySetAssumption DEF FreeEntry, CacheEntry
<1>3. NoCall \in CallerState /\ NoCall.pc = "idle" /\ ~NoCall.owed
  BY <1>1 DEF NoCall, CallerState, Addresses
<1>4. /\ IdleFlight \in FlightState
      /\ IdleFlight.pc = "idle"
  BY <1>1 DEF IdleFlight, NoAnswer, Answers, Addresses
<1>5. KeysTyped
  BY <1>1, <1>2, <1>3, <1>4 DEF NewRemoteKeySet, KeysTyped, Addresses
<1>6. Tagged(heap) /\ \A i \in Instances : AnswerOK(flight[i], heap)
  BY <1>2, <1>4 DEF NewRemoteKeySet, Tagged, AnswerOK
<1>7. \A c \in Callers : EntryKnown(caller[c], cache) /\ OwedOK(caller[c], published)
  BY <1>3 DEF NewRemoteKeySet, EntryKnown, OwedOK
<1> QED BY <1>5, <1>6, <1>7 DEF KeysInv, KeysOwed

-----------------------------------------------------------------------------
(* The server, the clock and the flights *)

\* The types of the records at hand.
LEMMA KeysFields ==
  ASSUME KeysInv
  PROVE  /\ \A c \in Callers : caller[c] \in CallerState
         /\ \A i \in Instances :
              flight[i] \in FlightState
         /\ \A e \in Pool : heap[e] \in CacheEntry
BY DEF KeysInv, KeysTyped

LEMMA RotateStep ==
  ASSUME KeysInv, Rotate
  PROVE  KeysInv'
<1>1. published' \in Versions
  BY KeySetFacts DEF KeysInv, KeysTyped, Rotate, Versions
<1>2. \A c \in Callers : /\ caller'[c] \in CallerState
                         /\ caller'[c].pc = caller[c].pc
                         /\ caller'[c].entry = caller[c].entry
  BY KeysFields DEF Rotate, CallerState
<1>3. caller' \in [Callers -> CallerState]
  <2>1. caller' = [c \in Callers |-> caller'[c]]
    BY DEF Rotate
  <2> QED BY <1>2, <2>1
<1>4. \A c \in Callers : EntryKnown(caller'[c], cache')
  BY <1>2 DEF KeysInv, EntryKnown, Rotate
<1>5. Tagged(heap') /\ \A i \in Instances : AnswerOK(flight'[i], heap')
  BY DEF KeysInv, Rotate, Tagged, AnswerOK
<1> QED BY <1>1, <1>3, <1>4, <1>5 DEF KeysInv, KeysTyped, Rotate

LEMMA TickStep ==
  ASSUME KeysInv, Tick
  PROVE  KeysInv'
<1>1. \A e \in Pool : /\ heap'[e] \in CacheEntry
                      /\ heap'[e].etag = heap[e].etag
                      /\ heap'[e].keys = heap[e].keys
  <2> TAKE e \in Pool
  <2>1. heap[e] \in CacheEntry
    BY KeysFields
  <2> DEFINE l == IF heap[e].left > 0 THEN heap[e].left - 1 ELSE 0
             n == Older(heap[e].since)
  <2>2. l \in Nat /\ n \in 0..MinGap
    BY <2>1, KeySetFacts DEF CacheEntry, Older
  <2>3. heap'[e] = [heap[e] EXCEPT !.left = l, !.since = n]
    BY DEF Tick
  <2> HIDE DEF l, n
  <2> QED BY <2>1, <2>2, <2>3 DEF CacheEntry
<1>2. heap' \in [Pool -> CacheEntry]
  <2>1. heap' = [e \in Pool |-> heap'[e]]
    BY DEF Tick
  <2> QED BY <1>1, <2>1
<1>3. Tagged(heap') /\ \A i \in Instances : AnswerOK(flight'[i], heap')
  BY <1>1 DEF KeysInv, Tick, Tagged, AnswerOK
<1>4. \A c \in Callers : EntryKnown(caller'[c], cache')
  BY DEF KeysInv, Tick
<1> QED BY <1>2, <1>3, <1>4 DEF KeysInv, KeysTyped, Tick

LEMMA FetchStep ==
  ASSUME KeysInv, NEW i \in Instances, fetchJWKS(i)
  PROVE  KeysInv'
<1>1. flight[i] \in FlightState
  BY KeysFields
<1>2. PICK tag \in {IF t THEN published ELSE 0 : t \in Tagging} :
        flight' = [flight EXCEPT ![i] =
                     [pc |-> "answered", existing |-> flight[i].existing,
                      answer |-> [status |-> IF PriorETag(i) = published
                                             THEN "notModified" ELSE "ok",
                                  version |-> published, etag |-> tag]]]
  BY DEF fetchJWKS
<1> DEFINE f == [pc |-> "answered", existing |-> flight[i].existing,
                 answer |-> [status |-> IF PriorETag(i) = published
                                        THEN "notModified" ELSE "ok",
                             version |-> published, etag |-> tag]]
<1>3. published \in Versions /\ tag \in {0, published} /\ published # 0
  BY KeySetFacts DEF KeysInv, KeysTyped, Versions
<1>4. f \in FlightState
  BY <1>1, <1>3 DEF Answers
<1>5. AnswerOK(f, heap)
  <2>1. PriorETag(i) = published =>
          flight[i].existing \in Pool /\ heap[flight[i].existing].etag = published
    BY <1>1, <1>3 DEF PriorETag, Addresses
  <2> QED BY <1>3, <2>1 DEF AnswerOK
<1> HIDE DEF f
<1>6. flight' = [flight EXCEPT ![i] = f]
  BY <1>2 DEF f
<1>7. \A j \in Instances : AnswerOK(flight'[j], heap')
  BY <1>5, <1>6 DEF KeysInv, KeysTyped, fetchJWKS
<1>8. Tagged(heap') /\ \A c \in Callers : EntryKnown(caller'[c], cache')
  BY DEF KeysInv, fetchJWKS
<1> QED BY <1>4, <1>6, <1>7, <1>8 DEF KeysInv, KeysTyped, fetchJWKS

LEMMA IdleFlightFacts ==
  ASSUME KeysInv
  PROVE  /\ IdleFlight \in FlightState
         /\ IdleFlight.pc = "idle"
BY KeySetFacts DEF IdleFlight, NoAnswer, Answers, Addresses, Versions

LEMMA RefreshFailsStep ==
  ASSUME KeysInv, NEW i \in Instances, refreshFails(i)
  PROVE  KeysInv'
<1>1. heap \in [Pool -> CacheEntry] /\ Tagged(heap) /\ heap' = Collect(heap)
  BY DEF KeysInv, KeysTyped, refreshFails
<1>2. flight' = [flight EXCEPT ![i] = IdleFlight]
  BY DEF refreshFails
<1>3. \A j \in Instances : AnswerOK(flight'[j], heap')
  <2>1. \A j \in Instances : flight'[j].pc = "answered" => flight'[j] = flight[j]
    BY <1>2, IdleFlightFacts DEF KeysInv, KeysTyped
  <2> QED BY <1>1, <2>1, AnswersKept
<1>4. \A c \in Callers : caller'[c] \in CallerState /\ EntryKnown(caller'[c], cache')
  <2> TAKE c \in Callers
  <2>1. caller[c] \in CallerState /\ EntryKnown(caller[c], cache) /\ cache' = cache
    BY KeysFields DEF KeysInv, refreshFails
  <2>2. CASE Waiting(c, i)
    <3>1. caller'[c] = [caller[c] EXCEPT !.pc = Missed, !.owed = FALSE]
      BY <2>2 DEF refreshFails
    <3> QED BY <2>1, <3>1 DEF CallerState, EntryKnown, Missed, Calling
  <2>3. CASE ~Waiting(c, i)
    BY <2>1, <2>3 DEF refreshFails
  <2> QED BY <2>2, <2>3
<1>5. caller' \in [Callers -> CallerState]
  <2>1. caller' = [c \in Callers |-> caller'[c]]
    BY DEF refreshFails
  <2> QED BY <1>4, <2>1
<1>6. flight' \in [Instances -> FlightState]
  BY <1>2, IdleFlightFacts DEF KeysInv, KeysTyped
<1>7. heap' \in [Pool -> CacheEntry] /\ Tagged(heap')
  BY <1>1, CollectFacts
<1> QED BY <1>3, <1>4, <1>5, <1>6, <1>7 DEF KeysInv, KeysTyped, refreshFails

\* The entry stored for an answer is tagged with its own keys.
LEMMA RefreshedFacts ==
  ASSUME KeysInv, NEW i \in Instances, flight[i].pc = "answered", NEW left \in Nat
  PROVE  LET entry == refreshedEntry(flight[i].answer, flight[i].existing, left)
         IN entry \in CacheEntry /\ entry.etag \in {0, entry.keys}
<1> DEFINE a == flight[i].answer
           x == flight[i].existing
           old == IF x = Nil THEN FreeEntry ELSE heap[x]
<1>1. x \in Addresses /\ a \in Answers /\ AnswerOK(flight[i], heap)
  BY KeysFields DEF KeysInv
<1>2. FreeEntry \in CacheEntry /\ FreeEntry.etag = 0
  BY KeySetFacts DEF FreeEntry, CacheEntry, Versions
<1>3. old \in CacheEntry /\ old.etag \in {0, old.keys}
  BY <1>1, <1>2, KeysFields DEF Addresses, KeysInv, Tagged
<1>4. /\ a.etag \in {0, a.version}
      /\ a.status = "notModified" => old.etag = a.version
  BY <1>1, KeySetFacts DEF AnswerOK
<1>5. a.version \in Versions /\ a.etag \in Versions \cup {0} /\ a.version # 0
  BY <1>1 DEF Answers, Versions
<1>6. refreshedEntry(a, x, left) =
        [keys |-> IF a.status = "notModified" THEN old.keys ELSE a.version,
         etag |-> IF a.status = "notModified" /\ a.etag = 0 THEN old.etag ELSE a.etag,
         left |-> left, since |-> old.since]
  BY DEF refreshedEntry
<1> HIDE DEF a, x, old
<1>7. /\ refreshedEntry(a, x, left) \in CacheEntry
      /\ refreshedEntry(a, x, left).etag \in {0, refreshedEntry(a, x, left).keys}
  BY <1>3, <1>4, <1>5, <1>6 DEF CacheEntry
<1> QED BY <1>7 DEF a, x

\* Finding a key ends the call; otherwise it goes on at pc.
LEMMA FindFacts ==
  ASSUME KeysInv, NEW c \in Callers, caller[c] \in CallerState, NEW v,
         NEW pc \in Calling \cup {"failed"}
  PROVE  /\ findKey(c, v, pc) \in CallerState
         /\ \/ caller[c].kid \in KeysOf(v) /\ findKey(c, v, pc) = NoCall
            \/ /\ caller[c].kid \notin KeysOf(v)
               /\ findKey(c, v, pc) = [caller[c] EXCEPT !.pc = pc]
<1>1. NoCall \in CallerState
  BY KeySetFacts DEF NoCall, CallerState, Addresses, Versions
<1>2. [caller[c] EXCEPT !.pc = pc] \in CallerState
  BY DEF CallerState
<1> QED BY <1>1, <1>2 DEF findKey

LEMMA RefreshedStep ==
  ASSUME KeysInv, NEW i \in Instances, refresh(i)
  PROVE  KeysInv'
<1> DEFINE e == CHOOSE f \in Garbage : TRUE
<1>1. e \in Garbage /\ flight[i].pc = "answered"
  BY DEF refresh
<1>2. PICK left \in Lifetimes :
        LET entry == refreshedEntry(flight[i].answer, flight[i].existing, left)
        IN /\ cache' = e
           /\ caller' = [c \in Callers |-> IF Waiting(c, i)
                                           THEN AfterRefresh(c, entry.keys)
                                           ELSE caller[c]]
           /\ flight' = [flight EXCEPT ![i] = IdleFlight]
           /\ UNCHANGED <<published, spawned>>
           /\ heap' = Collect([heap EXCEPT ![e] = entry])
  BY DEF refresh
<1> DEFINE entry == refreshedEntry(flight[i].answer, flight[i].existing, left)
           h == [heap EXCEPT ![e] = entry]
<1>3. entry \in CacheEntry /\ entry.etag \in {0, entry.keys}
  BY <1>1, RefreshedFacts, KeySetFacts
<1> HIDE DEF e, entry
<1>4. e \in Pool /\ e \notin Reachable
  BY <1>1 DEF Garbage
<1>5. h \in [Pool -> CacheEntry] /\ Tagged(h) /\ heap' = Collect(h)
  BY <1>2, <1>3 DEF KeysInv, KeysTyped, Tagged, entry
<1>6. \A x \in Pool : x # e => h[x] = heap[x]
  BY DEF KeysInv, KeysTyped
<1>7. flight' = [flight EXCEPT ![i] = IdleFlight] /\ cache' = e
  BY <1>2
<1> HIDE DEF h
<1>8. \A j \in Instances : AnswerOK(flight'[j], heap')
  <2>1. \A j \in Instances : flight'[j].pc = "answered" => flight'[j] = flight[j]
    BY <1>7, IdleFlightFacts DEF KeysInv, KeysTyped
  <2>2. \A j \in Instances : flight[j].existing # e
    BY <1>4 DEF Reachable
  <2> QED BY <1>5, <1>6, <2>1, <2>2, AnswersKept
<1>9. \A c \in Callers : caller'[c] \in CallerState /\ EntryKnown(caller'[c], cache')
  <2> TAKE c \in Callers
  <2>1. caller[c] \in CallerState /\ EntryKnown(caller[c], cache) /\ cache' # Nil
    BY <1>4, <1>7, KeysFields, KeySetFacts DEF KeysInv
  <2>2. CASE Waiting(c, i)
    <3> DEFINE pc == IF caller[c].pc = "coldWait" THEN "missing" ELSE Missed
    <3>1. pc \in Calling \cup {"failed"} /\ pc # "mark"
      BY DEF Missed, Calling
    <3>2. caller'[c] = findKey(c, entry.keys, pc)
      BY <1>2, <2>2 DEF AfterRefresh, entry
    <3> HIDE DEF pc
    <3>3. caller'[c] \in CallerState
      BY <2>1, <3>1, <3>2, FindFacts
    <3>4. caller'[c].pc # "mark"
      BY <2>1, <3>1, <3>2, FindFacts DEF NoCall, CallerState
    <3> QED BY <2>1, <3>3, <3>4 DEF EntryKnown
  <2>3. CASE ~Waiting(c, i)
    BY <1>2, <2>1, <2>3 DEF EntryKnown
  <2> QED BY <2>2, <2>3
<1>10. caller' \in [Callers -> CallerState]
  <2>1. caller' = [c \in Callers |-> caller'[c]]
    BY <1>2
  <2> QED BY <1>9, <2>1
<1>11. flight' \in [Instances -> FlightState]
  BY <1>7, IdleFlightFacts DEF KeysInv, KeysTyped
<1>12. heap' \in [Pool -> CacheEntry] /\ Tagged(heap')
  BY <1>5, CollectFacts
<1> QED BY <1>2, <1>4, <1>7, <1>8, <1>9, <1>10, <1>11, <1>12
        DEF KeysInv, KeysTyped, Addresses

-----------------------------------------------------------------------------
(* The calls *)

LEMMA CallStepKeys ==
  ASSUME KeysInv, NEW c \in Callers, NEW k \in Versions, Call(c, k)
  PROVE  KeysInv'
<1> DEFINE r == [pc |-> "keys", kid |-> k, entry |-> Nil,
                 owed |-> k \in KeysOf(published)]
<1>1. r \in CallerState /\ EntryKnown(r, cache)
  BY DEF CallerState, Calling, Addresses, EntryKnown
<1>2. caller' = [caller EXCEPT ![c] = r] /\ spawned' \subseteq Instances \X Pool
  BY DEF Call, KeysInv, KeysTyped
<1> QED BY <1>1, <1>2, CallStep DEF Call

LEMMA KeysStep ==
  ASSUME KeysInv, NEW c \in Callers, Keys(c)
  PROVE  KeysInv'
<1> DEFINE r == findKey(c, heap[cache].keys, "missing")
<1>1. caller[c] \in CallerState /\ cache \in Pool
  BY KeysFields DEF Keys, KeysInv, KeysTyped, Addresses
<1>2. "missing" \in Calling
  BY DEF Calling
<1>3. r \in CallerState
  BY <1>1, <1>2, FindFacts
<1>4. EntryKnown(r, cache)
  BY <1>1, <1>2, FindFacts DEF EntryKnown, NoCall, CallerState, Keys
<1>5. spawned' \subseteq Instances \X Pool
  <2>1. <<InstanceOf[c], cache>> \in Instances \X Pool
    BY <1>1, KeySetFacts
  <2>2. spawned \subseteq Instances \X Pool
    BY DEF KeysInv, KeysTyped
  <2>3. spawned' = spawned \/ spawned' = spawned \cup {<<InstanceOf[c], cache>>}
    BY DEF Keys
  <2> QED BY <2>1, <2>2, <2>3
<1>6. caller' = [caller EXCEPT ![c] = r]
  BY DEF Keys
<1> HIDE DEF r
<1> QED BY <1>3, <1>4, <1>5, <1>6, CallStep DEF Keys

LEMMA KeysMissStep ==
  ASSUME KeysInv, NEW c \in Callers, KeysMiss(c)
  PROVE  KeysInv'
<1> DEFINE r == [caller[c] EXCEPT !.pc = "cold"]
<1>1. r \in CallerState /\ EntryKnown(r, cache)
  BY KeysFields DEF CallerState, Calling, EntryKnown
<1>2. caller' = [caller EXCEPT ![c] = r] /\ spawned' \subseteq Instances \X Pool
  BY DEF KeysMiss, MoveTo, KeysInv, KeysTyped
<1> HIDE DEF r
<1> QED BY <1>1, <1>2, CallStep DEF KeysMiss

LEMMA UnknownKidStep ==
  ASSUME KeysInv, NEW c \in Callers, UnknownKid(c)
  PROVE  KeysInv'
<1> DEFINE r == [caller[c] EXCEPT
                   !.entry = IF heap[cache].since < MinGap THEN Nil ELSE cache,
                   !.pc = IF heap[cache].since < MinGap THEN Missed ELSE "mark"]
<1>1. caller[c] \in CallerState /\ cache \in Addresses /\ cache # Nil
  BY KeysFields DEF UnknownKid, KeysInv, KeysTyped, EntryKnown
<1>2. r \in CallerState /\ EntryKnown(r, cache)
  BY <1>1 DEF CallerState, Calling, EntryKnown, Missed, Addresses
<1>3. caller' = [caller EXCEPT ![c] = r] /\ spawned' \subseteq Instances \X Pool
  BY DEF UnknownKid, KeysInv, KeysTyped
<1> HIDE DEF r
<1> QED BY <1>2, <1>3, CallStep DEF UnknownKid

LEMMA FreshSteps ==
  ASSUME KeysInv, NEW c \in Callers, FreshKeys(c) \/ FreshKey(c) \/ FreshFails(c)
  PROVE  KeysInv'
<1>1. /\ caller[c] \in CallerState
      /\ UNCHANGED <<published, heap, cache, flight>>
      /\ spawned' \subseteq Instances \X Pool
  BY KeysFields DEF FreshKeys, FreshKey, FreshFails, KeysInv, KeysTyped
<1>2. \A pc \in {"freshAgain", "failed"} :
        /\ findKey(c, published, pc) \in CallerState
        /\ EntryKnown(findKey(c, published, pc), cache)
  <2> TAKE pc \in {"freshAgain", "failed"}
  <2>1. pc \in Calling \cup {"failed"}
    BY DEF Calling
  <2> QED BY <1>1, <2>1, FindFacts DEF EntryKnown, NoCall, CallerState
<1>3. CASE FreshKeys(c)
  <2>1. caller' = [caller EXCEPT ![c] = findKey(c, published, "freshAgain")]
    BY <1>3 DEF FreshKeys
  <2> QED BY <1>1, <1>2, <2>1, CallStep
<1>4. CASE FreshKey(c)
  <2>1. caller' = [caller EXCEPT ![c] = findKey(c, published, "failed")]
    BY <1>4 DEF FreshKey
  <2> QED BY <1>1, <1>2, <2>1, CallStep
<1>5. CASE FreshFails(c)
  <2> DEFINE r == [caller[c] EXCEPT !.pc = "failed", !.owed = FALSE]
  <2>1. caller' = [caller EXCEPT ![c] = r]
    BY <1>5 DEF FreshFails
  <2>2. r \in CallerState /\ EntryKnown(r, cache)
    BY <1>1 DEF CallerState, EntryKnown
  <2> HIDE DEF r
  <2> QED BY <1>1, <2>1, <2>2, CallStep
<1> QED BY <1>3, <1>4, <1>5

\* What group.Do does to the flights.
LEMMA FlightFacts ==
  ASSUME KeysInv, NEW i \in Instances, NEW x \in Addresses, StartFlight(i, x)
  PROVE  /\ flight' \in [Instances -> FlightState]
         /\ \A j \in Instances : flight'[j].pc = "answered" => flight'[j] = flight[j]
<1>1. NoAnswer \in Answers
  BY KeySetFacts DEF NoAnswer, Answers, Versions
<1> DEFINE f == [pc |-> "sent", existing |-> x, answer |-> NoAnswer]
<1>2. f \in FlightState /\ f.pc = "sent"
  BY <1>1
<1>3. flight' = flight \/ flight' = [flight EXCEPT ![i] = f]
  BY DEF StartFlight
<1> HIDE DEF f
<1> QED BY <1>2, <1>3 DEF KeysInv, KeysTyped

LEMMA BackgroundStep ==
  ASSUME KeysInv, NEW s \in spawned, BackgroundRefresh(s)
  PROVE  KeysInv'
<1>1. s[1] \in Instances /\ s[2] \in Addresses
  BY DEF KeysInv, KeysTyped, Addresses
<1>2. /\ heap \in [Pool -> CacheEntry] /\ Tagged(heap) /\ heap' = Collect(heap)
      /\ StartFlight(s[1], s[2])
  BY DEF KeysInv, KeysTyped, BackgroundRefresh
<1>3. \A j \in Instances : AnswerOK(flight'[j], heap')
  BY <1>1, <1>2, FlightFacts, AnswersKept
<1>4. heap' \in [Pool -> CacheEntry] /\ Tagged(heap')
  BY <1>2, CollectFacts
<1>5. flight' \in [Instances -> FlightState]
  BY <1>1, <1>2, FlightFacts
<1>6. \A c \in Callers : EntryKnown(caller'[c], cache')
  BY DEF KeysInv, BackgroundRefresh
<1> QED BY <1>3, <1>4, <1>5, <1>6 DEF KeysInv, KeysTyped, BackgroundRefresh

LEMMA MarkStep ==
  ASSUME KeysInv, NEW c \in Callers, markRefreshAttempt(c)
  PROVE  KeysInv'
<1> DEFINE e == caller[c].entry
           m == [heap[e] EXCEPT !.since = 0]
           h == [heap EXCEPT ![e] = m]
           r == [caller[c] EXCEPT !.pc = "refresh"]
<1>1. caller[c] \in CallerState /\ e \in Pool /\ e # Nil /\ heap[e] \in CacheEntry
  BY KeysFields DEF markRefreshAttempt, KeysInv, EntryKnown, CallerState, Addresses
<1>2. m \in CacheEntry /\ m.etag = heap[e].etag /\ m.keys = heap[e].keys
  BY <1>1, KeySetFacts DEF CacheEntry
<1>3. r \in CallerState /\ EntryKnown(r, e)
  BY <1>1 DEF CallerState, Calling, EntryKnown
<1>4. cache' = e /\ caller' = [caller EXCEPT ![c] = r] /\ heap' = Collect(h)
  BY DEF markRefreshAttempt, MoveTo
<1> HIDE DEF e, m, r
<1>5. h \in [Pool -> CacheEntry] /\ Tagged(h)
  BY <1>1, <1>2 DEF KeysInv, KeysTyped, Tagged
<1>6. \A x \in Pool : h[x].etag = heap[x].etag
  BY <1>1, <1>2 DEF KeysInv, KeysTyped
<1> HIDE DEF h
<1>7. \A j \in Instances : AnswerOK(flight'[j], heap')
  <2>1. \A j \in Instances : flight'[j] = flight[j]
    BY DEF markRefreshAttempt
  <2> QED BY <1>4, <1>5, <1>6, <2>1, AnswersKept
<1>8. heap' \in [Pool -> CacheEntry] /\ Tagged(heap')
  BY <1>4, <1>5, CollectFacts
<1>9. caller' \in [Callers -> CallerState]
  BY <1>3, <1>4 DEF KeysInv, KeysTyped
<1>10. \A d \in Callers : EntryKnown(caller'[d], cache')
  BY <1>1, <1>3, <1>4 DEF KeysInv, KeysTyped, EntryKnown
<1> QED BY <1>1, <1>4, <1>7, <1>8, <1>9, <1>10
        DEF KeysInv, KeysTyped, Addresses, markRefreshAttempt

LEMMA BlockingStep ==
  ASSUME KeysInv, NEW c \in Callers, Refresh(c)
  PROVE  KeysInv'
<1> DEFINE r == [caller[c] EXCEPT
                   !.pc = IF caller[c].pc = "cold" THEN "coldWait" ELSE "wait",
                   !.entry = Nil]
<1>1. /\ caller[c] \in CallerState /\ caller[c].entry \in Addresses
      /\ InstanceOf[c] \in Instances
  BY KeysFields, KeySetFacts DEF CallerState
<1>2. r \in CallerState /\ EntryKnown(r, cache)
  BY <1>1 DEF CallerState, Calling, EntryKnown, Addresses
<1>3. /\ heap \in [Pool -> CacheEntry] /\ Tagged(heap) /\ heap' = Collect(heap)
      /\ StartFlight(InstanceOf[c], caller[c].entry)
      /\ caller' = [caller EXCEPT ![c] = r]
  BY DEF KeysInv, KeysTyped, Refresh
<1> HIDE DEF r
<1>4. \A j \in Instances : AnswerOK(flight'[j], heap')
  BY <1>1, <1>3, FlightFacts, AnswersKept
<1>5. heap' \in [Pool -> CacheEntry] /\ Tagged(heap')
  BY <1>3, CollectFacts
<1>6. flight' \in [Instances -> FlightState]
  BY <1>1, <1>3, FlightFacts
<1>7. caller' \in [Callers -> CallerState] /\ cache' = cache
  BY <1>2, <1>3 DEF KeysInv, KeysTyped, Refresh
<1>8. \A d \in Callers : EntryKnown(caller'[d], cache')
  BY <1>2, <1>3, <1>7 DEF KeysInv, KeysTyped
<1> QED BY <1>4, <1>5, <1>6, <1>7, <1>8 DEF KeysInv, KeysTyped, Refresh

LEMMA StepKeys == KeysInv /\ [KeysNext]_keysVars => KeysInv'
<1> SUFFICES ASSUME KeysInv, [KeysNext]_keysVars PROVE KeysInv'
  OBVIOUS
<1>1. CASE Rotate
  BY <1>1, RotateStep
<1>2. CASE Tick
  BY <1>2, TickStep
<1>3. ASSUME NEW i \in Instances, fetchJWKS(i) \/ refresh(i) \/ refreshFails(i)
      PROVE  KeysInv'
  BY <1>3, FetchStep, RefreshedStep, RefreshFailsStep
<1>4. ASSUME NEW s \in spawned, BackgroundRefresh(s) PROVE KeysInv'
  BY <1>4, BackgroundStep
<1>5. ASSUME NEW c \in Callers, NEW k \in Versions, Call(c, k) PROVE KeysInv'
  BY <1>5, CallStepKeys
<1>6. ASSUME NEW c \in Callers, Step(c) \/ FreshKeys(c) \/ FreshKey(c) \/ FreshFails(c)
      PROVE  KeysInv'
  BY <1>6, KeysStep, KeysMissStep, UnknownKidStep, MarkStep, BlockingStep, FreshSteps
     DEF Step
<1>7. CASE UNCHANGED keysVars
  BY <1>7 DEF keysVars, KeysInv, KeysTyped, Tagged, AnswerOK, EntryKnown
<1> QED BY <1>1, <1>2, <1>3, <1>4, <1>5, <1>6, <1>7 DEF KeysNext

\* Every reachable state of the remote key set is well typed, and a tag in the
\* cache or in the hands of a goroutine names the keys stored with it: however
\* late a background refresh of remote_keyset.go starts, a 304 confirms the
\* keys it is applied to.
THEOREM KeysTypeCorrect == KeysSpec => []KeysTypeOK
<1>0. NewRemoteKeySet => KeysInv /\ KeysOwed
  BY InitKeys
<1>1. KeysInv => KeysTypeOK
  <2> SUFFICES ASSUME KeysInv PROVE KeysTypeOK
    OBVIOUS
  <2>1. Reachable \ {Nil} \subseteq Pool
    BY DEF KeysInv, KeysTyped, Reachable, Addresses, CallerState
  <2>2. TagNamesKeys
    BY <2>1 DEF TagNamesKeys, KeysInv, Tagged
  <2> QED BY <2>2 DEF KeysTypeOK, KeysInv, KeysTyped
<1>2. QED
  BY <1>0, <1>1, StepKeys, PTL DEF KeysSpec

-----------------------------------------------------------------------------
(* A published key is found *)

\* One call goes on as r, and the server publishes what it did.
LEMMA OwedCall ==
  ASSUME KeysInv, KeysOwed, published' = published,
         NEW c \in Callers, NEW r, OwedOK(r, published),
         caller' = [caller EXCEPT ![c] = r]
  PROVE  KeysOwed'
BY DEF KeysInv, KeysTyped, KeysOwed

\* A call whose search goes on at a state before its last fetch stays owed.
LEMMA OwedFind ==
  ASSUME KeysInv, NEW c \in Callers, caller[c] \in CallerState, OwedOK(caller[c], published),
         NEW v, NEW pc \in Calling \cup {"failed"},
         \/ pc \notin {"freshAgain", "failed"}
         \/ v = published
  PROVE  OwedOK(findKey(c, v, pc), published)
<1>1. ~NoCall.owed
  BY DEF NoCall
<1>2. CASE findKey(c, v, pc) = NoCall
  BY <1>1, <1>2 DEF OwedOK
<1>3. CASE /\ caller[c].kid \notin KeysOf(v)
           /\ findKey(c, v, pc) = [caller[c] EXCEPT !.pc = pc]
  <2> DEFINE r == [caller[c] EXCEPT !.pc = pc]
  <2>1. r.owed = caller[c].owed /\ r.kid = caller[c].kid /\ r.pc = pc
    BY DEF CallerState
  <2>2. v = published => ~caller[c].owed
    BY <1>3 DEF OwedOK
  <2> HIDE DEF r
  <2>3. OwedOK(r, published)
    BY <2>1, <2>2 DEF OwedOK
  <2> QED BY <1>3, <2>3 DEF r
<1> QED BY <1>2, <1>3, FindFacts

LEMMA StepOwed ==
  ASSUME Fallback, KeysInv, KeysOwed, [KeysNext]_keysVars
  PROVE  KeysOwed'
<1>0. /\ \A c \in Callers : caller[c] \in CallerState /\ OwedOK(caller[c], published)
      /\ Missed = "fresh"
  BY KeysFields DEF KeysOwed, Missed
<1>1. CASE Rotate
  <2> SUFFICES ASSUME NEW c \in Callers PROVE OwedOK(caller'[c], published')
    BY DEF KeysOwed
  <2>1. CASE caller[c].kid \in KeysOf(published + 1)
    BY <1>0, <1>1, <2>1 DEF Rotate, OwedOK
  <2>2. CASE caller[c].kid \notin KeysOf(published + 1)
    <3>1. caller'[c] = [caller[c] EXCEPT !.owed = FALSE]
      BY <1>1, <2>2 DEF Rotate
    <3>2. ~caller'[c].owed
      BY <1>0, <3>1 DEF CallerState
    <3> QED BY <3>2 DEF OwedOK
  <2> QED BY <2>1, <2>2
<1>2. CASE UNCHANGED <<published, caller>>
  BY <1>2 DEF KeysOwed, OwedOK
<1>3. ASSUME NEW i \in Instances, refreshFails(i) PROVE KeysOwed'
  <2> SUFFICES ASSUME NEW c \in Callers PROVE OwedOK(caller'[c], published')
    BY DEF KeysOwed
  <2>1. CASE Waiting(c, i)
    <3>1. caller'[c] = [caller[c] EXCEPT !.pc = Missed, !.owed = FALSE]
      BY <1>3, <2>1 DEF refreshFails
    <3>2. ~caller'[c].owed
      BY <1>0, <3>1 DEF CallerState
    <3> QED BY <3>2 DEF OwedOK
  <2>2. CASE ~Waiting(c, i)
    BY <1>0, <1>3, <2>2 DEF refreshFails, OwedOK
  <2> QED BY <2>1, <2>2
<1>4. ASSUME NEW i \in Instances, refresh(i) PROVE KeysOwed'
  <2> SUFFICES ASSUME NEW c \in Callers PROVE OwedOK(caller'[c], published')
    BY DEF KeysOwed
  <2>1. published' = published
    BY <1>4 DEF refresh
  <2>2. CASE Waiting(c, i)
    <3>1. PICK v : caller'[c] = AfterRefresh(c, v)
      BY <1>4, <2>2 DEF refresh
    <3> DEFINE pc == IF caller[c].pc = "coldWait" THEN "missing" ELSE Missed
    <3>2. pc \in Calling \cup {"failed"} /\ pc \notin {"freshAgain", "failed"}
      BY <1>0 DEF Calling
    <3>3. caller'[c] = findKey(c, v, pc)
      BY <3>1 DEF AfterRefresh
    <3> HIDE DEF pc
    <3> QED BY <1>0, <2>1, <3>2, <3>3, OwedFind
  <2>3. CASE ~Waiting(c, i)
    BY <1>0, <1>4, <2>1, <2>3 DEF refresh
  <2> QED BY <2>2, <2>3
<1>5. ASSUME NEW c \in Callers, NEW k \in Versions, Call(c, k) PROVE KeysOwed'
  <2> DEFINE r == [pc |-> "keys", kid |-> k, entry |-> Nil,
                   owed |-> k \in KeysOf(published)]
  <2>1. OwedOK(r, published)
    BY DEF OwedOK
  <2>2. caller' = [caller EXCEPT ![c] = r] /\ published' = published
    BY <1>5 DEF Call
  <2> QED BY <2>1, <2>2, OwedCall
<1>6. ASSUME NEW c \in Callers, Keys(c) PROVE KeysOwed'
  <2>1. /\ caller' = [caller EXCEPT ![c] = findKey(c, heap[cache].keys, "missing")]
        /\ published' = published
        /\ "missing" \in Calling
    BY <1>6 DEF Keys, Calling
  <2>2. OwedOK(findKey(c, heap[cache].keys, "missing"), published)
    BY <1>0, <2>1, OwedFind
  <2> QED BY <2>1, <2>2, OwedCall
\* A call that moves on without a search keeps kid and owed.
<1>7. ASSUME NEW c \in Callers, NEW pc, NEW x, pc \notin {"freshAgain", "failed"},
             published' = published,
             caller' = [caller EXCEPT ![c] = [caller[c] EXCEPT !.entry = x, !.pc = pc]]
      PROVE  KeysOwed'
  <2> DEFINE r == [caller[c] EXCEPT !.entry = x, !.pc = pc]
  <2>1. r.owed = caller[c].owed /\ r.kid = caller[c].kid /\ r.pc = pc
    BY <1>0 DEF CallerState
  <2>2. caller' = [caller EXCEPT ![c] = r]
    BY <1>7
  <2> HIDE DEF r
  <2>3. OwedOK(r, published)
    BY <1>0, <1>7, <2>1 DEF OwedOK
  <2> QED BY <1>7, <2>2, <2>3, OwedCall
<1>8. ASSUME NEW c \in Callers, KeysMiss(c) \/ markRefreshAttempt(c) PROVE KeysOwed'
  <2>1. PICK pc \in {"cold", "refresh"} :
          caller' = [caller EXCEPT ![c] = [caller[c] EXCEPT !.pc = pc]]
    BY <1>8 DEF KeysMiss, markRefreshAttempt, MoveTo
  <2>2. [caller[c] EXCEPT !.pc = pc] = [caller[c] EXCEPT !.entry = caller[c].entry, !.pc = pc]
    BY <1>0 DEF CallerState
  <2>3. published' = published
    BY <1>8 DEF KeysMiss, markRefreshAttempt
  <2> QED BY <1>7, <2>1, <2>2, <2>3
<1>9. ASSUME NEW c \in Callers, UnknownKid(c) PROVE KeysOwed'
  <2> DEFINE pc == IF heap[cache].since < MinGap THEN Missed ELSE "mark"
             x == IF heap[cache].since < MinGap THEN Nil ELSE cache
  <2>1. pc \notin {"freshAgain", "failed"} /\ published' = published
    BY <1>0, <1>9 DEF UnknownKid
  <2>2. caller' = [caller EXCEPT ![c] = [caller[c] EXCEPT !.entry = x, !.pc = pc]]
    BY <1>9 DEF UnknownKid
  <2> HIDE DEF pc, x
  <2> QED BY <1>7, <2>1, <2>2
<1>10. ASSUME NEW c \in Callers, Refresh(c) PROVE KeysOwed'
  <2> DEFINE pc == IF caller[c].pc = "cold" THEN "coldWait" ELSE "wait"
  <2>1. pc \notin {"freshAgain", "failed"} /\ published' = published
    BY <1>10 DEF Refresh
  <2>2. caller' = [caller EXCEPT ![c] = [caller[c] EXCEPT !.entry = Nil, !.pc = pc]]
    BY <1>10 DEF Refresh
  <2> HIDE DEF pc
  <2> QED BY <1>7, <2>1, <2>2
<1>11. ASSUME NEW c \in Callers, FreshKeys(c) \/ FreshKey(c) PROVE KeysOwed'
  <2>1. PICK pc \in {"freshAgain", "failed"} :
          caller' = [caller EXCEPT ![c] = findKey(c, published, pc)]
    BY <1>11 DEF FreshKeys, FreshKey
  <2>2. pc \in Calling \cup {"failed"} /\ published' = published
    BY <1>11 DEF Calling, FreshKeys, FreshKey
  <2>3. OwedOK(findKey(c, published, pc), published)
    BY <1>0, <2>2, OwedFind
  <2> QED BY <2>1, <2>2, <2>3, OwedCall
<1>12. ASSUME NEW c \in Callers, FreshFails(c) PROVE KeysOwed'
  <2> DEFINE r == [caller[c] EXCEPT !.pc = "failed", !.owed = FALSE]
  <2>1. ~r.owed
    BY <1>0 DEF CallerState
  <2>2. caller' = [caller EXCEPT ![c] = r] /\ published' = published
    BY <1>12 DEF FreshFails
  <2> HIDE DEF r
  <2>3. OwedOK(r, published)
    BY <2>1 DEF OwedOK
  <2> QED BY <2>2, <2>3, OwedCall
<1>13. ASSUME NEW i \in Instances, fetchJWKS(i) PROVE KeysOwed'
  BY <1>2, <1>13 DEF fetchJWKS
<1>14. ASSUME NEW s \in spawned, BackgroundRefresh(s) PROVE KeysOwed'
  BY <1>2, <1>14 DEF BackgroundRefresh
<1>15. CASE Tick \/ UNCHANGED keysVars
  BY <1>2, <1>15 DEF Tick, keysVars
<1>16. ASSUME NEW c \in Callers, Step(c) \/ FreshKeys(c) \/ FreshKey(c) \/ FreshFails(c)
       PROVE  KeysOwed'
  BY <1>6, <1>8, <1>9, <1>10, <1>11, <1>12, <1>16 DEF Step
<1> QED BY <1>1, <1>3, <1>4, <1>5, <1>13, <1>14, <1>15, <1>16 DEF KeysNext

\* validateIDTokenAs, with its second attempt without the cache, never refuses
\* a token for its key while the server publishes that key, unless a fetch
\* failed: for any number of validations, rotations, late refreshes and
\* entries, any minimum interval and any sharing of RemoteKeySet values.
THEOREM KeyIsFound ==
  ASSUME Fallback
  PROVE  KeysSpec => []PublishedKeyIsFound
<1>0. NewRemoteKeySet => KeysInv /\ KeysOwed
  BY InitKeys
<1>1. KeysInv /\ KeysOwed /\ [KeysNext]_keysVars => (KeysInv /\ KeysOwed)'
  BY StepKeys, StepOwed
<1>2. KeysOwed => PublishedKeyIsFound
  BY DEF KeysOwed, OwedOK, PublishedKeyIsFound
<1> QED BY <1>0, <1>1, <1>2, PTL DEF KeysSpec
-----------------------------------------------------------------------------
(* Nobody waits for a fetch that has ended *)

Waits(r) == r.pc \in {"coldWait", "wait"}

\* A step in which no call starts to wait and no flight ends.
LEMMA WaitersKept ==
  ASSUME KeysInv, WaitersHaveFlight,
         \A c \in Callers : Waits(caller'[c]) => Waits(caller[c]),
         \A i \in Instances : flight[i].pc # "idle" => flight'[i].pc # "idle"
  PROVE  WaitersHaveFlight'
<1>1. \A c \in Callers : InstanceOf[c] \in Instances
  BY KeySetFacts
<1> QED BY <1>1 DEF WaitersHaveFlight, Waits

\* A flight that is started, and the others.
LEMMA StartedFlight ==
  ASSUME KeysInv, NEW i \in Instances, NEW x, StartFlight(i, x)
  PROVE  /\ flight'[i].pc # "idle"
         /\ \A j \in Instances : flight[j].pc # "idle" => flight'[j].pc # "idle"
BY DEF StartFlight, KeysInv, KeysTyped

\* The end of the flight of instance i sends everyone on who waits for it.
LEMMA WaitersReleased ==
  ASSUME KeysInv, WaitersHaveFlight, NEW i \in Instances,
         flight' = [flight EXCEPT ![i] = IdleFlight],
         \A c \in Callers : IF Waiting(c, i) THEN ~Waits(caller'[c])
                            ELSE caller'[c] = caller[c]
  PROVE  WaitersHaveFlight'
<1> SUFFICES ASSUME NEW c \in Callers, Waits(caller'[c])
             PROVE  flight'[InstanceOf[c]].pc # "idle"
  BY DEF WaitersHaveFlight, Waits
<1>1. caller'[c] = caller[c] /\ InstanceOf[c] # i
  BY DEF Waiting, Waits
<1>2. InstanceOf[c] \in Instances /\ flight[InstanceOf[c]].pc # "idle"
  BY <1>1, KeySetFacts DEF WaitersHaveFlight, Waits
<1> QED BY <1>1, <1>2 DEF KeysInv, KeysTyped

\* A search that fails goes on where it was told to.
LEMMA WaitsNot ==
  ASSUME NEW c \in Callers, caller[c] \in CallerState, NEW v,
         NEW pc \in Calling \cup {"failed"}, pc \notin {"coldWait", "wait"}
  PROVE  ~Waits(findKey(c, v, pc))
<1>1. ~Waits(NoCall)
  BY DEF NoCall, Waits
<1>2. [caller[c] EXCEPT !.pc = pc].pc = pc
  BY DEF CallerState
<1> QED BY <1>1, <1>2 DEF findKey, Waits

\* Every step keeps it.
LEMMA StepWaiters ==
  ASSUME KeysInv, WaitersHaveFlight, [KeysNext]_keysVars
  PROVE  WaitersHaveFlight'
<1>0. /\ \A c \in Callers : caller[c] \in CallerState
      /\ Missed \in Calling \cup {"failed"} /\ Missed \notin {"coldWait", "wait"}
      /\ caller \in [Callers -> CallerState]
      /\ flight \in [Instances -> FlightState]
  BY KeysFields DEF KeysInv, KeysTyped, Missed, Calling
<1>1. CASE Rotate
  <2>1. \A c \in Callers : caller'[c].pc = caller[c].pc
    BY <1>0, <1>1 DEF Rotate, CallerState
  <2> QED BY <1>1, <2>1, WaitersKept DEF Rotate, Waits
<1>2. CASE UNCHANGED <<flight, caller>>
  BY <1>2, WaitersKept
<1>3. ASSUME NEW i \in Instances, fetchJWKS(i) PROVE WaitersHaveFlight'
  BY <1>0, <1>3, WaitersKept DEF fetchJWKS
<1>4. ASSUME NEW i \in Instances, refreshFails(i) PROVE WaitersHaveFlight'
  <2>1. ASSUME NEW c \in Callers, Waiting(c, i) PROVE ~Waits(caller'[c])
    <3>1. caller'[c] = [caller[c] EXCEPT !.pc = Missed, !.owed = FALSE]
      BY <1>4, <2>1 DEF refreshFails
    <3>2. caller'[c].pc = Missed
      BY <1>0, <3>1 DEF CallerState
    <3> QED BY <1>0, <3>2 DEF Waits
  <2> QED BY <1>4, <2>1, WaitersReleased DEF refreshFails
<1>5. ASSUME NEW i \in Instances, refresh(i) PROVE WaitersHaveFlight'
  <2>1. ASSUME NEW c \in Callers, Waiting(c, i) PROVE ~Waits(caller'[c])
    <3>1. PICK v : caller'[c] = AfterRefresh(c, v)
      BY <1>5, <2>1 DEF refresh
    <3> DEFINE pc == IF caller[c].pc = "coldWait" THEN "missing" ELSE Missed
    <3>2. pc \in Calling \cup {"failed"} /\ pc \notin {"coldWait", "wait"}
      BY <1>0 DEF Calling
    <3>3. caller'[c] = findKey(c, v, pc)
      BY <3>1 DEF AfterRefresh
    <3> HIDE DEF pc
    <3> QED BY <1>0, <3>2, <3>3, WaitsNot
  <2>2. \A c \in Callers : ~Waiting(c, i) => caller'[c] = caller[c]
    BY <1>5 DEF refresh
  <2>3. flight' = [flight EXCEPT ![i] = IdleFlight]
    BY <1>5 DEF refresh
  <2> QED BY <2>1, <2>2, <2>3, WaitersReleased
\* A call goes on by itself.
<1>6. ASSUME NEW c \in Callers, NEW r, caller' = [caller EXCEPT ![c] = r], ~Waits(r),
             flight' = flight
      PROVE  WaitersHaveFlight'
  <2>1. \A d \in Callers : caller'[d] = IF d = c THEN r ELSE caller[d]
    BY <1>0, <1>6
  <2> QED BY <1>6, <2>1, WaitersKept
<1>7. ASSUME NEW c \in Callers, NEW k \in Versions, Call(c, k) PROVE WaitersHaveFlight'
  BY <1>6, <1>7 DEF Call, Waits
<1>8. ASSUME NEW c \in Callers, Keys(c) \/ FreshKeys(c) \/ FreshKey(c)
      PROVE  WaitersHaveFlight'
  <2>1. PICK v \in {heap[cache].keys, published}, pc \in {"missing", "freshAgain", "failed"} :
          caller' = [caller EXCEPT ![c] = findKey(c, v, pc)]
    BY <1>8 DEF Keys, FreshKeys, FreshKey
  <2>2. ~Waits(findKey(c, v, pc))
    BY <1>0, <2>1, WaitsNot DEF Calling
  <2>3. flight' = flight
    BY <1>8 DEF Keys, FreshKeys, FreshKey
  <2> QED BY <1>6, <2>1, <2>2, <2>3
<1>9. ASSUME NEW c \in Callers, KeysMiss(c) \/ markRefreshAttempt(c) \/ UnknownKid(c)
                                 \/ FreshFails(c)
      PROVE  WaitersHaveFlight'
  <2> DEFINE pc == IF heap[cache].since < MinGap THEN Missed ELSE "mark"
             x == IF heap[cache].since < MinGap THEN Nil ELSE cache
             r1 == [caller[c] EXCEPT !.pc = "cold"]
             r2 == [caller[c] EXCEPT !.pc = "refresh"]
             r3 == [caller[c] EXCEPT !.entry = x, !.pc = pc]
             r4 == [caller[c] EXCEPT !.pc = "failed", !.owed = FALSE]
  <2>1. \E r \in {r1, r2, r3, r4} : caller' = [caller EXCEPT ![c] = r]
    BY <1>9 DEF KeysMiss, markRefreshAttempt, UnknownKid, FreshFails, MoveTo
  <2>2. pc \notin {"coldWait", "wait"}
    BY <1>0
  <2> HIDE DEF pc, x
  <2>3. r1.pc = "cold" /\ r2.pc = "refresh" /\ r3.pc = pc /\ r4.pc = "failed"
    BY <1>0 DEF CallerState
  <2> HIDE DEF r1, r2, r3, r4
  <2>4. \A r \in {r1, r2, r3, r4} : ~Waits(r)
    BY <2>2, <2>3 DEF Waits
  <2>5. flight' = flight
    BY <1>9 DEF KeysMiss, markRefreshAttempt, UnknownKid, FreshFails
  <2> QED BY <1>6, <2>1, <2>4, <2>5
<1>10. ASSUME NEW c \in Callers, Refresh(c) PROVE WaitersHaveFlight'
  <2>1. InstanceOf[c] \in Instances /\ StartFlight(InstanceOf[c], caller[c].entry)
    BY <1>10, KeySetFacts DEF Refresh
  <2>2. \A d \in Callers : d # c => caller'[d] = caller[d]
    BY <1>0, <1>10 DEF Refresh
  <2>3. \A d \in Callers : InstanceOf[d] \in Instances
    BY KeySetFacts
  <2> QED BY <2>1, <2>2, <2>3, StartedFlight DEF WaitersHaveFlight
<1>11. ASSUME NEW s \in spawned, BackgroundRefresh(s) PROVE WaitersHaveFlight'
  <2>1. s[1] \in Instances /\ StartFlight(s[1], s[2]) /\ caller' = caller
    BY <1>11 DEF BackgroundRefresh, KeysInv, KeysTyped
  <2> QED BY <2>1, StartedFlight, WaitersKept
<1>12. CASE Tick \/ UNCHANGED keysVars
  BY <1>2, <1>12 DEF Tick, keysVars
<1> QED BY <1>1, <1>3, <1>4, <1>5, <1>7, <1>8, <1>9, <1>10, <1>11, <1>12 DEF KeysNext, Step

\* However the goroutines of remote_keyset.go share flights, and whatever ends
\* a fetch, a call that waits has a fetch under way to wait for: what keeps it
\* from returning can only be a server that never answers.
THEOREM NobodyWaitsInVain == KeysSpec => []WaitersHaveFlight
<1>0. NewRemoteKeySet => KeysInv /\ WaitersHaveFlight
  <2>1. NewRemoteKeySet => WaitersHaveFlight
    BY DEF NewRemoteKeySet, WaitersHaveFlight, NoCall
  <2> QED BY <2>1, InitKeys
<1>1. KeysInv /\ WaitersHaveFlight /\ [KeysNext]_keysVars => (KeysInv /\ WaitersHaveFlight)'
  BY StepKeys, StepWaiters
<1> QED BY <1>0, <1>1, PTL DEF KeysSpec
=============================================================================
