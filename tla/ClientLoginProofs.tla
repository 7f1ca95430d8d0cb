---- MODULE ClientLoginProofs ----
(***************************************************************************)
(* Proofs about ClientLogin, for any lifetimes, limits, margin and skew of *)
(* the clocks, and any number of calls and faults.                         *)
(***************************************************************************)
EXTENDS ClientLogin, TransportAuthProofs

----------------------------------------------------------------------------
\* The inductive invariant.

\* A frame is on the connection only while a call waits, and it is the request
\* of the step the call is at, or the answer to it.
CallInv ==
    /\ call.step = "idle" <=> call.goal = "none"
    /\ call.step \in {"idle", "register", "begin", "finish", call.goal}
    /\ call.sent => call.step # "idle"
    /\ call.since <= now
    /\ ~call.sent => requests = <<>> /\ answers = <<>>
    /\ requests # <<>> => Head(requests) = Frame
    /\ answers # <<>> => Head(answers).to = call.step

\* The store has the row of the token, unless something ended the token or its
\* time is over.
Held(token, expires) ==
    \/ token \in ended
    \/ expires < now
    \/ \E s \in sessions : /\ Matches(s, token) /\ s.user = Me
                           /\ ~s.revoked /\ s.expires = expires

\* Such a token outlives the call that began at since by the margin.
Outlives(expires) == call.since + Margin + Skew < expires

\* The adapter caches tokens of that kind only, and so is the one on its way.
TokenInv ==
    /\ cache.token # NoToken => cache.token \in Token /\ Held(cache.token, cache.expires)
    /\ call.step # "idle" /\ call.step = call.goal => Outlives(cache.expires)
    /\ answers # <<>> /\ Head(answers).ok /\ Head(answers).to = "finish" =>
         /\ Head(answers).token \in Token
         /\ Held(Head(answers).token, Head(answers).expires)
         /\ Outlives(Head(answers).expires)

LoginInv == AuthInv /\ LoginTypeOK /\ CallInv /\ TokenInv

----------------------------------------------------------------------------
\* The store under the calls of the adapter.

\* The server draws an id and a token that nobody has.
LEMMA FreshDrawn ==
    ASSUME Challenge \ issued # {}, Token \ AllTokens # {}
    PROVE  NewChallenge \in Challenge \ issued /\ NewToken \in Token \ AllTokens
<1>1. ASSUME NEW S \in SUBSET Nat, S # {} PROVE Least(S) \in S
  <2>1. \E n \in S : \A m \in S : n <= m
    BY <1>1, LeastElement
  <2> QED
    BY <2>1 DEF Least
<1>2. Challenge \ issued \in SUBSET Nat /\ Token \ AllTokens \in SUBSET Nat
  BY ClientLoginAssumption
<1> QED
  BY <1>1, <1>2 DEF NewChallenge, NewToken

\* A logout cleans up and revokes the row of its token in one call.
LEMMA LogoutStep ==
    ASSUME AuthInv, NEW r, NEW ok \in BOOLEAN, ServeLogout(r, ok)
    PROVE  AuthInv'
<1> USE DEF AuthInv
<1> DEFINE R == {s \in sessions : ok /\ Matches(s, r.token)}
<1>1. UNCHANGED <<account, secret, begins, finishes, now, issued, logins>> /\ challenges' = KeptChallenges
  BY DEF ServeLogout
<1>2. \A t \in sessions' : \E s \in sessions : t = [s EXCEPT !.revoked = @ \/ s \in R]
  <2>1. \A s \in KeptSessions : s \in sessions /\ ((ok /\ Matches(s, r.token)) <=> s \in R)
    BY DEF KeptSessions
  <2>2. sessions' = {[s EXCEPT !.revoked = @ \/ (ok /\ Matches(s, r.token))] : s \in KeptSessions}
    BY DEF ServeLogout
  <2> HIDE DEF R
  <2>3. ASSUME NEW t \in sessions'
        PROVE  \E s \in sessions : t = [s EXCEPT !.revoked = @ \/ s \in R]
    <3>1. PICK s \in KeptSessions : t = [s EXCEPT !.revoked = @ \/ (ok /\ Matches(s, r.token))]
      BY <2>2
    <3>2. s \in SessionRow /\ s \in sessions
      BY <2>1 DEF TypeOK
    <3>3. (s.revoked \/ (ok /\ Matches(s, r.token))) = (s.revoked \/ s \in R)
      BY <2>1, <3>2 DEF SessionRow
    <3> QED
      BY <3>1, <3>2, <3>3
  <2> QED
    BY <2>3
<1>3. R \in SUBSET sessions
  OBVIOUS
<1> HIDE DEF R
<1>4. SessionsFromLogins'
  BY <1>1, <1>2, <1>3, SessionsRevoked
<1>5. ChallengesUnspent'
  <2>1. KeptChallenges \subseteq challenges
    BY DEF KeptChallenges
  <2> QED
    BY <1>1, <2>1, ChallengesDeleted
<1>6. OneLoginPerChallenge'
  BY <1>1 DEF OneLoginPerChallenge
<1>7. TypeOK'
  <2>1. \A s \in SessionRow : [s EXCEPT !.revoked = @ \/ s \in R] \in SessionRow
    BY DEF SessionRow
  <2>2. sessions' \subseteq SessionRow
    BY <1>2, <2>1 DEF TypeOK
  <2>3. challenges' \subseteq ChallengeRow
    BY <1>1, KeptTypes
  <2> QED
    BY <1>1, <2>2, <2>3 DEF TypeOK
<1> QED
  BY <1>4, <1>5, <1>6, <1>7

\* A key registered with the user's token is registered with any signature.
LEMMA RegisterStep ==
    ASSUME NEW k \in Key, NEW tokenOk \in BOOLEAN,
           RegisterNew(Me, k, tokenOk) \/ RegisterRotate(Me, k, NoAccount, tokenOk)
    PROVE  Next
<1>1. Me \in User
  BY ClientLoginAssumption
<1>2. CASE RegisterNew(Me, k, tokenOk)
  BY <1>1, <1>2 DEF Next
<1>3. CASE RegisterRotate(Me, k, NoAccount, tokenOk)
  <2>1. RegisterRotate(Me, k, k, tokenOk)
    BY <1>3 DEF RegisterRotate
  <2> QED
    BY <1>1, <2>1 DEF Next
<1> QED
  BY <1>2, <1>3

\* Whatever the server executes is a step of the store, or a logout.
LEMMA ServeIsStep ==
    ASSUME NEW r, NEW ok \in BOOLEAN, Serve(r, ok)
    PROVE  Next \/ UNCHANGED vars \/ ServeLogout(r, ok)
<1>1. /\ Me \in User /\ MyKey \in Key /\ Provisioned \in BOOLEAN
      /\ NewChallenge \in Challenge /\ NewToken \in Token
  BY FreshDrawn, ClientLoginAssumption DEF Serve
<1>2. CASE ServeRegister(ok)
  BY <1>1, <1>2, RegisterStep DEF ServeRegister
<1>3. CASE ServeBegin(ok)
  BY <1>1, <1>3 DEF ServeBegin, Next
<1>4. CASE ServeFinish(r, ok)
  <2>1. Answers(r) \subseteq challenges
    BY DEF Answers, KeptChallenges
  <2> QED
    BY <1>1, <1>4, <2>1 DEF ServeFinish, Next
<1>5. CASE ServeCommand(r, ok)
  BY <1>5 DEF ServeCommand, Next
<1> QED
  BY <1>2, <1>3, <1>4, <1>5 DEF Serve

\* The invariant of the store holds under the adapter too.
LEMMA StoreKept ==
    ASSUME AuthInv, [LoginNext]_loginVars
    PROVE  AuthInv'
<1>1. CASE UNCHANGED vars
  BY <1>1 DEF vars, AuthInv, TypeOK, SessionsFromLogins, ChallengesUnspent, OneLoginPerChallenge
<1>2. CASE Next
  BY <1>2, AuthInvStep
<1>3. ASSUME NEW r, NEW ok \in BOOLEAN, Serve(r, ok) PROVE AuthInv'
  BY <1>1, <1>2, <1>3, ServeIsStep, LogoutStep
<1>4. CASE Execute \/ ExecuteAbandoned
  BY <1>3, <1>4 DEF Execute, ExecuteAbandoned
<1>5. CASE ServerRestart \/ Wait
  BY <1>2, <1>5 DEF ServerRestart, Wait, Next
<1>6. CASE \E k \in Key : TakeOver(k)
  BY <1>2, <1>6, RegisterStep DEF TakeOver
<1>7. CASE \/ StartCall("command") \/ StartCall("logout") \/ ClientStep
           \/ ServerHangup \/ ClientRestart
  BY <1>1, <1>7 DEF StartCall, ClientStep, SendRequest, SendFails, ReadFails, ReadError,
                    ReadLoginStep, ReadResult, ServerHangup, ClientRestart
<1> QED
  BY <1>1, <1>4, <1>5, <1>6, <1>7 DEF LoginNext, loginVars

----------------------------------------------------------------------------
\* What a step does to the row of a token.

\* A row that is not revoked stays, unless its token is ended in the step or
\* its time is over.
RowsStay ==
    \A s \in sessions : ~s.revoked =>
        s.token \in ended' \/ s.expires < now \/ (s \in sessions' /\ secret' = secret)

\* A step that at most cleans up.
LEMMA CleanupStays ==
    ASSUME AuthInv, KeptSessions \subseteq sessions', secret' = secret
    PROVE  RowsStay
<1>1. \A s \in sessions : s.expires \in Nat /\ now \in Nat
  BY DEF AuthInv, TypeOK, SessionRow
<1> QED
  BY <1>1 DEF RowsStay, KeptSessions

\* A restart or a change of key ends every token there is.
LEMMA EndingStays ==
    ASSUME AuthInv, EndTokens(AllTokens)
    PROVE  RowsStay
BY DEF RowsStay, EndTokens, AllTokens, AuthInv, SessionsFromLogins

\* A logout revokes only the rows of the token it ends.
LEMMA LogoutStays ==
    ASSUME AuthInv, NEW r, NEW ok \in BOOLEAN, ServeLogout(r, ok)
    PROVE  RowsStay
<1> SUFFICES ASSUME NEW s \in KeptSessions, ~s.revoked, s.token \notin ended'
             PROVE  s \in sessions' /\ secret' = secret
  <2>1. \A s \in sessions : s.expires \in Nat /\ now \in Nat
    BY DEF AuthInv, TypeOK, SessionRow
  <2> QED
    BY <2>1 DEF RowsStay, KeptSessions
<1>1. s \in SessionRow
  BY DEF KeptSessions, AuthInv, TypeOK
<1>2. ~(ok /\ Matches(s, r.token))
  BY DEF ServeLogout, EndTokens, Matches
<1>3. [s EXCEPT !.revoked = @ \/ (ok /\ Matches(s, r.token))] = s
  BY <1>1, <1>2 DEF SessionRow
<1>4. sessions' = {[t EXCEPT !.revoked = @ \/ (ok /\ Matches(t, r.token))] : t \in KeptSessions}
  BY DEF ServeLogout
<1>5. [s EXCEPT !.revoked = @ \/ (ok /\ Matches(s, r.token))] \in sessions'
  BY <1>4
<1> QED
  BY <1>3, <1>5 DEF ServeLogout

\* Whatever the server executes.
LEMMA ServeStays ==
    ASSUME AuthInv, NEW r, NEW ok \in BOOLEAN, Serve(r, ok)
    PROVE  RowsStay /\ now' = now /\ ended \subseteq ended'
<1>0. KeptSessions \subseteq sessions
  BY DEF KeptSessions
<1>1. CASE ServeRegister(ok)
  <2>1. CASE RegisterNew(Me, MyKey, Provisioned) /\ UNCHANGED ended
    BY <1>0, <2>1, CleanupStays DEF RegisterNew
  <2>2. CASE RegisterRotate(Me, MyKey, NoAccount, Provisioned) /\ EndTokens(AllTokens)
    BY <2>2, EndingStays DEF RegisterRotate, EndTokens
  <2>3. CASE UNCHANGED <<vars, ended>>
    BY <1>0, <2>3, CleanupStays DEF vars
  <2> QED
    BY <1>1, <2>1, <2>2, <2>3 DEF ServeRegister
<1>2. CASE ServeBegin(ok) /\ UNCHANGED ended
  BY <1>2, CleanupStays DEF ServeBegin, AuthBegin, AuthBeginRefused
<1>3. CASE ServeFinish(r, ok) /\ UNCHANGED ended
  BY <1>3, CleanupStays DEF ServeFinish, AuthFinish, AuthFinishFails, AuthFinishRefused
<1>4. CASE ServeCommand(r, ok)
  BY <1>4, CleanupStays DEF ServeCommand, AuthenticateSessionToken
<1>5. CASE ServeLogout(r, ok)
  BY <1>5, LogoutStays DEF ServeLogout, EndTokens
<1> QED
  BY <1>1, <1>2, <1>3, <1>4, <1>5 DEF Serve

\* Every step of the system.
LEMMA StepStays ==
    ASSUME AuthInv, [LoginNext]_loginVars
    PROVE  RowsStay /\ now <= now' /\ ended \subseteq ended'
<1>0. KeptSessions \subseteq sessions /\ now \in Nat
  BY DEF KeptSessions, AuthInv, TypeOK
<1>1. CASE UNCHANGED <<vars, ended>>
  BY <1>0, <1>1, CleanupStays DEF vars
<1>2. CASE Execute \/ ExecuteAbandoned
  BY <1>0, <1>2, ServeStays DEF Execute, ExecuteAbandoned
<1>3. CASE ServerRestart
  BY <1>0, <1>3, EndingStays DEF ServerRestart, Restart, EndTokens
<1>4. CASE Wait
  BY <1>0, <1>4, CleanupStays DEF Wait, Tick, observed
<1>5. ASSUME NEW k \in Key, TakeOver(k)
      PROVE  RowsStay /\ now <= now' /\ ended \subseteq ended'
  <2>1. CASE RegisterNew(Me, k, TRUE) /\ UNCHANGED ended
    BY <1>0, <2>1, CleanupStays DEF RegisterNew
  <2>2. CASE RegisterRotate(Me, k, NoAccount, TRUE) /\ EndTokens(AllTokens)
    BY <1>0, <2>2, EndingStays DEF RegisterRotate, EndTokens
  <2> QED
    BY <1>5, <2>1, <2>2 DEF TakeOver
<1>6. CASE \/ StartCall("command") \/ StartCall("logout") \/ ClientStep
           \/ ServerHangup \/ ClientRestart
  BY <1>1, <1>6 DEF StartCall, ClientStep, SendRequest, SendFails, ReadFails, ReadError,
                    ReadLoginStep, ReadResult, ServerHangup, ClientRestart, observed
<1> QED
  BY <1>1, <1>2, <1>3, <1>4, <1>5, <1>6 DEF LoginNext, loginVars, observed

\* So a token that is held stays held.
LEMMA HeldStays ==
    ASSUME AuthInv, AuthInv', [LoginNext]_loginVars, NEW token, NEW expires \in Nat,
           Held(token, expires)
    PROVE  Held(token, expires)'
<1>1. now \in Nat /\ now' \in Nat
  BY DEF AuthInv, TypeOK
<1>2. RowsStay /\ now <= now' /\ ended \subseteq ended'
  BY StepStays
<1>3. CASE expires < now
  BY <1>1, <1>2, <1>3 DEF Held
<1>4. CASE \E s \in sessions : /\ Matches(s, token) /\ s.user = Me
                               /\ ~s.revoked /\ s.expires = expires
  <2>1. PICK s \in sessions : Matches(s, token) /\ s.user = Me /\ ~s.revoked /\ s.expires = expires
    BY <1>4
  <2>2. CASE s \in sessions' /\ secret' = secret
    BY <2>1, <2>2 DEF Held, Matches
  <2> QED
    BY <1>1, <1>2, <2>1, <2>2 DEF RowsStay, Held, Matches
<1> QED
  BY <1>2, <1>3, <1>4 DEF Held

----------------------------------------------------------------------------
\* The connection and the call in progress.

\* The empty connection.
LEMMA EmptyFrames == ASSUME NEW S PROVE <<>> \in Seq(S) /\ Len(<<>>) = 0
OBVIOUS

\* A connection that holds a frame holds nothing else.
LEMMA OneFrame ==
    ASSUME NEW S, NEW q \in Seq(S), q # <<>>, Len(q) <= 1
    PROVE  Len(q) = 1 /\ Head(q) \in S /\ Tail(q) = <<>>
<1>1. Len(q) \in Nat /\ Len(q) # 0
  OBVIOUS
<1>2. Head(q) \in S /\ Tail(q) \in Seq(S) /\ Len(Tail(q)) = Len(q) - 1
  OBVIOUS
<1> QED
  BY <1>1, <1>2

\* An appended frame is the only one.
LEMMA FirstFrame ==
    ASSUME NEW S, NEW x \in S
    PROVE  /\ Append(<<>>, x) \in Seq(S) /\ Len(Append(<<>>, x)) = 1
           /\ Append(<<>>, x) # <<>> /\ Head(Append(<<>>, x)) = x
OBVIOUS

\* Giving up the connection leaves nothing on it.
LEMMA Closed ==
    ASSUME LoginTypeOK, CloseConnection
    PROVE  /\ conn' = "none" /\ requests' = <<>> /\ answers' = <<>>
           /\ abandoned' \subseteq RequestFrame
<1>1. \A i \in DOMAIN requests : requests[i] \in RequestFrame
  BY DEF LoginTypeOK
<1> QED
  BY <1>1 DEF CloseConnection, LoginTypeOK

\* What a fault counts.
LEMMA FaultCounted ==
    ASSUME LoginTypeOK, Fault PROVE faults' \in 0 .. MaxFaults
BY ClientLoginAssumption DEF Fault, LoginTypeOK

\* The tokens that end are tokens.
LEMMA TokensEnd ==
    ASSUME AuthInv, ended \subseteq Token, EndTokens(AllTokens)
    PROVE  ended' \subseteq Token
<1>1. \A l \in logins : l.token \in Token
  BY DEF AuthInv, TypeOK, Login
<1> QED
  BY <1>1 DEF EndTokens, AllTokens

\* A served request ends tokens only.
LEMMA ServeEnds ==
    ASSUME AuthInv, ended \subseteq Token, NEW r, NEW ok \in BOOLEAN, Serve(r, ok)
    PROVE  ended' \subseteq Token
<1>1. EndTokens(AllTokens) => ended' \subseteq Token
  BY TokensEnd
<1>2. AcceptedFor(r.token, Me) => r.token \in Token
  BY DEF AcceptedFor, Matches, AuthInv, TypeOK, SessionRow
<1> QED
  BY <1>1, <1>2 DEF Serve, ServeRegister, ServeCommand, ServeLogout, EndTokens

\* The server answers with a frame of its kind.
LEMMA AnswerType ==
    ASSUME AuthInv, NEW r \in RequestFrame, NEW ok \in BOOLEAN, Serve(r, ok)
    PROVE  Answer(r, ok) \in AnswerFrame /\ Answer(r, ok).to = r.step
<1>1. NewChallenge \in Nat /\ NewToken \in Nat /\ NoToken \in Nat
  BY FreshDrawn, ClientLoginAssumption DEF Serve
<1>2. now + SessionTtl \in Nat
  BY TransportAuthAssumption DEF AuthInv, TypeOK
<1>3. r.step \in Steps
  BY DEF RequestFrame
<1> DEFINE challenge == IF ok /\ r.step = "begin" THEN NewChallenge ELSE NoToken
           token == IF ok /\ r.step = "finish" THEN NewToken ELSE NoToken
           expires == IF ok /\ r.step = "finish" THEN now + SessionTtl ELSE 0
<1>4. challenge \in Nat /\ token \in Nat /\ expires \in Nat
  BY <1>1, <1>2
<1>5. Answer(r, ok) = [to |-> r.step, ok |-> ok, challenge |-> challenge, token |-> token,
                       expires |-> expires]
  BY DEF Answer
<1> HIDE DEF challenge, token, expires
<1> QED
  BY <1>3, <1>4, <1>5 DEF AnswerFrame

\* The calls of the adapter and the frames on its connection.
Adapter == LoginTypeOK /\ CallInv

\* An answer on the connection is alone there, and so is a request.
LEMMA Alone ==
    ASSUME Adapter
    PROVE  /\ answers # <<>> => requests = <<>> /\ Tail(answers) = <<>> /\ Head(answers) \in AnswerFrame
           /\ requests # <<>> => answers = <<>> /\ Tail(requests) = <<>> /\ Head(requests) \in RequestFrame
<1>1. /\ requests \in Seq(RequestFrame) /\ answers \in Seq(AnswerFrame)
      /\ Len(requests) \in Nat /\ Len(answers) \in Nat /\ Len(requests) + Len(answers) <= 1
  BY DEF Adapter, LoginTypeOK
<1>2. Len(requests) <= 1 /\ Len(answers) <= 1
  BY <1>1
<1>3. /\ requests # <<>> => Len(requests) = 1 /\ Tail(requests) = <<>> /\ Head(requests) \in RequestFrame
      /\ answers # <<>> => Len(answers) = 1 /\ Tail(answers) = <<>> /\ Head(answers) \in AnswerFrame
  BY <1>1, <1>2, OneFrame
<1>4. (Len(requests) = 0 => requests = <<>>) /\ (Len(answers) = 0 => answers = <<>>)
  BY <1>1
<1> QED
  BY <1>1, <1>3, <1>4

\* A call that ends leaves an idle adapter with nothing on its connection.
LEMMA CallEnds ==
    ASSUME Adapter, NEW outcome \in {"ok", "refused", "failed"}, EndCall(outcome),
           requests' = <<>>, answers' = <<>>, now' \in Nat,
           cache' \in [token : Nat, expires : Nat], conn' \in {"none", "open", "dead"},
           abandoned' \subseteq RequestFrame, faults' \in 0 .. MaxFaults, ended' \subseteq Token
    PROVE  Adapter'
<1>1. call' = [goal |-> "none", step |-> "idle", sent |-> FALSE, challenge |-> NoToken, since |-> 0]
  BY DEF EndCall, NoCall
<1>2. NoToken \in Nat /\ result' = outcome
  BY ClientLoginAssumption DEF EndCall
<1>3. call' \in [goal : {"none", "command", "logout"}, step : Steps \cup {"idle"}, sent : BOOLEAN,
                 challenge : Nat, since : Nat]
  BY <1>1, <1>2
<1>4. LoginTypeOK'
  BY <1>2, <1>3, EmptyFrames DEF LoginTypeOK
<1>5. CallInv'
  BY <1>1 DEF CallInv
<1> QED
  BY <1>4, <1>5 DEF Adapter

\* A step that leaves the adapter alone, but for the requests it gave up, the
\* clock and the count of the faults.
LEMMA AdapterAlone ==
    ASSUME Adapter, UNCHANGED <<cache, call, answers, requests, result>>,
           now \in Nat, now' \in Nat, now <= now', conn' \in {"none", "open", "dead"},
           abandoned' \subseteq RequestFrame, faults' \in 0 .. MaxFaults, ended' \subseteq Token
    PROVE  Adapter'
<1>1. LoginTypeOK'
  BY DEF Adapter, LoginTypeOK
<1>2. call.since \in Nat
  BY DEF Adapter, LoginTypeOK
<1>3. CallInv'
  BY <1>2 DEF Adapter, CallInv, Frame
<1> QED
  BY <1>1, <1>3 DEF Adapter

\* The start of a call keeps the adapter's invariant.
LEMMA StartStep ==
    ASSUME AuthInv, Adapter, NEW goal \in {"command", "logout"}, StartCall(goal)
    PROVE  Adapter'
<1> DEFINE step == IF Usable THEN goal ELSE "register"
<1>1. call' = [goal |-> goal, step |-> step, sent |-> FALSE, challenge |-> NoToken, since |-> now]
  BY DEF StartCall, NoCall
<1>2. now \in Nat /\ now' = now /\ NoToken \in Nat
  BY ClientLoginAssumption DEF StartCall, vars, AuthInv, TypeOK
<1>3. step \in {goal, "register"} /\ step # "idle"
  OBVIOUS
<1> HIDE DEF step
<1>4. faults' \in 0 .. MaxFaults
  BY FaultCounted DEF StartCall, Adapter, LoginTypeOK
<1>5. call' \in [goal : {"none", "command", "logout"}, step : Steps \cup {"idle"}, sent : BOOLEAN,
                 challenge : Nat, since : Nat]
  BY <1>1, <1>2, <1>3 DEF Steps
<1>6. LoginTypeOK'
  BY <1>4, <1>5 DEF StartCall, Adapter, LoginTypeOK, observed
<1>7. requests' = <<>> /\ answers' = <<>>
  BY DEF StartCall, Adapter, CallInv
<1>8. CallInv'
  BY <1>1, <1>2, <1>3, <1>7 DEF CallInv
<1> QED
  BY <1>6, <1>8 DEF Adapter

\* A request written to the connection keeps the adapter's invariant.
LEMMA SendStep ==
    ASSUME AuthInv, Adapter, SendRequest
    PROVE  Adapter'
<1>1. call \in [goal : {"none", "command", "logout"}, step : Steps \cup {"idle"}, sent : BOOLEAN,
                challenge : Nat, since : Nat]
      /\ cache \in [token : Nat, expires : Nat] /\ call.step # "idle"
  BY DEF Adapter, LoginTypeOK, SendRequest
<1>2. Frame \in RequestFrame
  BY <1>1, ClientLoginAssumption DEF Frame, RequestFrame
<1>3. /\ call' = [call EXCEPT !.sent = TRUE] /\ cache' = cache /\ now' = now
      /\ conn' = "open" /\ requests = <<>> /\ answers = <<>> /\ answers' = <<>>
      /\ requests' = Append(<<>>, Frame)
  BY DEF SendRequest, Adapter, CallInv, vars
<1>4. /\ call'.goal = call.goal /\ call'.step = call.step /\ call'.sent = TRUE
      /\ call'.challenge = call.challenge /\ call'.since = call.since
  BY <1>1, <1>3
<1>5. requests' \in Seq(RequestFrame) /\ Len(requests') = 1 /\ requests' # <<>> /\ Head(requests') = Frame
  BY <1>2, <1>3, FirstFrame
<1>6. call' \in [goal : {"none", "command", "logout"}, step : Steps \cup {"idle"}, sent : BOOLEAN,
                 challenge : Nat, since : Nat]
  BY <1>1, <1>3
<1>7. LoginTypeOK'
  BY <1>3, <1>5, <1>6, EmptyFrames DEF SendRequest, Adapter, LoginTypeOK, observed
<1>8. Frame' = Frame
  BY <1>3, <1>4 DEF Frame
<1>9. CallInv'
  BY <1>1, <1>3, <1>4, <1>5, <1>8 DEF Adapter, CallInv
<1> QED
  BY <1>7, <1>9 DEF Adapter

\* The call goes on with its next step, or ends.
LEMMA ReadStep ==
    ASSUME AuthInv, Adapter, ReadLoginStep
    PROVE  Adapter'
<1>1. /\ call \in [goal : {"none", "command", "logout"}, step : Steps \cup {"idle"}, sent : BOOLEAN,
                   challenge : Nat, since : Nat]
      /\ cache \in [token : Nat, expires : Nat] /\ call.since <= now /\ call.step # "idle"
      /\ call.goal # "none"
  BY DEF Adapter, LoginTypeOK, CallInv, ReadLoginStep
<1> DEFINE a == Head(answers)
<1>2. a \in AnswerFrame /\ answers' = <<>> /\ requests' = <<>> /\ now' = now
  BY Alone DEF ReadLoginStep, vars
<1>3. PICK next : next = AfterStep[call.step]
  OBVIOUS
<1>4. next \in {"begin", "finish", call.goal}
  BY <1>3 DEF ReadLoginStep, AfterStep
<1>5. call' = [call EXCEPT !.step = next, !.sent = FALSE, !.challenge = a.challenge]
  BY <1>3 DEF ReadLoginStep
<1>6. /\ call' \in [goal : {"none", "command", "logout"}, step : Steps \cup {"idle"}, sent : BOOLEAN,
                    challenge : Nat, since : Nat]
      /\ call'.goal = call.goal /\ call'.step = next /\ call'.sent = FALSE /\ call'.since = call.since
  BY <1>1, <1>2, <1>4, <1>5 DEF AnswerFrame, Steps
<1>7. cache' \in [token : Nat, expires : Nat]
  BY <1>1, <1>2 DEF ReadLoginStep, AnswerFrame
<1>8. LoginTypeOK'
  BY <1>2, <1>6, <1>7, EmptyFrames DEF ReadLoginStep, Adapter, LoginTypeOK, observed
<1>9. CallInv'
  BY <1>1, <1>2, <1>4, <1>6 DEF CallInv
<1> QED
  BY <1>8, <1>9 DEF Adapter

\* The end of an exchange, or of the client, keeps the adapter's invariant.
LEMMA EndStep ==
    ASSUME AuthInv, AuthInv', Adapter,
           SendFails \/ ReadFails \/ ReadError \/ ReadResult \/ ClientRestart
    PROVE  Adapter'
<1>1. LoginTypeOK /\ now' \in Nat
  BY DEF Adapter, AuthInv, TypeOK
<1>2. /\ cache \in [token : Nat, expires : Nat] /\ NoCache \in [token : Nat, expires : Nat]
      /\ conn \in {"none", "open", "dead"} /\ abandoned \subseteq RequestFrame
      /\ faults \in 0 .. MaxFaults /\ ended \subseteq Token
  BY <1>1, ClientLoginAssumption DEF LoginTypeOK, NoCache
<1>3. CASE SendFails \/ ReadFails
  <2>1. CloseConnection /\ EndCall("failed") /\ UNCHANGED <<cache, ended>>
    BY <1>3 DEF SendFails, ReadFails
  <2>2. faults' \in 0 .. MaxFaults
    BY <1>1, <1>2, <1>3, FaultCounted DEF SendFails, ReadFails
  <2> QED
    BY <1>1, <1>2, <2>1, <2>2, Closed, CallEnds
<1>4. CASE ReadError
  <2>1. requests' = <<>> /\ answers' = <<>>
    BY <1>4, Alone DEF ReadError
  <2>2. PICK outcome \in {"ok", "refused", "failed"} : EndCall(outcome)
    BY <1>4 DEF ReadError
  <2>3. UNCHANGED <<cache, conn, abandoned, faults, ended>>
    BY <1>4 DEF ReadError
  <2> QED
    BY <1>1, <1>2, <2>1, <2>2, <2>3, CallEnds
<1>5. CASE ReadResult
  <2>1. EndCall("ok") /\ UNCHANGED <<faults, ended>>
    BY <1>5 DEF ReadResult
  <2>2. CASE call.goal = "logout"
    <3>1. cache' = NoCache /\ CloseConnection
      BY <1>5, <2>2 DEF ReadResult
    <3> QED
      BY <1>1, <1>2, <2>1, <3>1, Closed, CallEnds
  <2>3. CASE call.goal # "logout"
    <3>1. requests' = <<>> /\ answers' = <<>> /\ UNCHANGED <<cache, conn, abandoned>>
      BY <1>5, <2>3, Alone DEF ReadResult
    <3> QED
      BY <1>1, <1>2, <2>1, <3>1, CallEnds
  <2> QED
    BY <2>2, <2>3
<1>6. CASE ClientRestart
  <2>1. CloseConnection /\ EndCall("failed") /\ cache' = NoCache /\ ended' = ended
    BY <1>6 DEF ClientRestart
  <2>2. faults' \in 0 .. MaxFaults
    BY <1>1, <1>6, FaultCounted DEF ClientRestart
  <2> QED
    BY <1>1, <1>2, <2>1, <2>2, Closed, CallEnds
<1> QED
  BY <1>3, <1>4, <1>5, <1>6

\* The server takes the request of the call and answers it.
LEMMA ExecuteStep ==
    ASSUME AuthInv, Adapter, Execute
    PROVE  Adapter'
<1> DEFINE r == Head(requests)
<1>1. /\ r \in RequestFrame /\ r = Frame /\ answers = <<>> /\ requests' = <<>>
      /\ UNCHANGED <<cache, call, conn, abandoned, faults, result>>
  BY Alone DEF Execute, Adapter, CallInv
<1>2. PICK ok \in BOOLEAN : Serve(r, ok) /\ answers' = Append(answers, Answer(r, ok))
  BY DEF Execute
<1> HIDE DEF r
<1>3. /\ answers' \in Seq(AnswerFrame) /\ Len(answers') = 1 /\ answers' # <<>>
      /\ Head(answers').to = r.step
  BY <1>1, <1>2, AnswerType, FirstFrame
<1>4. ended' \subseteq Token /\ now' = now
  BY <1>2, ServeEnds, ServeStays DEF Adapter, LoginTypeOK
<1>5. LoginTypeOK'
  BY <1>1, <1>3, <1>4, EmptyFrames DEF Adapter, LoginTypeOK
<1>6. r.step = call.step
  BY <1>1 DEF Frame
<1>7. call.sent
  BY DEF Execute, Adapter, CallInv
<1>8. CallInv'
  BY <1>1, <1>3, <1>4, <1>6, <1>7 DEF Adapter, CallInv
<1> QED
  BY <1>5, <1>8 DEF Adapter

\* A restart of the server loses the request; an answer can still be read.
LEMMA RestartStep ==
    ASSUME AuthInv, Adapter, ServerRestart
    PROVE  Adapter'
<1>1. /\ UNCHANGED <<cache, call, answers, result>> /\ requests' = <<>> /\ abandoned' = {}
      /\ now' = now /\ conn' \in {"none", "open", "dead"}
  BY DEF ServerRestart, Restart, Adapter, LoginTypeOK
<1>2. faults' \in 0 .. MaxFaults
  BY FaultCounted DEF ServerRestart, Adapter
<1>3. ended' \subseteq Token
  BY TokensEnd DEF ServerRestart, Adapter, LoginTypeOK
<1>4. Len(answers) \in Nat /\ Len(requests) \in Nat
  BY DEF Adapter, LoginTypeOK
<1>5. LoginTypeOK'
  BY <1>1, <1>2, <1>3, <1>4, EmptyFrames DEF Adapter, LoginTypeOK
<1>6. CallInv'
  BY <1>1 DEF Adapter, CallInv
<1> QED
  BY <1>5, <1>6 DEF Adapter

\* Every step keeps the adapter's invariant.
LEMMA AdapterStep ==
    ASSUME AuthInv, AuthInv', Adapter, [LoginNext]_loginVars
    PROVE  Adapter'
<1>1. now \in Nat /\ now' \in Nat /\ now <= now'
  BY StepStays DEF AuthInv, TypeOK
<1>2. /\ conn \in {"none", "open", "dead"} /\ abandoned \subseteq RequestFrame
      /\ faults \in 0 .. MaxFaults /\ ended \subseteq Token
  BY DEF Adapter, LoginTypeOK
<1>3. CASE ExecuteAbandoned
  <2>1. PICK r \in abandoned, ok \in BOOLEAN : Serve(r, ok) /\ abandoned' = abandoned \ {r}
    BY <1>3 DEF ExecuteAbandoned
  <2>2. ended' \subseteq Token
    BY <1>2, <2>1, ServeEnds
  <2> QED
    BY <1>1, <1>2, <1>3, <2>1, <2>2, AdapterAlone DEF ExecuteAbandoned
<1>4. CASE ServerHangup
  BY <1>1, <1>2, <1>4, AdapterAlone DEF ServerHangup, observed
<1>5. CASE Wait \/ UNCHANGED loginVars
  BY <1>1, <1>2, <1>5, AdapterAlone DEF Wait, adapter, observed, loginVars
<1>6. ASSUME NEW k \in Key, TakeOver(k) PROVE Adapter'
  <2>1. faults' \in 0 .. MaxFaults
    BY <1>6, FaultCounted DEF TakeOver, Adapter
  <2>2. ended' \subseteq Token
    BY <1>2, <1>6, TokensEnd DEF TakeOver
  <2> QED
    BY <1>1, <1>2, <1>6, <2>1, <2>2, AdapterAlone DEF TakeOver, adapter
<1>7. CASE StartCall("command") \/ StartCall("logout")
  BY <1>7, StartStep
<1>8. CASE ClientStep
  BY <1>8, SendStep, ReadStep, EndStep DEF ClientStep
<1> QED
  BY <1>3, <1>4, <1>5, <1>6, <1>7, <1>8, EndStep, ExecuteStep, RestartStep DEF LoginNext

----------------------------------------------------------------------------
\* The token in the cache and the one on its way.

\* A cached token that a step leaves alone.
LEMMA CacheStays ==
    ASSUME AuthInv, AuthInv', Adapter, TokenInv, [LoginNext]_loginVars, cache' = cache
    PROVE  cache'.token # NoToken => cache'.token \in Token /\ Held(cache.token, cache.expires)'
<1>1. cache.expires \in Nat
  BY DEF Adapter, LoginTypeOK
<1> QED
  BY <1>1, HeldStays DEF TokenInv

\* A step of somebody else.
LEMMA OthersKeepToken ==
    ASSUME AuthInv, AuthInv', Adapter, TokenInv, [LoginNext]_loginVars,
           UNCHANGED <<cache, call, answers>>
    PROVE  TokenInv'
<1>1. cache'.token # NoToken => cache'.token \in Token /\ Held(cache.token, cache.expires)'
  BY CacheStays
<1>2. ASSUME answers # <<>>, Head(answers).ok, Head(answers).to = "finish"
      PROVE  /\ Head(answers).token \in Token
             /\ Held(Head(answers).token, Head(answers).expires)'
             /\ Outlives(Head(answers).expires)
  <2>1. Head(answers).expires \in Nat
    BY <1>2, Alone DEF AnswerFrame
  <2> QED
    BY <1>2, <2>1, HeldStays DEF TokenInv
<1> QED
  BY <1>1, <1>2 DEF TokenInv, Held, Outlives

\* The call looks at the cached token.
LEMMA StartKeepsToken ==
    ASSUME AuthInv, AuthInv', Adapter, TokenInv, [LoginNext]_loginVars,
           NEW goal \in {"command", "logout"}, StartCall(goal)
    PROVE  TokenInv'
<1> DEFINE step == IF Usable THEN goal ELSE "register"
<1>1. /\ call' = [goal |-> goal, step |-> step, sent |-> FALSE, challenge |-> NoToken, since |-> now]
      /\ cache' = cache /\ answers' = <<>>
  BY DEF StartCall, NoCall, Adapter, CallInv
<1>2. cache'.token # NoToken => cache'.token \in Token /\ Held(cache.token, cache.expires)'
  BY <1>1, CacheStays
<1>3. call'.step = call'.goal => now + Margin + Skew < cache.expires
  <2>1. now \in Nat /\ cache.expires \in Nat /\ Margin \in Nat /\ Skew \in Int
    BY ClientLoginAssumption DEF AuthInv, TypeOK, Adapter, LoginTypeOK
  <2>2. call'.step = call'.goal => Usable
    BY <1>1
  <2> QED
    BY <2>1, <2>2 DEF Usable
<1> QED
  BY <1>1, <1>2, <1>3 DEF TokenInv, Held, Outlives

\* The call ends.
LEMMA EndKeepsToken ==
    ASSUME AuthInv, AuthInv', Adapter, TokenInv, [LoginNext]_loginVars,
           call' = NoCall, answers' = <<>>, cache' \in {cache, NoCache}
    PROVE  TokenInv'
<1>1. CASE cache' = cache
  <2>1. cache'.token # NoToken => cache'.token \in Token /\ Held(cache.token, cache.expires)'
    BY <1>1, CacheStays
  <2> QED
    BY <1>1, <2>1 DEF TokenInv, Held, NoCall
<1>2. CASE cache' = NoCache
  BY <1>2 DEF TokenInv, NoCache, NoCall
<1> QED
  BY <1>1, <1>2

\* The call takes the token it has logged in for, or has not got one yet.
LEMMA ReadKeepsToken ==
    ASSUME AuthInv, AuthInv', Adapter, TokenInv, [LoginNext]_loginVars, ReadLoginStep
    PROVE  TokenInv'
<1> DEFINE a == Head(answers)
<1>1. /\ a \in AnswerFrame /\ a.ok /\ a.to = call.step /\ answers # <<>> /\ answers' = <<>>
      /\ call.goal \in {"command", "logout"}
  BY Alone DEF ReadLoginStep, Adapter, CallInv, LoginTypeOK
<1>2. call'.goal = call.goal /\ call'.since = call.since /\ call'.step = AfterStep[call.step]
  BY DEF ReadLoginStep, Adapter, LoginTypeOK
<1>3. CASE call.step = "finish"
  <2>1. cache' = [token |-> a.token, expires |-> a.expires]
    BY <1>3 DEF ReadLoginStep
  <2>2. cache'.token = a.token /\ cache'.expires = a.expires
    BY <2>1
  <2>3. a.expires \in Nat
    BY <1>1 DEF AnswerFrame
  <2> HIDE DEF a
  <2>4. a.token \in Token /\ Held(a.token, a.expires) /\ Outlives(a.expires)
    BY <1>1, <1>3 DEF TokenInv, a
  <2>5. PICK token \in Token, expires \in Nat : token = a.token /\ expires = a.expires
    BY <2>3, <2>4
  <2>6. Held(token, expires)' /\ Outlives(expires)
    BY <2>4, <2>5, HeldStays
  <2>7. cache'.token = token /\ cache'.expires = expires /\ token \in Token
    BY <2>2, <2>4, <2>5
  <2> QED
    BY <1>1, <1>2, <2>6, <2>7 DEF TokenInv, Held, Outlives
<1>4. CASE call.step # "finish"
  <2>1. cache' = cache
    BY <1>4 DEF ReadLoginStep
  <2>2. cache'.token # NoToken => cache'.token \in Token /\ Held(cache.token, cache.expires)'
    BY <2>1, CacheStays
  <2>3. call'.step # call'.goal
    BY <1>1, <1>2, <1>4 DEF ReadLoginStep, AfterStep
  <2> QED
    BY <1>1, <2>1, <2>2, <2>3 DEF TokenInv, Held
<1> QED
  BY <1>3, <1>4

\* The server hands out a token: its row is there, and it outlives the call.
LEMMA FinishHolds ==
    ASSUME AuthInv, CallInv, LoginTypeOK, NEW r, ServeFinish(r, TRUE),
           Challenge \ issued # {}, Token \ AllTokens # {}
    PROVE  /\ NewToken \in Token
           /\ \E s \in sessions' : /\ s.token = NewToken /\ s.secret = secret' /\ s.user = Me
                                   /\ ~s.revoked /\ s.expires = now + SessionTtl
           /\ Outlives(now + SessionTtl)
<1>1. NewToken \in Token
  BY FreshDrawn
<1>2. PICK c \in Answers(r) : AuthFinish(Me, c, MyKey, NewToken)
  BY DEF ServeFinish
<1>3. [token |-> NewToken, secret |-> secret, user |-> Me, expires |-> now + SessionTtl,
       revoked |-> FALSE] \in sessions' /\ secret' = secret
  BY <1>2 DEF AuthFinish
<1>4. Outlives(now + SessionTtl)
  <2>1. call.since \in Nat /\ now \in Nat /\ call.since <= now
    BY DEF AuthInv, TypeOK, LoginTypeOK, CallInv
  <2> QED
    BY <2>1, ClientLoginAssumption, TransportAuthAssumption DEF Outlives
<1> QED
  BY <1>1, <1>3, <1>4

\* The server's execution of a request keeps the agreement on the token.
LEMMA ExecuteKeepsToken ==
    ASSUME AuthInv, AuthInv', Adapter, TokenInv, [LoginNext]_loginVars, Execute
    PROVE  TokenInv'
<1> DEFINE r == Head(requests)
<1>1. cache' = cache /\ call' = call /\ answers = <<>> /\ r \in RequestFrame
  BY Alone DEF Execute
<1>2. PICK ok \in BOOLEAN : Serve(r, ok) /\ answers' = Append(answers, Answer(r, ok))
  BY DEF Execute
<1> HIDE DEF r
<1>3. Head(answers') = Answer(r, ok)
  BY <1>1, <1>2, AnswerType, FirstFrame
<1>4. cache'.token # NoToken => cache'.token \in Token /\ Held(cache.token, cache.expires)'
  BY <1>1, CacheStays
<1>5. ASSUME Head(answers').ok, Head(answers').to = "finish"
      PROVE  /\ Head(answers').token \in Token
             /\ Held(Head(answers).token, Head(answers).expires)'
             /\ Outlives(Head(answers).expires)'
  <2>1. ok /\ r.step = "finish"
    BY <1>3, <1>5 DEF Answer
  <2>2. Head(answers').token = NewToken /\ Head(answers').expires = now + SessionTtl
    BY <1>3, <2>1 DEF Answer
  <2>3. ServeFinish(r, TRUE) /\ Challenge \ issued # {} /\ Token \ AllTokens # {}
    BY <1>2, <2>1 DEF Serve
  <2>4. /\ NewToken \in Token
        /\ \E s \in sessions' : /\ s.token = NewToken /\ s.secret = secret' /\ s.user = Me
                                /\ ~s.revoked /\ s.expires = now + SessionTtl
        /\ Outlives(now + SessionTtl)
    BY <2>3, FinishHolds DEF Adapter
  <2>5. Held(Head(answers).token, Head(answers).expires)'
    BY <2>2, <2>4 DEF Held, Matches
  <2> QED
    BY <1>1, <2>2, <2>4, <2>5 DEF Outlives
<1> QED
  BY <1>1, <1>4, <1>5 DEF TokenInv, Held, Outlives

\* Every step keeps the agreement on the token.
LEMMA TokenStep ==
    ASSUME AuthInv, AuthInv', Adapter, TokenInv, [LoginNext]_loginVars
    PROVE  TokenInv'
<1>1. CASE StartCall("command") \/ StartCall("logout")
  BY <1>1, StartKeepsToken
<1>2. CASE SendRequest
  <2>1. /\ cache' = cache /\ answers' = <<>> /\ call'.since = call.since
        /\ call'.step = call.step /\ call'.goal = call.goal
    BY <1>2 DEF SendRequest, Adapter, LoginTypeOK, CallInv
  <2>2. cache'.token # NoToken => cache'.token \in Token /\ Held(cache.token, cache.expires)'
    BY <2>1, CacheStays
  <2> QED
    BY <2>1, <2>2 DEF TokenInv, Held, Outlives
<1>3. CASE SendFails \/ ReadFails \/ ReadError \/ ReadResult \/ ClientRestart
  <2>1. answers' = <<>>
    BY <1>3, Alone DEF SendFails, ReadFails, ReadError, ReadResult, ClientRestart, CloseConnection
  <2>2. call' = NoCall /\ cache' \in {cache, NoCache}
    BY <1>3 DEF SendFails, ReadFails, ReadError, ReadResult, ClientRestart, EndCall
  <2> QED
    BY <2>1, <2>2, EndKeepsToken
<1>4. CASE ReadLoginStep
  BY <1>4, ReadKeepsToken
<1>5. CASE Execute
  BY <1>5, ExecuteKeepsToken
<1>6. CASE \/ ExecuteAbandoned \/ ServerHangup \/ ServerRestart \/ Wait \/ UNCHANGED loginVars
           \/ \E k \in Key : TakeOver(k)
  BY <1>6, OthersKeepToken
     DEF ExecuteAbandoned, ServerHangup, ServerRestart, Wait, TakeOver, adapter, loginVars
<1> QED
  BY <1>1, <1>2, <1>3, <1>4, <1>5, <1>6 DEF LoginNext, ClientStep

----------------------------------------------------------------------------
\* The results.

\* The invariant holds in every state of the adapter and the store.
THEOREM LoginInvHolds == LoginSpec => []LoginInv
<1>1. LoginInit => LoginInv
  <2> SUFFICES ASSUME LoginInit PROVE LoginInv
    OBVIOUS
  <2>1. AuthInv
    <3>1. Init /\ TypeOK
      BY TypeInit DEF LoginInit
    <3> QED
      BY <3>1 DEF Init, AuthInv, SessionsFromLogins, ChallengesUnspent, OneLoginPerChallenge
  <2>2. /\ cache \in [token : Nat, expires : Nat]
        /\ call \in [goal : {"none", "command", "logout"}, step : Steps \cup {"idle"}, sent : BOOLEAN,
                     challenge : Nat, since : Nat]
    BY ClientLoginAssumption DEF LoginInit, NoCache, NoCall
  <2>3. LoginTypeOK
    BY <2>2, EmptyFrames, ClientLoginAssumption DEF LoginInit, LoginTypeOK
  <2>4. CallInv
    BY DEF LoginInit, Init, CallInv, NoCall
  <2>5. TokenInv
    BY DEF LoginInit, TokenInv, NoCache, NoCall
  <2> QED
    BY <2>1, <2>3, <2>4, <2>5 DEF LoginInv
<1>2. LoginInv /\ [LoginNext]_loginVars => LoginInv'
  BY StoreKept, AdapterStep, TokenStep DEF LoginInv, Adapter
<1> QED
  BY <1>1, <1>2, PTL DEF LoginSpec

\* The adapter's variables keep their types, and its connection never holds
\* more than one frame.
THEOREM LoginTypeCorrect == LoginSpec => []LoginTypeOK
<1>1. LoginInv => LoginTypeOK
  BY DEF LoginInv
<1> QED
  BY <1>1, LoginInvHolds, PTL

\* Request never takes the answer to a call that was given up, or to an
\* earlier step of a login, for the answer to the frame it has just sent.
THEOREM AnswersAlwaysMatch == LoginSpec => []AnswersMatch
<1>1. LoginInv => AnswersMatch
  BY DEF LoginInv, CallInv, AnswersMatch
<1> QED
  BY <1>1, LoginInvHolds, PTL

\* Only the server's thread makes an answer.
LEMMA OnlyExecuteAnswers ==
    ASSUME LoginInv, [LoginNext]_loginVars, answers' # answers, answers' # <<>>
    PROVE  Execute
<1>1. answers # <<>> => Tail(answers) = <<>>
  BY Alone DEF LoginInv, Adapter
<1> QED
  BY <1>1 DEF LoginNext, loginVars, adapter, StartCall, ClientStep, SendRequest, SendFails, ReadFails,
              ReadError, ReadLoginStep, ReadResult, ExecuteAbandoned, ServerHangup, ServerRestart,
              ClientRestart, Wait, TakeOver, CloseConnection

\* The server refuses a cached token only if a restart, a change of the
\* account's key or a logout ended it, or if more than the margin, shortened
\* by the skew of the clocks, went by since the call had looked at it.
THEOREM RefusalsHaveACause == LoginSpec => RefusalHasCause
<1>1. LoginInv /\ [LoginNext]_loginVars =>
        [\A token \in Token : Refused(token) =>
           token \in ended \/ now - call.since > Margin + Skew]_loginVars
  <2> SUFFICES ASSUME LoginInv, LoginNext, NEW token \in Token, Refused(token)
               PROVE  token \in ended \/ now - call.since > Margin + Skew
    OBVIOUS
  <2> DEFINE r == Head(requests)
  <2>1. r.token = token /\ requests # <<>> /\ Execute /\ ~Head(answers').ok
    BY OnlyExecuteAnswers DEF Refused
  <2>2. r \in RequestFrame /\ r = Frame /\ answers = <<>>
    BY <2>1, Alone DEF LoginInv, Adapter, CallInv
  <2>3. token # NoToken
    BY ClientLoginAssumption
  <2>4. r.step = call.step /\ call.step = call.goal /\ cache.token = token
    BY <2>1, <2>2, <2>3 DEF Frame
  <2>5. call.step \in {"command", "logout"}
    BY <2>1, <2>4 DEF LoginInv, LoginTypeOK, CallInv
  <2>6. PICK ok \in BOOLEAN : Serve(r, ok) /\ answers' = Append(answers, Answer(r, ok))
    BY <2>1 DEF Execute
  <2> HIDE DEF r
  <2>7. ~ok
    <3>1. Head(answers') = Answer(r, ok)
      BY <2>2, <2>6, AnswerType, FirstFrame DEF LoginInv
    <3> QED
      BY <2>1, <3>1 DEF Answer
  <2>8. ~AcceptedFor(token, Me)
    BY <2>1, <2>4, <2>5, <2>6, <2>7 DEF Serve, ServeCommand, ServeLogout
  <2>9. /\ now \in Nat /\ call.since \in Nat /\ cache.expires \in Nat
        /\ Margin \in Nat /\ Skew \in Int
    BY ClientLoginAssumption DEF LoginInv, AuthInv, TypeOK, LoginTypeOK
  <2>10. Held(token, cache.expires) /\ Outlives(cache.expires)
    BY <2>3, <2>4, <2>5 DEF LoginInv, TokenInv
  <2>11. token \in ended \/ cache.expires < now
    <3>1. ASSUME NEW s \in sessions, Matches(s, token), s.user = Me, ~s.revoked,
                 s.expires = cache.expires
          PROVE  cache.expires < now
      BY <2>8, <2>9, <3>1 DEF AcceptedFor
    <3> QED
      BY <2>10, <3>1 DEF Held
  <2> QED
    BY <2>9, <2>10, <2>11 DEF Outlives
<1> QED
  BY <1>1, LoginInvHolds, PTL DEF LoginSpec, RefusalHasCause
====
