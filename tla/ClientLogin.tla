---- MODULE ClientLogin ----
(***************************************************************************)
(* TcpServerApi (src/src/client/tcp_server_api.cpp): the adapter through   *)
(* which a client calls the server, composed with the authentication of    *)
(* the store (TransportAuth).  It keeps one connection and one cached      *)
(* session token; a call logs in first if the token is close to its        *)
(* expiry, sends one framed request at a time and waits for the answer.    *)
(* It never retries and has no timeout of its own.                         *)
(*                                                                         *)
(* A request is executed by the connection's thread of the server, also    *)
(* after the client has given the connection up.  Another device of the    *)
(* user, with a key of its own, may take the account over.  The limits of  *)
(* the front end are left out: like the store's they refuse a login.       *)
(***************************************************************************)
EXTENDS TransportAuth, Integers

CONSTANTS Me, MyKey,     \* user_id_, transport_auth_public_key_
          Provisioned,   \* registration_token_ is the user's
          NoToken,       \* session_token_ is empty; no challenge, no token in a frame
          Margin,        \* 5 seconds
          Skew,          \* the client's clock minus the server's
          MaxFaults,     \* bound on broken connections, restarts, take-overs and logouts
          Calm           \* the time after which there are none, and no call is slow

ASSUME ClientLoginAssumption ==
    /\ Me \in User /\ MyKey \in Key
    /\ Provisioned \in BOOLEAN
    /\ Margin \in Nat /\ Skew \in Int /\ Margin + Skew < SessionTtl
    /\ MaxFaults \in Nat /\ Calm \in Nat
    /\ Challenge \subseteq Nat /\ Token \subseteq Nat /\ NoToken = 0 /\ NoToken \notin Token

VARIABLES
    cache,      \* session_token_ and session_expires_at_unix_
    call,       \* the method in progress: its goal, the step it is at, and when it looked
                \* at the cached token
    conn,       \* fd_: "none", "open", or "dead" if the server's end is gone
    requests,   \* frames on the connection the server has not executed
    answers,    \* frames on the connection the client has not read
    abandoned,  \* requests the server has read from connections that are gone
    faults,
    \* What happened, for the properties.
    result,     \* of the last call that ended
    ended       \* tokens ended by a restart, a change of key or a logout

adapter == <<cache, call, conn, requests, answers, abandoned>>
observed == <<result, ended>>
loginVars == <<vars, adapter, faults, observed>>

NoCall == [goal |-> "none", step |-> "idle", sent |-> FALSE, challenge |-> NoToken, since |-> 0]
NoCache == [token |-> NoToken, expires |-> 0]

LoginInit ==
    /\ Init
    /\ cache = NoCache
    /\ call = NoCall
    /\ conn = "none"
    /\ requests = <<>> /\ answers = <<>> /\ abandoned = {}
    /\ faults = 0
    /\ result = "none" /\ ended = {}

Fault ==
    /\ faults < MaxFaults
    /\ now <= Calm
    /\ faults' = faults + 1

----------------------------------------------------------------------------
\* EnsureAuthenticated: the cached token is taken if it lives longer than the
\* margin by the client's clock; otherwise the call goes through a login.
UsableLate == cache.token # NoToken /\ now + Skew < cache.expires + Margin
Usable == cache.token # NoToken /\ now + Skew + Margin < cache.expires

\* PublishBundle, AcquireBundleForSession, EnqueueEnvelope and DrainInbox
\* ("command"), or LogoutCurrentSession ("logout").
StartCall(goal) ==
    /\ call.step = "idle"
    /\ IF goal = "logout" THEN Fault ELSE UNCHANGED faults
    /\ call' = [NoCall EXCEPT !.goal = goal, !.step = IF Usable THEN goal ELSE "register",
                              !.since = now]
    /\ UNCHANGED <<vars, cache, conn, requests, answers, abandoned, observed>>

\* CloseConnection.  What was sent and not executed is lost, or the server has
\* read it and will execute it.
CloseNothing == UNCHANGED <<conn, requests, answers, abandoned>>
CloseConnection ==
    /\ conn' = "none"
    /\ requests' = <<>> /\ answers' = <<>>
    /\ abandoned' \in {abandoned, abandoned \cup {requests[i] : i \in DOMAIN requests}}

EndCall(outcome) == call' = NoCall /\ result' = outcome

Frame == [step |-> call.step, challenge |-> call.challenge,
          token |-> IF call.step = call.goal THEN cache.token ELSE NoToken]

\* Request, first half: EnsureConnected and WriteFrame.
SendRequest ==
    /\ call.step # "idle" /\ ~call.sent
    /\ conn # "dead"
    /\ conn' = "open"
    /\ requests' = Append(requests, Frame)
    /\ call' = [call EXCEPT !.sent = TRUE]
    /\ UNCHANGED <<vars, cache, answers, abandoned, faults, observed>>

\* The server has closed its end of the connection, or none can be made.
SendFails ==
    /\ call.step # "idle" /\ ~call.sent
    /\ \/ conn = "dead" /\ UNCHANGED faults
       \/ conn = "none" /\ Fault
    /\ CloseConnection
    /\ EndCall("failed")
    /\ UNCHANGED <<vars, cache, ended>>

\* Second half: ReadFrame, without an answer to read ...
ReadFails ==
    /\ call.sent
    /\ \/ conn = "dead" /\ answers = <<>> /\ UNCHANGED faults
       \/ conn = "open" /\ Fault
    /\ CloseConnection
    /\ EndCall("failed")
    /\ UNCHANGED <<vars, cache, ended>>

\* ... and with one.  An error ends the call and leaves the cached token.
ReadError ==
    /\ call.sent /\ answers # <<>> /\ ~Head(answers).ok
    /\ answers' = Tail(answers)
    /\ EndCall(IF call.step = call.goal THEN "refused" ELSE "failed")
    /\ UNCHANGED <<vars, cache, conn, requests, abandoned, faults, ended>>

AfterStep == [register |-> "begin", begin |-> "finish", finish |-> call.goal]

ReadLoginStep ==
    LET a == Head(answers) IN
    /\ call.sent /\ answers # <<>> /\ a.ok
    /\ call.step \in DOMAIN AfterStep
    /\ answers' = Tail(answers)
    /\ call' = [call EXCEPT !.step = AfterStep[@], !.sent = FALSE, !.challenge = a.challenge]
    /\ cache' = IF call.step = "finish" THEN [token |-> a.token, expires |-> a.expires] ELSE cache
    /\ UNCHANGED <<vars, conn, requests, abandoned, faults, observed>>

ReadResult ==
    /\ call.sent /\ answers # <<>> /\ Head(answers).ok
    /\ call.step = call.goal
    /\ EndCall("ok")
    /\ IF call.goal = "logout"
       THEN cache' = NoCache /\ CloseConnection
       ELSE answers' = Tail(answers) /\ UNCHANGED <<cache, conn, requests, abandoned>>
    /\ UNCHANGED <<vars, faults, ended>>

----------------------------------------------------------------------------
\* The server executes a request: each kind, answered or refused.

Least(S) == CHOOSE n \in S : \A m \in S : n <= m
NewChallenge == Least(Challenge \ issued)
AllTokens == {l.token : l \in logins}
NewToken == Least(Token \ AllTokens)

\* A change of the account's key ends every token, as the property sees it.
EndTokens(tokens) == ended' = ended \cup tokens

ServeRegister(ok) ==
    \/ /\ ok
       /\ \/ RegisterNew(Me, MyKey, Provisioned) /\ UNCHANGED ended
          \/ RegisterRotate(Me, MyKey, NoAccount, Provisioned) /\ EndTokens(AllTokens)
          \/ account[Me] = MyKey /\ UNCHANGED <<vars, ended>>
    \/ /\ ~ok
       /\ \/ account[Me] = NoAccount /\ TokenRequired /\ ~Provisioned
          \/ account[Me] \notin {NoAccount, MyKey} /\ ~(TokenRequired /\ Provisioned)
       /\ UNCHANGED <<vars, ended>>

ServeBegin(ok) == IF ok THEN AuthBegin(Me, NewChallenge) ELSE AuthBeginRefused(Me)

Answers(r) == {c \in KeptChallenges : c.id = r.challenge /\ Answerable(c, Me)}
ServeFinish(r, ok) ==
    IF HasRoom(finishes[Me], now, MaxAttempts) /\ Answers(r) # {}
    THEN \E c \in Answers(r) :
           \/ ok /\ AuthFinish(Me, c, MyKey, NewToken)
           \/ ~ok /\ account[Me] # MyKey /\ AuthFinishFails(Me, c)
    ELSE ~ok /\ AuthFinishRefused(Me)

\* An authenticated command, and a logout: authenticated first like the others.
ServeCommand(r, ok) ==
    /\ ok = AcceptedFor(r.token, Me)
    /\ AuthenticateSessionToken
    /\ UNCHANGED ended

ServeLogout(r, ok) ==
    /\ ok = AcceptedFor(r.token, Me)
    /\ challenges' = KeptChallenges
    /\ sessions' = {[s EXCEPT !.revoked = @ \/ (ok /\ Matches(s, r.token))] : s \in KeptSessions}
    /\ IF ok THEN EndTokens({r.token}) ELSE UNCHANGED ended
    /\ UNCHANGED <<account, secret, begins, finishes, now, issued, logins>>

\* Challenge and Token bound the ids and tokens the server can draw.
Serve(r, ok) ==
    /\ Challenge \ issued # {} /\ Token \ AllTokens # {}
    /\ \/ r.step = "register" /\ ServeRegister(ok)
       \/ r.step = "begin" /\ ServeBegin(ok) /\ UNCHANGED ended
       \/ r.step = "finish" /\ ServeFinish(r, ok) /\ UNCHANGED ended
       \/ r.step = "command" /\ ServeCommand(r, ok)
       \/ r.step = "logout" /\ ServeLogout(r, ok)

Answer(r, ok) ==
    [to |-> r.step, ok |-> ok,
     challenge |-> IF ok /\ r.step = "begin" THEN NewChallenge ELSE NoToken,
     token |-> IF ok /\ r.step = "finish" THEN NewToken ELSE NoToken,
     expires |-> IF ok /\ r.step = "finish" THEN now + SessionTtl ELSE 0]

Execute ==
    /\ requests # <<>>
    /\ \E ok \in BOOLEAN :
         LET r == Head(requests) IN
         /\ Serve(r, ok)
         /\ answers' = Append(answers, Answer(r, ok))
    /\ requests' = Tail(requests)
    /\ UNCHANGED <<cache, call, conn, abandoned, faults, result>>

ExecuteAbandoned ==
    /\ \E r \in abandoned, ok \in BOOLEAN :
         /\ Serve(r, ok)
         /\ abandoned' = abandoned \ {r}
    /\ UNCHANGED <<cache, call, conn, requests, answers, faults, result>>

----------------------------------------------------------------------------
\* What else happens.

\* The server closes a connection that was idle for its timeout.
ServerHangup ==
    /\ conn = "open" /\ call.step = "idle"
    /\ conn' = "dead"
    /\ UNCHANGED <<vars, cache, call, requests, answers, abandoned, faults, observed>>

\* The server stops and starts again; answers already sent can be read.
ServerRestart ==
    /\ Fault
    /\ Restart
    /\ conn' = IF conn = "open" THEN "dead" ELSE conn
    /\ requests' = <<>> /\ abandoned' = {}
    /\ EndTokens(AllTokens)
    /\ UNCHANGED <<cache, call, answers, result>>

\* Another device of the user registers its key with the user's token.
TakeOver(k) ==
    /\ Fault
    /\ k # MyKey
    /\ \/ RegisterNew(Me, k, TRUE) /\ UNCHANGED ended
       \/ RegisterRotate(Me, k, NoAccount, TRUE) /\ EndTokens(AllTokens)
    /\ UNCHANGED <<adapter, result>>

\* The client's process ends, for one by a SIGPIPE of a write to a dead
\* connection, and starts with an empty cache.
ClientRestart ==
    /\ Fault
    /\ cache' = NoCache
    /\ CloseConnection
    /\ EndCall("failed")
    /\ UNCHANGED <<vars, ended>>

\* Time passes, also while a request is under way.  In calm times a request is
\* executed before the clock moves.
Wait ==
    /\ now <= Calm \/ (call.step = "idle" /\ abandoned = {})
    /\ Tick
    /\ UNCHANGED <<adapter, faults, observed>>

----------------------------------------------------------------------------
ClientStep == SendRequest \/ SendFails \/ ReadFails \/ ReadError \/ ReadLoginStep \/ ReadResult

LoginNext ==
    \/ StartCall("command") \/ StartCall("logout") \/ ClientStep
    \/ Execute \/ ExecuteAbandoned
    \/ ServerHangup \/ ServerRestart \/ ClientRestart \/ Wait
    \/ \E k \in Key : TakeOver(k)

LoginSpec == LoginInit /\ [][LoginNext]_loginVars

\* The user keeps giving commands, a call in progress and the server's
\* threads get on.  The clock never stops; once calls are no longer slow
\* it moves between them, so strong fairness says that it does move.
FairLoginSpec ==
    /\ LoginSpec
    /\ WF_loginVars(StartCall("command"))
    /\ WF_loginVars(ClientStep)
    /\ WF_loginVars(Execute) /\ WF_loginVars(ExecuteAbandoned)
    /\ SF_loginVars(Wait)

----------------------------------------------------------------------------
Steps == {"register", "begin", "finish", "command", "logout"}
RequestFrame == [step : Steps, challenge : Nat, token : Nat]
AnswerFrame == [to : Steps, ok : BOOLEAN, challenge : Nat, token : Nat, expires : Nat]

\* The type invariant: the adapter's variables hold values of their kind, and
\* no more than one frame is on its connection.
LoginTypeOK ==
    /\ cache \in [token : Nat, expires : Nat]
    /\ call \in [goal : {"none", "command", "logout"}, step : Steps \cup {"idle"}, sent : BOOLEAN,
                 challenge : Nat, since : Nat]
    /\ conn \in {"none", "open", "dead"}
    /\ requests \in Seq(RequestFrame) /\ answers \in Seq(AnswerFrame)
    /\ Len(requests) + Len(answers) <= 1
    /\ abandoned \subseteq RequestFrame
    /\ faults \in 0 .. MaxFaults
    /\ result \in {"none", "ok", "refused", "failed"}
    /\ ended \subseteq Token

\* The answer the client reads belongs to the request it has just sent: an
\* answer to a call that was given up, login steps included, is never taken
\* for the answer to a later one.
AnswersMatch == call.sent /\ answers # <<>> => Head(answers).to = call.step

\* A cached token is refused only if a restart of the server, a change of the
\* account's key or a logout ended it, or the request was executed later than
\* the margin, shortened by the skew of the clocks, after the call had looked
\* at the token: it is never used past its expiry otherwise.
Refused(token) ==
    /\ requests # <<>> /\ Head(requests).token = token
    /\ answers' # answers /\ answers' # <<>> /\ ~Head(answers').ok
RefusalHasCause ==
    [][\A token \in Token : Refused(token) =>
        token \in ended \/ now - call.since > Margin + Skew]_loginVars

\* Commands of a user who keeps trying are served again and again once
\* nothing breaks any more: a token that is refused blocks the adapter only
\* until its expiry, and a dead connection only one call.
Recovers == []<>(result = "ok")
====
