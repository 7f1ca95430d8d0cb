---- MODULE TcpServer ----
(***************************************************************************)
(* The front end of the server, src/src/server/tcp_server.cpp: the accept  *)
(* loop with its cap on connections, one detached thread per connection,   *)
(* the rate limits of the commands that need no login, and the commands    *)
(* that authenticate a session token and then act.                         *)
(*                                                                         *)
(* Threads interleave between the atomic counter, the mutex of the rate    *)
(* limits and the calls of the store, each of which is one step.  The      *)
(* clock is read before the mutex is taken, at most MaxSkew seconds        *)
(* earlier.  Of the store only the tokens it accepts are kept.             *)
(***************************************************************************)
EXTENDS SlidingWindow, FiniteSets

CONSTANTS Conn, Addr, User, Token,
          BadUser,      \* user ids that IsValidUserIdForRateLimit turns down
          Owner,        \* [Token -> User]
          Preauth,      \* commands before a login: "register", "begin", "finish"
          Authed,       \* commands with a token: "logout", "publish", "acquire", ...
          PerAddr, PerAddrUser, Global,  \* PreAuthRateLimitConfig, [Preauth -> Nat]
          MaxActive,    \* max_active_connections_, 0 for no limit
          None,
          MaxSkew,      \* bound on the age of the clock reading
          MaxTime, MaxFrames  \* bounds on the clock and on the requests

ASSUME TcpServerAssumption ==
    /\ BadUser \subseteq User
    /\ Owner \in [Token -> User]
    /\ PerAddr \in [Preauth -> Nat] /\ PerAddrUser \in [Preauth -> Nat]
    /\ Global \in [Preauth -> Nat]
    /\ MaxActive \in Nat /\ MaxTime \in Nat /\ MaxFrames \in Nat
    /\ MaxSkew \in Nat /\ MaxSkew < Window

VARIABLES
    now, frames,
    acceptor,  \* Run: "accept", or "checked" between the check and the increment
    active,    \* active_connections_
    conn,      \* per thread: program counter, peer, request, and the time since
               \* when it may have read the clock
    byAddr, byUser, byAll,  \* preauth_*_by_addr_, _by_addr_user_, _global_
    live,      \* tokens the store accepts
    \* What happened, for the properties.
    passed,    \* requests let through by EnforcePreAuthRateLimit, with the time
    served,    \* requests handed to the store after EnforcePreAuthUserRateLimit
    late       \* how often a connection acted on a token that was dead by then

limits == <<byAddr, byUser, byAll, passed, served>>
vars == <<now, frames, acceptor, active, conn, limits, live, late>>

NoRequest == [cmd |-> None, user |-> None, token |-> None]
NoConn == [pc |-> "none", addr |-> None, req |-> NoRequest, since |-> 0]

Init ==
    /\ now = 0 /\ frames = 0
    /\ acceptor = "accept"
    /\ active = 0
    /\ conn = [c \in Conn |-> NoConn]
    /\ byAddr = [k \in Preauth |-> [a \in Addr |-> <<>>]]
    /\ byUser = [k \in Preauth |-> [au \in Addr \X User |-> <<>>]]
    /\ byAll = [k \in Preauth |-> <<>>]
    /\ live = Token
    /\ passed = <<>> /\ served = <<>>
    /\ late = [ct \in Conn \X Token |-> 0]

----------------------------------------------------------------------------
\* Run, the only thread that adds to active_connections_.  A connection over
\* the cap is closed and changes nothing.

BelowCapLate == MaxActive > 0 => active <= MaxActive
BelowCap == MaxActive > 0 => active < MaxActive

AcceptCheck ==
    /\ acceptor = "accept"
    /\ BelowCap
    /\ acceptor' = "checked"
    /\ UNCHANGED <<now, frames, active, conn, limits, live, late>>

\* The timeouts of the socket could not be set: the connection is closed.
AcceptFails ==
    /\ acceptor = "checked"
    /\ acceptor' = "accept"
    /\ UNCHANGED <<now, frames, active, conn, limits, live, late>>

AcceptStart(c, addr) ==
    /\ acceptor = "checked"
    /\ conn[c].pc = "none"
    /\ active' = active + 1
    /\ conn' = [conn EXCEPT ![c] = [NoConn EXCEPT !.pc = "read", !.addr = addr]]
    /\ acceptor' = "accept"
    /\ UNCHANGED <<now, frames, limits, live, late>>

\* End of file, a timeout or a failed TLS handshake: HandleConnection returns ...
Hangup(c) ==
    /\ conn[c].pc = "read"
    /\ conn' = [conn EXCEPT ![c].pc = "closed"]
    /\ UNCHANGED <<now, frames, acceptor, active, limits, live, late>>

\* ... and ActiveConnectionGuard gives the slot back last.
ReleaseSlot(c) ==
    /\ conn[c].pc = "closed"
    /\ active' = active - 1
    /\ conn' = [conn EXCEPT ![c] = NoConn]
    /\ UNCHANGED <<now, frames, acceptor, limits, live, late>>

----------------------------------------------------------------------------
\* HandleConnection.

\* A request whose payload does not decode has no user.
Request == [cmd : Preauth, user : User \cup {None}, token : {None}]
             \cup [cmd : Authed, user : User, token : Token]

ReadFrame(c, req) ==
    /\ conn[c].pc = "read"
    /\ frames < MaxFrames
    /\ frames' = frames + 1
    /\ conn' = [conn EXCEPT ![c] = IF req.cmd \in Preauth
                                    THEN [@ EXCEPT !.pc = "limit", !.req = req, !.since = now]
                                    ELSE [@ EXCEPT !.pc = "auth", !.req = req]]
    /\ UNCHANGED <<now, acceptor, active, limits, live, late>>

\* The request is over, answered with or without an error.
Answered(c) == conn' = [conn EXCEPT ![c].pc = "read", ![c].req = NoRequest, ![c].since = 0]

\* The times NowUnix may have given since the last step of the thread.
ClockReadings(c) == {t \in conn[c].since .. now : now - t <= MaxSkew}

\* Every bucket of a kind is trimmed ...
TrimAll(buckets, t) ==
    [k \in DOMAIN buckets |-> [x \in DOMAIN buckets[k] |-> TrimWindow(buckets[k][x], t)]]

\* ... and the attempt counted in the bucket of x.
RecordIn(buckets, k, x, t, limit) ==
    [TrimAll(buckets, t) EXCEPT ![k][x] = CheckAndRecord(buckets[k][x], t, limit)]

\* EnforcePreAuthRateLimit: the bucket of the address, then the one of the
\* command.  An attempt that the second refuses stays counted in the first.
EnforcePreAuthRateLimit(c) ==
    LET k == conn[c].req.cmd
        a == conn[c].addr
    IN
    /\ conn[c].pc = "limit"
    /\ \E t \in ClockReadings(c) :
         LET addrOk == HasRoom(byAddr[k][a], t, PerAddr[k])
             allOk  == HasRoom(byAll[k], t, Global[k])
         IN
         /\ byAddr' = RecordIn(byAddr, k, a, t, PerAddr[k])
         /\ byAll' = [x \in Preauth |-> IF x = k /\ addrOk THEN CheckAndRecord(byAll[x], t, Global[x])
                                        ELSE TrimWindow(byAll[x], t)]
         /\ IF addrOk /\ allOk
            THEN /\ conn' = [conn EXCEPT ![c].pc = "decode", ![c].since = now]
                 /\ passed' = Append(passed, [cmd |-> k, addr |-> a, at |-> now])
            ELSE Answered(c) /\ UNCHANGED passed
    /\ UNCHANGED <<now, frames, acceptor, active, byUser, served, live, late>>

\* The payload does not decode.
DecodeFails(c) ==
    /\ conn[c].pc = "decode"
    /\ conn[c].req.user = None
    /\ Answered(c)
    /\ UNCHANGED <<now, frames, acceptor, active, limits, live, late>>

Served(c) == Append(served, [cmd |-> conn[c].req.cmd, addr |-> conn[c].addr,
                             user |-> conn[c].req.user, at |-> now])

\* EnforcePreAuthUserRateLimit, for a well-formed user id, and the call of
\* the store.
EnforcePreAuthUserRateLimit(c) ==
    LET k  == conn[c].req.cmd
        au == <<conn[c].addr, conn[c].req.user>>
    IN
    /\ conn[c].pc = "decode"
    /\ conn[c].req.user \in User \ BadUser
    /\ \E t \in ClockReadings(c) :
         /\ byUser' = RecordIn(byUser, k, au, t, PerAddrUser[k])
         /\ served' = IF HasRoom(byUser[k][au], t, PerAddrUser[k]) THEN Served(c) ELSE served
    /\ Answered(c)
    /\ UNCHANGED <<now, frames, acceptor, active, byAddr, byAll, passed, live, late>>

\* An id that is not well formed skips that limit.
PassBadUser(c) ==
    /\ conn[c].pc = "decode"
    /\ conn[c].req.user \in BadUser
    /\ served' = Served(c)
    /\ Answered(c)
    /\ UNCHANGED <<now, frames, acceptor, active, byAddr, byAll, byUser, passed, live, late>>

\* AuthenticateSessionToken.
Authenticate(c) ==
    /\ conn[c].pc = "auth"
    /\ IF conn[c].req.token \in live
       THEN conn' = [conn EXCEPT ![c].pc = "act"]
       ELSE Answered(c)
    /\ UNCHANGED <<now, frames, acceptor, active, limits, live, late>>

\* The command is for the user of the session; a bundle is anyone's to fetch.
Permitted(req) == req.cmd \in {"acquire", "logout"} \/ req.user = Owner[req.token]

\* The command itself, one call of the store, with the user found before.
Executed(c) ==
    LET req == conn[c].req IN
    /\ conn[c].pc = "act"
    /\ live' = IF req.cmd = "logout" THEN live \ {req.token} ELSE live
    /\ late' = IF Permitted(req) /\ req.token \notin live
               THEN [late EXCEPT ![<<c, req.token>>] = @ + 1] ELSE late

ActStayingLoggedIn(c) ==
    /\ Executed(c)
    /\ conn' = [conn EXCEPT ![c].pc = IF frames < MaxFrames THEN "act" ELSE "read"]
    /\ frames' = IF frames < MaxFrames THEN frames + 1 ELSE frames
    /\ UNCHANGED <<now, acceptor, active, limits>>
Act(c) ==
    /\ Executed(c)
    /\ Answered(c)
    /\ UNCHANGED <<now, frames, acceptor, active, limits>>

----------------------------------------------------------------------------
\* The store drops a token: it expired, or its user changed the key.
DropToken(token) ==
    /\ live' = live \ {token}
    /\ UNCHANGED <<now, frames, acceptor, active, conn, limits, late>>

\* Time passes; no thread sits on a clock reading for longer than MaxSkew.
Tick ==
    /\ now < MaxTime
    /\ now' = now + 1
    /\ UNCHANGED <<frames, acceptor, active, conn, limits, live, late>>

Next ==
    \/ AcceptCheck \/ AcceptFails
    \/ \E c \in Conn :
         \/ \E addr \in Addr : AcceptStart(c, addr)
         \/ Hangup(c) \/ ReleaseSlot(c)
         \/ \E req \in Request : ReadFrame(c, req)
         \/ EnforcePreAuthRateLimit(c) \/ DecodeFails(c)
         \/ EnforcePreAuthUserRateLimit(c) \/ PassBadUser(c)
         \/ Authenticate(c) \/ Act(c)
    \/ \E token \in Token : DropToken(token)
    \/ Tick

Spec == Init /\ [][Next]_vars

----------------------------------------------------------------------------
ConnState == [pc : {"none", "read", "limit", "decode", "auth", "act", "closed"},
              addr : Addr \cup {None}, req : Request \cup {NoRequest}, since : Nat]
Passed == [cmd : Preauth, addr : Addr, at : Nat]
ServedRequest == [cmd : Preauth, addr : Addr, user : User, at : Nat]

\* The type invariant: threads, counters and buckets hold values of their kind,
\* and no bucket holds more than its limit.
TypeOK ==
    /\ now \in 0 .. MaxTime /\ frames \in 0 .. MaxFrames
    /\ acceptor \in {"accept", "checked"}
    /\ active \in Nat
    /\ conn \in [Conn -> ConnState]
    /\ {DOMAIN byAddr, DOMAIN byUser, DOMAIN byAll} = {Preauth}
    /\ \A k \in Preauth :
         /\ byAddr[k] \in [Addr -> Bucket(PerAddr[k])]
         /\ byUser[k] \in [Addr \X User -> Bucket(PerAddrUser[k])]
         /\ byAll[k] \in Bucket(Global[k])
    /\ live \subseteq Token
    /\ passed \in Seq(Passed)
    /\ served \in Seq(ServedRequest)
    /\ late \in [Conn \X Token -> Nat]

\* There are never more connection threads than the cap allows, although Run
\* reads active_connections_ in one step and adds to it in another, and no
\* slot is lost or given back twice.
CapHolds ==
    LET threads == {c \in Conn : conn[c].pc # "none"}
    IN  /\ active = Cardinality(threads)
        /\ MaxActive > 0 => Cardinality(threads) <= MaxActive

\* The entries of a history that s[j] ends a window on, a window being
\* shortened by the age of the clock readings.
EndingAt(s, j) == {i \in 1 .. j : s[j].at < s[i].at + Window - MaxSkew}

\* In any Window - MaxSkew seconds no address gets more than PerAddr requests
\* of a kind through, all together get no more than Global, and no address
\* gets more than PerAddrUser for one user to the store: threads that lock in
\* another order than they read the clock cost at most the age of the reading.
WindowLimits ==
    /\ \A j \in DOMAIN passed :
         LET r == passed[j]
             same == {i \in EndingAt(passed, j) : passed[i].cmd = r.cmd}
         IN  /\ Cardinality({i \in same : passed[i].addr = r.addr}) <= PerAddr[r.cmd]
             /\ Cardinality(same) <= Global[r.cmd]
    /\ \A j \in DOMAIN served :
         LET r == served[j]
             same == {i \in EndingAt(served, j) : [served[i] EXCEPT !.at = 0] = [r EXCEPT !.at = 0]}
         IN  r.user \notin BadUser => Cardinality(same) <= PerAddrUser[r.cmd]

\* A token that was dropped or logged out is acted on at most once more by a
\* connection, in the command it had authenticated by then.
LateAtMostOnce == \A c \in Conn, token \in Token : late[<<c, token>>] <= 1
====
