---- MODULE TcpServerProofs ----
(***************************************************************************)
(* Proofs about TcpServer, for any number of connections, addresses, users *)
(* and tokens, any limits, any cap and any age of the clock readings below *)
(* the window.                                                             *)
(***************************************************************************)
EXTENDS TcpServer, SlidingWindowProofs

----------------------------------------------------------------------------
\* The inductive invariant.

\* A thread knows its peer; one that goes through the limits holds a command
\* of theirs and read no clock later than now; one that is about to
\* authenticate or to act holds a token.
ThreadOk(r, time) ==
    /\ r.pc # "none" => r.addr \in Addr
    /\ r.pc \in {"limit", "decode"} => r.req.cmd \in Preauth /\ r.since <= time
    /\ r.pc \in {"auth", "act"} => r.req.token \in Token
ThreadsInv == \A c \in Conn : ThreadOk(conn[c], now)

\* Between the check of the cap and the increment the slot is still free.
Threads == {c \in Conn : conn[c].pc # "none"}
CapInv ==
    /\ IsFiniteSet(Threads)
    /\ active = Cardinality(Threads)
    /\ MaxActive > 0 => active <= MaxActive
    /\ MaxActive > 0 /\ acceptor = "checked" => active < MaxActive

\* A connection that acted late acted on a token that is dead, and cannot get
\* past AuthenticateSessionToken with it again.
LateInv ==
    \A c \in Conn, token \in Token :
        \/ late[<<c, token>>] = 0
        \/ /\ late[<<c, token>>] = 1
           /\ token \notin live
           /\ ~(conn[c].pc = "act" /\ conn[c].req.token = token)

\* The requests of a history that happened in the last Window - MaxSkew
\* seconds, all of them and those of one address or user.
Recent(s) == {i \in DOMAIN s : now < s[i].at + Window - MaxSkew}
RecentOf(k) == {i \in Recent(passed) : passed[i].cmd = k}
RecentFrom(k, a) == {i \in RecentOf(k) : passed[i].addr = a}
RecentFor(k, a, u) == {i \in Recent(served) : /\ served[i].cmd = k /\ served[i].addr = a
                                              /\ served[i].user = u}
Times(s) == [i \in DOMAIN s |-> s[i].at]

\* Every one of them has an entry of its own in its bucket.
PassedCover ==
    \A k \in Preauth :
        /\ Covers(byAll[k], RecentOf(k), Times(passed), MaxSkew)
        /\ \A a \in Addr : Covers(byAddr[k][a], RecentFrom(k, a), Times(passed), MaxSkew)
ServedCover ==
    \A k \in Preauth, a \in Addr, u \in User \ BadUser :
        Covers(byUser[k][<<a, u>>], RecentFor(k, a, u), Times(served), MaxSkew)
CoverInv == PassedCover /\ ServedCover

TcpInv == TypeOK /\ ThreadsInv /\ CapInv /\ LateInv /\ CoverInv /\ WindowLimits

----------------------------------------------------------------------------
\* The operators of the rate limits.

\* What a thread that goes through the limits holds.
LEMMA Limited ==
    ASSUME TypeOK, ThreadsInv, NEW c \in Conn, conn[c].pc \in {"limit", "decode"}
    PROVE  /\ conn[c].req.cmd \in Preauth /\ conn[c].addr \in Addr
           /\ \A t \in ClockReadings(c) : t \in Nat /\ t <= now /\ now <= t + MaxSkew
<1>1. conn[c].req.cmd \in Preauth /\ conn[c].addr \in Addr
  BY DEF ThreadsInv, ThreadOk
<1>2. now \in Nat /\ conn[c].since \in Nat /\ MaxSkew \in Nat
  BY TcpServerAssumption DEF TypeOK, ConnState
<1> QED
  BY <1>1, <1>2 DEF ClockReadings

\* All buckets of a kind are trimmed, and the one of the request is updated.
LEMMA Recorded ==
    ASSUME NEW B, NEW k \in DOMAIN B, NEW a \in DOMAIN B[k], NEW t, NEW limit
    PROVE  /\ DOMAIN RecordIn(B, k, a, t, limit) = DOMAIN B
           /\ \A x \in DOMAIN B :
                RecordIn(B, k, a, t, limit)[x] =
                    [y \in DOMAIN B[x] |-> IF x = k /\ y = a THEN CheckAndRecord(B[k][a], t, limit)
                                           ELSE TrimWindow(B[x][y], t)]
<1> DEFINE T == TrimAll(B, t)
           v == CheckAndRecord(B[k][a], t, limit)
           C == RecordIn(B, k, a, t, limit)
<1>1. DOMAIN T = DOMAIN B /\ \A x \in DOMAIN B : T[x] = [y \in DOMAIN B[x] |-> TrimWindow(B[x][y], t)]
  BY DEF TrimAll
<1>2. C = [T EXCEPT ![k][a] = v]
  BY DEF RecordIn
<1> HIDE DEF T, v, C
<1>3. DOMAIN C = DOMAIN B
  BY <1>1, <1>2
<1>4. ASSUME NEW x \in DOMAIN B
      PROVE  C[x] = [y \in DOMAIN B[x] |-> IF x = k /\ y = a THEN v ELSE TrimWindow(B[x][y], t)]
  <2>1. T[x] = [y \in DOMAIN B[x] |-> TrimWindow(B[x][y], t)]
    BY <1>1
  <2>2. CASE x = k
    <3>1. C[x] = [T[x] EXCEPT ![a] = v]
      BY <1>1, <1>2, <2>2
    <3> QED
      BY <2>1, <2>2, <3>1
  <2>3. CASE x # k
    <3>1. C[x] = T[x]
      BY <1>1, <1>2, <2>3
    <3> QED
      BY <2>1, <2>3, <3>1
  <2> QED
    BY <2>2, <2>3
<1> QED
  BY <1>3, <1>4 DEF C, v

\* What a record in the rate limiter does to each of its windows: it trims
\* them all, and adds to one.
LEMMA RecordedAt ==
    ASSUME NEW B, NEW k \in DOMAIN B, NEW a \in DOMAIN B[k], NEW t, NEW limit,
           NEW x \in DOMAIN B, NEW y \in DOMAIN B[x]
    PROVE  RecordIn(B, k, a, t, limit)[x][y] =
               IF x = k /\ y = a THEN CheckAndRecord(B[k][a], t, limit) ELSE TrimWindow(B[x][y], t)
<1>1. RecordIn(B, k, a, t, limit)[x] =
          [z \in DOMAIN B[x] |-> IF x = k /\ z = a THEN CheckAndRecord(B[k][a], t, limit)
                                 ELSE TrimWindow(B[x][z], t)]
  BY Recorded
<1> QED
  BY <1>1

\* EnforcePreAuthRateLimit and EnforcePreAuthUserRateLimit keep the buckets
\* within their limits.
LEMMA BucketsTyped ==
    ASSUME NEW B, NEW Limit, NEW k \in DOMAIN B, NEW a \in DOMAIN B[k], NEW t \in Nat,
           \A x \in DOMAIN B : Limit[x] \in Nat /\ B[x] \in [DOMAIN B[x] -> Bucket(Limit[x])]
    PROVE  /\ DOMAIN RecordIn(B, k, a, t, Limit[k]) = DOMAIN B
           /\ \A x \in DOMAIN B :
                RecordIn(B, k, a, t, Limit[k])[x] \in [DOMAIN B[x] -> Bucket(Limit[x])]
<1> DEFINE C == RecordIn(B, k, a, t, Limit[k])
<1>1. CheckAndRecord(B[k][a], t, Limit[k]) \in Bucket(Limit[k])
  BY CheckAndRecordType
<1>2. \A x \in DOMAIN B : \A y \in DOMAIN B[x] : TrimWindow(B[x][y], t) \in Bucket(Limit[x])
  BY TrimWindowBucket
<1>3. DOMAIN C = DOMAIN B
  BY Recorded
<1>4. \A x \in DOMAIN B :
        C[x] = [y \in DOMAIN B[x] |-> IF x = k /\ y = a THEN CheckAndRecord(B[k][a], t, Limit[k])
                                      ELSE TrimWindow(B[x][y], t)]
  BY Recorded
<1> HIDE DEF C
<1>5. ASSUME NEW x \in DOMAIN B PROVE C[x] \in [DOMAIN B[x] -> Bucket(Limit[x])]
  <2> DEFINE S == Bucket(Limit[x])
             X == DOMAIN B[x]
             e(y) == IF x = k /\ y = a THEN CheckAndRecord(B[k][a], t, Limit[k])
                     ELSE TrimWindow(B[x][y], t)
  <2>1. C[x] = [y \in X |-> e(y)]
    BY <1>4
  <2>2. \A y \in X : e(y) \in S
    BY <1>1, <1>2
  <2> HIDE DEF S, e, X
  <2> QED
    BY <2>1, <2>2 DEF S, X
<1> QED
  BY <1>3, <1>5 DEF C

----------------------------------------------------------------------------
\* The steps of a connection thread.

\* The thread of c goes on as r, which is still a running thread and which
\* acts only on a token that was live when it was authenticated.
GoesOn(c, r) ==
    /\ r \in ConnState /\ ThreadOk(r, now)
    /\ conn[c].pc # "none" /\ r.pc # "none"
    /\ r.pc = "act" => r.req.token \in live
    /\ conn' = [conn EXCEPT ![c] = r]

\* The request of a connection is over.
LEMMA AnsweredGoesOn ==
    ASSUME TypeOK, ThreadsInv, NEW c \in Conn, Answered(c), conn[c].pc # "none"
    PROVE  \E r : GoesOn(c, r)
<1> DEFINE r == [conn[c] EXCEPT !.pc = "read", !.req = NoRequest, !.since = 0]
<1>1. conn \in [Conn -> ConnState] /\ conn[c] \in ConnState
  BY DEF TypeOK
<1>2. conn' = [conn EXCEPT ![c] = r]
  BY <1>1 DEF Answered, ConnState
<1>3. r \in ConnState
  BY <1>1 DEF ConnState
<1>4. r.pc = "read" /\ r.addr = conn[c].addr
  BY <1>1 DEF ConnState
<1>5. conn[c].addr \in Addr
  BY DEF ThreadsInv, ThreadOk
<1> HIDE DEF r
<1>6. ThreadOk(r, now)
  BY <1>4, <1>5 DEF ThreadOk
<1> QED
  BY <1>2, <1>3, <1>4, <1>6 DEF GoesOn

\* What HandleConnection does with one connection, until it returns.
ThreadAction(c) ==
    \/ Hangup(c)
    \/ \E req \in Request : ReadFrame(c, req)
    \/ EnforcePreAuthRateLimit(c) \/ DecodeFails(c)
    \/ EnforcePreAuthUserRateLimit(c) \/ PassBadUser(c)
    \/ Authenticate(c) \/ Act(c)

\* A step of a connection's thread changes that connection alone.
LEMMA ThreadStep ==
    ASSUME TypeOK, ThreadsInv, NEW c \in Conn, ThreadAction(c)
    PROVE  \E r : GoesOn(c, r)
<1>1. conn \in [Conn -> ConnState] /\ conn[c] \in ConnState /\ now \in Nat
  BY TcpServerAssumption DEF TypeOK
<1>2. ThreadOk(conn[c], now)
  BY DEF ThreadsInv
<1>3. CASE Hangup(c)
  <2> DEFINE r == [conn[c] EXCEPT !.pc = "closed"]
  <2>1. conn[c].pc = "read" /\ conn' = [conn EXCEPT ![c] = r]
    BY <1>1, <1>3 DEF Hangup, ConnState
  <2>2. r \in ConnState /\ r.pc = "closed" /\ r.addr = conn[c].addr
    BY <1>1 DEF ConnState
  <2> HIDE DEF r
  <2> QED
    BY <1>2, <2>1, <2>2 DEF GoesOn, ThreadOk
<1>4. CASE \E req \in Request : ReadFrame(c, req)
  <2>1. PICK req \in Request : ReadFrame(c, req)
    BY <1>4
  <2>2. conn[c].pc = "read" /\ conn[c].addr \in Addr
    BY <1>2, <2>1 DEF ReadFrame, ThreadOk
  <2>3. CASE req.cmd \in Preauth
    <3> DEFINE r == [conn[c] EXCEPT !.pc = "limit", !.req = req, !.since = now]
    <3>1. conn' = [conn EXCEPT ![c] = r]
      BY <1>1, <2>1, <2>3 DEF ReadFrame
    <3>2. r \in ConnState /\ r.pc = "limit" /\ r.addr = conn[c].addr /\ r.req = req /\ r.since = now
      BY <1>1 DEF ConnState
    <3> HIDE DEF r
    <3>3. ThreadOk(r, now)
      BY <1>1, <2>2, <2>3, <3>2 DEF ThreadOk
    <3> QED
      BY <2>2, <3>1, <3>2, <3>3 DEF GoesOn
  <2>4. CASE req.cmd \notin Preauth
    <3> DEFINE r == [conn[c] EXCEPT !.pc = "auth", !.req = req]
    <3>1. conn' = [conn EXCEPT ![c] = r]
      BY <1>1, <2>1, <2>4 DEF ReadFrame
    <3>2. r \in ConnState /\ r.pc = "auth" /\ r.addr = conn[c].addr /\ r.req = req
      BY <1>1 DEF ConnState
    <3>3. req.token \in Token
      BY <2>4 DEF Request
    <3> HIDE DEF r
    <3> QED
      BY <2>2, <3>1, <3>2, <3>3 DEF GoesOn, ThreadOk
  <2> QED
    BY <2>3, <2>4
<1>5. CASE EnforcePreAuthRateLimit(c)
  <2>1. conn[c].pc = "limit"
    BY <1>5 DEF EnforcePreAuthRateLimit
  <2>2. CASE Answered(c)
    BY <2>1, <2>2, AnsweredGoesOn
  <2>3. CASE conn' = [conn EXCEPT ![c].pc = "decode", ![c].since = now]
    <3> DEFINE r == [conn[c] EXCEPT !.pc = "decode", !.since = now]
    <3>1. conn' = [conn EXCEPT ![c] = r]
      BY <1>1, <2>3 DEF ConnState
    <3>2. r \in ConnState /\ r.pc = "decode" /\ r.addr = conn[c].addr /\ r.req = conn[c].req
          /\ r.since = now
      BY <1>1 DEF ConnState
    <3>3. conn[c].addr \in Addr /\ conn[c].req.cmd \in Preauth
      BY <1>2, <2>1 DEF ThreadOk
    <3> HIDE DEF r
    <3>4. ThreadOk(r, now)
      BY <1>1, <3>2, <3>3 DEF ThreadOk
    <3> QED
      BY <2>1, <3>1, <3>2, <3>4 DEF GoesOn
  <2> QED
    BY <1>5, <2>2, <2>3 DEF EnforcePreAuthRateLimit
<1>6. CASE DecodeFails(c) \/ EnforcePreAuthUserRateLimit(c) \/ PassBadUser(c) \/ Act(c)
  <2>1. Answered(c) /\ conn[c].pc \in {"decode", "act"}
    BY <1>6 DEF DecodeFails, EnforcePreAuthUserRateLimit, PassBadUser, Act, Executed
  <2> QED
    BY <2>1, AnsweredGoesOn
<1>7. CASE Authenticate(c)
  <2>1. conn[c].pc = "auth"
    BY <1>7 DEF Authenticate
  <2>2. CASE conn[c].req.token \in live
    <3> DEFINE r == [conn[c] EXCEPT !.pc = "act"]
    <3>1. conn' = [conn EXCEPT ![c] = r]
      BY <1>1, <1>7, <2>2 DEF Authenticate, ConnState
    <3>2. r \in ConnState /\ r.pc = "act" /\ r.addr = conn[c].addr /\ r.req = conn[c].req
      BY <1>1 DEF ConnState
    <3>3. conn[c].addr \in Addr /\ conn[c].req.token \in Token
      BY <1>2, <2>1 DEF ThreadOk
    <3> HIDE DEF r
    <3>4. ThreadOk(r, now)
      BY <3>2, <3>3 DEF ThreadOk
    <3> QED
      BY <2>1, <2>2, <3>1, <3>2, <3>4 DEF GoesOn
  <2>3. CASE conn[c].req.token \notin live
    <3>1. Answered(c)
      BY <1>7, <2>3 DEF Authenticate
    <3> QED
      BY <2>1, <3>1, AnsweredGoesOn
  <2> QED
    BY <2>2, <2>3
<1> QED
  BY <1>3, <1>4, <1>5, <1>6, <1>7 DEF ThreadAction

\* Next, with the steps of a thread taken together.
LEMMA NextCases ==
    ASSUME Next
    PROVE  \/ AcceptCheck \/ AcceptFails
           \/ \E c \in Conn, addr \in Addr : AcceptStart(c, addr)
           \/ \E c \in Conn : ReleaseSlot(c)
           \/ \E c \in Conn : ThreadAction(c)
           \/ \E token \in Token : DropToken(token)
           \/ Tick
BY DEF Next, ThreadAction

\* The other threads stay as they are.
LEMMA OthersStay ==
    ASSUME TypeOK, ThreadsInv, NEW c \in Conn, NEW r \in ConnState, ThreadOk(r, now),
           conn' = [conn EXCEPT ![c] = r], now' = now
    PROVE  /\ conn' \in [Conn -> ConnState] /\ ThreadsInv'
           /\ conn'[c] = r /\ \A d \in Conn : d # c => conn'[d] = conn[d]
<1>1. conn \in [Conn -> ConnState]
  BY DEF TypeOK
<1>2. conn' \in [Conn -> ConnState] /\ conn'[c] = r /\ \A d \in Conn : d # c => conn'[d] = conn[d]
  BY <1>1
<1>3. \A d \in Conn : ThreadOk(conn'[d], now')
  BY <1>2 DEF ThreadsInv
<1> QED
  BY <1>2, <1>3 DEF ThreadsInv, ThreadOk

----------------------------------------------------------------------------
\* The threads and their number.

\* A step of a thread and the steps of Run keep what is known of the threads.
LEMMA ThreadsStep ==
    ASSUME TypeOK, ThreadsInv, [Next]_vars
    PROVE  conn' \in [Conn -> ConnState] /\ ThreadsInv'
<1>1. conn \in [Conn -> ConnState] /\ now \in Nat
  BY TcpServerAssumption DEF TypeOK
<1>2. CASE now' = now /\ conn' = conn
  BY <1>1, <1>2 DEF ThreadsInv, ThreadOk
<1>3. CASE \E c \in Conn, addr \in Addr : AcceptStart(c, addr)
  <2>1. PICK c \in Conn, addr \in Addr : AcceptStart(c, addr)
    BY <1>3
  <2> DEFINE r == [NoConn EXCEPT !.pc = "read", !.addr = addr]
  <2>2. r \in ConnState /\ r.pc = "read" /\ r.addr = addr
    BY DEF ConnState, NoConn
  <2>3. conn' = [conn EXCEPT ![c] = r] /\ now' = now
    BY <2>1 DEF AcceptStart
  <2> HIDE DEF r
  <2>4. ThreadOk(r, now)
    BY <2>2 DEF ThreadOk
  <2> QED
    BY <2>2, <2>3, <2>4, OthersStay
<1>4. CASE \E c \in Conn : ReleaseSlot(c)
  <2>1. PICK c \in Conn : ReleaseSlot(c)
    BY <1>4
  <2>2. NoConn \in ConnState /\ ThreadOk(NoConn, now)
    BY DEF ConnState, NoConn, ThreadOk
  <2>3. conn' = [conn EXCEPT ![c] = NoConn] /\ now' = now
    BY <2>1 DEF ReleaseSlot
  <2> QED
    BY <2>2, <2>3, OthersStay
<1>5. CASE \E c \in Conn : ThreadAction(c)
  <2>1. PICK c \in Conn : ThreadAction(c)
    BY <1>5
  <2>2. PICK r : GoesOn(c, r)
    BY <2>1, ThreadStep
  <2>3. now' = now
    BY <2>1 DEF ThreadAction, Hangup, ReadFrame, EnforcePreAuthRateLimit, DecodeFails,
                EnforcePreAuthUserRateLimit, PassBadUser, Authenticate, Act
  <2> QED
    BY <2>2, <2>3, OthersStay DEF GoesOn
<1>6. CASE Tick
  <2>1. conn' = conn /\ now' = now + 1
    BY <1>6 DEF Tick
  <2>2. \A c \in Conn : ThreadOk(conn[c], now + 1)
    BY <1>1 DEF ThreadsInv, ThreadOk, ConnState
  <2> QED
    BY <1>1, <2>1, <2>2 DEF ThreadsInv, ThreadOk
<1>7. CASE AcceptCheck \/ AcceptFails \/ \E token \in Token : DropToken(token)
  BY <1>2, <1>7 DEF AcceptCheck, AcceptFails, DropToken
<1>8. CASE UNCHANGED vars
  BY <1>2, <1>8 DEF vars
<1> QED
  BY <1>3, <1>4, <1>5, <1>6, <1>7, <1>8, NextCases

\* Every slot is taken by one thread: ActiveConnectionGuard gives back what Run
\* took, and no thread of another connection fits in between the check of Run
\* and its increment.
LEMMA CapStep ==
    ASSUME TypeOK, ThreadsInv, CapInv, [Next]_vars
    PROVE  CapInv' /\ active' \in Nat
<1>1. /\ conn \in [Conn -> ConnState] /\ MaxActive \in Nat
      /\ IsFiniteSet(Threads) /\ active = Cardinality(Threads) /\ active \in Nat
  BY TcpServerAssumption, FS_CardinalityType DEF TypeOK, CapInv
<1>2. CASE active' = active /\ acceptor' \in {acceptor, "accept"} /\ Threads' = Threads
  BY <1>1, <1>2 DEF CapInv
<1>3. CASE AcceptCheck
  <2>1. active' = active /\ acceptor' = "checked" /\ conn' = conn /\ BelowCap
    BY <1>3 DEF AcceptCheck
  <2>2. Threads' = Threads
    BY <2>1 DEF Threads
  <2> QED
    BY <1>1, <2>1, <2>2 DEF CapInv, BelowCap
<1>4. CASE \E c \in Conn, addr \in Addr : AcceptStart(c, addr)
  <2>1. PICK c \in Conn, addr \in Addr : AcceptStart(c, addr)
    BY <1>4
  <2>2. conn'[c].pc = "read" /\ \A d \in Conn : d # c => conn'[d] = conn[d]
    BY <1>1, <2>1 DEF AcceptStart, NoConn
  <2>3. c \notin Threads /\ Threads' = Threads \cup {c}
    BY <2>1, <2>2 DEF AcceptStart, Threads
  <2>4. IsFiniteSet(Threads') /\ Cardinality(Threads') = Cardinality(Threads) + 1
    BY <1>1, <2>3, FS_AddElement
  <2>5. active' = active + 1 /\ acceptor = "checked" /\ acceptor' = "accept"
    BY <2>1 DEF AcceptStart
  <2> QED
    BY <1>1, <2>4, <2>5 DEF CapInv
<1>5. CASE \E c \in Conn : ReleaseSlot(c)
  <2>1. PICK c \in Conn : ReleaseSlot(c)
    BY <1>5
  <2>2. conn'[c].pc = "none" /\ \A d \in Conn : d # c => conn'[d] = conn[d]
    BY <1>1, <2>1 DEF ReleaseSlot, NoConn
  <2>3. c \in Threads /\ Threads' = Threads \ {c}
    BY <2>1, <2>2 DEF ReleaseSlot, Threads
  <2>4. IsFiniteSet(Threads') /\ Cardinality(Threads') = Cardinality(Threads) - 1
    BY <1>1, <2>3, FS_RemoveElement
  <2>5. Cardinality(Threads') \in Nat
    BY <2>4, FS_CardinalityType
  <2>6. active' = active - 1 /\ acceptor' = acceptor
    BY <2>1 DEF ReleaseSlot
  <2> QED
    BY <1>1, <2>4, <2>5, <2>6 DEF CapInv
<1>6. CASE \E c \in Conn : ThreadAction(c)
  <2>1. PICK c \in Conn : ThreadAction(c)
    BY <1>6
  <2>2. PICK r : GoesOn(c, r)
    BY <2>1, ThreadStep
  <2>3. conn'[c] = r /\ \A d \in Conn : d # c => conn'[d] = conn[d]
    BY <1>1, <2>2 DEF GoesOn
  <2>4. Threads' = Threads
    BY <2>2, <2>3 DEF GoesOn, Threads
  <2>5. active' = active /\ acceptor' = acceptor
    BY <2>1 DEF ThreadAction, Hangup, ReadFrame, EnforcePreAuthRateLimit, DecodeFails,
                EnforcePreAuthUserRateLimit, PassBadUser, Authenticate, Act
  <2> QED
    BY <1>2, <2>4, <2>5
<1>7. CASE AcceptFails \/ (\E token \in Token : DropToken(token)) \/ Tick \/ UNCHANGED vars
  <2>1. active' = active /\ acceptor' \in {acceptor, "accept"} /\ conn' = conn
    BY <1>7 DEF AcceptFails, DropToken, Tick, vars
  <2>2. Threads' = Threads
    BY <2>1 DEF Threads
  <2> QED
    BY <1>2, <2>1, <2>2
<1> QED
  BY <1>3, <1>4, <1>5, <1>6, <1>7, NextCases

----------------------------------------------------------------------------
\* Types.

\* The variables of the rate limits.
LimitsOk ==
    /\ {DOMAIN byAddr, DOMAIN byUser, DOMAIN byAll} = {Preauth}
    /\ \A k \in Preauth :
         /\ byAddr[k] \in [Addr -> Bucket(PerAddr[k])]
         /\ byUser[k] \in [Addr \X User -> Bucket(PerAddrUser[k])]
         /\ byAll[k] \in Bucket(Global[k])
    /\ passed \in Seq(Passed)
    /\ served \in Seq(ServedRequest)

\* Every step keeps the types of the rate limits.
LEMMA LimitsStep ==
    ASSUME TypeOK, ThreadsInv, [Next]_vars
    PROVE  LimitsOk'
<1>1. LimitsOk /\ now \in Nat
  <2>1. now \in Nat
    BY TcpServerAssumption DEF TypeOK
  <2>2. LimitsOk
    BY Zenon DEF TypeOK, LimitsOk
  <2> QED
    BY <2>1, <2>2
<1>2. CASE UNCHANGED limits
  BY <1>1, <1>2 DEF LimitsOk, limits
<1>3. ASSUME NEW c \in Conn, EnforcePreAuthRateLimit(c) PROVE LimitsOk'
  <2> DEFINE kind == conn[c].req.cmd
             peer == conn[c].addr
  <2>1. conn[c].pc = "limit"
    BY <1>3 DEF EnforcePreAuthRateLimit
  <2>2. kind \in Preauth /\ peer \in Addr
    BY <2>1, Limited
  <2>3. PICK t \in ClockReadings(c) :
          /\ byAddr' = RecordIn(byAddr, kind, peer, t, PerAddr[kind])
          /\ \E ok \in BOOLEAN :
               byAll' = [x \in Preauth |-> IF x = kind /\ ok THEN CheckAndRecord(byAll[x], t, Global[x])
                                           ELSE TrimWindow(byAll[x], t)]
          /\ \/ passed' = Append(passed, [cmd |-> kind, addr |-> peer, at |-> now])
             \/ passed' = passed
    BY <1>3 DEF EnforcePreAuthRateLimit, HasRoom
  <2>4. t \in Nat
    BY <2>1, Limited
  <2>5. byUser' = byUser /\ served' = served
    BY <1>3 DEF EnforcePreAuthRateLimit
  <2> HIDE DEF kind, peer
  <2>6. /\ DOMAIN byAddr = Preauth
        /\ \A x \in Preauth : /\ PerAddr[x] \in Nat /\ DOMAIN byAddr[x] = Addr
                              /\ byAddr[x] \in [Addr -> Bucket(PerAddr[x])]
    BY <1>1, TcpServerAssumption DEF LimitsOk
  <2>7. DOMAIN byAddr' = Preauth /\ \A x \in Preauth : byAddr'[x] \in [Addr -> Bucket(PerAddr[x])]
    <3>1. byAddr' = RecordIn(byAddr, kind, peer, t, PerAddr[kind])
      BY <2>3
    <3>2. /\ kind \in DOMAIN byAddr /\ peer \in DOMAIN byAddr[kind]
          /\ \A x \in DOMAIN byAddr : /\ PerAddr[x] \in Nat
                                      /\ byAddr[x] \in [DOMAIN byAddr[x] -> Bucket(PerAddr[x])]
      BY <2>2, <2>6
    <3>3. DOMAIN RecordIn(byAddr, kind, peer, t, PerAddr[kind]) = DOMAIN byAddr
      BY <3>2, Recorded
    <3>4. ASSUME NEW x \in DOMAIN byAddr
          PROVE RecordIn(byAddr, kind, peer, t, PerAddr[kind])[x] \in [DOMAIN byAddr[x] -> Bucket(PerAddr[x])]
      BY <2>4, <3>2, BucketsTyped
    <3> QED
      BY <2>6, <3>1, <3>3, <3>4
  <2>8. DOMAIN byAll' = Preauth /\ \A x \in Preauth : byAll'[x] \in Bucket(Global[x])
    <3>1. ASSUME NEW x \in Preauth
          PROVE  /\ CheckAndRecord(byAll[x], t, Global[x]) \in Bucket(Global[x])
                 /\ TrimWindow(byAll[x], t) \in Bucket(Global[x])
      <4>1. byAll[x] \in Bucket(Global[x]) /\ Global[x] \in Nat
        BY <1>1, TcpServerAssumption DEF LimitsOk
      <4> QED
        BY <2>4, <4>1, CheckAndRecordType, TrimWindowBucket
    <3> QED
      BY <2>3, <3>1
  <2>9. passed' \in Seq(Passed)
    <3>1. [cmd |-> kind, addr |-> peer, at |-> now] \in Passed
      BY <1>1, <2>2 DEF Passed
    <3>2. passed \in Seq(Passed)
      BY <1>1 DEF LimitsOk
    <3> QED
      BY <2>3, <3>1, <3>2
  <2> QED
    BY <1>1, <2>5, <2>7, <2>8, <2>9 DEF LimitsOk
<1>4. ASSUME NEW c \in Conn, EnforcePreAuthUserRateLimit(c) \/ PassBadUser(c) PROVE LimitsOk'
  <2>1. conn[c].pc = "decode" /\ conn[c].req.user \in User /\ byAddr' = byAddr /\ byAll' = byAll
        /\ passed' = passed
    BY <1>4, TcpServerAssumption DEF EnforcePreAuthUserRateLimit, PassBadUser
  <2>2. conn[c].req.cmd \in Preauth /\ conn[c].addr \in Addr
    BY <2>1, Limited
  <2>3. Served(c) \in Seq(ServedRequest)
    <3> DEFINE r == [cmd |-> conn[c].req.cmd, addr |-> conn[c].addr,
                     user |-> conn[c].req.user, at |-> now]
    <3>1. r \in ServedRequest
      BY <1>1, <2>1, <2>2 DEF ServedRequest
    <3>2. served \in Seq(ServedRequest) /\ Served(c) = Append(served, r)
      BY <1>1 DEF LimitsOk, Served
    <3> QED
      BY <3>1, <3>2
  <2>4. served' \in Seq(ServedRequest)
    BY <1>1, <1>4, <2>3 DEF EnforcePreAuthUserRateLimit, PassBadUser, LimitsOk
  <2>5. DOMAIN byUser' = Preauth
        /\ \A x \in Preauth : byUser'[x] \in [Addr \X User -> Bucket(PerAddrUser[x])]
    <3>1. DOMAIN byUser = Preauth
          /\ (\A x \in Preauth : byUser[x] \in [Addr \X User -> Bucket(PerAddrUser[x])])
          /\ PerAddrUser \in [Preauth -> Nat]
      BY <1>1, TcpServerAssumption DEF LimitsOk
    <3>2. CASE byUser' = byUser
      BY <3>1, <3>2
    <3>3. CASE EnforcePreAuthUserRateLimit(c)
      <4> DEFINE k == conn[c].req.cmd
                 au == <<conn[c].addr, conn[c].req.user>>
                 X == Addr \X User
      <4>1. PICK t \in ClockReadings(c) : byUser' = RecordIn(byUser, k, au, t, PerAddrUser[k])
        BY <3>3 DEF EnforcePreAuthUserRateLimit
      <4>2. t \in Nat /\ k \in Preauth /\ au \in X
        BY <2>1, <2>2, Limited
      <4>3. \A x \in Preauth : byUser[x] \in [X -> Bucket(PerAddrUser[x])]
        BY <3>1
      <4> HIDE DEF k, au, X
      <4>4. \A x \in Preauth : PerAddrUser[x] \in Nat /\ DOMAIN byUser[x] = X
        BY <3>1, <4>3
      <4>5. DOMAIN byUser' = Preauth /\ \A x \in Preauth : byUser'[x] \in [X -> Bucket(PerAddrUser[x])]
        BY <3>1, <4>1, <4>2, <4>3, <4>4, BucketsTyped
      <4> QED
        BY <4>5 DEF X
    <3> QED
      BY <1>4, <3>2, <3>3 DEF PassBadUser
  <2> QED
    BY <1>1, <2>1, <2>4, <2>5 DEF LimitsOk
<1>5. CASE \E c \in Conn : ThreadAction(c)
  <2>1. PICK c \in Conn : ThreadAction(c)
    BY <1>5
  <2>2. CASE Hangup(c) \/ (\E req \in Request : ReadFrame(c, req)) \/ DecodeFails(c)
             \/ Authenticate(c) \/ Act(c)
    BY <1>2, <2>2 DEF Hangup, ReadFrame, DecodeFails, Authenticate, Act
  <2> QED
    BY <1>3, <1>4, <2>1, <2>2 DEF ThreadAction
<1>6. CASE ~ \E c \in Conn : ThreadAction(c)
  BY <1>2, <1>6, NextCases DEF AcceptCheck, AcceptFails, AcceptStart, ReleaseSlot, DropToken,
                               Tick, vars
<1> QED
  BY <1>5, <1>6

\* A connection that acted late on a token cannot do so again: the token is
\* dead, and AuthenticateSessionToken looks at the live ones.
LEMMA LateStep ==
    ASSUME TypeOK, ThreadsInv, LateInv, [Next]_vars
    PROVE  LateInv' /\ late' \in [Conn \X Token -> Nat] /\ live' \subseteq live
<1>1. /\ conn \in [Conn -> ConnState] /\ late \in [Conn \X Token -> Nat]
  BY DEF TypeOK
<1>2. ASSUME late' = late, live' \subseteq live,
             \A c \in Conn : conn'[c] = conn[c] \/ conn'[c].pc # "act" \/ conn'[c].req.token \in live
      PROVE  LateInv' /\ late' \in [Conn \X Token -> Nat] /\ live' \subseteq live
  BY <1>1, <1>2 DEF LateInv
<1>3. CASE \E c \in Conn : ThreadAction(c)
  <2>1. PICK c \in Conn : ThreadAction(c)
    BY <1>3
  <2>2. PICK r : GoesOn(c, r)
    BY <2>1, ThreadStep
  <2>3. conn'[c] = r /\ \A d \in Conn : d # c => conn'[d] = conn[d]
    BY <1>1, <2>2 DEF GoesOn
  <2>4. CASE Act(c)
    <3> DEFINE req == conn[c].req
    <3>1. conn[c].pc = "act" /\ Executed(c) /\ Answered(c)
      BY <2>4 DEF Act, Executed
    <3>2. req.token \in Token
      BY <3>1 DEF ThreadsInv, ThreadOk
    <3>3. conn'[c].pc = "read"
      BY <1>1, <3>1 DEF Answered, ConnState
    <3>4. late[<<c, req.token>>] = 0
      BY <3>1, <3>2 DEF LateInv
    <3>5. live' \subseteq live
      BY <3>1 DEF Executed
    <3>6. CASE late' = late
      BY <1>2, <2>3, <3>3, <3>5, <3>6
    <3>7. CASE late' # late
      <4>1. late' = [late EXCEPT ![<<c, req.token>>] = late[<<c, req.token>>] + 1] /\ req.token \notin live
        BY <3>1, <3>7 DEF Executed
      <4>2. /\ late' \in [Conn \X Token -> Nat] /\ late'[<<c, req.token>>] = 1
            /\ \A d \in Conn, token \in Token :
                 <<d, token>> # <<c, req.token>> => late'[<<d, token>>] = late[<<d, token>>]
        BY <1>1, <3>2, <3>4, <4>1
      <4>3. ASSUME NEW d \in Conn, NEW token \in Token
            PROVE  \/ late'[<<d, token>>] = 0
                   \/ /\ late'[<<d, token>>] = 1
                      /\ token \notin live'
                      /\ ~(conn'[d].pc = "act" /\ conn'[d].req.token = token)
        <5>1. CASE d = c /\ token = req.token
          BY <3>3, <3>5, <4>1, <4>2, <5>1
        <5>2. CASE ~(d = c /\ token = req.token)
          <6>1. late'[<<d, token>>] = late[<<d, token>>]
            BY <4>2, <5>2
          <6> QED
            BY <2>3, <3>3, <3>5, <6>1 DEF LateInv
        <5> QED
          BY <5>1, <5>2
      <4> QED
        BY <3>5, <4>2, <4>3 DEF LateInv
    <3> QED
      BY <3>6, <3>7
  <2>5. CASE ~Act(c)
    <3>1. late' = late /\ live' = live
      BY <2>1, <2>5 DEF ThreadAction, Hangup, ReadFrame, EnforcePreAuthRateLimit, DecodeFails,
                        EnforcePreAuthUserRateLimit, PassBadUser, Authenticate
    <3> QED
      BY <1>2, <2>2, <2>3, <3>1 DEF GoesOn
  <2> QED
    BY <2>4, <2>5
<1>4. CASE \E c \in Conn, addr \in Addr : AcceptStart(c, addr)
  BY <1>1, <1>2, <1>4 DEF AcceptStart, NoConn
<1>5. CASE \E c \in Conn : ReleaseSlot(c)
  BY <1>1, <1>2, <1>5 DEF ReleaseSlot, NoConn
<1>6. CASE AcceptCheck \/ AcceptFails \/ (\E token \in Token : DropToken(token)) \/ Tick
           \/ UNCHANGED vars
  BY <1>2, <1>6 DEF AcceptCheck, AcceptFails, DropToken, Tick, vars
<1> QED
  BY <1>3, <1>4, <1>5, <1>6, NextCases

----------------------------------------------------------------------------
\* The limits.

\* The two halves of WindowLimits.
OfSame(s, j) == {i \in EndingAt(s, j) : s[i].cmd = s[j].cmd}
FromSame(s, j) == {i \in OfSame(s, j) : s[i].addr = s[j].addr}
ForSame(s, j) == {i \in EndingAt(s, j) : [s[i] EXCEPT !.at = 0] = [s[j] EXCEPT !.at = 0]}
PassedLimits ==
    \A j \in DOMAIN passed : /\ Cardinality(FromSame(passed, j)) <= PerAddr[passed[j].cmd]
                             /\ Cardinality(OfSame(passed, j)) <= Global[passed[j].cmd]
ServedLimits ==
    \A j \in DOMAIN served :
        served[j].user \notin BadUser => Cardinality(ForSame(served, j)) <= PerAddrUser[served[j].cmd]

\* The two halves of the rate limit: requests passed and requests served.
LEMMA LimitsSplit == WindowLimits <=> PassedLimits /\ ServedLimits
BY DEF WindowLimits, PassedLimits, ServedLimits, OfSame, FromSame, ForSame

\* A request of a history happened in the last Window - MaxSkew seconds.
LEMMA RecentTimes ==
    ASSUME NEW s, \A i \in DOMAIN s : s[i].at \in Nat
    PROVE  \A i \in Recent(s) : Times(s)[i] \in Nat /\ now < Times(s)[i] + Window - MaxSkew
BY DEF Recent, Times

\* A history only grows at its end, so that what its entries end stays.
LEMMA EndingStays ==
    ASSUME NEW T, NEW s \in Seq(T), NEW r \in T, NEW j \in DOMAIN s
    PROVE  /\ OfSame(Append(s, r), j) = OfSame(s, j)
           /\ FromSame(Append(s, r), j) = FromSame(s, j)
           /\ ForSame(Append(s, r), j) = ForSame(s, j)
           /\ Append(s, r)[j] = s[j]
<1>1. \A i \in 1 .. j : Append(s, r)[i] = s[i]
  OBVIOUS
<1>2. j \in 1 .. j
  OBVIOUS
<1>3. EndingAt(Append(s, r), j) = EndingAt(s, j) /\ EndingAt(s, j) \subseteq 1 .. j
  BY <1>1, <1>2 DEF EndingAt
<1>4. OfSame(Append(s, r), j) = OfSame(s, j) /\ OfSame(s, j) \subseteq 1 .. j
  BY <1>1, <1>2, <1>3 DEF OfSame
<1>5. FromSame(Append(s, r), j) = FromSame(s, j)
  BY <1>1, <1>2, <1>4 DEF FromSame
<1>6. ForSame(Append(s, r), j) = ForSame(s, j)
  BY <1>1, <1>2, <1>3 DEF ForSame
<1> QED
  BY <1>1, <1>2, <1>4, <1>5, <1>6

\* EnforcePreAuthRateLimit covers the request that it lets through.
LEMMA PassedStep ==
    ASSUME TypeOK, ThreadsInv, PassedCover, PassedLimits, LimitsOk',
           NEW c \in Conn, EnforcePreAuthRateLimit(c)
    PROVE  PassedCover' /\ PassedLimits'
<1>1. conn[c].pc = "limit" /\ now' = now
  BY DEF EnforcePreAuthRateLimit
<1>2. PICK kind \in Preauth, peer \in Addr : kind = conn[c].req.cmd /\ peer = conn[c].addr
  BY <1>1, Limited
<1>3. PICK t \in ClockReadings(c) :
        /\ byAddr' = RecordIn(byAddr, kind, peer, t, PerAddr[kind])
        /\ byAll' = [x \in Preauth |->
                       IF x = kind /\ HasRoom(byAddr[kind][peer], t, PerAddr[kind])
                       THEN CheckAndRecord(byAll[x], t, Global[x]) ELSE TrimWindow(byAll[x], t)]
        /\ IF HasRoom(byAddr[kind][peer], t, PerAddr[kind]) /\ HasRoom(byAll[kind], t, Global[kind])
           THEN passed' = Append(passed, [cmd |-> kind, addr |-> peer, at |-> now])
           ELSE passed' = passed
  BY <1>2 DEF EnforcePreAuthRateLimit
<1>4. t \in Nat /\ t <= now /\ now <= t + MaxSkew
  BY <1>1, Limited
<1>5. /\ now \in Nat /\ MaxSkew \in Nat /\ Window \in Nat /\ MaxSkew < Window
      /\ passed \in Seq(Passed) /\ \A i \in DOMAIN passed : passed[i].at \in Nat
  <2>1. passed \in Seq(Passed) /\ \A i \in DOMAIN passed : passed[i] \in Passed
    BY DEF TypeOK
  <2> QED
    BY <2>1, TcpServerAssumption, WindowAssumption DEF TypeOK, Passed
<1>6. \A x \in Preauth : /\ byAll[x] \in Seq(Nat) /\ DOMAIN byAddr[x] = Addr
                         /\ \A y \in Addr : byAddr[x][y] \in Seq(Nat)
  BY DEF TypeOK, Bucket
<1>7. \A i \in Recent(passed) : /\ Times(passed)[i] \in Nat
                                /\ now < Times(passed)[i] + Window - MaxSkew
  BY <1>5, RecentTimes
<1>8. \A x \in Preauth, y \in Addr :
        byAddr'[x][y] = IF x = kind /\ y = peer
                        THEN CheckAndRecord(byAddr[kind][peer], t, PerAddr[kind])
                        ELSE TrimWindow(byAddr[x][y], t)
  <2>1. byAddr' = RecordIn(byAddr, kind, peer, t, PerAddr[kind])
    BY <1>3
  <2>2. DOMAIN byAddr = Preauth
    BY DEF TypeOK
  <2>3. kind \in DOMAIN byAddr /\ peer \in DOMAIN byAddr[kind]
    BY <1>6, <2>2
  <2> QED
    BY <1>6, <2>1, <2>2, <2>3, RecordedAt
\* The requests from before stay covered.
<1>9. ASSUME NEW x \in Preauth
      PROVE  /\ Covers(TrimWindow(byAll[x], t), RecentOf(x), Times(passed), MaxSkew)
             /\ Covers(CheckAndRecord(byAll[x], t, Global[x]), RecentOf(x), Times(passed), MaxSkew)
             /\ Covers(byAll'[x], RecentOf(x), Times(passed), MaxSkew)
  <2>1. Covers(byAll[x], RecentOf(x), Times(passed), MaxSkew)
    BY DEF PassedCover
  <2>2. \A i \in RecentOf(x) : /\ Times(passed)[i] \in Nat
                               /\ now < Times(passed)[i] + Window - MaxSkew
    BY <1>7 DEF RecentOf
  <2>3. Covers(TrimWindow(byAll[x], t), RecentOf(x), Times(passed), MaxSkew)
    BY <1>4, <1>5, <1>6, <2>1, <2>2, CoversTrimmed
  <2>4. Covers(CheckAndRecord(byAll[x], t, Global[x]), RecentOf(x), Times(passed), MaxSkew)
    BY <1>4, <1>5, <1>6, <2>1, <2>2, CoversChecked
  <2> QED
    BY <1>3, <2>3, <2>4
<1>10. ASSUME NEW x \in Preauth, NEW y \in Addr
       PROVE  Covers(byAddr'[x][y], RecentFrom(x, y), Times(passed), MaxSkew)
  <2>1. Covers(byAddr[x][y], RecentFrom(x, y), Times(passed), MaxSkew)
    BY DEF PassedCover
  <2>2. \A i \in RecentFrom(x, y) : /\ Times(passed)[i] \in Nat
                                    /\ now < Times(passed)[i] + Window - MaxSkew
    BY <1>7 DEF RecentOf, RecentFrom
  <2>3. Covers(TrimWindow(byAddr[x][y], t), RecentFrom(x, y), Times(passed), MaxSkew)
    BY <1>4, <1>5, <1>6, <2>1, <2>2, CoversTrimmed
  <2>4. Covers(CheckAndRecord(byAddr[x][y], t, PerAddr[kind]), RecentFrom(x, y), Times(passed), MaxSkew)
    BY <1>4, <1>5, <1>6, <2>1, <2>2, CoversChecked
  <2> QED
    BY <1>8, <2>3, <2>4
<1>11. CASE passed' = passed
  <2>1. \A x \in Preauth : RecentOf(x)' = RecentOf(x)
    BY <1>1, <1>11 DEF Recent, RecentOf
  <2>2. \A x \in Preauth, y \in Addr : RecentFrom(x, y)' = RecentFrom(x, y)
    BY <1>11, <2>1 DEF RecentFrom
  <2>3. PassedCover'
    BY <1>9, <1>10, <1>11, <2>1, <2>2 DEF PassedCover
  <2>4. PassedLimits'
    BY <1>11 DEF PassedLimits
  <2> QED
    BY <2>3, <2>4
<1>12. CASE passed' # passed
  <2> DEFINE n == Len(passed) + 1
             r == [cmd |-> kind, addr |-> peer, at |-> now]
             time == Times(passed')
  <2>1. /\ passed' = Append(passed, r) /\ r \in Passed
        /\ HasRoom(byAddr[kind][peer], t, PerAddr[kind]) /\ HasRoom(byAll[kind], t, Global[kind])
    BY <1>2, <1>3, <1>5, <1>12 DEF Passed
  <2>2. r.cmd = kind /\ r.addr = peer /\ r.at = now
    OBVIOUS
  <2> HIDE DEF r
  <2>3. /\ DOMAIN passed' = DOMAIN passed \cup {n} /\ n \notin DOMAIN passed
        /\ passed'[n] = r /\ \A i \in DOMAIN passed : passed'[i] = passed[i]
    BY <1>5, <2>1
  <2>4. DOMAIN passed' = 1 .. n
    BY <1>5, <2>1
  <2> HIDE DEF n
  <2>5. time[n] = now /\ \A i \in DOMAIN passed : time[i] = Times(passed)[i]
    BY <2>2, <2>3 DEF Times
  <2> HIDE DEF time
  <2>6. \A x \in Preauth : RecentOf(x)' = IF x = kind THEN RecentOf(x) \cup {n} ELSE RecentOf(x)
    BY <1>1, <1>5, <2>2, <2>3 DEF RecentOf, Recent
  <2>7. \A x \in Preauth, y \in Addr :
          RecentFrom(x, y)' = IF x = kind /\ y = peer THEN RecentFrom(x, y) \cup {n} ELSE RecentFrom(x, y)
    BY <2>2, <2>3, <2>6 DEF RecentFrom, RecentOf, Recent
  <2>8. \A x \in Preauth : RecentOf(x) \subseteq DOMAIN passed
    BY DEF RecentOf, Recent
  <2>9. \A x \in Preauth, y \in Addr : RecentFrom(x, y) \subseteq DOMAIN passed
    BY <2>8 DEF RecentFrom
  <2>10. ASSUME NEW x \in Preauth PROVE Covers(byAll'[x], RecentOf(x)', time, MaxSkew)
    <3>1. CASE x # kind
      BY <1>9, <2>5, <2>6, <2>8, <3>1, CoversFewer
    <3>2. CASE x = kind
      <4>1. byAll'[x] = CheckAndRecord(byAll[x], t, Global[x]) /\ RecentOf(x)' = RecentOf(x) \cup {n}
        BY <1>3, <2>1, <2>6, <3>2
      <4>2. Covers(byAll[x], RecentOf(x), Times(passed), MaxSkew)
        BY DEF PassedCover
      <4>3. \A i \in RecentOf(x) : /\ Times(passed)[i] \in Nat
                                   /\ now < Times(passed)[i] + Window - MaxSkew
        BY <1>7 DEF RecentOf
      <4>4. n \notin RecentOf(x) /\ \A i \in RecentOf(x) : time[i] = Times(passed)[i]
        BY <2>3, <2>5, <2>8
      <4>5. time[n] <= t + MaxSkew
        BY <1>4, <2>5
      <4>6. byAll[x] \in Seq(Nat) /\ HasRoom(byAll[x], t, Global[x])
        BY <1>6, <2>1, <3>2
      <4>7. Covers(CheckAndRecord(byAll[x], t, Global[x]), RecentOf(x) \cup {n}, time, MaxSkew)
        BY <1>4, <1>5, <4>2, <4>3, <4>4, <4>5, <4>6, CoversAdmitted
      <4> QED
        BY <4>1, <4>7
    <3> QED
      BY <3>1, <3>2
  <2>11. ASSUME NEW x \in Preauth, NEW y \in Addr
         PROVE  Covers(byAddr'[x][y], RecentFrom(x, y)', time, MaxSkew)
    <3>1. CASE ~(x = kind /\ y = peer)
      BY <1>10, <2>5, <2>7, <2>9, <3>1, CoversFewer
    <3>2. CASE x = kind /\ y = peer
      <4>1. /\ byAddr'[x][y] = CheckAndRecord(byAddr[x][y], t, PerAddr[x])
            /\ RecentFrom(x, y)' = RecentFrom(x, y) \cup {n}
        BY <1>8, <2>7, <3>2
      <4>2. Covers(byAddr[x][y], RecentFrom(x, y), Times(passed), MaxSkew)
        BY DEF PassedCover
      <4>3. \A i \in RecentFrom(x, y) : /\ Times(passed)[i] \in Nat
                                        /\ now < Times(passed)[i] + Window - MaxSkew
        BY <1>7 DEF RecentOf, RecentFrom
      <4>4. n \notin RecentFrom(x, y) /\ \A i \in RecentFrom(x, y) : time[i] = Times(passed)[i]
        BY <2>3, <2>5, <2>9
      <4>5. time[n] <= t + MaxSkew
        BY <1>4, <2>5
      <4>6. byAddr[x][y] \in Seq(Nat) /\ HasRoom(byAddr[x][y], t, PerAddr[x])
        BY <1>6, <2>1, <3>2
      <4>7. Covers(CheckAndRecord(byAddr[x][y], t, PerAddr[x]), RecentFrom(x, y) \cup {n}, time, MaxSkew)
        BY <1>4, <1>5, <4>2, <4>3, <4>4, <4>5, <4>6, CoversAdmitted
      <4> QED
        BY <4>1, <4>7
    <3> QED
      BY <3>1, <3>2
  <2>12. PassedCover'
    BY <2>10, <2>11 DEF PassedCover, time
  <2>13. OfSame(passed', n) = RecentOf(kind)'
    BY <1>1, <2>2, <2>3, <2>4 DEF OfSame, EndingAt, RecentOf, Recent
  <2>14. FromSame(passed', n) = RecentFrom(kind, peer)'
    BY <2>2, <2>3, <2>13 DEF FromSame, RecentFrom
  <2>15. Cardinality(OfSame(passed', n)) <= Global[kind]
    <3>1. byAll'[kind] \in Seq(Nat) /\ Len(byAll'[kind]) <= Global[kind] /\ Global[kind] \in Nat
      BY <1>2, TcpServerAssumption DEF LimitsOk, Bucket
    <3>2. Cardinality(RecentOf(kind)') \in Nat /\ Cardinality(RecentOf(kind)') <= Len(byAll'[kind])
      BY <1>2, <2>10, <3>1, CoversSize
    <3> QED
      BY <2>13, <3>1, <3>2
  <2>16. Cardinality(FromSame(passed', n)) <= PerAddr[kind]
    <3>1. /\ byAddr'[kind][peer] \in Seq(Nat) /\ Len(byAddr'[kind][peer]) <= PerAddr[kind]
          /\ PerAddr[kind] \in Nat
      BY <1>2, TcpServerAssumption DEF LimitsOk, Bucket
    <3>2. /\ Cardinality(RecentFrom(kind, peer)') \in Nat
          /\ Cardinality(RecentFrom(kind, peer)') <= Len(byAddr'[kind][peer])
      BY <1>2, <2>11, <3>1, CoversSize
    <3> QED
      BY <2>14, <3>1, <3>2
  <2>17. PassedLimits'
    <3> SUFFICES ASSUME NEW j \in DOMAIN passed'
                 PROVE  /\ Cardinality(FromSame(passed', j)) <= PerAddr[passed'[j].cmd]
                        /\ Cardinality(OfSame(passed', j)) <= Global[passed'[j].cmd]
      BY DEF PassedLimits, FromSame, OfSame, EndingAt
    <3>1. CASE j = n
      BY <2>2, <2>3, <2>15, <2>16, <3>1
    <3>2. CASE j # n
      <4>1. j \in DOMAIN passed
        BY <2>3, <3>2
      <4>2. FromSame(passed', j) = FromSame(passed, j) /\ OfSame(passed', j) = OfSame(passed, j)
            /\ passed'[j] = passed[j]
        BY <1>5, <2>1, <4>1, EndingStays
      <4> QED
        BY <4>1, <4>2 DEF PassedLimits
    <3> QED
      BY <3>1, <3>2
  <2> QED
    BY <2>12, <2>17
<1> QED
  BY <1>11, <1>12

\* EnforcePreAuthUserRateLimit covers the request that it hands to the store;
\* a request for a user id that is not well formed has no bucket.
LEMMA ServedStep ==
    ASSUME TypeOK, ThreadsInv, ServedCover, ServedLimits, LimitsOk',
           NEW c \in Conn, EnforcePreAuthUserRateLimit(c) \/ PassBadUser(c)
    PROVE  ServedCover' /\ ServedLimits'
<1>1. conn[c].pc = "decode" /\ conn[c].req.user \in User /\ now' = now
  BY TcpServerAssumption DEF EnforcePreAuthUserRateLimit, PassBadUser
<1>2. PICK kind \in Preauth, peer \in Addr, user \in User :
        kind = conn[c].req.cmd /\ peer = conn[c].addr /\ user = conn[c].req.user
  BY <1>1, Limited
<1> DEFINE n == Len(served) + 1
           r == [cmd |-> kind, addr |-> peer, user |-> user, at |-> now]
<1>3. /\ now \in Nat /\ MaxSkew \in Nat /\ Window \in Nat /\ MaxSkew < Window
      /\ served \in Seq(ServedRequest)
      /\ \A i \in DOMAIN served : served[i] \in ServedRequest /\ served[i].at \in Nat
  <2>1. served \in Seq(ServedRequest) /\ \A i \in DOMAIN served : served[i] \in ServedRequest
    BY DEF TypeOK
  <2> QED
    BY <2>1, TcpServerAssumption, WindowAssumption DEF TypeOK, ServedRequest
<1>4. Served(c) = Append(served, r) /\ r \in ServedRequest
  BY <1>2, <1>3 DEF Served, ServedRequest
<1>5. r.cmd = kind /\ r.addr = peer /\ r.user = user /\ r.at = now
  OBVIOUS
<1> HIDE DEF r
<1>6. /\ DOMAIN Append(served, r) = DOMAIN served \cup {n} /\ n \notin DOMAIN served
      /\ DOMAIN Append(served, r) = 1 .. n
      /\ Append(served, r)[n] = r
      /\ \A i \in DOMAIN served : Append(served, r)[i] = served[i]
  BY <1>3, <1>4
<1> HIDE DEF n
<1>7. \A i \in Recent(served) : /\ Times(served)[i] \in Nat
                                /\ now < Times(served)[i] + Window - MaxSkew
  BY <1>3, RecentTimes
<1>8. /\ DOMAIN byUser = Preauth
      /\ \A x \in Preauth : /\ DOMAIN byUser[x] = Addr \X User
                            /\ \A y \in Addr \X User : byUser[x][y] \in Seq(Nat)
  <2>1. DOMAIN byUser = Preauth
    BY DEF TypeOK
  <2>2. \A x \in Preauth : byUser[x] \in [Addr \X User -> Bucket(PerAddrUser[x])]
    BY DEF TypeOK
  <2> QED
    BY <2>1, <2>2 DEF Bucket
\* The requests from before stay covered.
<1>9. ASSUME NEW x \in Preauth, NEW y \in Addr, NEW u \in User \ BadUser
      PROVE  Covers(byUser'[x][<<y, u>>], RecentFor(x, y, u), Times(served), MaxSkew)
  <2>1. Covers(byUser[x][<<y, u>>], RecentFor(x, y, u), Times(served), MaxSkew)
    BY DEF ServedCover
  <2>2. CASE PassBadUser(c)
    BY <2>1, <2>2 DEF PassBadUser
  <2>3. CASE EnforcePreAuthUserRateLimit(c)
    <3>1. PICK t \in ClockReadings(c) :
            byUser' = RecordIn(byUser, kind, <<peer, user>>, t, PerAddrUser[kind])
      BY <1>2, <2>3 DEF EnforcePreAuthUserRateLimit
    <3>2. t \in Nat /\ t <= now
      BY <1>1, Limited
    <3>3. \A i \in RecentFor(x, y, u) : /\ Times(served)[i] \in Nat
                                        /\ now < Times(served)[i] + Window - MaxSkew
      BY <1>7 DEF RecentFor
    <3>4. byUser[x][<<y, u>>] \in Seq(Nat)
      BY <1>8
    <3>5. Covers(TrimWindow(byUser[x][<<y, u>>], t), RecentFor(x, y, u), Times(served), MaxSkew)
      BY <1>3, <2>1, <3>2, <3>3, <3>4, CoversTrimmed
    <3>6. Covers(CheckAndRecord(byUser[x][<<y, u>>], t, PerAddrUser[kind]), RecentFor(x, y, u),
                 Times(served), MaxSkew)
      BY <1>3, <2>1, <3>2, <3>3, <3>4, CoversChecked
    <3>7. /\ kind \in DOMAIN byUser /\ <<peer, user>> \in DOMAIN byUser[kind]
          /\ x \in DOMAIN byUser /\ <<y, u>> \in DOMAIN byUser[x]
      BY <1>8
    <3>8. byUser'[x][<<y, u>>] \in {CheckAndRecord(byUser[x][<<y, u>>], t, PerAddrUser[kind]),
                                     TrimWindow(byUser[x][<<y, u>>], t)}
      BY <3>1, <3>7, RecordedAt
    <3> QED
      BY <3>5, <3>6, <3>8
  <2> QED
    BY <2>2, <2>3
<1>10. CASE served' = served
  <2>1. \A x \in Preauth, y \in Addr, u \in User : RecentFor(x, y, u)' = RecentFor(x, y, u)
    BY <1>1, <1>10 DEF Recent, RecentFor
  <2>2. ServedCover'
    BY <1>9, <1>10, <2>1 DEF ServedCover
  <2>3. ServedLimits'
    BY <1>10 DEF ServedLimits
  <2> QED
    BY <2>2, <2>3
<1>11. CASE served' = Append(served, r)
  <2> DEFINE time == Times(served')
  <2>1. time[n] = now /\ \A i \in DOMAIN served : time[i] = Times(served)[i]
    BY <1>5, <1>6, <1>11 DEF Times
  <2> HIDE DEF time
  <2>2. \A x \in Preauth, y \in Addr, u \in User :
          /\ RecentFor(x, y, u)' = IF x = kind /\ y = peer /\ u = user
                                   THEN RecentFor(x, y, u) \cup {n} ELSE RecentFor(x, y, u)
          /\ RecentFor(x, y, u) \subseteq DOMAIN served
    BY <1>1, <1>3, <1>5, <1>6, <1>11 DEF RecentFor, Recent
  <2>3. ASSUME NEW x \in Preauth, NEW y \in Addr, NEW u \in User \ BadUser
        PROVE  Covers(byUser'[x][<<y, u>>], RecentFor(x, y, u)', time, MaxSkew)
    <3>1. CASE ~(x = kind /\ y = peer /\ u = user)
      BY <1>9, <2>1, <2>2, <3>1, CoversFewer
    <3>2. CASE x = kind /\ y = peer /\ u = user
      <4>1. RecentFor(x, y, u)' = RecentFor(x, y, u) \cup {n}
        BY <2>2, <3>2
      <4>2. EnforcePreAuthUserRateLimit(c)
        BY <1>2, <3>2 DEF PassBadUser
      <4>3. served' # served
        BY <1>6, <1>11
      <4>4. PICK t \in ClockReadings(c) :
              /\ byUser' = RecordIn(byUser, kind, <<peer, user>>, t, PerAddrUser[kind])
              /\ HasRoom(byUser[kind][<<peer, user>>], t, PerAddrUser[kind])
        BY <1>2, <4>2, <4>3 DEF EnforcePreAuthUserRateLimit
      <4>5. t \in Nat /\ t <= now /\ now <= t + MaxSkew
        BY <1>1, Limited
      <4>6. Covers(byUser[x][<<y, u>>], RecentFor(x, y, u), Times(served), MaxSkew)
        BY DEF ServedCover
      <4>7. \A i \in RecentFor(x, y, u) : /\ Times(served)[i] \in Nat
                                          /\ now < Times(served)[i] + Window - MaxSkew
        BY <1>7 DEF RecentFor
      <4>8. n \notin RecentFor(x, y, u) /\ \A i \in RecentFor(x, y, u) : time[i] = Times(served)[i]
        BY <1>6, <2>1, <2>2
      <4>9. time[n] <= t + MaxSkew
        BY <2>1, <4>5
      <4>10. byUser[x][<<y, u>>] \in Seq(Nat) /\ HasRoom(byUser[x][<<y, u>>], t, PerAddrUser[x])
        BY <1>8, <3>2, <4>4
      <4>11. Covers(CheckAndRecord(byUser[x][<<y, u>>], t, PerAddrUser[x]), RecentFor(x, y, u) \cup {n},
                    time, MaxSkew)
        BY <1>3, <4>5, <4>6, <4>7, <4>8, <4>9, <4>10, CoversAdmitted
      <4>12. x \in DOMAIN byUser /\ <<y, u>> \in DOMAIN byUser[x]
        BY <1>8
      <4>13. byUser'[x][<<y, u>>] = CheckAndRecord(byUser[x][<<y, u>>], t, PerAddrUser[x])
        BY <3>2, <4>4, <4>12, RecordedAt
      <4> QED
        BY <4>1, <4>11, <4>13
    <3> QED
      BY <3>1, <3>2
  <2>4. ServedCover'
    BY <2>3 DEF ServedCover, time
  <2>5. user \notin BadUser => Cardinality(ForSame(served', n)) <= PerAddrUser[kind]
    <3> HAVE user \notin BadUser
    <3>1. \A i \in DOMAIN served' : served'[i] \in ServedRequest /\ served'[n] = r
      BY <1>3, <1>4, <1>6, <1>11
    <3>2. \A i \in DOMAIN served' :
            ([served'[i] EXCEPT !.at = 0] = [served'[n] EXCEPT !.at = 0])
              <=> served'[i].cmd = kind /\ served'[i].addr = peer /\ served'[i].user = user
      BY <1>4, <1>5, <3>1 DEF ServedRequest
    <3>3. ForSame(served', n) = RecentFor(kind, peer, user)'
      BY <1>1, <1>5, <1>6, <1>11, <3>1, <3>2 DEF ForSame, EndingAt, RecentFor, Recent
    <3>4. /\ byUser'[kind][<<peer, user>>] \in Seq(Nat)
          /\ Len(byUser'[kind][<<peer, user>>]) <= PerAddrUser[kind] /\ PerAddrUser[kind] \in Nat
      BY TcpServerAssumption DEF LimitsOk, Bucket
    <3>5. /\ Cardinality(RecentFor(kind, peer, user)') \in Nat
          /\ Cardinality(RecentFor(kind, peer, user)') <= Len(byUser'[kind][<<peer, user>>])
      BY <2>3, <3>4, CoversSize
    <3> QED
      BY <3>3, <3>4, <3>5
  <2>6. ServedLimits'
    <3> SUFFICES ASSUME NEW j \in DOMAIN served', served'[j].user \notin BadUser
                 PROVE  Cardinality(ForSame(served', j)) <= PerAddrUser[served'[j].cmd]
      BY DEF ServedLimits, ForSame, EndingAt
    <3>1. CASE j = n
      BY <1>5, <1>6, <1>11, <2>5, <3>1
    <3>2. CASE j # n
      <4>1. j \in DOMAIN served
        BY <1>6, <1>11, <3>2
      <4>2. ForSame(served', j) = ForSame(served, j) /\ served'[j] = served[j]
        BY <1>3, <1>4, <1>11, <4>1, EndingStays
      <4> QED
        BY <4>1, <4>2 DEF ServedLimits
    <3> QED
      BY <3>1, <3>2
  <2> QED
    BY <2>4, <2>6
<1> QED
  BY <1>4, <1>10, <1>11 DEF EnforcePreAuthUserRateLimit, PassBadUser

\* While the buckets and the histories stay, time only takes requests out of
\* the window.
LEMMA CoverAges ==
    ASSUME TypeOK, CoverInv, WindowLimits, UNCHANGED limits, now' \in {now, now + 1}
    PROVE  CoverInv' /\ WindowLimits'
<1>1. /\ byAddr' = byAddr /\ byUser' = byUser /\ byAll' = byAll
      /\ passed' = passed /\ served' = served
  BY DEF limits
<1>2. now \in Nat /\ MaxSkew \in Nat /\ Window \in Nat
  BY TcpServerAssumption, WindowAssumption DEF TypeOK
<1>3. (\A i \in DOMAIN passed : passed[i].at \in Nat) /\ (\A i \in DOMAIN served : served[i].at \in Nat)
  <2>1. (\A i \in DOMAIN passed : passed[i] \in Passed)
        /\ (\A i \in DOMAIN served : served[i] \in ServedRequest)
    BY DEF TypeOK
  <2> QED
    BY <2>1 DEF Passed, ServedRequest
<1>4. Recent(passed)' \subseteq Recent(passed) /\ Recent(served)' \subseteq Recent(served)
  BY <1>1, <1>2, <1>3 DEF Recent
<1>5. ASSUME NEW k \in Preauth
      PROVE  Covers(byAll[k], RecentOf(k)', Times(passed), MaxSkew)
  <2>1. RecentOf(k)' \in SUBSET RecentOf(k)
    BY <1>1, <1>4 DEF RecentOf
  <2>2. Covers(byAll[k], RecentOf(k), Times(passed), MaxSkew)
    BY DEF CoverInv, PassedCover
  <2> QED
    BY <2>1, <2>2, CoversFewer
<1>6. ASSUME NEW k \in Preauth, NEW a \in Addr
      PROVE  Covers(byAddr[k][a], RecentFrom(k, a)', Times(passed), MaxSkew)
  <2>1. RecentFrom(k, a)' \in SUBSET RecentFrom(k, a)
    BY <1>1, <1>4 DEF RecentOf, RecentFrom
  <2>2. Covers(byAddr[k][a], RecentFrom(k, a), Times(passed), MaxSkew)
    BY DEF CoverInv, PassedCover
  <2> QED
    BY <2>1, <2>2, CoversFewer
<1>7. ASSUME NEW k \in Preauth, NEW a \in Addr, NEW u \in User \ BadUser
      PROVE  Covers(byUser[k][<<a, u>>], RecentFor(k, a, u)', Times(served), MaxSkew)
  <2>1. RecentFor(k, a, u)' \in SUBSET RecentFor(k, a, u)
    BY <1>1, <1>4 DEF RecentFor
  <2>2. Covers(byUser[k][<<a, u>>], RecentFor(k, a, u), Times(served), MaxSkew)
    BY DEF CoverInv, ServedCover
  <2> QED
    BY <2>1, <2>2, CoversFewer
<1>8. CoverInv'
  BY <1>1, <1>5, <1>6, <1>7 DEF CoverInv, PassedCover, ServedCover
<1>9. WindowLimits'
  BY <1>1 DEF WindowLimits, EndingAt
<1> QED
  BY <1>8, <1>9

\* Every step keeps the windows covering the requests let through.
LEMMA CoverStep ==
    ASSUME TypeOK, ThreadsInv, CoverInv, WindowLimits, [Next]_vars
    PROVE  CoverInv' /\ WindowLimits'
<1>1. LimitsOk'
  BY LimitsStep
<1>2. PassedCover /\ ServedCover /\ PassedLimits /\ ServedLimits
  BY LimitsSplit DEF CoverInv
<1>3. ASSUME PassedCover', ServedCover', PassedLimits', ServedLimits'
      PROVE  CoverInv' /\ WindowLimits'
  BY <1>3, LimitsSplit, PTL DEF CoverInv
<1>4. CASE \E c \in Conn : EnforcePreAuthRateLimit(c)
  <2>1. PICK c \in Conn : EnforcePreAuthRateLimit(c)
    BY <1>4
  <2>2. PassedCover' /\ PassedLimits'
    BY <1>1, <1>2, <2>1, PassedStep
  <2>3. now' = now /\ byUser' = byUser /\ served' = served
    BY <2>1 DEF EnforcePreAuthRateLimit
  <2>4. \A k, a, u : RecentFor(k, a, u)' = RecentFor(k, a, u)
    BY <2>3 DEF RecentFor, Recent
  <2>5. ServedCover'
    BY <1>2, <2>3, <2>4 DEF ServedCover
  <2>6. ServedLimits'
    BY <1>2, <2>3 DEF ServedLimits
  <2> QED
    BY <1>3, <2>2, <2>5, <2>6
<1>5. CASE \E c \in Conn : EnforcePreAuthUserRateLimit(c) \/ PassBadUser(c)
  <2>1. PICK c \in Conn : EnforcePreAuthUserRateLimit(c) \/ PassBadUser(c)
    BY <1>5
  <2>2. ServedCover' /\ ServedLimits'
    BY <1>1, <1>2, <2>1, ServedStep
  <2>3. now' = now /\ byAddr' = byAddr /\ byAll' = byAll /\ passed' = passed
    BY <2>1 DEF EnforcePreAuthUserRateLimit, PassBadUser
  <2>4. PassedCover' /\ PassedLimits'
    BY <1>2, <2>3 DEF PassedCover, PassedLimits, RecentOf, RecentFrom, Recent, OfSame, FromSame,
                      EndingAt
  <2> QED
    BY <1>3, <2>2, <2>4
<1>6. CASE ~ \E c \in Conn : \/ EnforcePreAuthRateLimit(c)
                             \/ EnforcePreAuthUserRateLimit(c) \/ PassBadUser(c)
  <2>1. UNCHANGED limits /\ now' \in {now, now + 1}
    BY <1>6, NextCases DEF ThreadAction, Hangup, ReadFrame, DecodeFails, Authenticate, Act,
                           AcceptCheck, AcceptFails, AcceptStart, ReleaseSlot, DropToken, Tick, vars
  <2> QED
    BY <2>1, CoverAges
<1> QED
  BY <1>4, <1>5, <1>6

----------------------------------------------------------------------------
\* The theorems.

\* The front end starts with no connection.
LEMMA TcpInit ==
    ASSUME Init
    PROVE  TcpInv
<1>1. TypeOK
  <2>1. \A limit \in Nat : <<>> \in Bucket(limit)
    BY DEF Bucket
  <2>2. {DOMAIN byAddr, DOMAIN byUser, DOMAIN byAll} = {Preauth}
    BY DEF Init
  <2>3. \A k \in Preauth : /\ byAddr[k] \in [Addr -> Bucket(PerAddr[k])]
                           /\ byUser[k] \in [Addr \X User -> Bucket(PerAddrUser[k])]
                           /\ byAll[k] \in Bucket(Global[k])
    BY <2>1, TcpServerAssumption DEF Init
  <2>4. conn \in [Conn -> ConnState] /\ late \in [Conn \X Token -> Nat]
    BY DEF Init, NoConn, ConnState
  <2>5. passed \in Seq(Passed) /\ served \in Seq(ServedRequest)
    BY DEF Init
  <2> QED
    BY <2>2, <2>3, <2>4, <2>5, TcpServerAssumption DEF Init, TypeOK
<1>2. ThreadsInv
  BY DEF Init, NoConn, ThreadsInv, ThreadOk
<1>3. CapInv
  <2>1. Threads = {}
    BY DEF Init, NoConn, Threads
  <2> QED
    BY <2>1, FS_EmptySet, TcpServerAssumption DEF Init, CapInv
<1>4. LateInv
  BY DEF Init, LateInv
<1>5. CoverInv
  <2> DEFINE none == [i \in {} |-> 0]
  <2>1. none \in [{} -> DOMAIN <<>>]
    OBVIOUS
  <2> HIDE DEF none
  <2>2. \A at : Covers(<<>>, {}, at, MaxSkew)
    BY <2>1 DEF Covers
  <2>3. passed = <<>> /\ served = <<>>
    BY DEF Init
  <2>4. Recent(passed) = {} /\ Recent(served) = {}
    BY <2>3 DEF Recent
  <2>5. /\ \A k : RecentOf(k) = {}
        /\ \A k, a : RecentFrom(k, a) = {}
        /\ \A k, a, u : RecentFor(k, a, u) = {}
    BY <2>4 DEF RecentOf, RecentFrom, RecentFor
  <2>6. \A k \in Preauth : /\ byAll[k] = <<>>
                           /\ \A a \in Addr : byAddr[k][a] = <<>>
                           /\ \A a \in Addr, u \in User : byUser[k][<<a, u>>] = <<>>
    BY DEF Init
  <2> QED
    BY <2>2, <2>5, <2>6 DEF CoverInv, PassedCover, ServedCover
<1>6. WindowLimits
  BY DEF Init, WindowLimits
<1> QED
  BY <1>1, <1>2, <1>3, <1>4, <1>5, <1>6 DEF TcpInv

\* Every step keeps the front end's invariant.
LEMMA TcpStep ==
    ASSUME TcpInv, [Next]_vars
    PROVE  TcpInv'
<1> USE DEF TcpInv
<1>1. conn' \in [Conn -> ConnState] /\ ThreadsInv'
  BY ThreadsStep
<1>2. CapInv' /\ active' \in Nat
  BY CapStep
<1>3. LateInv' /\ late' \in [Conn \X Token -> Nat] /\ live' \subseteq live
  BY LateStep
<1>4. LimitsOk'
  BY LimitsStep
<1>5. CoverInv' /\ WindowLimits'
  BY CoverStep
<1>6. now' \in 0 .. MaxTime /\ frames' \in 0 .. MaxFrames /\ acceptor' \in {"accept", "checked"}
  <2>1. /\ now \in 0 .. MaxTime /\ frames \in 0 .. MaxFrames /\ acceptor \in {"accept", "checked"}
        /\ MaxTime \in Nat /\ MaxFrames \in Nat
    BY TcpServerAssumption DEF TypeOK
  <2>2. /\ now' = now \/ (now < MaxTime /\ now' = now + 1)
        /\ frames' = frames \/ (frames < MaxFrames /\ frames' = frames + 1)
        /\ acceptor' \in {acceptor, "accept", "checked"}
    BY NextCases DEF ThreadAction, Hangup, ReadFrame, EnforcePreAuthRateLimit, DecodeFails,
                     EnforcePreAuthUserRateLimit, PassBadUser, Authenticate, Act, AcceptCheck,
                     AcceptFails, AcceptStart, ReleaseSlot, DropToken, Tick, vars
  <2> QED
    BY <2>1, <2>2
<1>7. live' \subseteq Token
  BY <1>3 DEF TypeOK
<1>8. TypeOK'
  BY <1>1, <1>2, <1>3, <1>4, <1>6, <1>7, Zenon DEF TypeOK, LimitsOk
<1> QED
  BY <1>1, <1>2, <1>3, <1>5, <1>8

\* What holds between any two steps of the threads of the server.
THEOREM TcpInvHolds == Spec => []TcpInv
<1>1. Init => TcpInv
  BY TcpInit
<1>2. TcpInv /\ [Next]_vars => TcpInv'
  BY TcpStep
<1> QED
  BY <1>1, <1>2, PTL DEF Spec

\* Threads, counters and buckets always hold values of their kind, and
\* CheckAndRecord lets no bucket grow past its limit.
THEOREM TcpTypeCorrect == Spec => []TypeOK
<1>1. TcpInv => TypeOK
  BY DEF TcpInv
<1> QED
  BY <1>1, TcpInvHolds, PTL

\* For every cap and any number of connections: Run's check and increment of
\* active_connections_ are two steps, and still there are never more threads
\* than the cap, and as many slots taken as there are threads.
THEOREM CapAlwaysHolds == Spec => []CapHolds
<1>1. TcpInv => CapHolds
  BY DEF TcpInv, CapInv, CapHolds, Threads
<1> QED
  BY <1>1, TcpInvHolds, PTL

\* For every limit and window, and any number of threads that take the mutex
\* in another order than they read the clock: the pre-login limits per
\* address, per address and user, and of all requests hold in every window
\* shortened by the age of a clock reading.
THEOREM LimitsAlwaysHold == Spec => []WindowLimits
<1>1. TcpInv => WindowLimits
  BY DEF TcpInv
<1> QED
  BY <1>1, TcpInvHolds, PTL

\* A connection acts at most once on a token that was dropped after
\* AuthenticateSessionToken had accepted it.
THEOREM LateActsAreBounded == Spec => []LateAtMostOnce
<1>1. TcpInv => LateAtMostOnce
  <2> SUFFICES ASSUME LateInv, NEW c \in Conn, NEW token \in Token PROVE late[<<c, token>>] <= 1
    BY DEF TcpInv, LateAtMostOnce
  <2>1. late[<<c, token>>] = 0 \/ late[<<c, token>>] = 1
    BY DEF LateInv
  <2> QED
    BY <2>1
<1> QED
  BY <1>1, TcpInvHolds, PTL
====
