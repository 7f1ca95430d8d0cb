---- MODULE HandshakeProofs ----
(***************************************************************************)
(* Proofs about Handshake, for any set of users who know and call each     *)
(* other in any way, every pool size, every limit of replay guards,        *)
(* contacts and sessions, every page size and number of drain passes, and  *)
(* any number of calls and faults.                                         *)
(***************************************************************************)
EXTENDS Handshake, InboxProofs, FiniteSetTheorems, SequenceTheorems

----------------------------------------------------------------------------
\* The operations on a client.

\* Everything but the dirty flag and the pending acknowledgement is the same.
SameCore(c, b) ==
    /\ c.self = b.self /\ c.pool = b.pool /\ c.guards = b.guards
    /\ c.peers = b.peers /\ c.sessions = b.sessions /\ c.accepted = b.accepted

Limits(c) == Len(c.pool) <= PoolTarget /\ Len(c.guards) <= MaxGuards

\* The fields of a client.
LEMMA Fields ==
    ASSUME NEW c \in ClientState
    PROVE  /\ c.self \in Nat /\ c.pool \in Seq(Pair) /\ c.dirty \in BOOLEAN
           /\ c.guards \in Seq(HandshakeId) /\ c.sessions \in [Party -> SessionState]
           /\ c.peers \in [Party -> [identity : Nat, verified : BOOLEAN] \cup {None}]
           /\ c.pending \in Nat /\ c.accepted \in Seq(Initial)
BY DEF ClientState

\* The pending acknowledgement of a client changes.
LEMMA PendingTypes ==
    ASSUME NEW c \in ClientState, NEW n \in Nat
    PROVE  /\ [c EXCEPT !.pending = n] \in ClientState
           /\ SameCore([c EXCEPT !.pending = n], c)
           /\ [c EXCEPT !.pending = n].dirty = c.dirty /\ [c EXCEPT !.pending = n].pending = n
BY DEF ClientState, SameCore

\* Its pools are published.
LEMMA CleanTypes ==
    ASSUME NEW c \in ClientState
    PROVE  /\ [c EXCEPT !.dirty = FALSE] \in ClientState
           /\ SameCore([c EXCEPT !.dirty = FALSE], c)
           /\ ~[c EXCEPT !.dirty = FALSE].dirty
           /\ ~c.dirty => [c EXCEPT !.dirty = FALSE] = c
<1>1. PICK r : r = [c EXCEPT !.dirty = FALSE]
  OBVIOUS
<1>2. r \in ClientState /\ SameCore(r, c) /\ r.dirty = FALSE
  BY <1>1 DEF ClientState, SameCore
<1>3. ~c.dirty => r = c
  BY <1>1 DEF ClientState
<1> QED
  BY <1>1, <1>2, <1>3

\* RefillOneTimePrekeyPools puts fresh pairs behind the ones there are.
LEMMA Refilled ==
    ASSUME NEW p \in Party, NEW c \in ClientState, made[p] \in Nat, Len(c.pool) <= PoolTarget
    PROVE  /\ Refill(p, c) \in ClientState
           /\ Lacking(c) = PoolTarget - Len(c.pool) /\ Lacking(c) \in Nat
           /\ Len(Refill(p, c).pool) = PoolTarget
           /\ \A i \in DOMAIN c.pool : i \in DOMAIN Refill(p, c).pool /\ Refill(p, c).pool[i] = c.pool[i]
           /\ \A i \in DOMAIN Refill(p, c).pool : i \notin DOMAIN c.pool =>
                /\ i - Len(c.pool) \in 1 .. Lacking(c)
                /\ Refill(p, c).pool[i] = <<p, made[p] + (i - Len(c.pool))>>
           /\ Lacking(c) = 0 => Refill(p, c).pool = c.pool
           /\ Refill(p, c).dirty <=> c.dirty \/ Lacking(c) > 0
           /\ Refill(p, c).self = c.self /\ Refill(p, c).guards = c.guards
           /\ Refill(p, c).peers = c.peers /\ Refill(p, c).sessions = c.sessions
           /\ Refill(p, c).pending = c.pending /\ Refill(p, c).accepted = c.accepted
<1>1. c.pool \in Seq(Pair) /\ Len(c.pool) \in Nat /\ PoolTarget \in Nat /\ c.dirty \in BOOLEAN
  BY Fields, HandshakeAssumption
<1>2. Lacking(c) = PoolTarget - Len(c.pool) /\ Lacking(c) \in Nat
  <2>1. PICK k \in Nat : k = Len(c.pool) /\ k <= PoolTarget
    BY <1>1
  <2>2. Lacking(c) = IF k < PoolTarget THEN PoolTarget - k ELSE 0
    BY <2>1 DEF Lacking
  <2>3. PoolTarget - k \in Nat /\ (~(k < PoolTarget) => PoolTarget - k = 0)
    BY <1>1, <2>1
  <2> QED
    BY <2>1, <2>2, <2>3
<1>3. PICK n \in Nat : n = Lacking(c)
  BY <1>2
<1>4. PICK fresh : fresh = [i \in 1 .. n |-> <<p, made[p] + i>>]
  OBVIOUS
<1>5. \A i \in 1 .. n : fresh[i] \in Pair /\ fresh[i] = <<p, made[p] + i>>
  BY <1>4 DEF Pair
<1>6. fresh \in Seq(Pair) /\ Len(fresh) = n
  BY <1>3, <1>4, <1>5
<1>7. PICK pool : pool = c.pool \o fresh
  OBVIOUS
<1>8. /\ pool \in Seq(Pair) /\ Len(pool) = Len(c.pool) + n
      /\ \A i \in 1 .. Len(c.pool) : pool[i] = c.pool[i]
      /\ \A i \in 1 .. n : pool[Len(c.pool) + i] = fresh[i]
  <2>1. PICK s \in Seq(Pair) : s = c.pool
    BY <1>1
  <2>2. /\ pool \in Seq(Pair) /\ Len(pool) = Len(s) + Len(fresh)
        /\ \A i \in 1 .. Len(s) + Len(fresh) :
             pool[i] = IF i <= Len(s) THEN s[i] ELSE fresh[i - Len(s)]
    BY <1>6, <1>7, <2>1, ConcatProperties
  <2>3. Len(s) \in Nat
    OBVIOUS
  <2>4. \A i \in 1 .. Len(s) : pool[i] = s[i]
    BY <1>6, <2>2, <2>3
  <2>5. \A i \in 1 .. n : pool[Len(s) + i] = fresh[i]
    <3> SUFFICES ASSUME NEW i \in 1 .. n PROVE pool[Len(s) + i] = fresh[i]
      OBVIOUS
    <3>1. Len(s) + i \in 1 .. Len(s) + n /\ ~(Len(s) + i <= Len(s)) /\ Len(s) + i - Len(s) = i
      BY <2>3
    <3> QED
      BY <1>6, <2>2, <3>1
  <2> QED
    BY <1>6, <2>1, <2>2, <2>4, <2>5
<1>9. n = 0 => pool = c.pool
  <2> SUFFICES ASSUME n = 0 PROVE pool = c.pool
    OBVIOUS
  <2>1. \A i \in 1 .. Len(pool) : pool[i] = c.pool[i]
    BY <1>1, <1>8
  <2>2. Len(pool) = Len(c.pool)
    BY <1>1, <1>8
  <2> QED
    BY <1>1, <1>8, <2>1, <2>2, SeqEqual
<1>10. PICK dirty \in BOOLEAN : dirty = (c.dirty \/ n > 0)
  BY <1>1
<1>11. PICK r : r = [c EXCEPT !.pool = pool, !.dirty = dirty]
  OBVIOUS
<1>12. r = Refill(p, c)
  BY <1>3, <1>4, <1>7, <1>10, <1>11 DEF Refill
<1>13. /\ r \in ClientState /\ r.pool = pool /\ r.dirty = dirty /\ r.self = c.self
       /\ r.guards = c.guards /\ r.peers = c.peers /\ r.sessions = c.sessions
       /\ r.pending = c.pending /\ r.accepted = c.accepted
  BY <1>8, <1>11 DEF ClientState
<1>14. Len(pool) = PoolTarget
  BY <1>1, <1>2, <1>3, <1>8
<1>15. \A i \in DOMAIN c.pool : i \in DOMAIN pool /\ pool[i] = c.pool[i]
  BY <1>1, <1>8, SMTT(30)
<1>16. ASSUME NEW i \in DOMAIN pool, i \notin DOMAIN c.pool
       PROVE  i - Len(c.pool) \in 1 .. n /\ pool[i] = <<p, made[p] + (i - Len(c.pool))>>
  <2>1. PICK k \in 1 .. n : i = Len(c.pool) + k
    <3>1. i - Len(c.pool) \in 1 .. n
      BY <1>1, <1>8, <1>16
    <3>2. Len(c.pool) + (i - Len(c.pool)) = i
      BY <1>1, <1>8
    <3> QED
      BY <3>1, <3>2
  <2>2. pool[i] = fresh[k] /\ i - Len(c.pool) = k
    BY <1>1, <1>8, <2>1
  <2> QED
    BY <1>5, <2>2
<1>17. r.dirty <=> c.dirty \/ n > 0
  BY <1>1, <1>10, <1>13
<1> QED
  BY <1>2, <1>3, <1>9, <1>12, <1>13, <1>14, <1>15, <1>16, <1>17

\* VerifyOrRememberPeerIdentity at a first contact.
LEMMA Met ==
    ASSUME NEW c \in ClientState, NEW q \in Party, NEW n \in Nat
    PROVE  /\ Meet(c, q, n) \in ClientState
           /\ Meet(c, q, n).self = c.self /\ Meet(c, q, n).pool = c.pool
           /\ Meet(c, q, n).guards = c.guards /\ Meet(c, q, n).sessions = c.sessions
           /\ Meet(c, q, n).accepted = c.accepted /\ Meet(c, q, n).dirty = c.dirty
           /\ Meet(c, q, n).pending = c.pending
           /\ \A r \in Party : Meet(c, q, n).peers[r] \in {c.peers[r], Known(n, FALSE)}
           /\ c.peers[q] # None => Meet(c, q, n) = c
<1>1. PICK peer : peer = IF c.peers[q] = None THEN Known(n, FALSE) ELSE c.peers[q]
  OBVIOUS
<1>2. peer \in [identity : Nat, verified : BOOLEAN] \cup {None}
  BY <1>1, Fields DEF Known
<1>3. PICK peers : peers = [c.peers EXCEPT ![q] = peer]
  OBVIOUS
<1>4. /\ peers \in [Party -> [identity : Nat, verified : BOOLEAN] \cup {None}]
      /\ peers[q] = peer /\ \A r \in Party : r # q => peers[r] = c.peers[r]
  BY <1>2, <1>3, Fields
<1>5. PICK m : m = [c EXCEPT !.peers = peers]
  OBVIOUS
<1>6. Meet(c, q, n) = m
  BY <1>1, <1>3, <1>5 DEF Meet
<1>7. /\ m \in ClientState /\ m.self = c.self /\ m.pool = c.pool /\ m.guards = c.guards
      /\ m.sessions = c.sessions /\ m.accepted = c.accepted /\ m.dirty = c.dirty
      /\ m.pending = c.pending /\ m.peers = peers
  BY <1>4, <1>5 DEF ClientState
<1>8. \A r \in Party : m.peers[r] \in {c.peers[r], Known(n, FALSE)}
  BY <1>1, <1>4, <1>7
<1>9. ASSUME c.peers[q] # None PROVE m = c
  <2>1. peers = c.peers
    BY <1>1, <1>3, <1>9, Fields
  <2> QED
    BY <1>5, <2>1 DEF ClientState
<1> QED
  BY <1>6, <1>7, <1>8, <1>9

\* RememberInitialReplayGuards keeps the newest guards.
LEMMA Remembered ==
    ASSUME NEW guards \in Seq(HandshakeId), NEW h \in HandshakeId, Len(guards) <= MaxGuards
    PROVE  /\ Remember(guards, h) \in Seq(HandshakeId) /\ Len(Remember(guards, h)) <= MaxGuards
           /\ \A i \in DOMAIN Remember(guards, h) :
                Remember(guards, h)[i] = h \/ \E j \in DOMAIN guards : Remember(guards, h)[i] = guards[j]
<1>1. PICK all : all = Append(guards, h)
  OBVIOUS
<1>2. /\ all \in Seq(HandshakeId) /\ Len(all) = Len(guards) + 1 /\ all[Len(guards) + 1] = h
      /\ \A i \in 1 .. Len(guards) : all[i] = guards[i]
  BY <1>1, AppendProperties
<1>3. Len(guards) \in Nat /\ MaxGuards \in Nat
  BY HandshakeAssumption
<1>4. \A i \in 1 .. Len(all) : all[i] = h \/ \E j \in DOMAIN guards : all[i] = guards[j]
  BY <1>2, <1>3
<1>5. CASE Len(all) > MaxGuards
  <2>1. PICK rest : rest = Tail(all)
    OBVIOUS
  <2>2. all # <<>>
    BY <1>2, <1>3
  <2>3. /\ rest \in Seq(HandshakeId) /\ Len(rest) = Len(guards)
        /\ \A i \in 1 .. Len(rest) : rest[i] = all[i + 1] /\ i + 1 \in 1 .. Len(all)
    BY <1>2, <1>3, <2>1, <2>2
  <2>4. Remember(guards, h) = rest
    BY <1>1, <1>5, <2>1 DEF Remember
  <2>5. \A i \in 1 .. Len(rest) : rest[i] = h \/ \E j \in DOMAIN guards : rest[i] = guards[j]
    BY <1>4, <2>3
  <2> QED
    BY <2>3, <2>4, <2>5
<1>6. CASE ~(Len(all) > MaxGuards)
  <2>1. Remember(guards, h) = all
    BY <1>1, <1>6 DEF Remember
  <2>2. Len(all) <= MaxGuards
    BY <1>2, <1>3, <1>6
  <2> QED
    BY <1>2, <1>4, <2>1, <2>2
<1> QED
  BY <1>5, <1>6

\* A session takes the place of the former one.
LEMMA Established ==
    ASSUME NEW c \in ClientState, Limits(c), NEW q \in Party, NEW n \in Nat, NEW m \in Initial
    PROVE  /\ WithSession(c, q, n, m) \in ClientState
           /\ WithSession(c, q, n, m).self = c.self /\ WithSession(c, q, n, m).pool = c.pool
           /\ WithSession(c, q, n, m).peers = c.peers /\ WithSession(c, q, n, m).dirty = c.dirty
           /\ WithSession(c, q, n, m).accepted = c.accepted
           /\ WithSession(c, q, n, m).pending = c.pending
           /\ Len(WithSession(c, q, n, m).guards) <= MaxGuards
           /\ \A i \in DOMAIN WithSession(c, q, n, m).guards :
                \/ WithSession(c, q, n, m).guards[i] = m.id
                \/ \E j \in DOMAIN c.guards : WithSession(c, q, n, m).guards[i] = c.guards[j]
           /\ WithSession(c, q, n, m).sessions[q] = [id |-> m.id, with |-> n]
           /\ \A r \in Party : r # q => WithSession(c, q, n, m).sessions[r] = c.sessions[r]
<1>1. m.id \in HandshakeId /\ c.guards \in Seq(HandshakeId) /\ Len(c.guards) <= MaxGuards
  BY Fields DEF Initial, Limits
<1>2. PICK guards : guards = Remember(c.guards, m.id)
  OBVIOUS
<1>3. /\ guards \in Seq(HandshakeId) /\ Len(guards) <= MaxGuards
      /\ \A i \in DOMAIN guards : guards[i] = m.id \/ \E j \in DOMAIN c.guards : guards[i] = c.guards[j]
  BY <1>1, <1>2, Remembered
<1>4. PICK s : s = [id |-> m.id, with |-> n]
  OBVIOUS
<1>5. s \in SessionState
  BY <1>1, <1>4 DEF SessionState
<1>6. PICK sessions : sessions = [c.sessions EXCEPT ![q] = s]
  OBVIOUS
<1>7. /\ sessions \in [Party -> SessionState] /\ sessions[q] = s
      /\ \A r \in Party : r # q => sessions[r] = c.sessions[r]
  BY <1>5, <1>6, Fields
<1>8. PICK r : r = [c EXCEPT !.guards = guards, !.sessions = sessions]
  OBVIOUS
<1>9. WithSession(c, q, n, m) = r
  BY <1>2, <1>4, <1>6, <1>8 DEF WithSession
<1>10. /\ r \in ClientState /\ r.self = c.self /\ r.pool = c.pool /\ r.peers = c.peers
       /\ r.dirty = c.dirty /\ r.accepted = c.accepted /\ r.pending = c.pending
       /\ r.guards = guards /\ r.sessions = sessions
  BY <1>3, <1>7, <1>8 DEF ClientState
<1> QED
  BY <1>3, <1>4, <1>7, <1>9, <1>10

\* A session that is put in place leaves a client within its limits.
LEMMA EstablishedLimits ==
    ASSUME NEW c \in ClientState, Limits(c), NEW q \in Party, NEW n \in Nat, NEW m \in Initial
    PROVE  WithSession(c, q, n, m) \in ClientState /\ Limits(WithSession(c, q, n, m))
<1>1. PICK r : r = WithSession(c, q, n, m)
  OBVIOUS
<1>2. r \in ClientState /\ r.pool = c.pool /\ Len(r.guards) <= MaxGuards
  BY <1>1, Established, ZenonT(30)
<1> QED
  BY <1>1, <1>2 DEF Limits

\* A pair is taken out of a pool that has it once.
LEMMA Erased ==
    ASSUME NEW pool \in Seq(Pair), NEW x \in Pair, NEW at \in DOMAIN pool, pool[at] = x,
           \A i, j \in DOMAIN pool : pool[i] = pool[j] => i = j
    PROVE  /\ Erase(pool, x) \in Seq(Pair) /\ Len(Erase(pool, x)) = Len(pool) - 1
           /\ \A i, j \in DOMAIN Erase(pool, x) : Erase(pool, x)[i] = Erase(pool, x)[j] => i = j
           /\ Elements(Erase(pool, x)) = Elements(pool) \ {x}
<1>1. at = CHOOSE i \in DOMAIN pool : pool[i] = x
  <2>1. PICK k \in DOMAIN pool : k = (CHOOSE i \in DOMAIN pool : pool[i] = x) /\ pool[k] = x
    OBVIOUS
  <2> QED
    BY <2>1
<1>2. PICK s : s = [k \in 1 .. Len(pool) - 1 |-> IF k < at THEN pool[k] ELSE pool[k + 1]]
  OBVIOUS
<1>3. Erase(pool, x) = s
  BY <1>1, <1>2 DEF Erase
<1>4. at \in 1 .. Len(pool) /\ Len(pool) \in Nat /\ DOMAIN pool = 1 .. Len(pool)
  OBVIOUS
<1>5. \A k \in 1 .. Len(pool) - 1 : s[k] = (IF k < at THEN pool[k] ELSE pool[k + 1]) /\ s[k] \in Pair
  BY <1>2, <1>4
<1>6. PICK n \in Nat : n = Len(pool) - 1
  <2>1. Len(pool) - 1 \in Nat
    BY <1>4
  <2> QED
    BY <2>1
<1>7. s \in Seq(Pair) /\ Len(s) = n /\ DOMAIN s = 1 .. n
  BY <1>2, <1>5, <1>6
<1> DEFINE from(k) == IF k < at THEN k ELSE k + 1
<1>8. \A k \in 1 .. n : from(k) \in DOMAIN pool /\ from(k) # at /\ s[k] = pool[from(k)]
  BY <1>4, <1>5, <1>6
<1>9. \A i, j \in 1 .. n : from(i) = from(j) => i = j
  BY <1>4
<1>10. \A i \in DOMAIN pool : i # at => \E k \in 1 .. n : from(k) = i
  <2> SUFFICES ASSUME NEW i \in DOMAIN pool, i # at PROVE \E k \in 1 .. n : from(k) = i
    OBVIOUS
  <2>1. CASE i < at
    <3>1. i \in 1 .. n /\ from(i) = i
      BY <1>4, <1>6, <2>1
    <3> QED
      BY <3>1
  <2>2. CASE i > at
    <3>1. i - 1 \in 1 .. n /\ from(i - 1) = i
      BY <1>4, <1>6, <2>2
    <3> QED
      BY <3>1
  <2> QED
    BY <1>4, <2>1, <2>2
<1> HIDE DEF from
<1>11. \A i, j \in DOMAIN s : s[i] = s[j] => i = j
  BY <1>7, <1>8, <1>9
<1>12. Elements(s) = Elements(pool) \ {x}
  <2>1. ASSUME NEW y \in Elements(s) PROVE y \in Elements(pool) /\ y # x
    BY <1>7, <1>8 DEF Elements
  <2>2. ASSUME NEW y \in Elements(pool), y # x PROVE y \in Elements(s)
    <3>1. PICK i \in DOMAIN pool : y = pool[i]
      BY DEF Elements
    <3>2. PICK k \in 1 .. n : from(k) = i
      BY <1>10, <2>2, <3>1
    <3> QED
      BY <1>7, <1>8, <3>1, <3>2 DEF Elements
  <2> QED
    BY <2>1, <2>2
<1> QED
  BY <1>3, <1>6, <1>7, <1>11, <1>12

\* HandleInitialMessage accepts: the pair goes, the session comes.
LEMMA Accepted ==
    ASSUME NEW c \in ClientState, Limits(c), NEW m \in Initial, HasPair(c, m.pair),
           \A i, j \in DOMAIN c.pool : c.pool[i] = c.pool[j] => i = j
    PROVE  /\ Accept(c, m) \in ClientState /\ Limits(Accept(c, m))
           /\ Accept(c, m).self = c.self /\ Accept(c, m).peers = c.peers
           /\ Accept(c, m).dirty = TRUE
           /\ Accept(c, m).pending = c.pending
           /\ Accept(c, m).accepted = Append(c.accepted, m)
           /\ Len(Accept(c, m).pool) = Len(c.pool) - 1
           /\ \A i, j \in DOMAIN Accept(c, m).pool : Accept(c, m).pool[i] = Accept(c, m).pool[j] => i = j
           /\ Elements(Accept(c, m).pool) = Elements(c.pool) \ {m.pair}
           /\ \A i \in DOMAIN Accept(c, m).guards :
                \/ Accept(c, m).guards[i] = m.id
                \/ \E j \in DOMAIN c.guards : Accept(c, m).guards[i] = c.guards[j]
           /\ Accept(c, m).sessions[m.from] = [id |-> m.id, with |-> m.identity]
           /\ \A r \in Party : r # m.from => Accept(c, m).sessions[r] = c.sessions[r]
<1>1. m.from \in Party /\ m.identity \in Nat /\ m.pair \in Pair /\ m.id \in HandshakeId
  BY DEF Initial
<1>2. PICK s : s = WithSession(c, m.from, m.identity, m)
  OBVIOUS
<1>3. /\ s \in ClientState /\ s.self = c.self /\ s.pool = c.pool /\ s.peers = c.peers
      /\ s.accepted = c.accepted /\ s.pending = c.pending /\ Len(s.guards) <= MaxGuards
      /\ \A i \in DOMAIN s.guards : s.guards[i] = m.id \/ \E j \in DOMAIN c.guards : s.guards[i] = c.guards[j]
      /\ s.sessions[m.from] = [id |-> m.id, with |-> m.identity]
      /\ \A r \in Party : r # m.from => s.sessions[r] = c.sessions[r]
  BY <1>1, <1>2, Established
<1>4. PICK pool : pool = Erase(c.pool, m.pair)
  OBVIOUS
<1>5. /\ pool \in Seq(Pair) /\ Len(pool) = Len(c.pool) - 1
      /\ \A i, j \in DOMAIN pool : pool[i] = pool[j] => i = j
      /\ Elements(pool) = Elements(c.pool) \ {m.pair}
  <2>1. PICK at \in DOMAIN c.pool : c.pool[at] = m.pair
    BY DEF HasPair
  <2>2. c.pool \in Seq(Pair)
    BY Fields
  <2> QED
    BY <1>1, <1>4, <2>1, <2>2, Erased
<1>6. PICK accepted : accepted = Append(c.accepted, m)
  OBVIOUS
<1>7. accepted \in Seq(Initial)
  BY <1>6, Fields, AppendProperties
<1>8. PICK r : r = [s EXCEPT !.pool = pool, !.dirty = TRUE, !.accepted = accepted]
  OBVIOUS
<1>9. Accept(c, m) = r
  BY <1>2, <1>3, <1>4, <1>6, <1>8 DEF Accept
<1>10. /\ r \in ClientState /\ r.self = s.self /\ r.peers = s.peers /\ r.dirty = TRUE
       /\ r.pending = s.pending /\ r.accepted = accepted /\ r.pool = pool /\ r.guards = s.guards
       /\ r.sessions = s.sessions
  BY <1>3, <1>5, <1>7, <1>8 DEF ClientState
<1>11. Limits(r)
  <2>1. Len(c.pool) \in Nat /\ Len(c.pool) <= PoolTarget /\ PoolTarget \in Nat
    BY Fields, HandshakeAssumption DEF Limits
  <2> QED
    BY <1>3, <1>5, <1>10, <2>1 DEF Limits
<1> QED
  BY <1>3, <1>5, <1>6, <1>9, <1>10, <1>11

\* Create without a state file.
LEMMA Fresh ==
    ASSUME NEW p \in Party, NEW k \in Nat, NEW n \in Nat
    PROVE  /\ FreshPool(p, n) \in Seq(Pair) /\ Len(FreshPool(p, n)) = PoolTarget
           /\ DOMAIN FreshPool(p, n) = 1 .. PoolTarget
           /\ \A i \in 1 .. PoolTarget : FreshPool(p, n)[i] = <<p, n + i>>
           /\ NewClient(k, FreshPool(p, n)) \in ClientState
           /\ Limits(NewClient(k, FreshPool(p, n)))
<1>1. PICK pool : pool = FreshPool(p, n)
  OBVIOUS
<1>2. PoolTarget \in Nat /\ MaxGuards \in Nat
  BY HandshakeAssumption
<1>3. pool = [i \in 1 .. PoolTarget |-> <<p, n + i>>]
  BY <1>1 DEF FreshPool
<1>4. \A i \in 1 .. PoolTarget : pool[i] = <<p, n + i>> /\ pool[i] \in Pair
  BY <1>2, <1>3 DEF Pair
<1>5. pool \in Seq(Pair) /\ Len(pool) = PoolTarget /\ DOMAIN pool = 1 .. PoolTarget
  <2>1. PICK t \in Nat : t = PoolTarget
    BY <1>2
  <2>2. pool = [i \in 1 .. t |-> <<p, n + i>>] /\ \A i \in 1 .. t : pool[i] \in Pair
    BY <1>3, <1>4, <2>1
  <2>3. DOMAIN pool = 1 .. t
    BY <2>2
  <2>4. pool \in [1 .. t -> Pair]
    BY <2>2
  <2>5. pool \in Seq(Pair) /\ Len(pool) = t
    BY <2>3, <2>4
  <2> QED
    BY <2>1, <2>3, <2>5
<1>6. <<>> \in Seq(HandshakeId) /\ <<>> \in Seq(Initial) /\ Len(<<>>) = 0
  OBVIOUS
<1>7. /\ [q \in Party |-> None] \in [Party -> [identity : Nat, verified : BOOLEAN] \cup {None}]
      /\ [q \in Party |-> None] \in [Party -> SessionState]
  BY DEF SessionState
<1>8. PICK guards \in Seq(HandshakeId), accepted \in Seq(Initial) : guards = <<>> /\ accepted = <<>>
  BY <1>6
<1>9. PICK r : r = NewClient(k, pool)
  OBVIOUS
<1>10. r \in ClientState /\ r.pool = pool /\ r.guards = <<>>
  BY <1>5, <1>7, <1>8, <1>9 DEF NewClient, ClientState
<1> QED
  BY <1>1, <1>2, <1>4, <1>5, <1>6, <1>9, <1>10 DEF Limits

\* What OpenOrCreate makes when there is no state file: a full pool, the
\* contacts it was given, and nothing else.
LEMMA CreatedTypes ==
    ASSUME NEW p \in Party
    PROVE  /\ Created(p) \in ClientState /\ Limits(Created(p))
           /\ Created(p).pool = FreshPool(p, 0) /\ Created(p).self = 1 /\ ~Created(p).dirty
           /\ Created(p).guards = <<>> /\ Created(p).accepted = <<>>
           /\ \A q \in Party : /\ Created(p).sessions[q] = None
                               /\ Created(p).peers[q] =
                                    IF <<p, q>> \in Contacts THEN Known(1, TRUE) ELSE None
<1>1. PICK new : new = NewClient(1, FreshPool(p, 0))
  OBVIOUS
<1>2. /\ new \in ClientState /\ Limits(new) /\ new.self = 1 /\ new.pool = FreshPool(p, 0)
      /\ new.guards = <<>> /\ new.accepted = <<>> /\ new.sessions = [q \in Party |-> None]
  BY <1>1, Fresh DEF NewClient
<1>3. PICK peers : peers = [q \in Party |-> IF <<p, q>> \in Contacts THEN Known(1, TRUE) ELSE None]
  OBVIOUS
<1>4. /\ peers \in [Party -> [identity : Nat, verified : BOOLEAN] \cup {None}]
      /\ \A q \in Party : peers[q] = IF <<p, q>> \in Contacts THEN Known(1, TRUE) ELSE None
  BY <1>3 DEF Known
<1>5. PICK r : r = [new EXCEPT !.dirty = FALSE, !.peers = peers]
  OBVIOUS
<1>6. Created(p) = r
  BY <1>1, <1>3, <1>5 DEF Created
<1>7. /\ r \in ClientState /\ r.pool = new.pool /\ r.self = new.self /\ r.dirty = FALSE
      /\ r.guards = new.guards /\ r.accepted = new.accepted /\ r.sessions = new.sessions
      /\ r.peers = peers
  BY <1>2, <1>4, <1>5 DEF ClientState
<1> QED
  BY <1>2, <1>4, <1>6, <1>7 DEF Limits

----------------------------------------------------------------------------
\* The mailbox and the loop of ProcessInbox: what they do to the entries.

\* DrainInbox and its page only have entries of the mailbox.
LEMMA PartOfBox ==
    ASSUME NEW E, NEW box \in Seq(E), NEW ack
    PROVE  /\ DropAcked(box, ack) \in Seq(E)
           /\ Entries(DropAcked(box, ack)) \subseteq Entries(box)
<1> DEFINE kept == {i \in DOMAIN box : box[i].id > ack}
           left == DropAcked(box, ack)
<1>1. CASE kept = {}
  <2>1. left = <<>>
    BY <1>1 DEF DropAcked, BoxFrom
  <2> QED
    BY <2>1, EmptyBox
<1>2. CASE kept # {}
  <2>1. kept \in SUBSET Nat
    OBVIOUS
  <2>2. PICK first \in kept : first = CHOOSE i \in kept : \A j \in kept : i <= j
    BY <1>2, <2>1, FirstPosition
  <2>3. left = SubSeq(box, first, Len(box))
    BY <1>2, <2>2, Zenon DEF DropAcked, BoxFrom
  <2>4. first \in 1 .. Len(box) /\ Len(box) \in Nat
    OBVIOUS
  <2> HIDE DEF left
  <2>5. /\ left \in Seq(E) /\ Len(left) = Len(box) - first + 1
        /\ \A i \in 1 .. Len(left) : left[i] = box[first + i - 1] /\ first + i - 1 \in DOMAIN box
    BY <2>3, <2>4
  <2>6. Entries(left) \subseteq Entries(box)
    BY <2>5 DEF Entries
  <2> QED
    BY <2>5, <2>6 DEF left
<1> QED
  BY <1>1, <1>2

\* A page that DrainInbox returns holds entries of the mailbox.
LEMMA PartOfPage ==
    ASSUME NEW E, NEW box \in Seq(E), NEW n \in PageLengths(box)
    PROVE  PageOf(box, n) \in Seq(E) /\ Entries(PageOf(box, n)) \subseteq Entries(box)
<1>1. n \in 0 .. Len(box)
  BY PageMaxAssumption DEF PageLengths
<1>2. PICK page : page = PageOf(box, n)
  OBVIOUS
<1>3. page \in Seq(E) /\ Len(page) = n /\ \A i \in 1 .. n : page[i] = box[i] /\ i \in DOMAIN box
  BY <1>1, <1>2 DEF PageOf
<1>4. Entries(page) \subseteq Entries(box)
  BY <1>3 DEF Entries
<1> QED
  BY <1>2, <1>3, <1>4

\* EnqueueEnvelope adds one entry.
LEMMA OneMore ==
    ASSUME NEW E, NEW box \in Seq(E), NEW id, NEW env, [id |-> id, env |-> env] \in E
    PROVE  /\ EnqueueEnvelope(box, id, env) \in Seq(E)
           /\ Entries(EnqueueEnvelope(box, id, env)) = Entries(box) \cup {[id |-> id, env |-> env]}
<1>1. PICK e \in E : e = [id |-> id, env |-> env]
  OBVIOUS
<1>2. PICK new : new = Append(box, e)
  OBVIOUS
<1>3. /\ new \in Seq(E) /\ Len(new) = Len(box) + 1 /\ new[Len(box) + 1] = e
      /\ \A i \in 1 .. Len(box) : new[i] = box[i]
  BY <1>2, AppendProperties
<1>4. DOMAIN new = DOMAIN box \cup {Len(box) + 1}
  BY <1>3
<1>5. Entries(new) = Entries(box) \cup {e}
  BY <1>3, <1>4 DEF Entries
<1> QED
  BY <1>1, <1>2, <1>3, <1>5 DEF EnqueueEnvelope

\* A call in progress has passes left, and something in its page.
Going(call) ==
    /\ call.pc = "handle" => call.page # <<>>
    /\ call.pc \in {"drain", "handle"} => call.pass < MaxPasses
    /\ call.pc = "idle" => call.out = <<>>

\* A client outside ProcessInbox.
LEMMA IdleGoing ==
    ASSUME NEW E
    PROVE  /\ Idle \in PollState(E) /\ Going(Idle) /\ Idle.page = <<>> /\ Idle.out = <<>>
           /\ Idle.pc = "idle" /\ Idle.err = FALSE
<1>1. 0 \in 0 .. MaxPasses
  BY MaxPassesAssumption
<1> QED
  BY <1>1 DEF Idle, PollState, Going

\* ProcessInbox begins with a drain.
LEMMA StartGoing ==
    ASSUME NEW E, NEW pending \in Nat
    PROVE  /\ StartPoll(pending) \in PollState(E) /\ Going(StartPoll(pending))
           /\ StartPoll(pending).page = <<>> /\ StartPoll(pending).out = <<>>
           /\ StartPoll(pending).pc = "drain"
<1>1. Idle \in PollState(E) /\ Idle.page = <<>> /\ Idle.out = <<>> /\ Idle.pass = 0
  BY IdleGoing DEF Idle
<1>2. PICK r : r = [Idle EXCEPT !.pc = "drain", !.ack = pending]
  OBVIOUS
<1>3. r \in PollState(E) /\ r.page = <<>> /\ r.out = <<>> /\ r.pass = 0 /\ r.pc = "drain"
  BY <1>1, <1>2 DEF PollState
<1>4. Going(r)
  BY <1>3, MaxPassesAssumption DEF Going
<1> QED
  BY <1>2, <1>3, <1>4 DEF StartPoll

\* A served drain leaves a page to handle, or ends the call.
LEMMA ServedGoing ==
    ASSUME NEW E, NEW call \in PollState(E), call.pc = "drain", Going(call), NEW page \in Seq(E)
    PROVE  /\ Served(call, page) \in PollState(E) /\ Going(Served(call, page))
           /\ Served(call, page).page = page /\ Served(call, page).out = call.out
           /\ Served(call, page).pc \in {"handle", "end"}
<1>1. PICK pc : pc = IF page = <<>> THEN "end" ELSE "handle"
  OBVIOUS
<1>2. PICK r : r = [call EXCEPT !.ack = 0, !.done = 0, !.page = page, !.pc = pc]
  OBVIOUS
<1>3. pc \in {"handle", "end"} /\ call.pass < MaxPasses
  BY <1>1 DEF Going
<1>4. r \in PollState(E) /\ r.page = page /\ r.out = call.out /\ r.pc = pc /\ r.pass = call.pass
  BY <1>2, <1>3 DEF PollState
<1>5. Going(r)
  BY <1>1, <1>3, <1>4 DEF Going
<1> QED
  BY <1>1, <1>2, <1>3, <1>4, <1>5 DEF Served

\* A failed drain ends the call: with the messages it has, or with the error.
LEMMA NotServedGoing ==
    ASSUME NEW E, NEW call \in PollState(E), call.pc = "drain", Going(call)
    PROVE  /\ NotServed(call) \in PollState(E) /\ Going(NotServed(call))
           /\ NotServed(call).page \in {<<>>, call.page} /\ NotServed(call).out = call.out
           /\ NotServed(call).pc = IF call.out = <<>> THEN "idle" ELSE "end"
<1>1. CASE call.out = <<>>
  BY <1>1, IdleGoing DEF NotServed
<1>2. CASE call.out # <<>>
  <2>1. PICK r : r = [call EXCEPT !.pc = "end", !.err = TRUE]
    OBVIOUS
  <2>2. r \in PollState(E) /\ r.page = call.page /\ r.out = call.out /\ r.pc = "end"
    BY <2>1 DEF PollState
  <2>3. Going(r)
    BY <2>2 DEF Going
  <2> QED
    BY <1>2, <2>1, <2>2, <2>3 DEF NotServed
<1> QED
  BY <1>1, <1>2

\* The end of a page.
LEMMA EndGoing ==
    ASSUME NEW E, NEW call \in PollState(E), call.pass < MaxPasses, NEW done \in Nat,
           NEW err \in BOOLEAN, NEW pending
    PROVE  /\ EndPage(call, done, err) \in PollState(E) /\ Going(EndPage(call, done, err))
           /\ EndPage(call, done, err).page = <<>> /\ EndPage(call, done, err).out = call.out
           /\ EndPage(call, done, err).pc \in {"drain", "end"}
           /\ PendingAfter(EndPage(call, done, err), pending) \in Nat
<1>1. PICK r : r = EndPage(call, done, err)
  OBVIOUS
<1>2. /\ r \in PollState(E) /\ r.page = <<>> /\ r.ack = done /\ r.out = call.out
      /\ r.pc \in {"drain", "end"} /\ (r.pc = "drain" => r.pass < MaxPasses)
  BY <1>1, EndedPage
<1>3. Going(r)
  BY <1>2 DEF Going
<1>4. PendingAfter(r, pending) \in Nat
  BY <1>2 DEF PendingAfter
<1> QED
  BY <1>1, <1>2, <1>3, <1>4

\* A handled envelope leaves the page, and its output is kept for the caller.
LEMMA HandledGoing ==
    ASSUME NEW E, HasIds(E), NEW call \in PollState(E), call.pc = "handle", Going(call),
           NEW pending \in Nat
    PROVE  /\ Head(call.page) \in Entries(call.page) /\ Head(call.page) \in E
           /\ Handled(call) \in PollState(E) /\ Going(Handled(call))
           /\ Entries(Handled(call).page) \subseteq Entries(call.page)
           /\ Handled(call).out # <<>>
           /\ Handled(call).pc \in {"handle", "drain", "end"}
           /\ PendingAfter(Handled(call), pending) \in Nat
<1>1. PICK page \in Seq(E) : page = call.page /\ page # <<>>
  BY DEF PollState, Going
<1>2. /\ Head(page) \in Entries(page) /\ Head(page) \in E
      /\ Tail(page) \in Seq(E) /\ Entries(Tail(page)) \subseteq Entries(page)
  <2>1. Head(page) = page[1] /\ 1 \in DOMAIN page /\ page[1] \in E
    BY <1>1
  <2>2. /\ Tail(page) \in Seq(E) /\ Len(Tail(page)) = Len(page) - 1
        /\ \A i \in 1 .. Len(Tail(page)) : Tail(page)[i] = page[i + 1] /\ i + 1 \in DOMAIN page
    BY <1>1
  <2> QED
    BY <2>1, <2>2 DEF Entries
<1>3. PICK id \in Nat : id = Head(page).id
  BY <1>2 DEF HasIds
<1>4. PICK rest \in Seq(E) : rest = Tail(page)
  BY <1>2
<1>5. PICK out : out = Append(call.out, id)
  OBVIOUS
<1>6. out \in Seq(Nat) /\ out # <<>>
  <2>1. call.out \in Seq(Nat)
    BY DEF PollState
  <2>2. out \in Seq(Nat) /\ Len(out) = Len(call.out) + 1 /\ Len(call.out) \in Nat
    BY <1>5, <2>1, AppendProperties
  <2> QED
    BY <2>2
<1>7. PICK r : r = [call EXCEPT !.page = rest, !.out = out, !.done = id]
  OBVIOUS
<1>8. /\ r \in PollState(E) /\ r.page = rest /\ r.out = out /\ r.pc = "handle" /\ r.pass = call.pass
      /\ call.pass < MaxPasses
  BY <1>6, <1>7 DEF PollState, Going
<1>9. Handled(call) = IF rest = <<>> THEN EndPage(r, id, FALSE) ELSE r
  BY <1>1, <1>3, <1>4, <1>5, <1>7, <1>8 DEF Handled
<1>10. CASE rest = <<>>
  <2>1. PICK err \in BOOLEAN : err = FALSE
    OBVIOUS
  <2>2. Handled(call) = EndPage(r, id, err)
    BY <1>9, <1>10, <2>1
  <2>3. PICK after : after = Handled(call)
    OBVIOUS
  <2>4. /\ after \in PollState(E) /\ Going(after) /\ after.page = <<>> /\ after.out = out
        /\ after.pc \in {"drain", "end"} /\ PendingAfter(after, pending) \in Nat
    BY <1>8, <2>2, <2>3, EndGoing
  <2>5. Entries(after.page) = {}
    BY <2>4, EmptyBox
  <2> QED
    BY <1>1, <1>2, <1>6, <2>3, <2>4, <2>5
<1>11. CASE rest # <<>>
  <2>1. Handled(call) = r
    BY <1>9, <1>11
  <2>2. Going(r) /\ PendingAfter(r, pending) = pending
    BY <1>8, <1>11 DEF Going, PendingAfter
  <2> QED
    BY <1>1, <1>2, <1>4, <1>6, <1>8, <2>1, <2>2
<1> QED
  BY <1>10, <1>11

\* An envelope that is refused for good ends the page: the rest is drained again.
LEMMA RefusedGoing ==
    ASSUME NEW E, HasIds(E), NEW call \in PollState(E), call.pc = "handle", Going(call),
           NEW pending \in Nat
    PROVE  /\ Head(call.page) \in Entries(call.page) /\ Head(call.page) \in E
           /\ Refused(call) \in PollState(E) /\ Going(Refused(call))
           /\ Refused(call).page = <<>> /\ Refused(call).out = call.out
           /\ Refused(call).pc \in {"drain", "end"}
           /\ PendingAfter(Refused(call), pending) \in Nat
<1>1. PICK page \in Seq(E) : page = call.page /\ page # <<>>
  BY DEF PollState, Going
<1>2. Head(page) \in Entries(page) /\ Head(page) \in E
  <2>1. Head(page) = page[1] /\ 1 \in DOMAIN page /\ page[1] \in E
    BY <1>1
  <2> QED
    BY <2>1 DEF Entries
<1>3. call.done \in Nat /\ call.pass < MaxPasses
  BY DEF PollState, Going
<1>4. PICK err \in BOOLEAN : err = TRUE
  OBVIOUS
<1>5. PICK after : after = EndPage(call, call.done, err)
  OBVIOUS
<1>6. /\ after \in PollState(E) /\ Going(after) /\ after.page = <<>> /\ after.out = call.out
      /\ after.pc \in {"drain", "end"} /\ PendingAfter(after, pending) \in Nat
  BY <1>3, <1>5, EndGoing
<1>7. Refused(call) = after
  BY <1>4, <1>5 DEF Refused
<1> QED
  BY <1>1, <1>2, <1>6, <1>7

----------------------------------------------------------------------------
\* The type invariant, with what it takes to be inductive.

ClientTypes ==
    /\ mem \in [Party -> ClientState] /\ disk \in [Party -> ClientState]
    /\ \A p \in Party : Limits(mem[p]) /\ Limits(disk[p])

\* What is in a mailbox, or in the page of a call, was posted to the user.
StoreTypes ==
    /\ bundle \in [Party -> [identity : Nat, pairs : Seq(Pair)]]
    /\ inbox \in [Party -> Seq(Entry)]
    /\ nextId \in [Party -> Nat \ {0}]
    /\ posted \in [Party -> SUBSET Initial]
    /\ \A p \in Party : \A e \in Entries(inbox[p]) \cup Entries(poll[p].page) : e.env \in posted[p]

\* An InitiateSession call in progress has a peer, and was counted.
TaskTypes ==
    /\ task \in [Party -> Task]
    /\ inits \in [Party -> Nat]
    /\ \A p \in Party : task[p].op = "acquired" => task[p].peer \in Party \ {p} /\ inits[p] > 0

PollTypes == poll \in [Party -> PollState(Entry)] /\ \A p \in Party : Going(poll[p])

HistoryTypes ==
    /\ made \in [Party -> Nat]
    /\ faults \in 0 .. MaxFaults
    /\ handed \in [Party -> Seq(Pair)]
    /\ missing \subseteq Pair
    /\ compared \in [Party \X Party -> SUBSET Nat]
    /\ cause \subseteq Reasons

TypeInv == ClientTypes /\ StoreTypes /\ TaskTypes /\ PollTypes /\ HistoryTypes

\* The inductive type invariant gives the one the run checks.
LEMMA TypeInvSuffices == TypeInv => TypeOK
BY DEF TypeInv, TypeOK, ClientTypes, StoreTypes, TaskTypes, PollTypes, HistoryTypes, Limits

\* The types of what one user has.
LEMMA UserTypes ==
    ASSUME TypeInv, NEW p \in Party
    PROVE  /\ mem[p] \in ClientState /\ disk[p] \in ClientState /\ Limits(mem[p]) /\ Limits(disk[p])
           /\ inbox[p] \in Seq(Entry) /\ nextId[p] \in Nat \ {0} /\ posted[p] \subseteq Initial
           /\ poll[p] \in PollState(Entry) /\ Going(poll[p]) /\ task[p] \in Task
           /\ inits[p] \in Nat /\ made[p] \in Nat
           /\ bundle[p].identity \in Nat /\ bundle[p].pairs \in Seq(Pair) /\ handed[p] \in Seq(Pair)
BY DEF TypeInv, ClientTypes, StoreTypes, TaskTypes, PollTypes, HistoryTypes

\* The entries of a mailbox have numbers.
LEMMA EntryIds == HasIds(Entry)
BY DEF HasIds, Entry

\* A step leaves client c of p in memory and d in its state file.
Leaves(p, c, d) == mem' = [mem EXCEPT ![p] = c] /\ disk' = [disk EXCEPT ![p] = d]

\* A step of one client that leaves it well formed leaves every client so.
LEMMA LeavesTypes ==
    ASSUME ClientTypes, NEW p \in Party, NEW c \in ClientState, NEW d \in ClientState,
           Limits(c), Limits(d), Leaves(p, c, d)
    PROVE  ClientTypes'
<1>1. mem' \in [Party -> ClientState] /\ disk' \in [Party -> ClientState]
  BY DEF ClientTypes, Leaves
<1>2. ASSUME NEW q \in Party PROVE Limits(mem'[q]) /\ Limits(disk'[q])
  <2>1. CASE q = p
    BY <2>1 DEF ClientTypes, Leaves
  <2>2. CASE q # p
    BY <2>2 DEF ClientTypes, Leaves
  <2> QED
    BY <2>1, <2>2
<1>3. \A q \in Party : Limits(mem'[q]) /\ Limits(disk'[q])
  BY <1>2
<1>4. \A q \in Party : Limits(mem[q])' /\ Limits(disk[q])'
  BY <1>3 DEF Limits
<1> QED
  BY <1>1, <1>4 DEF ClientTypes

\* A function of the users changes at one of them, or not at all.
LEMMA Unchanged ==
    ASSUME NEW S, NEW f \in [Party -> S], NEW p \in Party
    PROVE  f = [f EXCEPT ![p] = f[p]]
OBVIOUS

\* What one update of a function over the parties changes.
LEMMA At ==
    ASSUME NEW f, NEW S, f \in [Party -> S], NEW p \in Party, NEW x, NEW g, g = [f EXCEPT ![p] = x]
    PROVE  g[p] = x /\ \A q \in Party : q # p => g[q] = f[q]
OBVIOUS

\* A step of one client is no step of the others.
LEMMA Left ==
    ASSUME ClientTypes, NEW p \in Party, NEW c, NEW d, Leaves(p, c, d)
    PROVE  /\ mem'[p] = c /\ disk'[p] = d
           /\ \A q \in Party : q # p => mem'[q] = mem[q] /\ disk'[q] = disk[q]
BY DEF ClientTypes, Leaves

\* SaveLocalState leaves the old file or the new one, and without a fault the
\* new one, if it may have so many sessions.
LEMMA SaveEffect ==
    ASSUME TypeInv, NEW p \in Party, NEW c \in ClientState, NEW ok \in BOOLEAN, SaveOf(p, c, ok)
    PROVE  /\ \E d \in {disk[p], c} :
                /\ disk' = [disk EXCEPT ![p] = d]
                /\ faults' = 0 /\ Persistable(c) => d = c
           /\ faults' \in 0 .. MaxFaults /\ faults <= faults'
<1>0. disk \in [Party -> ClientState] /\ faults \in 0 .. MaxFaults /\ MaxFaults \in Nat
  BY HandshakeAssumption DEF TypeInv, ClientTypes, HistoryTypes
<1>1. disk = [disk EXCEPT ![p] = disk[p]]
  BY <1>0
<1>2. CASE ok /\ Persistable(c) /\ disk' = Written(p, c) /\ UNCHANGED faults
  BY <1>0, <1>2 DEF Written
<1>3. CASE ~ok /\ ~Persistable(c) /\ UNCHANGED <<disk, faults>>
  <2>1. disk' = [disk EXCEPT ![p] = disk[p]] /\ faults' = faults
    BY <1>1, <1>3
  <2>2. faults' \in 0 .. MaxFaults /\ faults <= faults'
    BY <1>0, <2>1
  <2> QED
    BY <1>3, <2>1, <2>2
<1>4. CASE ~ok /\ Persistable(c) /\ Fault("save") /\ disk' \in {disk, Written(p, c)}
  <2>1. faults' = faults + 1 /\ faults < MaxFaults
    BY <1>4 DEF Fault
  <2>2. faults' \in 0 .. MaxFaults /\ faults <= faults' /\ faults' # 0
    BY <1>0, <2>1
  <2>3. \E d \in {disk[p], c} : disk' = [disk EXCEPT ![p] = d]
    BY <1>1, <1>4 DEF Written
  <2> QED
    BY <2>2, <2>3
<1> QED
  BY <1>2, <1>3, <1>4 DEF SaveOf

\* A fault is counted, within its bound.
LEMMA FaultEffect ==
    ASSUME TypeInv, NEW kind, Fault(kind)
    PROVE  faults' \in 0 .. MaxFaults /\ faults' # 0
<1>1. faults \in 0 .. MaxFaults /\ MaxFaults \in Nat /\ faults' = faults + 1 /\ faults < MaxFaults
  BY HandshakeAssumption DEF TypeInv, HistoryTypes, Fault
<1> QED
  BY <1>1

\* The parts of the type invariant after a step of one user.
LEMMA PollStep ==
    ASSUME TypeInv, NEW p \in Party, NEW call \in PollState(Entry), Going(call),
           poll' = [poll EXCEPT ![p] = call]
    PROVE  PollTypes'
<1>1. poll \in [Party -> PollState(Entry)] /\ \A q \in Party : Going(poll[q])
  BY DEF TypeInv, PollTypes
<1>2. poll' \in [Party -> PollState(Entry)]
  BY <1>1
<1>3. \A q \in Party : Going(poll'[q])
  BY <1>1
<1>4. \A q \in Party : Going(poll[q])'
  BY <1>3 DEF Going
<1> QED
  BY <1>2, <1>4 DEF PollTypes

\* A step that leaves the calls alone keeps their types.
LEMMA PollSame ==
    ASSUME TypeInv, poll' = poll
    PROVE  PollTypes'
BY DEF TypeInv, PollTypes, Going

\* A task that is over, or has only published, is well formed.
LEMMA TaskStep ==
    ASSUME TypeInv, NEW p \in Party, NEW t \in Task, t.op # "acquired",
           task' = [task EXCEPT ![p] = t], inits' = inits
    PROVE  TaskTypes'
<1>1. task \in [Party -> Task] /\ inits \in [Party -> Nat]
  BY DEF TypeInv, TaskTypes
<1>2. task'[p] = t /\ \A q \in Party : q # p => task'[q] = task[q]
  BY <1>1
<1>3. \A q \in Party : task[q].op = "acquired" => task[q].peer \in Party \ {q} /\ inits[q] > 0
  BY DEF TypeInv, TaskTypes
<1>4. \A q \in Party : task'[q].op = "acquired" => task'[q].peer \in Party \ {q} /\ inits'[q] > 0
  BY <1>2, <1>3
<1>5. task' \in [Party -> Task]
  BY <1>1
<1> QED
  BY <1>1, <1>4, <1>5 DEF TaskTypes

\* A step that leaves the tasks alone keeps their types.
LEMMA TaskSame ==
    ASSUME TypeInv, task' = task, inits' = inits
    PROVE  TaskTypes'
BY DEF TypeInv, TaskTypes

\* The tasks that carry no bundle.
LEMMA TaskKinds ==
    /\ NoTask \in Task /\ NoTask.op = "none"
    /\ [NoTask EXCEPT !.op = "published"] \in Task
    /\ [NoTask EXCEPT !.op = "published"].op = "published"
BY DEF NoTask, Task

\* Mail is taken away, or read.
LEMMA StoreStep ==
    ASSUME TypeInv, bundle' \in [Party -> [identity : Nat, pairs : Seq(Pair)]],
           inbox' \in [Party -> Seq(Entry)], nextId' = nextId, posted' = posted,
           \A q \in Party : Entries(inbox'[q]) \subseteq Entries(inbox[q]),
           \A q \in Party : Entries(poll'[q].page) \subseteq Entries(inbox[q]) \cup Entries(poll[q].page)
    PROVE  StoreTypes'
<1>1. \A q \in Party : \A e \in Entries(inbox[q]) \cup Entries(poll[q].page) : e.env \in posted[q]
  BY DEF TypeInv, StoreTypes
<1>2. \A q \in Party : \A e \in Entries(inbox'[q]) \cup Entries(poll'[q].page) : e.env \in posted'[q]
  BY <1>1
<1>3. nextId' \in [Party -> Nat \ {0}] /\ posted' \in [Party -> SUBSET Initial]
  BY DEF TypeInv, StoreTypes
<1> QED
  BY <1>2, <1>3 DEF StoreTypes, Entries

\* A step that posts nothing keeps the types of the server's state.
LEMMA StoreSame ==
    ASSUME TypeInv, bundle' \in [Party -> [identity : Nat, pairs : Seq(Pair)]],
           inbox' = inbox, nextId' = nextId, posted' = posted,
           \A q \in Party : Entries(poll'[q].page) \subseteq Entries(poll[q].page)
    PROVE  StoreTypes'
<1>1. inbox' \in [Party -> Seq(Entry)]
  BY DEF TypeInv, StoreTypes
<1> QED
  BY <1>1, StoreStep

\* The call of p goes on with a page that is a part of the former one.
LEMMA PageStep ==
    ASSUME TypeInv, NEW p \in Party, NEW call, poll' = [poll EXCEPT ![p] = call],
           Entries(call.page) \subseteq Entries(poll[p].page)
    PROVE  \A q \in Party : Entries(poll'[q].page) \subseteq Entries(poll[q].page)
<1>1. poll \in [Party -> PollState(Entry)]
  BY DEF TypeInv, PollTypes
<1>2. poll'[p] = call /\ \A q \in Party : q # p => poll'[q] = poll[q]
  BY <1>1
<1> QED
  BY <1>2

\* A call that has no page holds no entry.
LEMMA EmptyPage ==
    ASSUME NEW call, call.page = <<>>, NEW S
    PROVE  Entries(call.page) \subseteq S
BY EmptyBox

\* The bundles of the store.
LEMMA BundleTypes ==
    ASSUME TypeInv, NEW p \in Party, NEW c \in ClientState
    PROVE  /\ bundle \in [Party -> [identity : Nat, pairs : Seq(Pair)]]
           /\ StoreBundle(p, c) \in [Party -> [identity : Nat, pairs : Seq(Pair)]]
           /\ WithoutFirst(p) \in [Party -> [identity : Nat, pairs : Seq(Pair)]]
           /\ FirstPair(p) \in Pair \cup {None}
<1>1. bundle \in [Party -> [identity : Nat, pairs : Seq(Pair)]]
  BY DEF TypeInv, StoreTypes
<1>2. c.self \in Nat /\ c.pool \in Seq(Pair)
  BY Fields
<1>3. StoreBundle(p, c) \in [Party -> [identity : Nat, pairs : Seq(Pair)]]
  BY <1>1, <1>2 DEF StoreBundle
<1>4. PICK b \in [identity : Nat, pairs : Seq(Pair)] : b = bundle[p]
  BY <1>1
<1>5. PICK pairs : pairs = IF b.pairs = <<>> THEN b.pairs ELSE Tail(b.pairs)
  OBVIOUS
<1>6. pairs \in Seq(Pair) /\ b.pairs \in Seq(Pair)
  BY <1>5
<1>7. PICK r : r = [b EXCEPT !.pairs = pairs]
  OBVIOUS
<1>8. r \in [identity : Nat, pairs : Seq(Pair)]
  BY <1>6, <1>7
<1>9. WithoutFirst(p) = [bundle EXCEPT ![p] = r]
  BY <1>4, <1>5, <1>7 DEF WithoutFirst
<1>10. WithoutFirst(p) \in [Party -> [identity : Nat, pairs : Seq(Pair)]]
  BY <1>1, <1>8, <1>9
<1>11. FirstPair(p) \in Pair \cup {None}
  BY <1>4, <1>6 DEF FirstPair
<1> QED
  BY <1>1, <1>3, <1>10, <1>11

\* The handshake that p begins, and its initial message in the mailbox.
LEMMA BegunTypes ==
    ASSUME TypeInv, NEW p \in Party, Acquired(p), task[p].pair # None
    PROVE  /\ Begun(p) \in Initial /\ task[p].peer \in Party /\ task[p].peer # p
           /\ task[p].identity \in Nat /\ task[p].pair \in Pair /\ inits[p] \in Nat /\ inits[p] > 0
           /\ Begun(p).id = <<p, inits[p]>> /\ Begun(p).from = p /\ Begun(p).identity = mem[p].self
           /\ Begun(p).to = task[p].identity /\ Begun(p).pair = task[p].pair
<1>1. /\ task[p] \in Task /\ inits[p] \in Nat /\ mem[p].self \in Nat
  BY UserTypes, Fields
<1>2. task[p].peer \in Party \ {p} /\ inits[p] > 0
  BY DEF TypeInv, TaskTypes, Acquired
<1>3. task[p].identity \in Nat /\ task[p].pair \in Pair
  BY <1>1 DEF Task
<1>4. <<p, inits[p]>> \in HandshakeId
  BY <1>1, <1>2 DEF HandshakeId
<1>5. PICK id, self, pair, to : id = <<p, inits[p]>> /\ self = mem[p].self
                               /\ pair = task[p].pair /\ to = task[p].identity
  OBVIOUS
<1>6. Begun(p) = [id |-> id, from |-> p, identity |-> self, to |-> to, pair |-> pair]
  BY <1>5 DEF Begun
<1>7. Begun(p) \in Initial
  BY <1>1, <1>3, <1>4, <1>5, <1>6 DEF Initial
<1> QED
  BY <1>1, <1>2, <1>3, <1>5, <1>6, <1>7

\* An initial message is posted under the next number of its mailbox.
LEMMA PostTypes ==
    ASSUME TypeInv, NEW p \in Party, Acquired(p), task[p].pair # None, PostInitial(p),
           bundle' = bundle,
           \A q \in Party : Entries(poll'[q].page) \subseteq Entries(poll[q].page)
    PROVE  StoreTypes'
<1>1. PICK q \in Party, m \in Initial : q = task[p].peer /\ m = Begun(p)
  BY BegunTypes
<1>2. /\ inbox' = [inbox EXCEPT ![q] = EnqueueEnvelope(inbox[q], nextId[q], m)]
      /\ nextId' = [nextId EXCEPT ![q] = nextId[q] + 1]
      /\ posted' = [posted EXCEPT ![q] = posted[q] \cup {m}]
  BY <1>1 DEF PostInitial
<1>3. inbox[q] \in Seq(Entry) /\ nextId[q] \in Nat \ {0} /\ posted[q] \subseteq Initial
  BY UserTypes
<1>4. [id |-> nextId[q], env |-> m] \in Entry
  BY <1>3 DEF Entry
<1>5. PICK box \in Seq(Entry) : /\ box = EnqueueEnvelope(inbox[q], nextId[q], m)
                                /\ Entries(box) = Entries(inbox[q]) \cup {[id |-> nextId[q], env |-> m]}
  BY <1>3, <1>4, OneMore
<1>6. /\ inbox \in [Party -> Seq(Entry)] /\ nextId \in [Party -> Nat \ {0}]
      /\ posted \in [Party -> SUBSET Initial]
      /\ \A r \in Party : \A e \in Entries(inbox[r]) \cup Entries(poll[r].page) : e.env \in posted[r]
      /\ bundle' \in [Party -> [identity : Nat, pairs : Seq(Pair)]]
  BY DEF TypeInv, StoreTypes
<1>7. /\ inbox' \in [Party -> Seq(Entry)] /\ inbox'[q] = box
      /\ \A r \in Party : r # q => inbox'[r] = inbox[r]
  BY <1>2, <1>5, <1>6
<1>8. nextId' \in [Party -> Nat \ {0}]
  BY <1>2, <1>3, <1>6
<1>9. /\ posted' \in [Party -> SUBSET Initial] /\ posted'[q] = posted[q] \cup {m}
      /\ \A r \in Party : r # q => posted'[r] = posted[r]
  BY <1>2, <1>6
<1>10. ASSUME NEW r \in Party, NEW e \in Entries(inbox'[r]) \cup Entries(poll'[r].page)
       PROVE  e.env \in posted'[r]
  <2>1. CASE e \in Entries(inbox[r]) \cup Entries(poll[r].page)
    BY <1>6, <1>9, <2>1
  <2>2. CASE r = q /\ e = [id |-> nextId[q], env |-> m]
    BY <1>9, <2>2
  <2> QED
    BY <1>5, <1>7, <1>10, <2>1, <2>2
<1> QED
  BY <1>6, <1>7, <1>8, <1>9, <1>10 DEF StoreTypes, Entries

\* A client that is refilled, from memory or from its state file.
LEMMA RefilledLimits ==
    ASSUME TypeInv, NEW p \in Party, NEW c \in ClientState, Limits(c)
    PROVE  Refill(p, c) \in ClientState /\ Limits(Refill(p, c)) /\ Lacking(c) \in Nat
<1>1. Len(c.pool) <= PoolTarget /\ made[p] \in Nat /\ PoolTarget \in Nat
  BY UserTypes, HandshakeAssumption DEF Limits
<1> QED
  BY <1>1, Refilled DEF Limits

\* The pairs a client generates are counted.
LEMMA MadeMore ==
    ASSUME TypeInv, NEW p \in Party, NEW n \in Nat, made' = [made EXCEPT ![p] = made[p] + n]
    PROVE  /\ made' \in [Party -> Nat] /\ made'[p] = made[p] + n /\ made[p] \in Nat
           /\ \A q \in Party : q # p => made'[q] = made[q]
BY DEF TypeInv, HistoryTypes

\* PublishPrekeys keeps the types.
LEMMA PublishKeepsTypes ==
    ASSUME TypeInv, NEW p \in Party, PublishPrekeys(p)
    PROVE  TypeInv'
<1>1. /\ mem[p] \in ClientState /\ disk[p] \in ClientState /\ Limits(mem[p]) /\ Limits(disk[p])
      /\ ClientTypes
  BY UserTypes DEF TypeInv
<1>2. /\ UNCHANGED <<disk, inbox, nextId, poll, made, inits, posted, handed, missing, compared, cause>>
  BY DEF PublishPrekeys, history
<1>3. disk' = [disk EXCEPT ![p] = disk[p]]
  BY <1>1, <1>2 DEF ClientTypes
<1>4. StoreTypes' /\ PollTypes'
  <2>1. bundle' \in {bundle, StoreBundle(p, mem[p])}
    BY DEF PublishPrekeys, Publish, PublishFails
  <2>2. bundle' \in [Party -> [identity : Nat, pairs : Seq(Pair)]]
    BY <1>1, <2>1, BundleTypes
  <2> QED
    BY <1>2, <2>2, StoreSame, PollSame
<1>5. CASE Publish(p, mem[p]) /\ UNCHANGED faults
  <2>1. PICK c : c = [mem[p] EXCEPT !.dirty = FALSE]
    OBVIOUS
  <2>2. c \in ClientState /\ SameCore(c, mem[p])
    BY <1>1, <2>1, CleanTypes
  <2>3. Leaves(p, c, disk[p])
    BY <1>3, <1>5, <2>1 DEF Publish, Leaves
  <2>4. Limits(c)
    BY <1>1, <2>2 DEF SameCore, Limits
  <2>5. ClientTypes'
    BY <1>1, <2>2, <2>3, <2>4, LeavesTypes
  <2>6. TaskTypes'
    BY <1>2, <1>5, TaskStep, TaskKinds DEF Publish
  <2>7. HistoryTypes'
    BY <1>2, <1>5 DEF TypeInv, HistoryTypes
  <2> QED
    BY <1>4, <2>5, <2>6, <2>7 DEF TypeInv
<1>6. CASE PublishFails(p, mem[p])
  <2>1. Leaves(p, mem[p], disk[p])
    BY <1>3, <1>6 DEF PublishFails, Leaves
  <2>2. ClientTypes'
    BY <1>1, <2>1, LeavesTypes
  <2>3. TaskTypes'
    BY <1>2, <1>6, TaskSame DEF PublishFails
  <2>4. faults' \in 0 .. MaxFaults
    BY <1>6, FaultEffect DEF PublishFails
  <2>5. HistoryTypes'
    BY <1>2, <2>4 DEF TypeInv, HistoryTypes
  <2> QED
    BY <1>4, <2>2, <2>3, <2>5 DEF TypeInv
<1> QED
  BY <1>5, <1>6 DEF PublishPrekeys

\* The save after PublishPrekeys keeps the types.
LEMMA SavePrekeysKeepsTypes ==
    ASSUME TypeInv, NEW p \in Party, SavePrekeys(p)
    PROVE  TypeInv'
<1>1. /\ mem[p] \in ClientState /\ disk[p] \in ClientState /\ Limits(mem[p]) /\ Limits(disk[p])
      /\ ClientTypes
  BY UserTypes DEF TypeInv
<1>2. /\ UNCHANGED <<mem, bundle, inbox, nextId, made, inits, posted, handed, missing, compared, cause>>
      /\ task' = [task EXCEPT ![p] = NoTask]
  BY DEF SavePrekeys, store, history
<1>3. PICK ok \in BOOLEAN : /\ SaveOf(p, mem[p], ok)
                            /\ poll' = [poll EXCEPT ![p].err = poll[p].err \/ (poll[p].pc = "save" /\ ~ok)]
  BY DEF SavePrekeys
<1>4. PICK d \in {disk[p], mem[p]} : disk' = [disk EXCEPT ![p] = d]
  BY <1>1, <1>3, SaveEffect
<1>5. faults' \in 0 .. MaxFaults
  BY <1>1, <1>3, SaveEffect
<1>6. Leaves(p, mem[p], d)
  BY <1>1, <1>2, <1>4 DEF Leaves, ClientTypes
<1>7. ClientTypes'
  BY <1>1, <1>6, LeavesTypes
<1>8. PICK call : call = [poll[p] EXCEPT !.err = poll[p].err \/ (poll[p].pc = "save" /\ ~ok)]
  OBVIOUS
<1>9. poll[p] \in PollState(Entry) /\ Going(poll[p])
  BY UserTypes
<1>10. /\ call \in PollState(Entry) /\ call.page = poll[p].page /\ call.pc = poll[p].pc
       /\ call.pass = poll[p].pass /\ call.out = poll[p].out
  BY <1>8, <1>9 DEF PollState
<1>11. Going(call)
  BY <1>9, <1>10 DEF Going
<1>12. poll' = [poll EXCEPT ![p] = call]
  BY <1>3, <1>8
<1>13. PollTypes'
  BY <1>10, <1>11, <1>12, PollStep
<1>14. \A q \in Party : Entries(poll'[q].page) \subseteq Entries(poll[q].page)
  BY <1>10, <1>12, PageStep
<1>15. StoreTypes'
  BY <1>1, <1>2, <1>14, StoreSame, BundleTypes
<1>16. TaskTypes'
  BY <1>2, TaskStep, TaskKinds
<1>17. HistoryTypes'
  BY <1>2, <1>5 DEF TypeInv, HistoryTypes
<1> QED
  BY <1>7, <1>13, <1>15, <1>16, <1>17 DEF TypeInv

\* The background republish keeps the types.
LEMMA RepublishKeepsTypes ==
    ASSUME TypeInv, NEW p \in Party, Republish(p)
    PROVE  TypeInv'
<1>1. /\ mem[p] \in ClientState /\ disk[p] \in ClientState /\ Limits(mem[p]) /\ Limits(disk[p])
      /\ ClientTypes
  BY UserTypes DEF TypeInv
<1>2. PICK r : r = Refill(p, mem[p])
  OBVIOUS
<1>3. r \in ClientState /\ Limits(r) /\ Lacking(mem[p]) \in Nat
  BY <1>1, <1>2, RefilledLimits
<1>4. /\ UNCHANGED <<disk, inbox, nextId, inits, posted, handed, missing, compared, cause>>
      /\ made' = [made EXCEPT ![p] = made[p] + Lacking(mem[p])]
      /\ poll[p].pc = "end"
  BY DEF Republish, history
<1>5. disk' = [disk EXCEPT ![p] = disk[p]]
  BY <1>1, <1>4 DEF ClientTypes
<1>6. bundle' \in [Party -> [identity : Nat, pairs : Seq(Pair)]]
  <2>1. bundle' \in {bundle, StoreBundle(p, r)}
    BY <1>2 DEF Republish, Publish, PublishFails
  <2> QED
    BY <1>3, <2>1, BundleTypes
<1>7. made' \in [Party -> Nat]
  BY <1>3, <1>4, MadeMore
<1>8. poll[p] \in PollState(Entry)
  BY UserTypes
<1>9. PICK err \in BOOLEAN : poll' = [poll EXCEPT ![p].pc = "save", ![p].err = err]
  <2>1. CASE poll' = [poll EXCEPT ![p].pc = "save"]
    <3>1. PICK err \in BOOLEAN : err = poll[p].err
      BY <1>8 DEF PollState
    <3>2. [poll[p] EXCEPT !.pc = "save"] = [poll[p] EXCEPT !.pc = "save", !.err = err]
      BY <1>8, <3>1 DEF PollState
    <3>3. PICK call : call = [poll[p] EXCEPT !.pc = "save", !.err = err]
      OBVIOUS
    <3>4. poll' = [poll EXCEPT ![p] = call]
      BY <2>1, <3>2, <3>3
    <3> QED
      BY <3>3, <3>4
  <2>2. CASE poll' = [poll EXCEPT ![p].pc = "save", ![p].err = TRUE]
    BY <2>2
  <2> QED
    BY <2>1, <2>2 DEF Republish
<1>10. PICK call : call = [poll[p] EXCEPT !.pc = "save", !.err = err]
  OBVIOUS
<1>11. call \in PollState(Entry) /\ call.page = poll[p].page /\ call.pc = "save"
  BY <1>8, <1>10 DEF PollState
<1>12. poll' = [poll EXCEPT ![p] = call]
  BY <1>9, <1>10
<1>13. Going(call)
  BY <1>11 DEF Going
<1>14. PollTypes'
  BY <1>11, <1>12, <1>13, PollStep
<1>15. StoreTypes'
  BY <1>4, <1>6, <1>11, <1>12, PageStep, StoreSame
<1>16. CASE Publish(p, r) /\ UNCHANGED faults
  <2>1. PICK c : c = [r EXCEPT !.dirty = FALSE]
    OBVIOUS
  <2>2. c \in ClientState /\ SameCore(c, r)
    BY <1>3, <2>1, CleanTypes
  <2>3. Leaves(p, c, disk[p])
    BY <1>5, <1>16, <2>1 DEF Publish, Leaves
  <2>4. Limits(c)
    BY <1>3, <2>2 DEF SameCore, Limits
  <2>5. ClientTypes'
    BY <1>1, <2>2, <2>3, <2>4, LeavesTypes
  <2>6. TaskTypes'
    BY <1>4, <1>16, TaskStep, TaskKinds DEF Publish
  <2>7. HistoryTypes'
    BY <1>4, <1>7, <1>16 DEF TypeInv, HistoryTypes
  <2> QED
    BY <1>14, <1>15, <2>5, <2>6, <2>7 DEF TypeInv
<1>17. CASE PublishFails(p, r)
  <2>1. Leaves(p, r, disk[p])
    BY <1>5, <1>17 DEF PublishFails, Leaves
  <2>2. ClientTypes'
    BY <1>1, <1>3, <2>1, LeavesTypes
  <2>3. TaskTypes'
    BY <1>4, <1>17, TaskSame DEF PublishFails
  <2>4. faults' \in 0 .. MaxFaults
    BY <1>17, FaultEffect DEF PublishFails
  <2>5. HistoryTypes'
    BY <1>4, <1>7, <2>4 DEF TypeInv, HistoryTypes
  <2> QED
    BY <1>14, <1>15, <2>2, <2>3, <2>5 DEF TypeInv
<1> QED
  BY <1>2, <1>16, <1>17 DEF Republish

\* AcquireBundleForSession keeps the types.
LEMMA AcquireKeepsTypes ==
    ASSUME TypeInv, NEW p \in Party, NEW q \in Party, AcquireBundle(p, q)
    PROVE  TypeInv'
<1>1. PICK pair : pair = FirstPair(q)
  OBVIOUS
<1>2. /\ pair \in Pair \cup {None} /\ WithoutFirst(q) \in [Party -> [identity : Nat, pairs : Seq(Pair)]]
      /\ bundle[q].identity \in Nat
  <2>1. PICK c : c \in ClientState
    BY UserTypes
  <2> QED
    BY <1>1, <2>1, BundleTypes, UserTypes
<1>3. /\ UNCHANGED <<mem, disk, inbox, nextId, poll, made, posted, missing, compared, cause>>
      /\ bundle' = WithoutFirst(q) /\ inits' = [inits EXCEPT ![p] = inits[p] + 1]
      /\ handed' = [handed EXCEPT ![q] = IF pair = None THEN handed[q] ELSE Append(handed[q], pair)]
      /\ <<p, q>> \in Calls
  BY <1>1 DEF AcquireBundle
<1>4. ClientTypes'
  BY <1>3 DEF TypeInv, ClientTypes, Limits
<1>5. StoreTypes' /\ PollTypes'
  BY <1>2, <1>3, StoreSame, PollSame
<1>6. p # q
  BY <1>3, HandshakeAssumption
<1>7. TaskTypes' /\ faults' \in 0 .. MaxFaults
  <2>1. task \in [Party -> Task] /\ inits \in [Party -> Nat] /\ inits[p] \in Nat
    BY DEF TypeInv, TaskTypes
  <2>2. inits' \in [Party -> Nat] /\ inits'[p] > 0 /\ \A r \in Party : r # p => inits'[r] = inits[r]
    BY <1>3, <2>1
  <2>3. \A r \in Party : task[r].op = "acquired" => task[r].peer \in Party \ {r} /\ inits[r] > 0
    BY DEF TypeInv, TaskTypes
  <2>4. CASE UNCHANGED task /\ Fault("net")
    <3>1. \A r \in Party : task'[r].op = "acquired" => task'[r].peer \in Party \ {r} /\ inits'[r] > 0
      BY <2>2, <2>3, <2>4
    <3>2. faults' \in 0 .. MaxFaults
      BY <2>4, FaultEffect
    <3> QED
      BY <2>1, <2>2, <2>4, <3>1, <3>2 DEF TaskTypes
  <2>5. CASE /\ task' = [task EXCEPT ![p] = [op |-> "acquired", peer |-> q,
                                           identity |-> bundle[q].identity, pair |-> FirstPair(q)]]
             /\ UNCHANGED faults
    <3>1. PICK n \in Nat : n = bundle[q].identity
      BY <1>2
    <3>2. PICK t : t = [op |-> "acquired", peer |-> q, identity |-> n, pair |-> pair]
      OBVIOUS
    <3>3. t \in Task /\ t.peer = q
      BY <1>2, <3>2 DEF Task
    <3>4. task' = [task EXCEPT ![p] = t]
      BY <1>1, <2>5, <3>1, <3>2
    <3>5. task' \in [Party -> Task] /\ task'[p] = t /\ \A r \in Party : r # p => task'[r] = task[r]
      BY <2>1, <3>3, <3>4
    <3>6. \A r \in Party : task'[r].op = "acquired" => task'[r].peer \in Party \ {r} /\ inits'[r] > 0
      BY <1>6, <2>2, <2>3, <3>3, <3>5
    <3>7. faults' \in 0 .. MaxFaults
      BY <2>5 DEF TypeInv, HistoryTypes
    <3> QED
      BY <2>2, <3>5, <3>6, <3>7 DEF TaskTypes
  <2> QED
    BY <2>4, <2>5 DEF AcquireBundle
<1>8. handed' \in [Party -> Seq(Pair)]
  <2>1. handed \in [Party -> Seq(Pair)] /\ handed[q] \in Seq(Pair)
    BY DEF TypeInv, HistoryTypes
  <2>2. PICK s : s = IF pair = None THEN handed[q] ELSE Append(handed[q], pair)
    OBVIOUS
  <2>3. s \in Seq(Pair)
    <3>1. CASE pair = None
      BY <2>1, <2>2, <3>1
    <3>2. CASE pair # None
      BY <1>2, <2>1, <2>2, <3>2, AppendProperties
    <3> QED
      BY <3>1, <3>2
  <2> QED
    BY <1>3, <2>1, <2>2, <2>3
<1>9. HistoryTypes'
  BY <1>3, <1>7, <1>8 DEF TypeInv, HistoryTypes
<1> QED
  BY <1>4, <1>5, <1>7, <1>9 DEF TypeInv

\* InitiateSession refused: the peer is met, and that is saved.
LEMMA RefusalEffect ==
    ASSUME TypeInv, NEW p \in Party, InitiateRefused(p)
    PROVE  \E c, d \in ClientState :
             /\ Leaves(p, c, d) /\ d \in {disk[p], c}
             /\ task[p].peer \in Party /\ task[p].identity \in Nat
             /\ c = Meet(mem[p], task[p].peer, task[p].identity)
             /\ faults' \in 0 .. MaxFaults /\ faults <= faults'
             /\ c # mem[p] /\ faults' = 0 /\ Persistable(c) => d = c
<1>1. /\ mem[p] \in ClientState /\ disk[p] \in ClientState
      /\ mem \in [Party -> ClientState] /\ disk \in [Party -> ClientState]
  BY UserTypes DEF TypeInv, ClientTypes
<1>2. task[p].peer \in Party /\ task[p].identity \in Nat
  BY UserTypes DEF InitiateRefused, Acquired, TypeInv, TaskTypes, Task
<1>3. PICK c : c = Meet(mem[p], task[p].peer, task[p].identity)
  OBVIOUS
<1>4. c \in ClientState /\ (mem[p].peers[task[p].peer] # None => c = mem[p])
  BY <1>1, <1>2, <1>3, Met
<1>5. mem' = [mem EXCEPT ![p] = c]
  BY <1>3 DEF InitiateRefused
<1>6. mem'[p] = c
  BY <1>1, <1>5
<1>7. CASE mem[p].peers[task[p].peer] = None /\ Save(p)
  <2>1. PICK ok \in BOOLEAN : SaveOf(p, c, ok)
    BY <1>6, <1>7 DEF Save
  <2>2. PICK d \in {disk[p], c} : disk' = [disk EXCEPT ![p] = d] /\ (faults' = 0 /\ Persistable(c) => d = c)
    BY <1>4, <2>1, SaveEffect
  <2>3. faults' \in 0 .. MaxFaults /\ faults <= faults'
    BY <1>4, <2>1, SaveEffect
  <2> QED
    BY <1>1, <1>2, <1>3, <1>4, <1>5, <2>2, <2>3 DEF Leaves
<1>8. CASE mem[p].peers[task[p].peer] # None /\ UNCHANGED <<disk, faults>>
  <2>1. disk' = [disk EXCEPT ![p] = disk[p]]
    BY <1>1, <1>8
  <2>2. faults' \in 0 .. MaxFaults /\ faults <= faults'
    BY <1>8, HandshakeAssumption DEF TypeInv, HistoryTypes
  <2> QED
    BY <1>1, <1>2, <1>3, <1>4, <1>5, <1>8, <2>1, <2>2 DEF Leaves
<1> QED
  BY <1>7, <1>8 DEF InitiateRefused

\* InitiateSession's early returns keep the types.
LEMMA RefusalKeepsTypes ==
    ASSUME TypeInv, NEW p \in Party, InitiateRefused(p)
    PROVE  TypeInv'
<1>1. PICK c \in ClientState, d \in ClientState :
        /\ Leaves(p, c, d) /\ d \in {disk[p], c} /\ task[p].peer \in Party /\ task[p].identity \in Nat
        /\ c = Meet(mem[p], task[p].peer, task[p].identity) /\ faults' \in 0 .. MaxFaults
  BY RefusalEffect
<1>2. mem[p] \in ClientState /\ Limits(mem[p]) /\ Limits(disk[p]) /\ ClientTypes
  BY UserTypes DEF TypeInv
<1>3. Limits(c)
  BY <1>1, <1>2, Met, ZenonT(30) DEF Limits
<1>4. ClientTypes'
  BY <1>1, <1>2, <1>3, LeavesTypes
<1>5. /\ UNCHANGED <<bundle, inbox, nextId, poll, made, inits, posted, handed, missing, compared, cause>>
      /\ task' = [task EXCEPT ![p] = NoTask]
  BY DEF InitiateRefused, store, history
<1>6. StoreTypes' /\ PollTypes' /\ TaskTypes'
  BY <1>2, <1>5, StoreSame, PollSame, TaskStep, TaskKinds, BundleTypes
<1>7. HistoryTypes'
  BY <1>1, <1>5 DEF TypeInv, HistoryTypes
<1> QED
  BY <1>4, <1>6, <1>7 DEF TypeInv

\* The session of InitiateSession, posted or not.
LEMMA BeginEffect ==
    ASSUME TypeInv, NEW p \in Party, InitiateSession(p) \/ InitiateNotPosted(p)
    PROVE  \E c, d \in ClientState :
             /\ Leaves(p, c, d) /\ d \in {disk[p], c}
             /\ Acquired(p) /\ task[p].pair # None
             /\ Trusts(mem[p], task[p].peer, task[p].identity)
             /\ c = WithSession(mem[p], task[p].peer, task[p].identity, Begun(p))
             /\ faults' \in 0 .. MaxFaults /\ faults <= faults'
             /\ faults' = 0 /\ Persistable(c) => d = c
<1>1. /\ mem[p] \in ClientState /\ disk[p] \in ClientState /\ Limits(mem[p])
      /\ mem \in [Party -> ClientState] /\ disk \in [Party -> ClientState]
  BY UserTypes DEF TypeInv, ClientTypes
<1>2. Acquired(p) /\ task[p].pair # None /\ Trusts(mem[p], task[p].peer, task[p].identity)
  BY DEF InitiateSession, InitiateNotPosted, StartInitial
<1>3. PICK c : c = WithSession(mem[p], task[p].peer, task[p].identity, Begun(p))
  OBVIOUS
<1>4. c \in ClientState
  BY <1>1, <1>2, <1>3, BegunTypes, Established
<1>5. mem' = [mem EXCEPT ![p] = c]
  BY <1>3 DEF InitiateSession, InitiateNotPosted, Establish
<1>6. mem'[p] = c
  BY <1>1, <1>5
<1>7. CASE Save(p)
  <2>1. PICK ok \in BOOLEAN : SaveOf(p, c, ok)
    BY <1>6, <1>7 DEF Save
  <2>2. PICK d \in {disk[p], c} : disk' = [disk EXCEPT ![p] = d] /\ (faults' = 0 /\ Persistable(c) => d = c)
    BY <1>4, <2>1, SaveEffect
  <2>3. faults' \in 0 .. MaxFaults /\ faults <= faults'
    BY <1>4, <2>1, SaveEffect
  <2> QED
    BY <1>1, <1>2, <1>3, <1>4, <1>5, <2>2, <2>3 DEF Leaves
<1>8. CASE UNCHANGED disk /\ Fault("net")
  <2>1. disk' = [disk EXCEPT ![p] = disk[p]]
    BY <1>1, <1>8
  <2>2. faults' \in 0 .. MaxFaults /\ faults' # 0
    BY <1>8, FaultEffect
  <2>3. faults <= faults'
    <3>1. faults \in Nat /\ faults' = faults + 1
      BY <1>8 DEF Fault, TypeInv, HistoryTypes
    <3> QED
      BY <3>1
  <2> QED
    BY <1>1, <1>2, <1>3, <1>4, <1>5, <2>1, <2>2, <2>3 DEF Leaves
<1> QED
  BY <1>7, <1>8 DEF InitiateSession, InitiateNotPosted

\* InitiateSession keeps the types, the message posted or not.
LEMMA BeginKeepsTypes ==
    ASSUME TypeInv, NEW p \in Party, InitiateSession(p) \/ InitiateNotPosted(p)
    PROVE  TypeInv'
<1>1. PICK c \in ClientState, d \in ClientState :
        /\ Leaves(p, c, d) /\ d \in {disk[p], c} /\ Acquired(p) /\ task[p].pair # None
        /\ c = WithSession(mem[p], task[p].peer, task[p].identity, Begun(p))
        /\ faults' \in 0 .. MaxFaults
  BY BeginEffect
<1>2. mem[p] \in ClientState /\ Limits(mem[p]) /\ Limits(disk[p]) /\ ClientTypes
  BY UserTypes DEF TypeInv
<1>3. Limits(c)
  <2>1. PICK q \in Party, n \in Nat, m \in Initial :
          q = task[p].peer /\ n = task[p].identity /\ m = Begun(p)
    BY <1>1, BegunTypes
  <2>2. c = WithSession(mem[p], q, n, m)
    BY <1>1, <2>1
  <2> QED
    BY <1>2, <2>2, EstablishedLimits
<1>4. ClientTypes'
  BY <1>1, <1>2, <1>3, LeavesTypes
<1>5. UNCHANGED <<bundle, poll, made, inits, handed, missing, compared>> /\ task' = [task EXCEPT ![p] = NoTask]
  BY DEF InitiateSession, InitiateNotPosted, StartInitial
<1>6. StoreTypes'
  <2>1. CASE InitiateSession(p)
    BY <1>1, <1>5, <2>1, PostTypes DEF InitiateSession
  <2>2. CASE InitiateNotPosted(p)
    BY <1>2, <1>5, <2>2, StoreSame, BundleTypes DEF InitiateNotPosted
  <2> QED
    BY <2>1, <2>2
<1>7. PollTypes' /\ TaskTypes'
  BY <1>5, PollSame, TaskStep, TaskKinds
<1>8. cause' \subseteq Reasons
  <2>1. cause \subseteq Reasons
    BY DEF TypeInv, HistoryTypes
  <2>2. cause' \subseteq cause \cup {"gap", "crossed"}
    BY DEF InitiateSession, InitiateNotPosted, Causes
  <2> QED
    BY <2>1, <2>2 DEF Reasons, Partings
<1>9. HistoryTypes'
  BY <1>1, <1>5, <1>8 DEF TypeInv, HistoryTypes
<1> QED
  BY <1>4, <1>6, <1>7, <1>9 DEF TypeInv

\* The pairs in the pool of client c and the ones that served a session are
\* different ones, of the first n that p made.
PairsOk(p, c, n) ==
    /\ \A i \in DOMAIN c.pool : c.pool[i] \in {p} \X (1 .. n)
    /\ \A i \in DOMAIN c.accepted : c.accepted[i].pair \in {p} \X (1 .. n)
    /\ \A i, j \in DOMAIN c.pool : c.pool[i] = c.pool[j] => i = j
    /\ \A i, j \in DOMAIN c.accepted : c.accepted[i].pair = c.accepted[j].pair => i = j
    /\ \A i \in DOMAIN c.pool, j \in DOMAIN c.accepted : c.pool[i] # c.accepted[j].pair

PairInv == \A p \in Party : PairsOk(p, mem[p], made[p]) /\ PairsOk(p, disk[p], made[p])

\* VerifyPeerSafetyNumber.
LEMMA VerifyEffect ==
    ASSUME TypeInv, NEW p \in Party, NEW q \in Party, VerifyPeerSafetyNumber(p, q)
    PROVE  \E c, d \in ClientState :
             /\ Leaves(p, c, d) /\ d \in {disk[p], c}
             /\ c.self = mem[p].self /\ c.pool = mem[p].pool /\ c.dirty = mem[p].dirty
             /\ c.guards = mem[p].guards /\ c.sessions = mem[p].sessions
             /\ c.accepted = mem[p].accepted /\ c.pending = mem[p].pending
             /\ c.peers[q] = Known(mem[q].self, TRUE)
             /\ \A r \in Party : r # q => c.peers[r] = mem[p].peers[r]
             /\ faults' \in 0 .. MaxFaults /\ faults <= faults'
             /\ faults' = 0 /\ Persistable(c) => d = c
<1>1. /\ mem[p] \in ClientState /\ disk[p] \in ClientState /\ mem[q].self \in Nat
      /\ mem \in [Party -> ClientState] /\ disk \in [Party -> ClientState]
  BY UserTypes, Fields DEF TypeInv, ClientTypes
<1>2. PICK k : k = Known(mem[q].self, TRUE)
  OBVIOUS
<1>3. mem[p].peers[q] = Known(mem[q].self, FALSE)
  BY DEF VerifyPeerSafetyNumber
<1>4. k \in [identity : Nat, verified : BOOLEAN] /\ [mem[p].peers[q] EXCEPT !.verified = TRUE] = k
  <2>1. PICK n \in Nat : n = mem[q].self
    BY <1>1
  <2>0. PICK old : old = mem[p].peers[q]
    OBVIOUS
  <2>2. old = [identity |-> n, verified |-> FALSE] /\ k = [identity |-> n, verified |-> TRUE]
    BY <1>2, <1>3, <2>0, <2>1 DEF Known
  <2>3. k \in [identity : Nat, verified : BOOLEAN] /\ [old EXCEPT !.verified = TRUE] = k
    <3>1. old \in [identity : Nat, verified : BOOLEAN] /\ old.identity = n
      BY <2>2
    <3>2. PICK new : new = [old EXCEPT !.verified = TRUE]
      OBVIOUS
    <3>3. /\ new \in [identity : Nat, verified : BOOLEAN] /\ new.identity = n /\ new.verified = TRUE
      BY <3>1, <3>2
    <3>4. /\ k \in [identity : Nat, verified : BOOLEAN] /\ k.identity = n /\ k.verified = TRUE
      BY <2>2
    <3> QED
      BY <3>2, <3>3, <3>4
  <2> QED
    BY <2>0, <2>3
<1>5. PICK peers : peers = [mem[p].peers EXCEPT ![q] = k]
  OBVIOUS
<1>6. /\ peers \in [Party -> [identity : Nat, verified : BOOLEAN] \cup {None}]
      /\ peers[q] = k /\ \A r \in Party : r # q => peers[r] = mem[p].peers[r]
  BY <1>1, <1>4, <1>5, Fields
<1>7. PICK c : c = [mem[p] EXCEPT !.peers = peers]
  OBVIOUS
<1>8. /\ c \in ClientState /\ c.self = mem[p].self /\ c.pool = mem[p].pool /\ c.dirty = mem[p].dirty
      /\ c.guards = mem[p].guards /\ c.sessions = mem[p].sessions
      /\ c.accepted = mem[p].accepted /\ c.pending = mem[p].pending /\ c.peers = peers
  BY <1>1, <1>6, <1>7 DEF ClientState
<1>9. mem' = [mem EXCEPT ![p] = c]
  BY <1>4, <1>5, <1>7 DEF VerifyPeerSafetyNumber
<1>10. mem'[p] = c
  BY <1>1, <1>9
<1>11. PICK ok \in BOOLEAN : SaveOf(p, c, ok)
  BY <1>10 DEF Save, VerifyPeerSafetyNumber
<1>12. PICK d \in {disk[p], c} : disk' = [disk EXCEPT ![p] = d] /\ (faults' = 0 /\ Persistable(c) => d = c)
  BY <1>8, <1>11, SaveEffect
<1>13. faults' \in 0 .. MaxFaults /\ faults <= faults'
  BY <1>8, <1>11, SaveEffect
<1>14. Leaves(p, c, d) /\ d \in ClientState
  BY <1>1, <1>8, <1>9, <1>12 DEF Leaves
<1> QED
  BY <1>2, <1>6, <1>8, <1>12, <1>13, <1>14

\* VerifyPeerSafetyNumber keeps the types.
LEMMA VerifyKeepsTypes ==
    ASSUME TypeInv, NEW p \in Party, NEW q \in Party, VerifyPeerSafetyNumber(p, q)
    PROVE  TypeInv'
<1>1. PICK c \in ClientState, d \in ClientState :
        /\ Leaves(p, c, d) /\ d \in {disk[p], c} /\ c.pool = mem[p].pool /\ c.guards = mem[p].guards
        /\ faults' \in 0 .. MaxFaults
  BY VerifyEffect
<1>2. mem[p] \in ClientState /\ Limits(mem[p]) /\ Limits(disk[p]) /\ ClientTypes
  BY UserTypes DEF TypeInv
<1>3. Limits(c)
  BY <1>1, <1>2 DEF Limits
<1>4. ClientTypes'
  BY <1>1, <1>2, <1>3, LeavesTypes
<1>5. /\ UNCHANGED <<bundle, inbox, nextId, poll, task, made, inits, posted, handed, missing, cause>>
      /\ compared' = [compared EXCEPT ![<<p, q>>] = compared[<<p, q>>] \cup {mem[q].self}]
  BY DEF VerifyPeerSafetyNumber, store
<1>6. StoreTypes' /\ PollTypes' /\ TaskTypes'
  BY <1>2, <1>5, StoreSame, PollSame, TaskSame, BundleTypes
<1>7. compared' \in [Party \X Party -> SUBSET Nat]
  <2>1. mem[q].self \in Nat /\ compared \in [Party \X Party -> SUBSET Nat]
    BY UserTypes, Fields DEF TypeInv, HistoryTypes
  <2> QED
    BY <1>5, <2>1
<1>8. HistoryTypes'
  BY <1>1, <1>5, <1>7 DEF TypeInv, HistoryTypes
<1> QED
  BY <1>4, <1>6, <1>8 DEF TypeInv

\* The start of ProcessInbox keeps the types.
LEMMA StartKeepsTypes ==
    ASSUME TypeInv, NEW p \in Party, ProcessInbox(p)
    PROVE  TypeInv'
<1>1. mem[p] \in ClientState /\ mem[p].pending \in Nat
  BY UserTypes, Fields
<1>2. /\ UNCHANGED <<mem, disk, bundle, inbox, nextId, task, made, inits, faults>>
      /\ UNCHANGED <<posted, handed, missing, compared, cause>>
      /\ poll' = [poll EXCEPT ![p] = StartPoll(mem[p].pending)]
  BY DEF ProcessInbox, store, history
<1>3. PICK call : call = StartPoll(mem[p].pending)
  OBVIOUS
<1>4. call \in PollState(Entry) /\ Going(call) /\ call.page = <<>>
  BY <1>1, <1>3, StartGoing
<1>5. PollTypes'
  BY <1>2, <1>3, <1>4, PollStep
<1>6. \A q \in Party : Entries(poll'[q].page) \subseteq Entries(poll[q].page)
  BY <1>2, <1>3, <1>4, EmptyPage, PageStep
<1>7. StoreTypes'
  BY <1>1, <1>2, <1>6, StoreSame, BundleTypes
<1>8. TaskTypes' /\ ClientTypes' /\ HistoryTypes'
  BY <1>2, TaskSame DEF TypeInv, ClientTypes, HistoryTypes, Limits
<1> QED
  BY <1>5, <1>7, <1>8 DEF TypeInv

\* The mailbox of p after DrainInbox.
LEMMA DrainedBox ==
    ASSUME TypeInv, NEW p \in Party, NEW ack, NEW left,
           left = inbox \/ left = [inbox EXCEPT ![p] = DropAcked(inbox[p], ack)]
    PROVE  /\ left \in [Party -> Seq(Entry)]
           /\ \A q \in Party : Entries(left[q]) \subseteq Entries(inbox[q])
<1>1. inbox \in [Party -> Seq(Entry)]
  BY DEF TypeInv, StoreTypes
<1>2. PICK box : box = DropAcked(inbox[p], ack)
  OBVIOUS
<1>3. box \in Seq(Entry) /\ Entries(box) \subseteq Entries(inbox[p])
  BY <1>1, <1>2, PartOfBox
<1> QED
  BY <1>1, <1>2, <1>3

\* DrainInbox keeps the types.
LEMMA DrainKeepsTypes ==
    ASSUME TypeInv, NEW p \in Party, DrainInbox(p)
    PROVE  TypeInv'
<1>1. /\ mem[p] \in ClientState /\ disk[p] \in ClientState /\ Limits(mem[p]) /\ Limits(disk[p])
      /\ ClientTypes /\ poll[p] \in PollState(Entry) /\ Going(poll[p]) /\ inbox[p] \in Seq(Entry)
  BY UserTypes DEF TypeInv
<1>2. PICK left : left = DropAcked(inbox[p], poll[p].ack)
  OBVIOUS
<1>3. /\ UNCHANGED <<disk, bundle, nextId, task, made, inits, faults>>
      /\ UNCHANGED <<posted, handed, missing, compared, cause>>
      /\ inbox' = [inbox EXCEPT ![p] = left] /\ poll[p].pc = "drain"
      /\ mem' = [mem EXCEPT ![p] = [mem[p] EXCEPT !.pending = 0]]
  BY <1>2 DEF DrainInbox, history
<1>4. PICK n \in PageLengths(left) : poll' = [poll EXCEPT ![p] = Served(poll[p], PageOf(left, n))]
  BY <1>2 DEF DrainInbox
<1>5. left \in Seq(Entry) /\ Entries(left) \subseteq Entries(inbox[p])
  BY <1>1, <1>2, PartOfBox
<1>6. PICK page : page = PageOf(left, n)
  OBVIOUS
<1>7. page \in Seq(Entry) /\ Entries(page) \subseteq Entries(inbox[p])
  BY <1>5, <1>6, PartOfPage
<1>8. PICK call : call = Served(poll[p], page)
  OBVIOUS
<1>9. call \in PollState(Entry) /\ Going(call) /\ call.page = page
  BY <1>1, <1>3, <1>7, <1>8, ServedGoing
<1>10. poll' = [poll EXCEPT ![p] = call]
  BY <1>4, <1>6, <1>8
<1>11. PollTypes'
  BY <1>9, <1>10, PollStep
<1>12. \A q \in Party : Entries(poll'[q].page) \subseteq Entries(inbox[q]) \cup Entries(poll[q].page)
  <2>1. poll'[p] = call /\ \A q \in Party : q # p => poll'[q] = poll[q]
    BY <1>10 DEF TypeInv, PollTypes
  <2> QED
    BY <1>7, <1>9, <2>1
<1>13. StoreTypes'
  <2>1. /\ inbox' \in [Party -> Seq(Entry)]
        /\ \A q \in Party : Entries(inbox'[q]) \subseteq Entries(inbox[q])
    <3>1. PICK ack : ack = poll[p].ack
      OBVIOUS
    <3>2. inbox' = inbox \/ inbox' = [inbox EXCEPT ![p] = DropAcked(inbox[p], ack)]
      BY <1>2, <1>3, <3>1
    <3> QED
      BY <3>2, DrainedBox
  <2> QED
    BY <1>1, <1>3, <1>12, <2>1, StoreStep, BundleTypes
<1>14. PICK c \in ClientState : c = [mem[p] EXCEPT !.pending = 0] /\ SameCore(c, mem[p])
  BY <1>1, PendingTypes
<1>15. Leaves(p, c, disk[p]) /\ Limits(c)
  BY <1>1, <1>3, <1>14 DEF Leaves, ClientTypes, SameCore, Limits
<1>16. ClientTypes'
  BY <1>1, <1>14, <1>15, LeavesTypes
<1>17. TaskTypes' /\ HistoryTypes'
  BY <1>3, TaskSame DEF TypeInv, HistoryTypes
<1> QED
  BY <1>11, <1>13, <1>16, <1>17 DEF TypeInv

\* A failed DrainInbox keeps the types.
LEMMA DrainFailureKeepsTypes ==
    ASSUME TypeInv, NEW p \in Party, DrainInboxFails(p)
    PROVE  TypeInv'
<1>1. /\ mem[p] \in ClientState /\ disk[p] \in ClientState /\ Limits(mem[p]) /\ Limits(disk[p])
      /\ ClientTypes /\ poll[p] \in PollState(Entry) /\ Going(poll[p])
  BY UserTypes DEF TypeInv
<1>2. PICK n : n = IF poll[p].ack # 0 THEN poll[p].ack ELSE mem[p].pending
  OBVIOUS
<1>3. n \in Nat
  BY <1>1, <1>2, Fields DEF PollState
<1>4. /\ UNCHANGED <<disk, bundle, nextId, task, made, inits, posted, handed, missing, compared, cause>>
      /\ inbox' \in {inbox, [inbox EXCEPT ![p] = DropAcked(inbox[p], poll[p].ack)]}
      /\ mem' = [mem EXCEPT ![p] = [mem[p] EXCEPT !.pending = n]]
      /\ poll' = [poll EXCEPT ![p] = NotServed(poll[p])] /\ poll[p].pc = "drain"
  BY <1>2 DEF DrainInboxFails, history
<1>5. faults' \in 0 .. MaxFaults
  BY FaultEffect DEF DrainInboxFails
<1>6. PICK call : call = NotServed(poll[p])
  OBVIOUS
<1>7. call \in PollState(Entry) /\ Going(call) /\ call.page \in {<<>>, poll[p].page}
  BY <1>1, <1>4, <1>6, NotServedGoing
<1>8. PollTypes'
  BY <1>4, <1>6, <1>7, PollStep
<1>9. Entries(call.page) \subseteq Entries(poll[p].page)
  BY <1>7, EmptyBox
<1>10. \A q \in Party : Entries(poll'[q].page) \subseteq Entries(inbox[q]) \cup Entries(poll[q].page)
  BY <1>4, <1>6, <1>9, PageStep
<1>11. StoreTypes'
  <2>1. /\ inbox' \in [Party -> Seq(Entry)]
        /\ \A q \in Party : Entries(inbox'[q]) \subseteq Entries(inbox[q])
    <3>1. PICK ack : ack = poll[p].ack
      OBVIOUS
    <3>2. inbox' = inbox \/ inbox' = [inbox EXCEPT ![p] = DropAcked(inbox[p], ack)]
      BY <1>4, <3>1
    <3> QED
      BY <3>2, DrainedBox
  <2> QED
    BY <1>1, <1>4, <1>10, <2>1, StoreStep, BundleTypes
<1>12. PICK c \in ClientState : c = [mem[p] EXCEPT !.pending = n] /\ SameCore(c, mem[p])
  BY <1>1, <1>3, PendingTypes
<1>13. Leaves(p, c, disk[p]) /\ Limits(c)
  BY <1>1, <1>4, <1>12 DEF Leaves, ClientTypes, SameCore, Limits
<1>14. ClientTypes'
  BY <1>1, <1>12, <1>13, LeavesTypes
<1>15. TaskTypes' /\ HistoryTypes'
  BY <1>4, <1>5, TaskSame DEF TypeInv, HistoryTypes
<1> QED
  BY <1>8, <1>11, <1>14, <1>15 DEF TypeInv

\* The message in hand was posted to the user.
LEMMA InHand ==
    ASSUME TypeInv, NEW p \in Party, poll[p].pc = "handle"
    PROVE  /\ Head(poll[p].page).env \in posted[p] /\ Head(poll[p].page).env \in Initial
           /\ Head(poll[p].page).env.from \in Party /\ Head(poll[p].page).env.identity \in Nat
<1>1. /\ poll[p] \in PollState(Entry) /\ Going(poll[p]) /\ posted[p] \subseteq Initial
      /\ mem[p].pending \in Nat
  BY UserTypes, Fields
<1>2. Head(poll[p].page) \in Entries(poll[p].page)
  BY <1>1, EntryIds, HandledGoing
<1>3. Head(poll[p].page).env \in posted[p]
  BY <1>2 DEF TypeInv, StoreTypes
<1> QED
  BY <1>1, <1>3 DEF Initial

\* HandleInitialMessage accepts.
LEMMA AcceptEffect ==
    ASSUME TypeInv, PairInv, NEW p \in Party, HandleAccepted(p)
    PROVE  \E c \in ClientState, m \in posted[p], call \in PollState(Entry) :
             /\ Leaves(p, c, disk[p]) /\ poll' = [poll EXCEPT ![p] = call] /\ Going(call)
             /\ m \in Initial /\ Accepts(mem[p], m)
             /\ SameCore(c, Accept(mem[p], m)) /\ c.dirty = TRUE
             /\ call.out # <<>> /\ call.pc \in {"handle", "drain", "end"}
             /\ Entries(call.page) \subseteq Entries(poll[p].page)
             /\ poll[p].pc = "handle"
<1>1. /\ mem[p] \in ClientState /\ Limits(mem[p]) /\ poll[p] \in PollState(Entry) /\ Going(poll[p])
      /\ ClientTypes /\ poll \in [Party -> PollState(Entry)] /\ mem[p].pending \in Nat
  BY UserTypes, Fields DEF TypeInv, PollTypes
<1>2. PICK m : m = Head(poll[p].page).env
  OBVIOUS
<1>3. poll[p].pc = "handle" /\ Accepts(mem[p], m)
  BY <1>2 DEF HandleAccepted
<1>4. m \in posted[p] /\ m \in Initial
  BY <1>2, <1>3, InHand
<1>5. PICK call : call = Handled(poll[p])
  OBVIOUS
<1>6. /\ call \in PollState(Entry) /\ Going(call) /\ call.out # <<>>
      /\ call.pc \in {"handle", "drain", "end"} /\ Entries(call.page) \subseteq Entries(poll[p].page)
      /\ PendingAfter(call, mem[p].pending) \in Nat
  BY <1>1, <1>3, <1>5, EntryIds, HandledGoing
<1>7. poll' = [poll EXCEPT ![p] = call] /\ poll'[p] = call
  BY <1>1, <1>5 DEF HandleAccepted
<1>8. PICK a : a = Accept(mem[p], m)
  OBVIOUS
<1>9. HasPair(mem[p], m.pair) /\ \A i, j \in DOMAIN mem[p].pool : mem[p].pool[i] = mem[p].pool[j] => i = j
  BY <1>3 DEF Accepts, PairInv, PairsOk
<1>10. a \in ClientState /\ a.dirty = TRUE /\ a.pending = mem[p].pending
  BY <1>1, <1>4, <1>8, <1>9, Accepted
<1>11. PICK n \in Nat : n = PendingAfter(call, mem[p].pending)
  BY <1>6
<1>12. PICK c : c = [a EXCEPT !.pending = n]
  OBVIOUS
<1>13. c \in ClientState /\ SameCore(c, a) /\ c.dirty = TRUE
  BY <1>10, <1>12, PendingTypes
<1>14. mem' = [mem EXCEPT ![p] = c]
  <2>1. mem' = [mem EXCEPT ![p] = [a EXCEPT !.pending = PendingAfter(poll'[p], a.pending)]]
    BY <1>2, <1>8 DEF HandleAccepted
  <2> QED
    BY <1>7, <1>10, <1>11, <1>12, <2>1
<1>15. disk' = [disk EXCEPT ![p] = disk[p]]
  BY <1>1 DEF HandleAccepted, ClientTypes
<1>16. Leaves(p, c, disk[p])
  BY <1>14, <1>15 DEF Leaves
<1> QED
  BY <1>3, <1>4, <1>6, <1>7, <1>8, <1>13, <1>16

\* An accepted initial message keeps the types.
LEMMA AcceptKeepsTypes ==
    ASSUME TypeInv, PairInv, NEW p \in Party, HandleAccepted(p)
    PROVE  TypeInv'
<1>1. PICK c \in ClientState, m \in posted[p], call \in PollState(Entry) :
        /\ Leaves(p, c, disk[p]) /\ poll' = [poll EXCEPT ![p] = call] /\ Going(call)
        /\ m \in Initial /\ Accepts(mem[p], m) /\ SameCore(c, Accept(mem[p], m))
        /\ Entries(call.page) \subseteq Entries(poll[p].page)
  BY AcceptEffect
<1>2. /\ mem[p] \in ClientState /\ Limits(mem[p]) /\ disk[p] \in ClientState /\ Limits(disk[p])
      /\ ClientTypes
  BY UserTypes DEF TypeInv
<1>3. HasPair(mem[p], m.pair) /\ \A i, j \in DOMAIN mem[p].pool : mem[p].pool[i] = mem[p].pool[j] => i = j
  BY <1>1 DEF Accepts, PairInv, PairsOk
<1>4. Limits(Accept(mem[p], m))
  BY <1>1, <1>2, <1>3, Accepted
<1>5. Limits(c)
  BY <1>1, <1>4 DEF SameCore, Limits
<1>6. ClientTypes'
  BY <1>1, <1>2, <1>5, LeavesTypes
<1>7. /\ UNCHANGED <<bundle, inbox, nextId, task, made, inits, faults>>
      /\ UNCHANGED <<posted, handed, missing, compared, cause>>
  BY DEF HandleAccepted, store, history
<1>8. \A q \in Party : Entries(poll'[q].page) \subseteq Entries(poll[q].page)
  BY <1>1, PageStep
<1>9. PollTypes'
  BY <1>1, PollStep
<1>10. StoreTypes'
  BY <1>2, <1>7, <1>8, StoreSame, BundleTypes
<1>11. TaskTypes' /\ HistoryTypes'
  BY <1>7, TaskSame DEF TypeInv, HistoryTypes
<1> QED
  BY <1>6, <1>9, <1>10, <1>11 DEF TypeInv

\* A new message of a verified peer that lacks its pair, or is taken for a
\* replay.
NoPair(p, m) ==
    m.to = mem[p].self /\ Trusts(mem[p], m.from, m.identity) /\ ~HasAccepted(mem[p], m)

\* HandleInitialMessage refuses; met is what the handler saved.
LEMMA HandleRefusedEffect ==
    ASSUME TypeInv, NEW p \in Party, HandleRefused(p)
    PROVE  \E c, d, met \in ClientState, m \in posted[p], call \in PollState(Entry) :
             /\ Leaves(p, c, d) /\ poll' = [poll EXCEPT ![p] = call] /\ Going(call)
             /\ m \in Initial /\ ~Accepts(mem[p], m)
             /\ met \in {mem[p], Meet(mem[p], m.from, m.identity)}
             /\ c = [met EXCEPT !.pending = c.pending] /\ SameCore(c, met) /\ c.dirty = met.dirty
             /\ d \in {disk[p], met}
             /\ met # mem[p] /\ faults' = 0 /\ Persistable(met) => d = met
             /\ faults' \in 0 .. MaxFaults /\ faults <= faults'
             /\ call.out = poll[p].out /\ call.pc \in {"drain", "end"} /\ call.page = <<>>
             /\ poll[p].pc = "handle"
             /\ missing' = IF NoPair(p, m) THEN missing \cup {m.pair} ELSE missing
<1>1. /\ mem[p] \in ClientState /\ disk[p] \in ClientState /\ poll[p] \in PollState(Entry)
      /\ Going(poll[p]) /\ ClientTypes /\ poll \in [Party -> PollState(Entry)]
  BY UserTypes DEF TypeInv, PollTypes
<1>2. PICK m : m = Head(poll[p].page).env
  OBVIOUS
<1>3. poll[p].pc = "handle" /\ ~Accepts(mem[p], m)
  BY <1>2 DEF HandleRefused
<1>4. m \in posted[p] /\ m \in Initial /\ m.from \in Party /\ m.identity \in Nat
  BY <1>2, <1>3, InHand
<1>5. PICK first \in BOOLEAN : first = (Genuine(mem[p], m) /\ mem[p].peers[m.from] = None)
  OBVIOUS
<1>6. PICK met : met = IF first THEN Meet(mem[p], m.from, m.identity) ELSE mem[p]
  OBVIOUS
<1>7. met \in ClientState /\ met \in {mem[p], Meet(mem[p], m.from, m.identity)} /\ (~first => met = mem[p])
  BY <1>1, <1>4, <1>6, Met
<1>8. met.pending \in Nat
  BY <1>7, Fields
<1>9. PICK call : call = Refused(poll[p])
  OBVIOUS
<1>10. /\ call \in PollState(Entry) /\ Going(call) /\ call.page = <<>> /\ call.out = poll[p].out
       /\ call.pc \in {"drain", "end"} /\ PendingAfter(call, met.pending) \in Nat
  BY <1>1, <1>3, <1>8, <1>9, EntryIds, RefusedGoing
<1>11. poll' = [poll EXCEPT ![p] = call] /\ poll'[p] = call
  BY <1>1, <1>9 DEF HandleRefused
<1>12. PICK n \in Nat : n = PendingAfter(call, met.pending)
  BY <1>10
<1>13. PICK c : c = [met EXCEPT !.pending = n]
  OBVIOUS
<1>14. c \in ClientState /\ SameCore(c, met) /\ c.dirty = met.dirty /\ c.pending = n
  BY <1>7, <1>13, PendingTypes
<1>15. mem' = [mem EXCEPT ![p] = c]
  <2>1. mem' = [mem EXCEPT ![p] = [met EXCEPT !.pending = PendingAfter(poll'[p], met.pending)]]
    BY <1>2, <1>5, <1>6 DEF HandleRefused
  <2> QED
    BY <1>11, <1>12, <1>13, <2>1
<1>16. missing' = IF NoPair(p, m) THEN missing \cup {m.pair} ELSE missing
  BY <1>2 DEF HandleRefused, NoPair
<1>17. \E d \in {disk[p], met} :
         /\ disk' = [disk EXCEPT ![p] = d] /\ faults' \in 0 .. MaxFaults /\ faults <= faults'
         /\ met # mem[p] /\ faults' = 0 /\ Persistable(met) => d = met
  <2>1. CASE first
    <3>1. PICK ok \in BOOLEAN : SaveOf(p, met, ok)
      BY <1>2, <1>5, <1>6, <2>1 DEF HandleRefused
    <3>2. PICK d \in {disk[p], met} :
            disk' = [disk EXCEPT ![p] = d] /\ (faults' = 0 /\ Persistable(met) => d = met)
      BY <1>7, <3>1, SaveEffect
    <3>3. faults' \in 0 .. MaxFaults /\ faults <= faults'
      BY <1>7, <3>1, SaveEffect
    <3> QED
      BY <3>2, <3>3
  <2>2. CASE ~first
    <3>1. UNCHANGED <<disk, faults>>
      BY <1>2, <1>5, <2>2 DEF HandleRefused
    <3>2. disk' = [disk EXCEPT ![p] = disk[p]]
      BY <1>1, <3>1 DEF ClientTypes
    <3>3. faults' \in 0 .. MaxFaults /\ faults <= faults'
      BY <3>1, HandshakeAssumption DEF TypeInv, HistoryTypes
    <3> QED
      BY <1>7, <2>2, <3>2, <3>3
  <2> QED
    BY <2>1, <2>2
<1>18. PICK d \in {disk[p], met} :
         /\ disk' = [disk EXCEPT ![p] = d] /\ faults' \in 0 .. MaxFaults /\ faults <= faults'
         /\ met # mem[p] /\ faults' = 0 /\ Persistable(met) => d = met
  BY <1>17
<1>19. Leaves(p, c, d) /\ d \in ClientState
  BY <1>1, <1>7, <1>15, <1>18 DEF Leaves
<1>20. c = [met EXCEPT !.pending = c.pending]
  BY <1>13, <1>14
<1> QED
  BY <1>3, <1>4, <1>7, <1>10, <1>11, <1>14, <1>16, <1>18, <1>19, <1>20

\* A refused initial message keeps the types.
LEMMA HandleRefusedKeepsTypes ==
    ASSUME TypeInv, NEW p \in Party, HandleRefused(p)
    PROVE  TypeInv'
<1>1. PICK c \in ClientState, d \in ClientState, met \in ClientState, m \in posted[p],
           call \in PollState(Entry) :
        /\ Leaves(p, c, d) /\ poll' = [poll EXCEPT ![p] = call] /\ Going(call) /\ m \in Initial
        /\ met \in {mem[p], Meet(mem[p], m.from, m.identity)} /\ SameCore(c, met)
        /\ d \in {disk[p], met} /\ faults' \in 0 .. MaxFaults /\ call.page = <<>>
        /\ missing' = IF NoPair(p, m) THEN missing \cup {m.pair} ELSE missing
  BY HandleRefusedEffect
<1>2. /\ mem[p] \in ClientState /\ Limits(mem[p]) /\ disk[p] \in ClientState /\ Limits(disk[p])
      /\ ClientTypes
  BY UserTypes DEF TypeInv
<1>3. m.from \in Party /\ m.identity \in Nat /\ m.pair \in Pair
  BY <1>1 DEF Initial
<1>4. met.pool = mem[p].pool /\ met.guards = mem[p].guards
  <2>1. PICK r : r = Meet(mem[p], m.from, m.identity)
    OBVIOUS
  <2>2. r.pool = mem[p].pool /\ r.guards = mem[p].guards
    BY <1>2, <1>3, <2>1, Met
  <2> QED
    BY <1>1, <2>1, <2>2
<1>5. Limits(c) /\ Limits(d)
  BY <1>1, <1>2, <1>4 DEF SameCore, Limits
<1>6. ClientTypes'
  BY <1>1, <1>2, <1>5, LeavesTypes
<1>7. UNCHANGED <<bundle, inbox, nextId, task, made, inits, posted, handed, compared>>
      /\ cause' \subseteq cause \cup {"midpage"}
  BY DEF HandleRefused, store
<1>8. \A q \in Party : Entries(poll'[q].page) \subseteq Entries(poll[q].page)
  BY <1>1, EmptyPage, PageStep
<1>9. PollTypes'
  BY <1>1, PollStep
<1>10. StoreTypes'
  BY <1>2, <1>7, <1>8, StoreSame, BundleTypes
<1>11. missing' \subseteq Pair
  BY <1>1, <1>3 DEF TypeInv, HistoryTypes
<1>12. TaskTypes'
  BY <1>7, TaskSame
<1>13. HistoryTypes'
  BY <1>1, <1>7, <1>11 DEF TypeInv, HistoryTypes, Reasons, Partings
<1> QED
  BY <1>6, <1>9, <1>10, <1>12, <1>13 DEF TypeInv

\* The end of ProcessInbox at its limit of passes keeps the types.
LEMMA GiveUpKeepsTypes ==
    ASSUME TypeInv, NEW p \in Party, GiveUp(p)
    PROVE  TypeInv'
<1>1. mem[p] \in ClientState
  BY UserTypes
<1>2. /\ UNCHANGED <<mem, disk, bundle, inbox, nextId, task, made, inits, faults>>
      /\ UNCHANGED <<posted, handed, missing, compared, cause>>
      /\ poll' = [poll EXCEPT ![p] = Idle]
  BY DEF GiveUp, store, history
<1>3. \A q \in Party : Entries(poll'[q].page) \subseteq Entries(poll[q].page)
  BY <1>2, EmptyPage, PageStep, IdleGoing
<1>4. PollTypes'
  BY <1>2, PollStep, IdleGoing
<1>5. StoreTypes'
  BY <1>1, <1>2, <1>3, StoreSame, BundleTypes
<1>6. TaskTypes' /\ ClientTypes' /\ HistoryTypes'
  BY <1>2, TaskSame DEF TypeInv, ClientTypes, HistoryTypes, Limits
<1> QED
  BY <1>4, <1>5, <1>6 DEF TypeInv

\* SaveLocalState at the end of ProcessInbox.
LEMMA EndEffect ==
    ASSUME TypeInv, NEW p \in Party, SaveLocalState(p)
    PROVE  \E d \in {disk[p], mem[p]} :
             /\ Leaves(p, mem[p], d)
             /\ faults' \in 0 .. MaxFaults /\ faults <= faults'
             /\ faults' = 0 /\ Persistable(mem[p]) => d = mem[p]
<1>1. mem[p] \in ClientState /\ mem \in [Party -> ClientState]
  BY UserTypes DEF TypeInv, ClientTypes
<1>2. mem' = mem /\ mem' = [mem EXCEPT ![p] = mem[p]]
  BY <1>1 DEF SaveLocalState
<1>3. PICK ok \in BOOLEAN : SaveOf(p, mem[p], ok)
  BY <1>2 DEF SaveLocalState, Save
<1>4. PICK d \in {disk[p], mem[p]} :
        disk' = [disk EXCEPT ![p] = d] /\ (faults' = 0 /\ Persistable(mem[p]) => d = mem[p])
  BY <1>1, <1>3, SaveEffect
<1>5. faults' \in 0 .. MaxFaults /\ faults <= faults'
  BY <1>1, <1>3, SaveEffect
<1> QED
  BY <1>2, <1>4, <1>5 DEF Leaves

\* The save at the end of ProcessInbox keeps the types.
LEMMA EndKeepsTypes ==
    ASSUME TypeInv, NEW p \in Party, SaveLocalState(p)
    PROVE  TypeInv'
<1>1. /\ mem[p] \in ClientState /\ disk[p] \in ClientState /\ Limits(mem[p]) /\ Limits(disk[p])
      /\ ClientTypes
  BY UserTypes DEF TypeInv
<1>2. PICK d \in {disk[p], mem[p]} : Leaves(p, mem[p], d) /\ faults' \in 0 .. MaxFaults
  BY EndEffect
<1>3. ClientTypes'
  BY <1>1, <1>2, LeavesTypes
<1>4. /\ UNCHANGED <<bundle, inbox, nextId, task, made, inits, posted, handed, missing, compared, cause>>
      /\ poll' = [poll EXCEPT ![p] = Idle]
  BY DEF SaveLocalState, store, history
<1>5. \A q \in Party : Entries(poll'[q].page) \subseteq Entries(poll[q].page)
  BY <1>4, EmptyPage, PageStep, IdleGoing
<1>6. PollTypes'
  BY <1>4, PollStep, IdleGoing
<1>7. StoreTypes'
  BY <1>1, <1>4, <1>5, StoreSame, BundleTypes
<1>8. TaskTypes' /\ HistoryTypes'
  BY <1>2, <1>4, TaskSame DEF TypeInv, HistoryTypes
<1> QED
  BY <1>3, <1>6, <1>7, <1>8 DEF TypeInv

\* Create loads and refills the state file.
LEMMA RecreateEffect ==
    ASSUME TypeInv, NEW p \in Party, Recreate(p)
    PROVE  /\ Leaves(p, Refill(p, disk[p]), Refill(p, disk[p]))
           /\ Refill(p, disk[p]) \in ClientState /\ Limits(Refill(p, disk[p]))
           /\ made' = [made EXCEPT ![p] = made[p] + Lacking(disk[p])] /\ Lacking(disk[p]) \in Nat
           /\ ClientTypes' /\ PollTypes'
           /\ task' = [task EXCEPT ![p] = NoTask]
           /\ \A q \in Party : Entries(poll'[q].page) \subseteq Entries(poll[q].page)
<1>1. disk[p] \in ClientState /\ Limits(disk[p]) /\ ClientTypes
  BY UserTypes DEF TypeInv
<1>2. PICK c : c = Refill(p, disk[p])
  OBVIOUS
<1>3. c \in ClientState /\ Limits(c) /\ Lacking(disk[p]) \in Nat
  BY <1>1, <1>2, RefilledLimits
<1>4. Leaves(p, c, c) /\ made' = [made EXCEPT ![p] = made[p] + Lacking(disk[p])]
  BY <1>2 DEF Recreate, Loaded, Leaves
<1>5. ClientTypes'
  BY <1>1, <1>3, <1>4, LeavesTypes
<1>6. poll' = [poll EXCEPT ![p] = Idle] /\ task' = [task EXCEPT ![p] = NoTask]
  BY DEF Recreate
<1>7. \A q \in Party : Entries(poll'[q].page) \subseteq Entries(poll[q].page)
  BY <1>6, EmptyPage, PageStep, IdleGoing
<1>8. PollTypes'
  BY <1>6, PollStep, IdleGoing
<1> QED
  BY <1>2, <1>3, <1>4, <1>5, <1>6, <1>7, <1>8

\* A restart, idle or in the middle of InitiateSession, keeps the types.
LEMMA RestartKeepsTypes ==
    ASSUME TypeInv, NEW p \in Party, Restart(p) \/ InitiateCrash(p)
    PROVE  TypeInv'
<1>1. Recreate(p) /\ mem[p] \in ClientState
  BY UserTypes DEF Restart, InitiateCrash
<1>2. /\ ClientTypes' /\ PollTypes' /\ task' = [task EXCEPT ![p] = NoTask]
      /\ made' = [made EXCEPT ![p] = made[p] + Lacking(disk[p])] /\ Lacking(disk[p]) \in Nat
      /\ \A q \in Party : Entries(poll'[q].page) \subseteq Entries(poll[q].page)
  BY <1>1, RecreateEffect
<1>3. UNCHANGED <<bundle, inits, handed, missing, compared>>
  BY DEF Restart, InitiateCrash, store
<1>4. TaskTypes'
  BY <1>2, <1>3, TaskStep, TaskKinds
<1>5. StoreTypes'
  <2>1. CASE Restart(p)
    <3>1. UNCHANGED <<inbox, nextId, posted>>
      BY <2>1 DEF Restart, store
    <3> QED
      BY <1>1, <1>2, <1>3, <3>1, StoreSame, BundleTypes
  <2>2. CASE InitiateCrash(p)
    BY <1>2, <1>3, <2>2, PostTypes DEF InitiateCrash
  <2> QED
    BY <2>1, <2>2
<1>6. made' \in [Party -> Nat]
  BY <1>2, MadeMore
<1>7. faults' \in 0 .. MaxFaults
  BY FaultEffect DEF Restart, InitiateCrash
<1>8. cause' \subseteq Reasons
  <2>1. cause \subseteq Reasons
    BY DEF TypeInv, HistoryTypes
  <2>2. cause' \subseteq cause \cup {"pool", "session", "unacked"}
    BY DEF Restart, InitiateCrash, Lost
  <2> QED
    BY <2>1, <2>2 DEF Reasons, Partings
<1>9. HistoryTypes'
  BY <1>3, <1>6, <1>7, <1>8 DEF TypeInv, HistoryTypes
<1> QED
  BY <1>2, <1>4, <1>5, <1>9 DEF TypeInv

\* Create without a state file.
LEMMA LossEffect ==
    ASSUME TypeInv, NEW p \in Party, LoseStateFile(p)
    PROVE  \E c \in ClientState :
             /\ Leaves(p, c, c) /\ Limits(c) /\ c = NewClient(mem[p].self + 1, FreshPool(p, made[p]))
             /\ made' = [made EXCEPT ![p] = made[p] + PoolTarget] /\ PoolTarget \in Nat
             /\ mem[p].self \in Nat
<1>1. mem[p].self \in Nat /\ made[p] \in Nat /\ mem \in [Party -> ClientState] /\ PoolTarget \in Nat
  BY UserTypes, Fields, HandshakeAssumption DEF TypeInv, ClientTypes
<1>2. PICK k \in Nat : k = mem[p].self + 1
  BY <1>1
<1>3. PICK c : c = NewClient(k, FreshPool(p, made[p]))
  OBVIOUS
<1>4. c \in ClientState /\ Limits(c)
  BY <1>1, <1>3, Fresh
<1>5. mem' = [mem EXCEPT ![p] = c] /\ mem'[p] = c
  BY <1>1, <1>2, <1>3 DEF LoseStateFile
<1>6. disk' = [disk EXCEPT ![p] = c] /\ made' = [made EXCEPT ![p] = made[p] + PoolTarget]
  BY <1>5 DEF LoseStateFile
<1> QED
  BY <1>1, <1>2, <1>3, <1>4, <1>5, <1>6 DEF Leaves

\* A client that starts without its state file keeps the types.
LEMMA LossKeepsTypes ==
    ASSUME TypeInv, NEW p \in Party, LoseStateFile(p)
    PROVE  TypeInv'
<1>1. PICK c \in ClientState :
        /\ Leaves(p, c, c) /\ Limits(c)
        /\ made' = [made EXCEPT ![p] = made[p] + PoolTarget] /\ PoolTarget \in Nat
  BY LossEffect
<1>2. ClientTypes' /\ mem[p] \in ClientState
  BY <1>1, LeavesTypes, UserTypes DEF TypeInv
<1>3. /\ UNCHANGED <<bundle, inbox, nextId, inits, posted, handed, missing>>
      /\ poll' = [poll EXCEPT ![p] = Idle] /\ task' = [task EXCEPT ![p] = NoTask]
      /\ compared' = [x \in Party \X Party |-> IF x[1] = p THEN {} ELSE compared[x]]
      /\ cause' = cause \cup {"identity"}
  BY DEF LoseStateFile, store
<1>4. \A q \in Party : Entries(poll'[q].page) \subseteq Entries(poll[q].page)
  BY <1>3, EmptyPage, PageStep, IdleGoing
<1>5. PollTypes' /\ TaskTypes'
  BY <1>3, PollStep, IdleGoing, TaskStep, TaskKinds
<1>6. StoreTypes'
  BY <1>2, <1>3, <1>4, StoreSame, BundleTypes
<1>7. made' \in [Party -> Nat]
  BY <1>1, MadeMore
<1>8. faults' \in 0 .. MaxFaults
  BY FaultEffect DEF LoseStateFile
<1>9. compared' \in [Party \X Party -> SUBSET Nat]
  <2>1. compared \in [Party \X Party -> SUBSET Nat]
    BY DEF TypeInv, HistoryTypes
  <2> QED
    BY <1>3, <2>1
<1>10. HistoryTypes'
  BY <1>3, <1>7, <1>8, <1>9 DEF TypeInv, HistoryTypes, Reasons, Partings
<1> QED
  BY <1>2, <1>5, <1>6, <1>10 DEF TypeInv

\* An initial message delivered again keeps the types.
LEMMA ReplayKeepsTypes ==
    ASSUME TypeInv, NEW p \in Party, Replay(p)
    PROVE  TypeInv'
<1>1. PICK m \in posted[p] : inbox' = [inbox EXCEPT ![p] = EnqueueEnvelope(inbox[p], nextId[p], m)]
  BY DEF Replay
<1>2. /\ UNCHANGED <<mem, disk, bundle, poll, task, made, inits, posted, handed, missing, compared>>
      /\ nextId' = [nextId EXCEPT ![p] = nextId[p] + 1]
      /\ cause' = cause \cup {"replayed"}
  BY DEF Replay
<1>3. inbox[p] \in Seq(Entry) /\ nextId[p] \in Nat \ {0} /\ m \in Initial
  BY <1>1, UserTypes
<1>4. [id |-> nextId[p], env |-> m] \in Entry
  BY <1>3 DEF Entry
<1>5. PICK box \in Seq(Entry) : /\ box = EnqueueEnvelope(inbox[p], nextId[p], m)
                                /\ Entries(box) = Entries(inbox[p]) \cup {[id |-> nextId[p], env |-> m]}
  BY <1>3, <1>4, OneMore
<1>6. /\ inbox \in [Party -> Seq(Entry)] /\ nextId \in [Party -> Nat \ {0}]
      /\ \A r \in Party : \A e \in Entries(inbox[r]) \cup Entries(poll[r].page) : e.env \in posted[r]
      /\ bundle' \in [Party -> [identity : Nat, pairs : Seq(Pair)]]
      /\ posted' \in [Party -> SUBSET Initial]
  BY <1>2 DEF TypeInv, StoreTypes
<1>7. /\ inbox' \in [Party -> Seq(Entry)] /\ inbox'[p] = box
      /\ \A r \in Party : r # p => inbox'[r] = inbox[r]
  BY <1>1, <1>5, <1>6
<1>8. nextId' \in [Party -> Nat \ {0}]
  BY <1>2, <1>3, <1>6
<1>9. ASSUME NEW r \in Party, NEW e \in Entries(inbox'[r]) \cup Entries(poll'[r].page)
      PROVE  e.env \in posted'[r]
  <2>1. CASE e \in Entries(inbox[r]) \cup Entries(poll[r].page)
    BY <1>2, <1>6, <2>1
  <2>2. CASE r = p /\ e = [id |-> nextId[p], env |-> m]
    BY <1>1, <1>2, <2>2
  <2> QED
    BY <1>2, <1>5, <1>7, <1>9, <2>1, <2>2
<1>10. StoreTypes'
  BY <1>6, <1>7, <1>8, <1>9 DEF StoreTypes, Entries
<1>11. faults' \in 0 .. MaxFaults
  BY FaultEffect DEF Replay
<1>12. ClientTypes' /\ PollTypes' /\ TaskTypes'
  BY <1>2, PollSame, TaskSame DEF TypeInv, ClientTypes, Limits
<1>13. HistoryTypes'
  BY <1>2, <1>11 DEF TypeInv, HistoryTypes, Reasons, Partings
<1> QED
  BY <1>10, <1>12, <1>13 DEF TypeInv

\* The clients just created have the types.
LEMMA InitialTypes == Init => TypeInv
<1> SUFFICES ASSUME Init PROVE TypeInv
  OBVIOUS
<1>1. \A p \in Party : Created(p) \in ClientState /\ Limits(Created(p))
  BY CreatedTypes
<1>2. /\ mem = [p \in Party |-> Created(p)] /\ disk = mem
      /\ bundle = [p \in Party |-> [identity |-> 1, pairs |-> mem[p].pool]]
      /\ inbox = [p \in Party |-> <<>>] /\ nextId = [p \in Party |-> 1]
      /\ poll = [p \in Party |-> Idle] /\ task = [p \in Party |-> NoTask]
      /\ made = [p \in Party |-> PoolTarget] /\ inits = [p \in Party |-> 0] /\ faults = 0
      /\ posted = [p \in Party |-> {}] /\ handed = [p \in Party |-> <<>>] /\ missing = {}
      /\ compared = [c \in Party \X Party |-> IF c \in Contacts THEN {1} ELSE {}] /\ cause = {}
  BY DEF Init
<1>3. ClientTypes
  BY <1>1, <1>2 DEF ClientTypes
<1>4. \A p \in Party : mem[p].pool \in Seq(Pair)
  BY <1>3, Fields DEF ClientTypes
<1>5. bundle \in [Party -> [identity : Nat, pairs : Seq(Pair)]]
  BY <1>2, <1>4
<1>6. <<>> \in Seq(Entry) /\ Entries(<<>>) = {} /\ <<>> \in Seq(Pair)
  BY EmptyBox
<1>7. inbox \in [Party -> Seq(Entry)] /\ nextId \in [Party -> Nat \ {0}] /\ posted \in [Party -> SUBSET Initial]
  BY <1>2, <1>6
<1>8. \A p \in Party : Entries(inbox[p]) = {} /\ Entries(poll[p].page) = {}
  BY <1>2, <1>6, IdleGoing
<1>9. StoreTypes
  BY <1>5, <1>7, <1>8 DEF StoreTypes
<1>10. PollTypes
  BY <1>2, IdleGoing DEF PollTypes
<1>11. TaskTypes
  BY <1>2, TaskKinds DEF TaskTypes
<1>12. HistoryTypes
  <2>1. PoolTarget \in Nat /\ 0 \in 0 .. MaxFaults
    BY HandshakeAssumption
  <2>2. compared \in [Party \X Party -> SUBSET Nat]
    BY <1>2
  <2> QED
    BY <1>2, <1>6, <2>1, <2>2 DEF HistoryTypes
<1> QED
  BY <1>3, <1>9, <1>10, <1>11, <1>12 DEF TypeInv

\* Every step keeps the types.
LEMMA TypeStep == TypeInv /\ PairInv /\ [Next]_vars => TypeInv'
<1> SUFFICES ASSUME TypeInv, PairInv, [Next]_vars PROVE TypeInv'
  OBVIOUS
<1>1. CASE UNCHANGED vars
  <2>1. /\ UNCHANGED <<mem, disk, bundle, inbox, nextId, poll, task, made, inits, faults>>
        /\ UNCHANGED <<posted, handed, missing, compared, cause>>
    BY <1>1 DEF vars, store, history
  <2> QED
    BY <2>1 DEF TypeInv, ClientTypes, Limits, StoreTypes, Entries, TaskTypes, PollTypes, Going, HistoryTypes
<1>2. ASSUME NEW p \in Party,
             \/ PublishPrekeys(p)
             \/ \E q \in Party : AcquireBundle(p, q) \/ VerifyPeerSafetyNumber(p, q)
             \/ ProcessInbox(p) \/ CallStep(p)
             \/ InitiateNotPosted(p) \/ InitiateCrash(p) \/ DrainInboxFails(p)
             \/ Restart(p) \/ LoseStateFile(p) \/ Replay(p)
      PROVE  TypeInv'
  <2>1. CASE CallStep(p)
    BY <2>1, DrainKeepsTypes, AcceptKeepsTypes, HandleRefusedKeepsTypes, RepublishKeepsTypes,
       SavePrekeysKeepsTypes, GiveUpKeepsTypes, EndKeepsTypes, RefusalKeepsTypes, BeginKeepsTypes
       DEF CallStep
  <2>2. CASE ~CallStep(p)
    BY <1>2, <2>2, PublishKeepsTypes, AcquireKeepsTypes, VerifyKeepsTypes, StartKeepsTypes,
       BeginKeepsTypes, RestartKeepsTypes, DrainFailureKeepsTypes, LossKeepsTypes, ReplayKeepsTypes
  <2> QED
    BY <2>1, <2>2
<1> QED
  BY <1>1, <1>2 DEF Next

----------------------------------------------------------------------------
\* One-time pairs.

\* The steps that change neither pools, guards, peers nor sessions.
Quiet(p) ==
    \/ PublishPrekeys(p) \/ SavePrekeys(p) \/ \E q \in Party : AcquireBundle(p, q)
    \/ ProcessInbox(p) \/ DrainInbox(p) \/ DrainInboxFails(p) \/ GiveUp(p) \/ SaveLocalState(p)
    \/ Replay(p)

\* The steps that leave the pools alone.
PoolsAlone(p) ==
    \/ Quiet(p) \/ \E q \in Party : VerifyPeerSafetyNumber(p, q)
    \/ HandleRefused(p) \/ InitiateRefused(p) \/ InitiateSession(p) \/ InitiateNotPosted(p)

\* A new client c of p took over pools and messages of b.
SamePools(c, b) == c.self = b.self /\ c.pool = b.pool /\ c.accepted = b.accepted

\* A step that changes no client leaves each as it was.
LEMMA StillClients ==
    ASSUME TypeInv, NEW p \in Party, mem' = mem, disk' = disk
    PROVE  Leaves(p, mem[p], disk[p])
BY DEF TypeInv, ClientTypes, Leaves

\* The steps that touch no pool, session or contact save the client or not,
\* and otherwise leave it alone.
LEMMA QuietKept ==
    ASSUME TypeInv, NEW p \in Party, Quiet(p)
    PROVE  /\ \E c, d \in ClientState :
                /\ Leaves(p, c, d) /\ SameCore(c, mem[p]) /\ (c.dirty = mem[p].dirty \/ (~c.dirty /\ PublishPrekeys(p)))
                /\ d = disk[p] \/ (SameCore(d, c) /\ d.dirty = c.dirty)
           /\ made' = made /\ compared' = compared
<1>1. mem[p] \in ClientState /\ disk[p] \in ClientState /\ mem \in [Party -> ClientState]
      /\ disk \in [Party -> ClientState]
  BY UserTypes DEF TypeInv, ClientTypes
<1>0. SameCore(mem[p], mem[p])
  BY DEF SameCore
<1>2. CASE PublishPrekeys(p)
  <2>1. PICK clean : clean = [mem[p] EXCEPT !.dirty = FALSE]
    OBVIOUS
  <2>2. clean \in ClientState /\ SameCore(clean, mem[p]) /\ clean.dirty = FALSE
    BY <1>1, <2>1, CleanTypes DEF ClientState
  <2>3. PICK c \in {mem[p], clean} : mem' = [mem EXCEPT ![p] = c]
    BY <1>2, <2>1 DEF PublishPrekeys, Publish, PublishFails
  <2>4. disk' = [disk EXCEPT ![p] = disk[p]] /\ made' = made /\ compared' = compared
    BY <1>1, <1>2 DEF PublishPrekeys, history
  <2> QED
    BY <1>1, <1>2, <2>2, <2>3, <2>4 DEF Leaves, SameCore
<1>3. CASE SavePrekeys(p)
  <2>1. PICK ok \in BOOLEAN : SaveOf(p, mem[p], ok)
    BY <1>3 DEF SavePrekeys, history
  <2>2. PICK d \in {disk[p], mem[p]} : disk' = [disk EXCEPT ![p] = d]
    BY <1>1, <2>1, SaveEffect
  <2>3. mem' = [mem EXCEPT ![p] = mem[p]] /\ made' = made /\ compared' = compared
    BY <1>1, <1>3 DEF SavePrekeys, history
  <2> QED
    BY <1>0, <1>1, <2>2, <2>3 DEF Leaves
<1>4. CASE \E q \in Party : AcquireBundle(p, q)
  <2>1. mem' = mem /\ disk' = disk /\ made' = made /\ compared' = compared
    BY <1>4 DEF AcquireBundle, history
  <2> QED
    BY <1>0, <1>1, <2>1, StillClients
<1>6. CASE ProcessInbox(p) \/ GiveUp(p) \/ Replay(p)
  <2>1. mem' = mem /\ disk' = disk /\ made' = made /\ compared' = compared
    BY <1>6 DEF ProcessInbox, GiveUp, Replay, history
  <2> QED
    BY <1>0, <1>1, <2>1, StillClients
<1>7. CASE DrainInbox(p) \/ DrainInboxFails(p)
  <2>1. PICK n : /\ mem' = [mem EXCEPT ![p] = [mem[p] EXCEPT !.pending = n]]
                 /\ n \in {0, poll[p].ack, mem[p].pending}
    <3>1. CASE DrainInbox(p)
      BY <3>1 DEF DrainInbox
    <3>2. CASE DrainInboxFails(p)
      <4>1. mem' = [mem EXCEPT ![p] = [mem[p] EXCEPT !.pending = IF poll[p].ack # 0 THEN poll[p].ack ELSE mem[p].pending]]
        BY <3>2 DEF DrainInboxFails
      <4> QED
        BY <4>1
    <3> QED
      BY <1>7, <3>1, <3>2
  <2>2. n \in Nat
    <3>1. poll[p].ack \in Nat /\ mem[p].pending \in Nat
      BY UserTypes, Fields DEF PollState
    <3> QED
      BY <2>1, <3>1
  <2>3. PICK c \in ClientState : /\ c = [mem[p] EXCEPT !.pending = n] /\ SameCore(c, mem[p])
                                 /\ c.dirty = mem[p].dirty
    BY <1>1, <2>2, PendingTypes, ZenonT(30)
  <2>4. disk' = [disk EXCEPT ![p] = disk[p]] /\ made' = made /\ compared' = compared
    BY <1>1, <1>7 DEF DrainInbox, DrainInboxFails, history
  <2> QED
    BY <1>1, <2>1, <2>3, <2>4 DEF Leaves, SameCore
<1>9. CASE SaveLocalState(p)
  <2>1. PICK d \in {disk[p], mem[p]} : Leaves(p, mem[p], d)
    BY <1>9, EndEffect
  <2>2. made' = made /\ compared' = compared
    BY <1>9 DEF SaveLocalState, history
  <2> QED
    BY <1>0, <1>1, <2>1, <2>2
<1> QED
  BY <1>2, <1>3, <1>4, <1>6, <1>7, <1>9 DEF Quiet

\* A session is begun: all but the guards and the sessions stays.
LEMMA EstablishedSame ==
    ASSUME NEW c \in ClientState, Limits(c), NEW q \in Party, NEW n \in Nat, NEW m \in Initial,
           NEW r, r = WithSession(c, q, n, m)
    PROVE  /\ r.self = c.self /\ r.pool = c.pool /\ r.peers = c.peers /\ r.dirty = c.dirty
           /\ r.accepted = c.accepted /\ r.pending = c.pending
BY DEF WithSession, ClientState

\* The steps that touch no pool leave the pairs of the client, in memory and in
\* the state file, alone.
LEMMA PoolsKept ==
    ASSUME TypeInv, NEW p \in Party, PoolsAlone(p)
    PROVE  /\ \E c, d \in ClientState :
                /\ Leaves(p, c, d) /\ SamePools(c, mem[p]) /\ (c.dirty = mem[p].dirty \/ (~c.dirty /\ PublishPrekeys(p)))
                /\ d = disk[p] \/ (SamePools(d, c) /\ d.dirty = c.dirty)
           /\ made' = made
<1>1. mem[p] \in ClientState /\ disk[p] \in ClientState /\ mem \in [Party -> ClientState]
      /\ disk \in [Party -> ClientState]
  BY UserTypes DEF TypeInv, ClientTypes
<1>0. SamePools(mem[p], mem[p])
  BY DEF SamePools
<1>2. CASE Quiet(p)
  BY <1>2, QuietKept DEF SameCore, SamePools
<1>5. CASE \E q \in Party : VerifyPeerSafetyNumber(p, q)
  <2>1. PICK q \in Party : VerifyPeerSafetyNumber(p, q)
    BY <1>5
  <2>2. PICK c \in ClientState, d \in ClientState :
          /\ Leaves(p, c, d) /\ d \in {disk[p], c} /\ c.self = mem[p].self /\ c.pool = mem[p].pool
          /\ c.accepted = mem[p].accepted /\ c.dirty = mem[p].dirty
    BY <2>1, VerifyEffect
  <2>3. made' = made
    BY <2>1 DEF VerifyPeerSafetyNumber
  <2> QED
    BY <2>2, <2>3 DEF SamePools
<1>8. CASE HandleRefused(p)
  <2>1. PICK c \in ClientState, d \in ClientState, met \in ClientState, m \in posted[p],
             call \in PollState(Entry) :
          /\ Leaves(p, c, d) /\ m \in Initial /\ met \in {mem[p], Meet(mem[p], m.from, m.identity)}
          /\ SameCore(c, met) /\ c.dirty = met.dirty /\ d \in {disk[p], met}
    BY <1>8, HandleRefusedEffect
  <2>2. m.from \in Party /\ m.identity \in Nat
    BY <2>1 DEF Initial
  <2>3. SamePools(met, mem[p]) /\ met.dirty = mem[p].dirty
    <3>1. PICK r : r = Meet(mem[p], m.from, m.identity)
      OBVIOUS
    <3>2. r.self = mem[p].self /\ r.pool = mem[p].pool /\ r.accepted = mem[p].accepted /\ r.dirty = mem[p].dirty
      BY <1>1, <2>2, <3>1, Met, ZenonT(30)
    <3> QED
      BY <2>1, <3>1, <3>2 DEF SamePools
  <2>4. made' = made
    BY <1>8 DEF HandleRefused
  <2> QED
    BY <2>1, <2>3, <2>4 DEF SameCore, SamePools
<1>10. CASE InitiateRefused(p)
  <2>1. PICK c \in ClientState, d \in ClientState :
          /\ Leaves(p, c, d) /\ d \in {disk[p], c} /\ task[p].peer \in Party /\ task[p].identity \in Nat
          /\ c = Meet(mem[p], task[p].peer, task[p].identity)
    BY <1>10, RefusalEffect
  <2>2. SamePools(c, mem[p]) /\ c.dirty = mem[p].dirty
    BY <1>1, <2>1, Met, ZenonT(30) DEF SamePools
  <2>3. made' = made
    BY <1>10 DEF InitiateRefused
  <2> QED
    BY <2>1, <2>2, <2>3 DEF SamePools
<1>11. CASE InitiateSession(p) \/ InitiateNotPosted(p)
  <2>1. PICK c \in ClientState, d \in ClientState :
          /\ Leaves(p, c, d) /\ d \in {disk[p], c} /\ Acquired(p) /\ task[p].pair # None
          /\ c = WithSession(mem[p], task[p].peer, task[p].identity, Begun(p))
    BY <1>11, BeginEffect
  <2>2. PICK q \in Party, n \in Nat, m \in Initial :
          q = task[p].peer /\ n = task[p].identity /\ m = Begun(p)
    BY <2>1, BegunTypes
  <2>3. c = WithSession(mem[p], q, n, m)
    BY <2>1, <2>2
  <2>4. SamePools(c, mem[p]) /\ c.dirty = mem[p].dirty
    <3>1. Limits(mem[p])
      BY UserTypes
    <3>2. PICK b \in ClientState : b = mem[p]
      BY <1>1
    <3>3. Limits(b) /\ c = WithSession(b, q, n, m)
      BY <2>3, <3>1, <3>2
    <3>4. c.self = b.self /\ c.pool = b.pool /\ c.accepted = b.accepted /\ c.dirty = b.dirty
      BY <3>3, EstablishedSame
    <3> QED
      BY <3>2, <3>4 DEF SamePools
  <2>5. made' = made
    BY <1>11 DEF InitiateSession, InitiateNotPosted, StartInitial
  <2> QED
    BY <2>1, <2>4, <2>5 DEF SamePools
<1> QED
  BY <1>2, <1>5, <1>8, <1>10, <1>11 DEF PoolsAlone
\* The pairs after each operation on a client.
LEMMA PairsSame ==
    ASSUME NEW p, NEW b, NEW c, SamePools(c, b), NEW n \in Nat, NEW k \in Nat, n <= k, PairsOk(p, b, n)
    PROVE  PairsOk(p, c, k)
<1>1. \A x : x \in {p} \X (1 .. n) => x \in {p} \X (1 .. k)
  OBVIOUS
<1> QED
  BY <1>1 DEF SamePools, PairsOk

\* A refill adds pairs never made before.
LEMMA PairsRefilled ==
    ASSUME TypeInv, NEW p \in Party, NEW b \in ClientState, Limits(b), PairsOk(p, b, made[p])
    PROVE  PairsOk(p, Refill(p, b), made[p] + Lacking(b))
<1>1. PICK n \in Nat : n = made[p]
  BY UserTypes
<1>2. Len(b.pool) <= PoolTarget /\ Len(b.pool) \in Nat /\ b.pool \in Seq(Pair)
  BY Fields DEF Limits
<1>3. PICK c : c = Refill(p, b)
  OBVIOUS
<1>4. PICK k \in Nat : k = Lacking(b)
  BY <1>1, <1>2, Refilled
<1>5. /\ c \in ClientState /\ c.accepted = b.accepted
      /\ \A i \in DOMAIN c.pool : i \notin DOMAIN b.pool =>
           i - Len(b.pool) \in 1 .. k /\ c.pool[i] = <<p, n + (i - Len(b.pool))>>
  BY <1>1, <1>2, <1>3, <1>4, Refilled
<1>6. \A i \in DOMAIN b.pool : i \in DOMAIN c.pool /\ c.pool[i] = b.pool[i]
  BY <1>1, <1>2, <1>3, Refilled
<1>7. PairsOk(p, b, n)
  BY <1>1
<1>8. DOMAIN c.pool \subseteq Nat /\ DOMAIN b.pool \subseteq Nat
  BY <1>5, Fields
<1>9. \A i \in DOMAIN b.pool : b.pool[i] \in {p} \X (1 .. n)
  BY <1>7 DEF PairsOk
<1>10. \A i \in DOMAIN b.accepted : b.accepted[i].pair \in {p} \X (1 .. n)
  BY <1>7 DEF PairsOk
<1>11. \A x : x \in {p} \X (1 .. n) => x \in {p} \X (1 .. n + k)
  OBVIOUS
<1>12. ASSUME NEW i \in DOMAIN c.pool, i \notin DOMAIN b.pool
       PROVE  c.pool[i] \in {p} \X (1 .. n + k) /\ c.pool[i] \notin {p} \X (1 .. n)
  <2>1. PICK j \in 1 .. k : j = i - Len(b.pool)
    BY <1>5, <1>12
  <2>2. c.pool[i] = <<p, n + j>>
    BY <1>5, <1>12, <2>1
  <2>3. n + j \in 1 .. n + k /\ n + j \notin 1 .. n
    OBVIOUS
  <2> QED
    BY <2>2, <2>3
<1>13. ASSUME NEW i \in DOMAIN c.pool, NEW j \in DOMAIN c.pool, c.pool[i] = c.pool[j] PROVE i = j
  <2>1. CASE i \in DOMAIN b.pool /\ j \in DOMAIN b.pool
    BY <1>6, <1>7, <1>13, <2>1 DEF PairsOk
  <2>2. CASE i \in DOMAIN b.pool /\ j \notin DOMAIN b.pool
    BY <1>6, <1>9, <1>12, <1>13, <2>2
  <2>3. CASE i \notin DOMAIN b.pool /\ j \in DOMAIN b.pool
    BY <1>6, <1>9, <1>12, <1>13, <2>3
  <2>4. CASE i \notin DOMAIN b.pool /\ j \notin DOMAIN b.pool
    <3>1. PICK e \in 1 .. k, f \in 1 .. k : e = i - Len(b.pool) /\ f = j - Len(b.pool)
      BY <1>5, <2>4
    <3>2. <<p, n + e>> = <<p, n + f>>
      BY <1>5, <1>13, <2>4, <3>1
    <3>3. e = f
      BY <3>2
    <3> QED
      BY <1>2, <1>8, <3>1, <3>3
  <2> QED
    BY <2>1, <2>2, <2>3, <2>4
<1>14. \A i \in DOMAIN c.pool : c.pool[i] \in {p} \X (1 .. n + k)
  BY <1>6, <1>9, <1>11, <1>12
<1>15. \A i \in DOMAIN c.accepted : c.accepted[i].pair \in {p} \X (1 .. n + k)
  BY <1>5, <1>10, <1>11
<1>16. \A i, j \in DOMAIN c.accepted : c.accepted[i].pair = c.accepted[j].pair => i = j
  BY <1>5, <1>7 DEF PairsOk
<1>17. \A i \in DOMAIN c.pool, j \in DOMAIN c.accepted : c.pool[i] # c.accepted[j].pair
  <2> SUFFICES ASSUME NEW i \in DOMAIN c.pool, NEW j \in DOMAIN b.accepted
               PROVE  c.pool[i] # b.accepted[j].pair
    BY <1>5
  <2>1. CASE i \in DOMAIN b.pool
    BY <1>6, <1>7, <2>1 DEF PairsOk
  <2>2. CASE i \notin DOMAIN b.pool
    BY <1>10, <1>12, <2>2
  <2> QED
    BY <2>1, <2>2
<1> QED
  BY <1>1, <1>3, <1>4, <1>13, <1>14, <1>15, <1>16, <1>17 DEF PairsOk

\* AcceptInitialMessage erases the pair it used, the only one of that name.
LEMMA PairsAccepted ==
    ASSUME NEW p, NEW b \in ClientState, Limits(b), NEW m \in Initial, HasPair(b, m.pair),
           NEW n, PairsOk(p, b, n)
    PROVE  PairsOk(p, Accept(b, m), n)
<1>1. \A i, j \in DOMAIN b.pool : b.pool[i] = b.pool[j] => i = j
  BY DEF PairsOk
<1>2. PICK c : c = Accept(b, m)
  OBVIOUS
<1>3. c.accepted = Append(b.accepted, m) /\ Elements(c.pool) = Elements(b.pool) \ {m.pair}
  BY <1>1, <1>2, Accepted
<1>4. \A i, j \in DOMAIN c.pool : c.pool[i] = c.pool[j] => i = j
  BY <1>1, <1>2, Accepted
<1>5. PICK s \in Seq(Initial) : s = b.accepted
  <2>1. b.accepted \in Seq(Initial)
    BY Fields
  <2> QED
    BY <2>1
<1>16. PICK t : t = c.accepted
  OBVIOUS
<1>6. /\ DOMAIN t = DOMAIN s \cup {Len(s) + 1} /\ t[Len(s) + 1] = m
      /\ \A i \in DOMAIN s : t[i] = s[i]
  BY <1>3, <1>5, <1>16, AppendProperties
<1>7. m.pair \in {p} \X (1 .. n) /\ m.pair \in Elements(b.pool)
  BY DEF HasPair, PairsOk, Elements
<1>8. \A x \in Elements(b.pool) : x \in {p} \X (1 .. n) /\ \A i \in DOMAIN s : x # s[i].pair
  BY <1>5 DEF PairsOk, Elements
<1>9. \A i \in DOMAIN c.pool : c.pool[i] \in Elements(b.pool) /\ c.pool[i] # m.pair
  BY <1>3 DEF Elements
<1>10. \A i \in DOMAIN s : s[i].pair \in {p} \X (1 .. n)
  BY <1>5 DEF PairsOk
<1>11. \A i, j \in DOMAIN s : s[i].pair = s[j].pair => i = j
  BY <1>5 DEF PairsOk
<1>12. \A i \in DOMAIN t : t[i].pair \in {p} \X (1 .. n)
  BY <1>6, <1>7, <1>10
<1>13. \A i, j \in DOMAIN t : t[i].pair = t[j].pair => i = j
  BY <1>6, <1>7, <1>8, <1>11
<1>14. \A i \in DOMAIN c.pool, j \in DOMAIN t : c.pool[i] # t[j].pair
  BY <1>6, <1>8, <1>9
<1>15. \A i \in DOMAIN c.pool : c.pool[i] \in {p} \X (1 .. n)
  BY <1>8, <1>9
<1> QED
  BY <1>2, <1>4, <1>12, <1>13, <1>14, <1>15, <1>16 DEF PairsOk

\* A new client's pool holds pairs never made before.
LEMMA PairsFresh ==
    ASSUME NEW p \in Party, NEW n \in Nat, NEW c, c.pool = FreshPool(p, n), c.accepted = <<>>
    PROVE  PairsOk(p, c, n + PoolTarget)
<1>1. PICK t \in Nat : t = PoolTarget
  BY HandshakeAssumption
<1>2. DOMAIN c.pool = 1 .. t /\ \A i \in 1 .. t : c.pool[i] = <<p, n + i>>
  <2>1. c.pool = [i \in 1 .. t |-> <<p, n + i>>]
    BY <1>1 DEF FreshPool
  <2>2. PICK pool : pool = c.pool
    OBVIOUS
  <2>3. DOMAIN pool = 1 .. t /\ \A i \in 1 .. t : pool[i] = <<p, n + i>>
    BY <2>1, <2>2
  <2> QED
    BY <2>2, <2>3
<1>3. DOMAIN c.accepted = {}
  OBVIOUS
<1>4. \A i \in DOMAIN c.pool : c.pool[i] \in {p} \X (1 .. n + t)
  <2> SUFFICES ASSUME NEW i \in 1 .. t PROVE c.pool[i] \in {p} \X (1 .. n + t)
    BY <1>2
  <2>1. n + i \in 1 .. n + t
    OBVIOUS
  <2>2. PICK k \in 1 .. n + t : k = n + i
    BY <2>1
  <2>3. c.pool[i] = <<p, k>>
    BY <1>2, <2>2
  <2> QED
    BY <2>3
<1>5. \A i, j \in DOMAIN c.pool : c.pool[i] = c.pool[j] => i = j
  <2> SUFFICES ASSUME NEW i \in 1 .. t, NEW j \in 1 .. t, c.pool[i] = c.pool[j] PROVE i = j
    BY <1>2
  <2>1. <<p, n + i>> = <<p, n + j>>
    BY <1>2
  <2>2. n + i = n + j
    BY <2>1
  <2> QED
    BY <2>2
<1> QED
  BY <1>1, <1>3, <1>4, <1>5 DEF PairsOk

\* A step of p that leaves good pairs.
LEMMA PairsStep ==
    ASSUME TypeInv, PairInv, NEW p \in Party, NEW c, NEW d, Leaves(p, c, d),
           NEW k \in Nat, made' = [made EXCEPT ![p] = made[p] + k],
           PairsOk(p, c, made[p] + k), PairsOk(p, d, made[p] + k)
    PROVE  PairInv'
<1>0. ClientTypes
  BY DEF TypeInv
<1>1. /\ mem'[p] = c /\ disk'[p] = d
      /\ \A q \in Party : q # p => mem'[q] = mem[q] /\ disk'[q] = disk[q]
  BY <1>0, Left
<1>3. made'[p] = made[p] + k /\ \A q \in Party : q # p => made'[q] = made[q]
  BY MadeMore
<1>2. \A q \in Party : PairsOk(q, mem'[q], made'[q]) /\ PairsOk(q, disk'[q], made'[q])
  BY <1>1, <1>3 DEF PairInv
<1> QED
  BY <1>2 DEF PairInv, PairsOk

\* A step that generates no pair.
LEMMA PairsMadeNone ==
    ASSUME TypeInv, NEW p \in Party, made' = made
    PROVE  made' = [made EXCEPT ![p] = made[p] + 0] /\ made[p] + 0 = made[p]
<1>1. made \in [Party -> Nat] /\ made[p] \in Nat
  BY DEF TypeInv, HistoryTypes
<1>2. made[p] + 0 = made[p]
  BY <1>1
<1> QED
  BY <1>1, <1>2

\* The pairs of the clients just created are distinct.
LEMMA InitialPairs == Init => PairInv
<1> SUFFICES ASSUME Init, NEW p \in Party PROVE PairsOk(p, mem[p], made[p]) /\ PairsOk(p, disk[p], made[p])
  BY DEF PairInv
<1>1. mem[p] = Created(p) /\ disk[p] = Created(p) /\ made[p] = PoolTarget
  BY DEF Init
<1>2. PICK z \in Nat : z = 0
  OBVIOUS
<1>3. mem[p].pool = FreshPool(p, z) /\ mem[p].accepted = <<>>
  BY <1>1, <1>2, CreatedTypes
<1>4. PairsOk(p, mem[p], z + PoolTarget)
  BY <1>3, PairsFresh
<1>5. z + PoolTarget = made[p]
  BY <1>1, <1>2, HandshakeAssumption
<1> QED
  BY <1>1, <1>4, <1>5

\* Every step keeps the pairs distinct, and apart from the ones consumed.
LEMMA PairStep == TypeInv /\ PairInv /\ [Next]_vars => PairInv'
<1> SUFFICES ASSUME TypeInv, PairInv, [Next]_vars PROVE PairInv'
  OBVIOUS
<1>1. CASE UNCHANGED vars
  BY <1>1 DEF vars, PairInv, PairsOk
<1>2. ASSUME NEW p \in Party, PoolsAlone(p) PROVE PairInv'
  <2>1. PICK c \in ClientState, d \in ClientState :
          /\ Leaves(p, c, d) /\ SamePools(c, mem[p])
          /\ d = disk[p] \/ SamePools(d, c)
    BY <1>2, PoolsKept
  <2>2. made[p] \in Nat /\ made' = made /\ PairsOk(p, mem[p], made[p]) /\ PairsOk(p, disk[p], made[p])
    BY <1>2, PoolsKept, UserTypes DEF PairInv
  <2>3. PairsOk(p, c, made[p])
    BY <2>1, <2>2, PairsSame
  <2>4. PairsOk(p, d, made[p])
    BY <2>1, <2>2, <2>3, PairsSame
  <2>5. PICK k \in Nat : k = 0
    OBVIOUS
  <2>6. made' = [made EXCEPT ![p] = made[p] + k] /\ made[p] + k = made[p]
    BY <2>2, <2>5, PairsMadeNone
  <2> QED
    BY <2>1, <2>3, <2>4, <2>6, PairsStep
<1>3. ASSUME NEW p \in Party, HandleAccepted(p) PROVE PairInv'
  <2>1. PICK c \in ClientState, m \in posted[p], call \in PollState(Entry) :
          /\ Leaves(p, c, disk[p]) /\ m \in Initial /\ Accepts(mem[p], m)
          /\ SameCore(c, Accept(mem[p], m))
    BY <1>3, AcceptEffect
  <2>2. /\ made[p] \in Nat /\ PairsOk(p, mem[p], made[p]) /\ PairsOk(p, disk[p], made[p])
        /\ mem[p] \in ClientState /\ Limits(mem[p]) /\ made' = made /\ HasPair(mem[p], m.pair)
    BY <1>3, <2>1, UserTypes DEF PairInv, HandleAccepted, Accepts
  <2>3. PairsOk(p, Accept(mem[p], m), made[p])
    BY <2>1, <2>2, PairsAccepted
  <2>4. PairsOk(p, c, made[p])
    BY <2>1, <2>3 DEF SameCore, PairsOk
  <2>5. PICK k \in Nat : k = 0
    OBVIOUS
  <2>6. made' = [made EXCEPT ![p] = made[p] + k] /\ made[p] + k = made[p]
    BY <2>2, <2>5, PairsMadeNone
  <2>7. PICK d : d = disk[p]
    OBVIOUS
  <2>8. Leaves(p, c, d) /\ PairsOk(p, c, made[p] + k) /\ PairsOk(p, d, made[p] + k)
    BY <2>1, <2>2, <2>4, <2>6, <2>7
  <2> QED
    BY <2>6, <2>8, PairsStep
<1>4. ASSUME NEW p \in Party, Republish(p) PROVE PairInv'
  <2>1. PICK r : r = Refill(p, mem[p])
    OBVIOUS
  <2>2. /\ mem[p] \in ClientState /\ Limits(mem[p]) /\ made[p] \in Nat /\ disk \in [Party -> ClientState]
        /\ PairsOk(p, mem[p], made[p]) /\ PairsOk(p, disk[p], made[p])
    BY UserTypes DEF PairInv, TypeInv, ClientTypes
  <2>3. PICK k \in Nat : k = Lacking(mem[p])
    BY <2>2, RefilledLimits
  <2>4. r \in ClientState /\ PairsOk(p, r, made[p] + k)
    BY <2>1, <2>2, <2>3, RefilledLimits, PairsRefilled
  <2>13. PICK clean : clean = [r EXCEPT !.dirty = FALSE]
    OBVIOUS
  <2>14. SamePools(clean, r) /\ SamePools(r, r)
    BY <2>4, <2>13, CleanTypes DEF SameCore, SamePools
  <2>5. PICK c : mem' = [mem EXCEPT ![p] = c] /\ (c = r \/ c = clean)
    BY <1>4, <2>1, <2>13 DEF Republish, Publish, PublishFails
  <2>6. SamePools(c, r)
    BY <2>5, <2>14
  <2>7. disk' = [disk EXCEPT ![p] = disk[p]] /\ made' = [made EXCEPT ![p] = made[p] + k]
    BY <1>4, <2>2, <2>3 DEF Republish
  <2>8. Leaves(p, c, disk[p])
    BY <2>5, <2>7 DEF Leaves
  <2>9. made[p] + k \in Nat /\ made[p] <= made[p] + k /\ made[p] + k <= made[p] + k
    BY <2>2
  <2>10. PairsOk(p, c, made[p] + k)
    BY <2>4, <2>6, <2>9, PairsSame
  <2>11. SamePools(disk[p], disk[p])
    BY DEF SamePools
  <2>12. PairsOk(p, disk[p], made[p] + k)
    BY <2>2, <2>9, <2>11, PairsSame
  <2> QED
    BY <2>7, <2>8, <2>10, <2>12, PairsStep
<1>5. ASSUME NEW p \in Party, Restart(p) \/ InitiateCrash(p) PROVE PairInv'
  <2>1. disk[p] \in ClientState /\ Limits(disk[p]) /\ PairsOk(p, disk[p], made[p])
    BY UserTypes DEF PairInv
  <2>2. Recreate(p)
    BY <1>5 DEF Restart, InitiateCrash
  <2>3. PICK k \in Nat : k = Lacking(disk[p])
    BY <2>1, RefilledLimits
  <2>0. PICK c : c = Refill(p, disk[p])
    OBVIOUS
  <2>4. Leaves(p, c, c) /\ made' = [made EXCEPT ![p] = made[p] + k]
    BY <2>0, <2>2, <2>3, RecreateEffect
  <2>5. PairsOk(p, c, made[p] + k)
    BY <2>0, <2>1, <2>3, PairsRefilled
  <2> QED
    BY <2>4, <2>5, PairsStep
<1>6. ASSUME NEW p \in Party, LoseStateFile(p) PROVE PairInv'
  <2>1. PICK c \in ClientState :
          /\ Leaves(p, c, c) /\ c = NewClient(mem[p].self + 1, FreshPool(p, made[p]))
          /\ made' = [made EXCEPT ![p] = made[p] + PoolTarget] /\ PoolTarget \in Nat
    BY <1>6, LossEffect
  <2>2. c.pool = FreshPool(p, made[p]) /\ c.accepted = <<>> /\ made[p] \in Nat
    BY <2>1, UserTypes DEF NewClient
  <2>3. PairsOk(p, c, made[p] + PoolTarget)
    BY <2>2, PairsFresh
  <2> QED
    BY <2>1, <2>3, PairsStep
<1> QED
  BY <1>1, <1>2, <1>3, <1>4, <1>5, <1>6 DEF Next, CallStep, PoolsAlone, Quiet

\* The type invariant and the pairs, together.
THEOREM PairsHold == Spec => [](TypeInv /\ PairInv)
<1>1. Init => TypeInv /\ PairInv
  BY InitialTypes, InitialPairs
<1>2. TypeInv /\ PairInv /\ [Next]_vars => (TypeInv /\ PairInv)'
  BY TypeStep, PairStep
<1> QED
  BY <1>1, <1>2, PTL DEF Spec

\* The variables of session establishment keep their types, and pools and
\* replay guards the limits LoadLocalState insists on.
THEOREM TypeCorrect == Spec => []TypeOK
BY PairsHold, TypeInvSuffices, PTL

\* HandleInitialMessage never lets a one-time pair, or an initial message,
\* serve twice.
THEOREM PairsServeOnce == Spec => []ConsumedOnce
<1>1. PairInv => ConsumedOnce
  BY DEF PairInv, PairsOk, ConsumedOnce
<1> QED
  BY <1>1, PairsHold, PTL

----------------------------------------------------------------------------
\* Whom a client trusts.

\* Client c of p has sessions only with identities whose safety number its
\* user compared, and takes no others to be verified.
TrustOk(p, c, seen) ==
    \A q \in Party :
        /\ c.sessions[q] # None => c.sessions[q].with \in seen[<<p, q>>]
        /\ \A n \in Nat : c.peers[q] = Known(n, TRUE) => n \in seen[<<p, q>>]

TrustInv == \A p \in Party : TrustOk(p, mem[p], compared) /\ TrustOk(p, disk[p], compared)

\* A contact is never taken for the absence of one.
LEMMA KnownOnes == \A n \in Nat, v \in BOOLEAN : Known(n, v) # None
<1>1. None \notin [identity : Nat, verified : BOOLEAN]
  BY HandshakeAssumption
<1>2. \A n \in Nat, v \in BOOLEAN : Known(n, v) \in [identity : Nat, verified : BOOLEAN]
  BY DEF Known
<1> QED
  BY <1>1, <1>2

\* The peers and sessions after an initial message was accepted.
LEMMA AcceptedSessions ==
    ASSUME NEW c \in ClientState, NEW m \in Initial, NEW r, r = Accept(c, m)
    PROVE  /\ r.peers = c.peers /\ r.sessions[m.from] = [id |-> m.id, with |-> m.identity]
           /\ \A o \in Party : o # m.from => r.sessions[o] = c.sessions[o]
<1>1. PICK s : s = [id |-> m.id, with |-> m.identity]
  OBVIOUS
<1>2. PICK sessions : sessions = [c.sessions EXCEPT ![m.from] = s]
  OBVIOUS
<1>3. sessions[m.from] = s /\ \A o \in Party : o # m.from => sessions[o] = c.sessions[o]
  BY <1>2, Fields DEF Initial
<1>4. r.peers = c.peers /\ r.sessions = sessions
  BY <1>1, <1>2 DEF Accept, WithSession, ClientState
<1> QED
  BY <1>1, <1>3, <1>4

\* Sessions and contacts unchanged, their agreement is unchanged.
LEMMA TrustSame ==
    ASSUME NEW p \in Party, NEW c, NEW b, NEW seen, c.peers = b.peers, c.sessions = b.sessions,
           TrustOk(p, b, seen)
    PROVE  TrustOk(p, c, seen)
BY DEF TrustOk

\* A peer met is not a peer verified.
LEMMA TrustMet ==
    ASSUME NEW p \in Party, NEW c \in ClientState, NEW q \in Party, NEW n \in Nat, NEW seen,
           TrustOk(p, c, seen), NEW r, r = Meet(c, q, n)
    PROVE  TrustOk(p, r, seen)
<1>1. r.sessions = c.sessions
  BY Met
<1>2. \A o \in Party : r.peers[o] = c.peers[o] \/ r.peers[o] = Known(n, FALSE)
  BY Met
<1>3. \A k \in Nat : Known(n, FALSE) # Known(k, TRUE)
  <2> SUFFICES ASSUME NEW k \in Nat, Known(n, FALSE) = Known(k, TRUE) PROVE FALSE
    OBVIOUS
  <2>1. Known(n, FALSE).verified = Known(k, TRUE).verified
    OBVIOUS
  <2> QED
    BY <2>1 DEF Known
<1> QED
  BY <1>1, <1>2, <1>3 DEF TrustOk

\* A session with a trusted identity.
LEMMA TrustEstablished ==
    ASSUME NEW p \in Party, NEW c, NEW r, NEW q \in Party, NEW n \in Nat, NEW id, NEW seen,
           TrustOk(p, c, seen), Trusts(c, q, n), r.peers = c.peers,
           r.sessions[q] = [id |-> id, with |-> n],
           \A o \in Party : o # q => r.sessions[o] = c.sessions[o]
    PROVE  TrustOk(p, r, seen)
<1>1. n \in seen[<<p, q>>]
  BY DEF TrustOk, Trusts
<1>2. r.sessions[q].with = n
  OBVIOUS
<1>3. \A o \in Party : r.sessions[o] # None => r.sessions[o].with \in seen[<<p, o>>]
  BY <1>1, <1>2 DEF TrustOk
<1>4. \A o \in Party : \A k \in Nat : r.peers[o] = Known(k, TRUE) => k \in seen[<<p, o>>]
  BY DEF TrustOk
<1> QED
  BY <1>3, <1>4 DEF TrustOk

\* A step of p that leaves trustworthy clients.
LEMMA TrustStepOf ==
    ASSUME TypeInv, TrustInv, NEW p \in Party, NEW c, NEW d, Leaves(p, c, d),
           \A q, r \in Party : q # p => compared'[<<q, r>>] = compared[<<q, r>>],
           TrustOk(p, c, compared'), TrustOk(p, d, compared')
    PROVE  TrustInv'
<1>0. ClientTypes
  BY DEF TypeInv
<1>1. /\ mem'[p] = c /\ disk'[p] = d
      /\ \A q \in Party : q # p => mem'[q] = mem[q] /\ disk'[q] = disk[q]
  BY <1>0, Left
<1>2. \A q \in Party : q # p => TrustOk(q, mem[q], compared') /\ TrustOk(q, disk[q], compared')
  BY DEF TrustInv, TrustOk
<1>3. \A q \in Party : TrustOk(q, mem'[q], compared') /\ TrustOk(q, disk'[q], compared')
  BY <1>1, <1>2
<1> QED
  BY <1>3 DEF TrustInv, TrustOk

\* The clients just created have no session.
LEMMA InitialTrust == Init => TrustInv
<1> SUFFICES ASSUME Init, NEW p \in Party PROVE TrustOk(p, mem[p], compared) /\ TrustOk(p, disk[p], compared)
  BY DEF TrustInv
<1>1. mem[p] = Created(p) /\ disk[p] = Created(p)
      /\ \A q \in Party : compared[<<p, q>>] = IF <<p, q>> \in Contacts THEN {1} ELSE {}
  BY DEF Init
<1>2. PICK c : c = Created(p)
  OBVIOUS
<1>3. ASSUME NEW q \in Party
      PROVE  /\ c.sessions[q] = None
             /\ \A n \in Nat : c.peers[q] = Known(n, TRUE) => n \in compared[<<p, q>>]
  <2>1. c.sessions[q] = None /\ c.peers[q] = IF <<p, q>> \in Contacts THEN Known(1, TRUE) ELSE None
    BY <1>2, CreatedTypes
  <2>2. ASSUME NEW n \in Nat, c.peers[q] = Known(n, TRUE) PROVE n \in compared[<<p, q>>]
    <3>1. Known(n, TRUE) # None
      BY KnownOnes
    <3>2. <<p, q>> \in Contacts /\ Known(1, TRUE) = Known(n, TRUE)
      BY <2>1, <2>2, <3>1
    <3>3. Known(1, TRUE).identity = Known(n, TRUE).identity
      BY <3>2
    <3>4. n = 1
      BY <3>3 DEF Known
    <3> QED
      BY <1>1, <3>2, <3>4
  <2> QED
    BY <2>1, <2>2
<1>4. TrustOk(p, c, compared)
  BY <1>3 DEF TrustOk
<1> QED
  BY <1>1, <1>2, <1>4

\* Every step keeps every session on a key its user compared.
LEMMA TrustStep == TypeInv /\ PairInv /\ TrustInv /\ [Next]_vars => TrustInv'
<1> SUFFICES ASSUME TypeInv, PairInv, TrustInv, [Next]_vars PROVE TrustInv'
  OBVIOUS
<1>1. CASE UNCHANGED vars
  BY <1>1 DEF vars, history, TrustInv, TrustOk
<1>2. ASSUME NEW p \in Party, Quiet(p) PROVE TrustInv'
  <2>1. PICK c \in ClientState, d \in ClientState :
          Leaves(p, c, d) /\ SameCore(c, mem[p]) /\ (d = disk[p] \/ SameCore(d, c))
    BY <1>2, QuietKept
  <2>2. compared' = compared /\ TrustOk(p, mem[p], compared) /\ TrustOk(p, disk[p], compared)
    BY <1>2, QuietKept DEF TrustInv
  <2>3. TrustOk(p, c, compared)
    BY <2>1, <2>2, TrustSame DEF SameCore
  <2>4. TrustOk(p, d, compared)
    BY <2>1, <2>2, <2>3, TrustSame DEF SameCore
  <2> QED
    BY <2>1, <2>2, <2>3, <2>4, TrustStepOf
<1>3. ASSUME NEW p \in Party, NEW q \in Party, VerifyPeerSafetyNumber(p, q) PROVE TrustInv'
  <2>1. PICK c \in ClientState, d \in ClientState :
          /\ Leaves(p, c, d) /\ (d = disk[p] \/ d = c) /\ c.sessions = mem[p].sessions
          /\ c.peers[q] = Known(mem[q].self, TRUE)
          /\ \A r \in Party : r # q => c.peers[r] = mem[p].peers[r]
    BY <1>3, VerifyEffect, ZenonT(30)
  <2>2. compared' = [compared EXCEPT ![<<p, q>>] = compared[<<p, q>>] \cup {mem[q].self}]
        /\ compared \in [Party \X Party -> SUBSET Nat]
    BY <1>3 DEF VerifyPeerSafetyNumber, TypeInv, HistoryTypes
  <2>3. /\ \A r, o \in Party : compared[<<r, o>>] \subseteq compared'[<<r, o>>]
        /\ \A r, o \in Party : r # p => compared'[<<r, o>>] = compared[<<r, o>>]
        /\ mem[q].self \in compared'[<<p, q>>]
    BY <2>2
  <2>4. TrustOk(p, mem[p], compared') /\ TrustOk(p, disk[p], compared')
    BY <2>3 DEF TrustInv, TrustOk
  <2>5. \A n \in Nat : Known(mem[q].self, TRUE) = Known(n, TRUE) => n = mem[q].self
    BY DEF Known
  <2>6. TrustOk(p, c, compared')
    BY <2>1, <2>3, <2>4, <2>5 DEF TrustOk
  <2> QED
    BY <2>1, <2>3, <2>4, <2>6, TrustStepOf
<1>4. ASSUME NEW p \in Party, HandleRefused(p) PROVE TrustInv'
  <2>1. PICK c \in ClientState, d \in ClientState, met \in ClientState, m \in posted[p],
             call \in PollState(Entry) :
          /\ Leaves(p, c, d) /\ m \in Initial
          /\ (met = mem[p] \/ met = Meet(mem[p], m.from, m.identity))
          /\ SameCore(c, met) /\ (d = disk[p] \/ d = met)
    BY <1>4, HandleRefusedEffect
  <2>2. /\ m.from \in Party /\ m.identity \in Nat /\ compared' = compared /\ mem[p] \in ClientState
        /\ TrustOk(p, mem[p], compared) /\ TrustOk(p, disk[p], compared)
    BY <1>4, <2>1, UserTypes DEF Initial, TrustInv, HandleRefused
  <2>3. TrustOk(p, met, compared)
    BY <2>1, <2>2, TrustMet
  <2>4. TrustOk(p, c, compared)
    BY <2>1, <2>3, TrustSame DEF SameCore
  <2> QED
    BY <2>1, <2>2, <2>3, <2>4, TrustStepOf
<1>5. ASSUME NEW p \in Party, InitiateRefused(p) PROVE TrustInv'
  <2>1. PICK c \in ClientState, d \in ClientState :
          /\ Leaves(p, c, d) /\ (d = disk[p] \/ d = c) /\ task[p].peer \in Party /\ task[p].identity \in Nat
          /\ c = Meet(mem[p], task[p].peer, task[p].identity)
    BY <1>5, RefusalEffect
  <2>2. /\ compared' = compared /\ mem[p] \in ClientState
        /\ TrustOk(p, mem[p], compared) /\ TrustOk(p, disk[p], compared)
    BY <1>5, UserTypes DEF TrustInv, InitiateRefused, history
  <2>3. TrustOk(p, c, compared)
    BY <2>1, <2>2, TrustMet
  <2> QED
    BY <2>1, <2>2, <2>3, TrustStepOf
<1>6. ASSUME NEW p \in Party, InitiateSession(p) \/ InitiateNotPosted(p) PROVE TrustInv'
  <2>1. PICK c \in ClientState, d \in ClientState :
          /\ Leaves(p, c, d) /\ (d = disk[p] \/ d = c) /\ Acquired(p) /\ task[p].pair # None
          /\ Trusts(mem[p], task[p].peer, task[p].identity)
          /\ c = WithSession(mem[p], task[p].peer, task[p].identity, Begun(p))
    BY <1>6, BeginEffect
  <2>2. PICK q \in Party, n \in Nat, m \in Initial, b \in ClientState :
          q = task[p].peer /\ n = task[p].identity /\ m = Begun(p) /\ b = mem[p] /\ Limits(b)
    BY <2>1, BegunTypes, UserTypes
  <2>3. c = WithSession(b, q, n, m) /\ Trusts(b, q, n)
    BY <2>1, <2>2
  <2>4. c.sessions[q] = [id |-> m.id, with |-> n] /\ \A r \in Party : r # q => c.sessions[r] = b.sessions[r]
    BY <2>2, <2>3, Established
  <2>5. c.peers = b.peers
    BY <2>2, <2>3, EstablishedSame
  <2>6. compared' = compared /\ TrustOk(p, b, compared) /\ TrustOk(p, disk[p], compared)
    BY <1>6, <2>2 DEF TrustInv, InitiateSession, InitiateNotPosted, StartInitial
  <2>7. TrustOk(p, c, compared)
    BY <2>3, <2>4, <2>5, <2>6, TrustEstablished
  <2> QED
    BY <2>1, <2>6, <2>7, TrustStepOf
<1>7. ASSUME NEW p \in Party, HandleAccepted(p) PROVE TrustInv'
  <2>1. PICK c \in ClientState, m \in posted[p], call \in PollState(Entry) :
          /\ Leaves(p, c, disk[p]) /\ m \in Initial /\ Accepts(mem[p], m)
          /\ SameCore(c, Accept(mem[p], m))
    BY <1>7, AcceptEffect
  <2>2. PICK b \in ClientState : b = mem[p] /\ Limits(b) /\ PairsOk(p, b, made[p])
    BY UserTypes DEF PairInv
  <2>3. PICK r : r = Accept(b, m)
    OBVIOUS
  <2>4. HasPair(b, m.pair) /\ Trusts(b, m.from, m.identity)
        /\ \A i, j \in DOMAIN b.pool : b.pool[i] = b.pool[j] => i = j
    BY <2>1, <2>2 DEF Accepts, PairsOk
  <2>12. m \in Initial
    BY <2>1
  <2>5. /\ r.peers = b.peers /\ r.sessions[m.from] = [id |-> m.id, with |-> m.identity]
        /\ \A o \in Party : o # m.from => r.sessions[o] = b.sessions[o]
    BY <2>3, <2>12, AcceptedSessions
  <2>8. compared' = compared /\ TrustOk(p, b, compared) /\ TrustOk(p, disk[p], compared)
    BY <1>7, <2>2 DEF TrustInv, HandleAccepted, history
  <2>9. PICK q, n, id : q \in Party /\ n \in Nat /\ q = m.from /\ n = m.identity /\ id = m.id
    BY <2>1 DEF Initial
  <2>10. TrustOk(p, r, compared)
    BY <2>4, <2>5, <2>8, <2>9, TrustEstablished
  <2>11. TrustOk(p, c, compared)
    BY <2>1, <2>2, <2>3, <2>10, TrustSame DEF SameCore
  <2> QED
    BY <2>1, <2>8, <2>11, TrustStepOf
<1>8. ASSUME NEW p \in Party, Republish(p) PROVE TrustInv'
  <2>1. PICK b \in ClientState : b = mem[p] /\ Limits(b) /\ disk \in [Party -> ClientState]
    BY UserTypes DEF TypeInv, ClientTypes
  <2>2. PICK r : r = Refill(p, b)
    OBVIOUS
  <2>3. r.peers = b.peers /\ r.sessions = b.sessions
    BY <2>2 DEF Refill
  <2>4. PICK clean : clean = [r EXCEPT !.dirty = FALSE]
    OBVIOUS
  <2>5. r \in ClientState
    BY <2>1, <2>2, RefilledLimits
  <2>6. clean.peers = r.peers /\ clean.sessions = r.sessions
    BY <2>4, <2>5, CleanTypes DEF SameCore
  <2>7. PICK c : mem' = [mem EXCEPT ![p] = c] /\ (c = r \/ c = clean)
    BY <1>8, <2>1, <2>2, <2>4 DEF Republish, Publish, PublishFails
  <2>8. disk' = [disk EXCEPT ![p] = disk[p]] /\ compared' = compared
    BY <1>8, <2>1 DEF Republish, history
  <2>9. TrustOk(p, b, compared) /\ TrustOk(p, disk[p], compared)
    BY <2>1 DEF TrustInv
  <2>10. TrustOk(p, c, compared)
    BY <2>3, <2>6, <2>7, <2>9, TrustSame
  <2> QED
    BY <2>7, <2>8, <2>9, <2>10, TrustStepOf DEF Leaves
<1>9. ASSUME NEW p \in Party, Restart(p) \/ InitiateCrash(p) PROVE TrustInv'
  <2>1. Recreate(p) /\ compared' = compared
    BY <1>9 DEF Restart, InitiateCrash
  <2>2. PICK c : c = Refill(p, disk[p])
    OBVIOUS
  <2>3. Leaves(p, c, c)
    BY <2>1, <2>2, RecreateEffect
  <2>4. c.peers = disk[p].peers /\ c.sessions = disk[p].sessions
    BY <2>2, UserTypes DEF Refill, ClientState
  <2>5. TrustOk(p, c, compared)
    BY <2>4, TrustSame DEF TrustInv
  <2> QED
    BY <2>1, <2>3, <2>5, TrustStepOf
<1>10. ASSUME NEW p \in Party, LoseStateFile(p) PROVE TrustInv'
  <2>1. PICK c \in ClientState :
          Leaves(p, c, c) /\ c = NewClient(mem[p].self + 1, FreshPool(p, made[p]))
    BY <1>10, LossEffect
  <2>2. \A q \in Party : c.peers[q] = None /\ c.sessions[q] = None
    BY <2>1 DEF NewClient
  <2>3. \A n \in Nat : Known(n, TRUE) # None
    BY KnownOnes
  <2>4. TrustOk(p, c, compared')
    BY <2>2, <2>3 DEF TrustOk
  <2>5. \A q, r \in Party : q # p => compared'[<<q, r>>] = compared[<<q, r>>]
    BY <1>10 DEF LoseStateFile
  <2> QED
    BY <2>1, <2>4, <2>5, TrustStepOf
<1> QED
  BY <1>1, <1>2, <1>3, <1>4, <1>5, <1>6, <1>7, <1>8, <1>9, <1>10 DEF Next, CallStep, Quiet

\* A session of a client is with an identity whose safety number its user
\* compared, whoever restarts or loses the state file: neither
\* InitiateSession nor HandleInitialMessage lets a new identity of a contact
\* take the place of the verified one.
THEOREM OnlyVerifiedPeers == Spec => []SessionsWithVerified
<1>1. TrustInv => SessionsWithVerified
  BY DEF TrustInv, TrustOk, SessionsWithVerified
<1>2. TypeInv /\ PairInv /\ TrustInv /\ [Next]_vars => TrustInv'
  BY TrustStep
<1> QED
  BY <1>1, <1>2, InitialTrust, PairsHold, PTL DEF Spec
----------------------------------------------------------------------------
\* What the state file has.

\* Outside a call that has plaintexts to return, the pools of client c are
\* published, and its state file d has all of it but the acknowledgement.
Saved(c, d) == SameCore(d, c) /\ d.dirty = c.dirty
SavedAt(c, d, call) ==
    /\ call.out = <<>> => ~c.dirty /\ (Persistable(c) => Saved(c, d))
    /\ call.pc = "save" => ~c.dirty

SavedInv == faults = 0 => \A p \in Party : SavedAt(mem[p], disk[p], poll[p])

\* A state file that is current differs from the client in the acknowledgement
\* alone.
LEMMA SavedIsEqual ==
    ASSUME NEW c \in ClientState, NEW d \in ClientState, Saved(c, d)
    PROVE  d = [c EXCEPT !.pending = d.pending]
BY DEF ClientState, Saved, SameCore

\* Whether a client can be saved depends on its contacts and sessions alone.
LEMMA PersistableSame ==
    ASSUME NEW c, NEW b, c.peers = b.peers, c.sessions = b.sessions
    PROVE  Persistable(c) = Persistable(b)
BY DEF Persistable

\* A peer is met: all but the peers stays.
LEMMA MetSame ==
    ASSUME NEW c \in ClientState, NEW q \in Party, NEW n \in Nat, NEW r, r = Meet(c, q, n)
    PROVE  /\ r.self = c.self /\ r.pool = c.pool /\ r.guards = c.guards /\ r.sessions = c.sessions
           /\ r.accepted = c.accepted /\ r.dirty = c.dirty /\ r.pending = c.pending
BY DEF Meet, ClientState

\* What a step of one client owes to the state files of all.
LEMMA SavedStepOf ==
    ASSUME TypeInv, SavedInv, NEW p \in Party, NEW c, NEW d, Leaves(p, c, d),
           NEW call, poll' = [poll EXCEPT ![p] = call], faults = 0, SavedAt(c, d, call)
    PROVE  SavedInv'
<1>0. ClientTypes /\ poll \in [Party -> PollState(Entry)]
  BY DEF TypeInv, PollTypes
<1>1. /\ mem'[p] = c /\ disk'[p] = d
      /\ \A q \in Party : q # p => mem'[q] = mem[q] /\ disk'[q] = disk[q]
  BY <1>0, Left
<1>2. poll'[p] = call /\ \A q \in Party : q # p => poll'[q] = poll[q]
  BY <1>0
<1>3. \A q \in Party : SavedAt(mem'[q], disk'[q], poll'[q])
  BY <1>1, <1>2 DEF SavedInv
<1> QED
  BY <1>3 DEF SavedInv, SavedAt, Saved, SameCore, Persistable

\* A step that leaves the call as it is.
LEMMA SavedCallSame ==
    ASSUME TypeInv, NEW p \in Party, poll' = poll
    PROVE  poll' = [poll EXCEPT ![p] = poll[p]]
BY DEF TypeInv, PollTypes

\* The clients just created are saved.
LEMMA InitialSaved == Init => SavedInv
<1> SUFFICES ASSUME Init, NEW p \in Party PROVE SavedAt(mem[p], disk[p], poll[p])
  BY DEF SavedInv
<1>1. mem[p] = Created(p) /\ disk[p] = mem[p] /\ poll[p] = Idle
  BY DEF Init
<1>2. ~mem[p].dirty
  BY <1>1, CreatedTypes
<1> QED
  BY <1>1, <1>2 DEF SavedAt, Saved, SameCore

\* No step takes a fault back.
LEMMA FaultsStay ==
    ASSUME TypeInv, NEW p \in Party, faults' = 0,
           \/ PublishPrekeys(p) \/ (\E q \in Party : AcquireBundle(p, q) \/ VerifyPeerSafetyNumber(p, q))
           \/ ProcessInbox(p) \/ CallStep(p)
    PROVE  faults = 0
<1>1. faults \in Nat /\ MaxFaults \in Nat
  BY HandshakeAssumption DEF TypeInv, HistoryTypes
<1>2. \A kind : ~Fault(kind)
  BY FaultEffect
<1>3. CASE PublishPrekeys(p) \/ Republish(p)
  BY <1>2, <1>3 DEF PublishPrekeys, PublishFails, Republish
<1>4. CASE \E q \in Party : AcquireBundle(p, q)
  BY <1>2, <1>4 DEF AcquireBundle
<1>5. CASE \E q \in Party : VerifyPeerSafetyNumber(p, q)
  <2>1. faults <= faults'
    BY <1>5, VerifyEffect
  <2> QED
    BY <1>1, <2>1
<1>6. CASE ProcessInbox(p) \/ DrainInbox(p) \/ HandleAccepted(p) \/ GiveUp(p)
  BY <1>6 DEF ProcessInbox, DrainInbox, HandleAccepted, GiveUp
<1>7. CASE HandleRefused(p)
  <2>1. faults <= faults'
    BY <1>7, HandleRefusedEffect
  <2> QED
    BY <1>1, <2>1
<1>8. CASE SavePrekeys(p)
  <2>1. \E ok \in BOOLEAN : SaveOf(p, mem[p], ok)
    BY <1>8 DEF SavePrekeys
  <2>2. faults <= faults'
    BY <2>1, SaveEffect, UserTypes
  <2> QED
    BY <1>1, <2>2
<1>9. CASE SaveLocalState(p)
  <2>1. faults <= faults'
    BY <1>9, EndEffect
  <2> QED
    BY <1>1, <2>1
<1>10. CASE InitiateRefused(p)
  <2>1. faults <= faults'
    BY <1>10, RefusalEffect
  <2> QED
    BY <1>1, <2>1
<1>11. CASE InitiateSession(p)
  <2>1. faults <= faults'
    BY <1>11, BeginEffect
  <2> QED
    BY <1>1, <2>1
<1> QED
  BY <1>3, <1>4, <1>5, <1>6, <1>7, <1>8, <1>9, <1>10, <1>11 DEF CallStep

\* Every step keeps the state files current between calls.
LEMMA SavedStep == TypeInv /\ PairInv /\ SavedInv /\ [Next]_vars => SavedInv'
<1> SUFFICES ASSUME TypeInv, PairInv, SavedInv, [Next]_vars, faults' = 0 PROVE SavedInv'
  BY DEF SavedInv
<1>0. \A kind : ~Fault(kind)
  BY FaultEffect
<1>1. CASE UNCHANGED vars
  BY <1>1 DEF vars, SavedInv, SavedAt, Saved, SameCore, Persistable
<1> DEFINE was(p) == faults = 0 /\ SavedAt(mem[p], disk[p], poll[p])
<1>2. ASSUME NEW p \in Party, PublishPrekeys(p) PROVE SavedInv'
  <2>1. was(p)
    BY <1>2, FaultsStay DEF SavedInv
  <2>2. mem[p] \in ClientState /\ Going(poll[p]) /\ poll[p].pc = "idle"
    BY <1>2, UserTypes DEF PublishPrekeys, Free
  <2>3. ~mem[p].dirty
    BY <2>1, <2>2 DEF Going, SavedAt
  <2>4. [mem[p] EXCEPT !.dirty = FALSE] = mem[p]
    BY <2>2, <2>3, CleanTypes
  <2>5. mem' = [mem EXCEPT ![p] = mem[p]] /\ disk' = disk /\ poll' = poll
    BY <1>0, <1>2, <2>4 DEF PublishPrekeys, Publish, PublishFails
  <2>6. mem' = mem
    BY <2>5 DEF TypeInv, ClientTypes
  <2> QED
    BY <2>1, <2>5, <2>6, StillClients, SavedCallSame, SavedStepOf
<1>3. ASSUME NEW p \in Party, SavePrekeys(p) PROVE SavedInv'
  <2>1. was(p)
    BY <1>3, FaultsStay DEF SavedInv, CallStep
  <2>2. PICK ok \in BOOLEAN : SaveOf(p, mem[p], ok)
                              /\ poll' = [poll EXCEPT ![p].err = @ \/ (poll[p].pc = "save" /\ ~ok)]
    BY <1>3 DEF SavePrekeys
  <2>3. mem[p] \in ClientState /\ mem \in [Party -> ClientState] /\ poll[p] \in PollState(Entry)
    BY UserTypes DEF TypeInv, ClientTypes
  <2>4. PICK d : disk' = [disk EXCEPT ![p] = d] /\ (Persistable(mem[p]) => d = mem[p])
    BY <2>2, <2>3, SaveEffect
  <2>5. mem' = [mem EXCEPT ![p] = mem[p]]
    BY <1>3, <2>3 DEF SavePrekeys
  <2>6. PICK call : /\ call = [poll[p] EXCEPT !.err = @ \/ (poll[p].pc = "save" /\ ~ok)]
                    /\ poll' = [poll EXCEPT ![p] = call]
    BY <2>2
  <2>7. call.out = poll[p].out /\ call.pc = poll[p].pc
    BY <2>3, <2>6 DEF PollState
  <2>8. SavedAt(mem[p], d, call)
    BY <2>1, <2>4, <2>7 DEF SavedAt, Saved, SameCore
  <2>9. Leaves(p, mem[p], d)
    BY <2>4, <2>5 DEF Leaves
  <2> QED
    BY <2>1, <2>6, <2>8, <2>9, SavedStepOf
<1>4. ASSUME NEW p \in Party, (\E q \in Party : AcquireBundle(p, q)) PROVE SavedInv'
  <2>1. was(p)
    BY <1>4, FaultsStay DEF SavedInv
  <2>2. mem' = mem /\ disk' = disk /\ poll' = poll
    BY <1>4 DEF AcquireBundle
  <2> QED
    BY <2>1, <2>2, StillClients, SavedCallSame, SavedStepOf
<1>5. ASSUME NEW p \in Party, NEW q \in Party, VerifyPeerSafetyNumber(p, q) PROVE SavedInv'
  <2>1. was(p)
    BY <1>5, FaultsStay DEF SavedInv
  <2>2. PICK c \in ClientState, d \in ClientState :
          /\ Leaves(p, c, d) /\ c.dirty = mem[p].dirty /\ (Persistable(c) => d = c)
    BY <1>5, VerifyEffect
  <2>3. poll' = [poll EXCEPT ![p] = poll[p]]
    BY <1>5, SavedCallSame DEF VerifyPeerSafetyNumber
  <2>4. SavedAt(c, d, poll[p])
    BY <2>1, <2>2 DEF SavedAt, Saved, SameCore
  <2> QED
    BY <2>1, <2>2, <2>3, <2>4, SavedStepOf
<1>6. ASSUME NEW p \in Party, ProcessInbox(p) PROVE SavedInv'
  <2>1. was(p)
    BY <1>6, FaultsStay DEF SavedInv
  <2>2. PICK call : poll' = [poll EXCEPT ![p] = call] /\ call = StartPoll(mem[p].pending)
    BY <1>6 DEF ProcessInbox
  <2>3. mem' = mem /\ disk' = disk /\ poll[p].out = <<>>
    BY <1>6, UserTypes DEF ProcessInbox, Free, Going
  <2>4. call.pc = "drain"
    BY <2>2 DEF StartPoll
  <2>5. SavedAt(mem[p], disk[p], call)
    BY <2>1, <2>3, <2>4 DEF SavedAt
  <2> QED
    BY <2>1, <2>2, <2>3, <2>5, StillClients, SavedStepOf
<1>7. ASSUME NEW p \in Party, DrainInbox(p) PROVE SavedInv'
  <2>1. was(p)
    BY <1>7, FaultsStay DEF SavedInv, CallStep
  <2>2. mem[p] \in ClientState /\ disk \in [Party -> ClientState] /\ poll[p] \in PollState(Entry)
    BY UserTypes DEF TypeInv, ClientTypes
  <2>3. PICK c : c = [mem[p] EXCEPT !.pending = 0] /\ mem' = [mem EXCEPT ![p] = c]
    BY <1>7 DEF DrainInbox
  <2>4. SameCore(c, mem[p]) /\ c.dirty = mem[p].dirty
    BY <2>2, <2>3 DEF ClientState, SameCore
  <2>5. PICK page, call : call = Served(poll[p], page) /\ poll' = [poll EXCEPT ![p] = call]
    BY <1>7 DEF DrainInbox
  <2>6. call.out = poll[p].out /\ call.pc # "save"
    BY <2>2, <2>5 DEF Served, PollState
  <2>7. SavedAt(c, disk[p], call)
    BY <2>1, <2>4, <2>6, PersistableSame DEF SavedAt, Saved, SameCore
  <2>8. Leaves(p, c, disk[p])
    BY <1>7, <2>2, <2>3 DEF DrainInbox, Leaves
  <2> QED
    BY <2>1, <2>5, <2>7, <2>8, SavedStepOf
<1>8. ASSUME NEW p \in Party, HandleAccepted(p) PROVE SavedInv'
  <2>1. was(p)
    BY <1>8, FaultsStay DEF SavedInv, CallStep
  <2>2. PICK c \in ClientState, m \in posted[p], call \in PollState(Entry) :
          /\ Leaves(p, c, disk[p]) /\ poll' = [poll EXCEPT ![p] = call]
          /\ call.out # <<>> /\ call.pc \in {"handle", "drain", "end"}
    BY <1>8, AcceptEffect
  <2>3. SavedAt(c, disk[p], call)
    BY <2>2 DEF SavedAt
  <2> QED
    BY <2>1, <2>2, <2>3, SavedStepOf
<1>9. ASSUME NEW p \in Party, HandleRefused(p) PROVE SavedInv'
  <2>1. was(p)
    BY <1>9, FaultsStay DEF SavedInv, CallStep
  <2>2. PICK c \in ClientState, d \in ClientState, met \in ClientState, m \in posted[p],
             call \in PollState(Entry) :
          /\ Leaves(p, c, d) /\ poll' = [poll EXCEPT ![p] = call] /\ m \in Initial
          /\ (met = mem[p] \/ met = Meet(mem[p], m.from, m.identity))
          /\ SameCore(c, met) /\ c.dirty = met.dirty /\ (d = disk[p] \/ d = met)
          /\ (met # mem[p] /\ Persistable(met) => d = met)
          /\ call.out = poll[p].out /\ call.pc \in {"drain", "end"}
    BY <1>9, HandleRefusedEffect
  <2>3. m.from \in Party /\ m.identity \in Nat /\ mem[p] \in ClientState
    BY <2>2, UserTypes DEF Initial
  <2>4. met.dirty = mem[p].dirty
    BY <2>2, <2>3, MetSame
  <2>5. Persistable(c) = Persistable(met)
    BY <2>2, PersistableSame DEF SameCore
  <2>6. SavedAt(c, d, call)
    BY <2>1, <2>2, <2>4, <2>5 DEF SavedAt, Saved, SameCore
  <2> QED
    BY <2>1, <2>2, <2>6, SavedStepOf
<1>10. ASSUME NEW p \in Party, Republish(p) PROVE SavedInv'
  <2>1. was(p)
    BY <1>10, FaultsStay DEF SavedInv, CallStep
  <2>2. PICK r \in ClientState : r = Refill(p, mem[p])
    BY RefilledLimits, UserTypes
  <2>3. PICK c : c = [r EXCEPT !.dirty = FALSE]
    OBVIOUS
  <2>4. PICK call : call = [poll[p] EXCEPT !.pc = "save"]
    OBVIOUS
  <2>5. mem' = [mem EXCEPT ![p] = c] /\ poll' = [poll EXCEPT ![p] = call] /\ disk' = disk /\ mem[p].dirty
    BY <1>0, <1>10, <2>2, <2>3, <2>4 DEF Republish, Publish, PublishFails
  <2>6. call.out = poll[p].out
    BY <2>4, UserTypes DEF PollState
  <2>7. ~c.dirty
    BY <2>2, <2>3, CleanTypes
  <2>8. SavedAt(c, disk[p], call)
    BY <2>1, <2>5, <2>6, <2>7 DEF SavedAt
  <2>9. Leaves(p, c, disk[p])
    BY <2>5 DEF Leaves, TypeInv, ClientTypes
  <2> QED
    BY <2>1, <2>5, <2>8, <2>9, SavedStepOf
<1>11. ASSUME NEW p \in Party, GiveUp(p) PROVE SavedInv'
  <2>1. was(p)
    BY <1>11, FaultsStay DEF SavedInv, CallStep
  <2>2. poll[p].out = <<>> /\ poll' = [poll EXCEPT ![p] = Idle] /\ mem' = mem /\ disk' = disk
    BY <1>11 DEF GiveUp, Fails
  <2>3. Idle.pc # "save"
    BY DEF Idle
  <2>4. SavedAt(mem[p], disk[p], Idle)
    BY <2>1, <2>2, <2>3 DEF SavedAt
  <2> QED
    BY <2>1, <2>2, <2>4, StillClients, SavedStepOf
<1>12. ASSUME NEW p \in Party, SaveLocalState(p) PROVE SavedInv'
  <2>1. was(p)
    BY <1>12, FaultsStay DEF SavedInv, CallStep
  <2>2. PICK d \in {disk[p], mem[p]} : Leaves(p, mem[p], d) /\ (Persistable(mem[p]) => d = mem[p])
    BY <1>12, EndEffect
  <2>3. ~mem[p].dirty /\ poll' = [poll EXCEPT ![p] = Idle]
    BY <1>12, <2>1 DEF SaveLocalState, Over, SavedAt
  <2>4. SavedAt(mem[p], d, Idle)
    BY <2>2, <2>3 DEF SavedAt, Saved, SameCore
  <2> QED
    BY <2>1, <2>2, <2>3, <2>4, SavedStepOf
<1>13. ASSUME NEW p \in Party, InitiateRefused(p) PROVE SavedInv'
  <2>1. was(p)
    BY <1>13, FaultsStay DEF SavedInv, CallStep
  <2>2. PICK c \in ClientState, d \in ClientState :
          /\ Leaves(p, c, d) /\ (d = disk[p] \/ d = c) /\ task[p].peer \in Party /\ task[p].identity \in Nat
          /\ c = Meet(mem[p], task[p].peer, task[p].identity)
          /\ (c # mem[p] /\ Persistable(c) => d = c)
    BY <1>13, RefusalEffect
  <2>3. c.dirty = mem[p].dirty
    <3>1. PICK b \in ClientState, q \in Party, n \in Nat : b = mem[p] /\ q = task[p].peer /\ n = task[p].identity
      BY <2>2, UserTypes
    <3>2. c = Meet(b, q, n)
      BY <2>2, <3>1
    <3> QED
      BY <3>1, <3>2, MetSame
  <2>4. poll' = [poll EXCEPT ![p] = poll[p]]
    BY <1>13, SavedCallSame DEF InitiateRefused
  <2>5. SavedAt(c, d, poll[p])
    BY <2>1, <2>2, <2>3 DEF SavedAt, Saved, SameCore
  <2> QED
    BY <2>1, <2>2, <2>4, <2>5, SavedStepOf
<1>14. ASSUME NEW p \in Party, InitiateSession(p) PROVE SavedInv'
  <2>1. was(p)
    BY <1>14, FaultsStay DEF SavedInv, CallStep
  <2>2. PICK c \in ClientState, d \in ClientState :
          /\ Leaves(p, c, d) /\ (Persistable(c) => d = c) /\ Acquired(p) /\ task[p].pair # None
          /\ c = WithSession(mem[p], task[p].peer, task[p].identity, Begun(p))
    BY <1>14, BeginEffect
  <2>3. PICK q \in Party, n \in Nat, m \in Initial, b \in ClientState :
          q = task[p].peer /\ n = task[p].identity /\ m = Begun(p) /\ b = mem[p] /\ Limits(b)
    BY <2>2, BegunTypes, UserTypes
  <2>4. c.dirty = b.dirty
    BY <2>2, <2>3, EstablishedSame
  <2>5. poll' = [poll EXCEPT ![p] = poll[p]]
    BY <1>14, SavedCallSame DEF InitiateSession, StartInitial
  <2>6. SavedAt(c, d, poll[p])
    BY <2>1, <2>2, <2>3, <2>4 DEF SavedAt, Saved, SameCore
  <2> QED
    BY <2>1, <2>2, <2>5, <2>6, SavedStepOf
<1>15. ASSUME NEW p \in Party,
              InitiateNotPosted(p) \/ InitiateCrash(p) \/ DrainInboxFails(p)
              \/ Restart(p) \/ LoseStateFile(p) \/ Replay(p)
       PROVE  FALSE
  BY <1>0, <1>15 DEF InitiateNotPosted, InitiateCrash, DrainInboxFails, Restart, LoseStateFile, Replay
<1> QED
  BY <1>1, <1>2, <1>3, <1>4, <1>5, <1>6, <1>7, <1>8, <1>9, <1>10, <1>11, <1>12, <1>13, <1>14, <1>15
     DEF Next, CallStep

\* Between two calls of a client its state file has the identity, pools, replay
\* guards, contacts and sessions that it has in memory, as long as no fault
\* happened and SaveLocalState finds neither too many contacts nor too many
\* sessions.
THEOREM StateFileIsCurrent == Spec => []CallsEndSaved
<1>1. TypeInv /\ SavedInv => CallsEndSaved
  <2> SUFFICES ASSUME TypeInv, SavedInv, faults = 0, NEW p \in Party, Free(p), Persistable(mem[p])
               PROVE  disk[p] = [mem[p] EXCEPT !.pending = disk[p].pending]
    BY DEF CallsEndSaved
  <2>1. poll[p].out = <<>> /\ mem[p] \in ClientState /\ disk[p] \in ClientState
    BY UserTypes DEF Free, Going
  <2>2. Saved(mem[p], disk[p])
    BY <2>1 DEF SavedInv, SavedAt
  <2> QED
    BY <2>1, <2>2, SavedIsEqual
<1>2. TypeInv /\ PairInv /\ SavedInv /\ [Next]_vars => SavedInv'
  BY SavedStep
<1> QED
  BY <1>1, <1>2, InitialSaved, PairsHold, PTL DEF Spec
----------------------------------------------------------------------------
\* What the store offers.

\* Only the pools of a client c that accepted something in this call lack
\* pairs; d is its state file.
FullAt(c, d, call) ==
    /\ ~c.dirty => Len(c.pool) = PoolTarget
    /\ ~d.dirty => Len(d.pool) = PoolTarget
    /\ Len(c.pool) < PoolTarget => call.pc \in {"drain", "handle", "end"} /\ call.out # <<>>
    /\ d.self = c.self

\* Bundle b has what client c offers, but for the pairs h that were handed out.
OfferedBy(b, c, h) ==
    /\ b.identity = c.self
    /\ Elements(b.pairs) \subseteq Elements(c.pool)
    /\ Elements(c.pool) \ Elements(b.pairs) \subseteq Elements(h)
OfferAt(b, c, d, h) == ~c.dirty \/ (~d.dirty /\ d.pool = c.pool) => OfferedBy(b, c, h)

OfferInv ==
    \A p \in Party :
        /\ FullAt(mem[p], disk[p], poll[p])
        /\ "pool" \notin cause => OfferAt(bundle[p], mem[p], disk[p], handed[p])

\* What a step of one client owes to the bundles of all.
LEMMA OfferStepOf ==
    ASSUME TypeInv, OfferInv, NEW p \in Party, NEW c, NEW d, Leaves(p, c, d),
           NEW call, poll' = [poll EXCEPT ![p] = call], NEW b, b = bundle'[p],
           \A q \in Party : q # p => bundle'[q] = bundle[q], handed' = handed, cause \subseteq cause',
           FullAt(c, d, call), "pool" \notin cause' => OfferAt(b, c, d, handed[p])
    PROVE  OfferInv'
<1>0. ClientTypes /\ poll \in [Party -> PollState(Entry)]
  BY DEF TypeInv, PollTypes
<1>1. /\ mem'[p] = c /\ disk'[p] = d
      /\ \A q \in Party : q # p => mem'[q] = mem[q] /\ disk'[q] = disk[q]
  BY <1>0, Left
<1>2. poll'[p] = call /\ \A q \in Party : q # p => poll'[q] = poll[q]
  BY <1>0
<1>3. \A q \in Party : FullAt(mem'[q], disk'[q], poll'[q])
  BY <1>1, <1>2 DEF OfferInv
<1>4. "pool" \notin cause' => \A q \in Party : OfferAt(bundle'[q], mem'[q], disk'[q], handed'[q])
  BY <1>1 DEF OfferInv
<1> QED
  BY <1>3, <1>4 DEF OfferInv, FullAt, OfferAt, OfferedBy, Elements

\* What a client that is not short of pairs just published.
LEMMA OfferedAll ==
    ASSUME NEW c, NEW b, b.identity = c.self, b.pairs = c.pool, NEW h
    PROVE  OfferedBy(b, c, h)
BY DEF OfferedBy

\* StoreBundle replaces the bundle of its client by the pairs of its pool.
LEMMA Published ==
    ASSUME TypeInv, NEW p \in Party, NEW c \in ClientState
    PROVE  /\ StoreBundle(p, c)[p].identity = c.self /\ StoreBundle(p, c)[p].pairs = c.pool
           /\ \A q \in Party : q # p => StoreBundle(p, c)[q] = bundle[q]
<1>1. bundle \in [Party -> [identity : Nat, pairs : Seq(Pair)]]
  BY DEF TypeInv, StoreTypes
<1>2. PICK b : b = [identity |-> c.self, pairs |-> c.pool]
  OBVIOUS
<1>3. StoreBundle(p, c) = [bundle EXCEPT ![p] = b]
  BY <1>2 DEF StoreBundle
<1> QED
  BY <1>1, <1>2, <1>3

\* The steps that leave the pools alone keep hold of a call that is short of
\* pairs.
LEMMA CallKept ==
    ASSUME TypeInv, NEW p \in Party, PoolsAlone(p), FullAt(mem[p], disk[p], poll[p])
    PROVE  \E call : /\ poll' = [poll EXCEPT ![p] = call]
                     /\ Len(mem[p].pool) < PoolTarget =>
                          call.pc \in {"drain", "handle", "end"} /\ call.out # <<>>
<1>1. poll[p] \in PollState(Entry) /\ Going(poll[p]) /\ poll = [poll EXCEPT ![p] = poll[p]]
  BY UserTypes DEF TypeInv, PollTypes
<1>0. Len(mem[p].pool) < PoolTarget => poll[p].pc \in {"drain", "handle", "end"} /\ poll[p].out # <<>>
  BY DEF FullAt
<1>2. CASE poll' = poll
  BY <1>0, <1>1, <1>2
<1>3. CASE SavePrekeys(p)
  <2>1. PICK err, call : call = [poll[p] EXCEPT !.err = err] /\ poll' = [poll EXCEPT ![p] = call]
    BY <1>3 DEF SavePrekeys
  <2>2. call.pc = poll[p].pc /\ call.out = poll[p].out
    BY <1>1, <2>1 DEF PollState
  <2> QED
    BY <1>0, <2>1, <2>2
<1>4. CASE ProcessInbox(p)
  BY <1>0, <1>4 DEF ProcessInbox, Free
<1>5. CASE DrainInbox(p)
  <2>1. PICK page, call : call = Served(poll[p], page) /\ poll' = [poll EXCEPT ![p] = call]
    BY <1>5 DEF DrainInbox
  <2>2. call.pc \in {"handle", "end"} /\ call.out = poll[p].out
    BY <1>1, <2>1 DEF Served, PollState
  <2> QED
    BY <1>0, <2>1, <2>2
<1>6. CASE DrainInboxFails(p)
  <2>1. PICK call : call = NotServed(poll[p]) /\ poll' = [poll EXCEPT ![p] = call]
    BY <1>6 DEF DrainInboxFails
  <2>2. poll[p].out # <<>> => call.pc = "end" /\ call.out = poll[p].out
    BY <1>1, <2>1 DEF NotServed, PollState
  <2> QED
    BY <1>0, <2>1, <2>2
<1>7. CASE HandleRefused(p)
  <2>1. PICK c \in ClientState, d \in ClientState, met \in ClientState, m \in posted[p],
             call \in PollState(Entry) :
          poll' = [poll EXCEPT ![p] = call] /\ call.out = poll[p].out /\ call.pc \in {"drain", "end"}
    BY <1>7, HandleRefusedEffect
  <2> QED
    BY <1>0, <2>1
<1>8. CASE GiveUp(p) \/ SaveLocalState(p)
  <2>1. ~(Len(mem[p].pool) < PoolTarget)
    <3>1. poll[p].pc = "save" \/ ~mem[p].dirty
      BY <1>8 DEF GiveUp, SaveLocalState, Over
    <3>2. CASE poll[p].pc = "save"
      BY <1>0, <3>2
    <3>3. CASE ~mem[p].dirty
      <4>1. Len(mem[p].pool) = PoolTarget /\ PoolTarget \in Nat
        BY <3>3, HandshakeAssumption DEF FullAt
      <4> QED
        BY <4>1
    <3> QED
      BY <3>1, <3>2, <3>3
  <2>2. poll' = [poll EXCEPT ![p] = Idle]
    BY <1>8 DEF GiveUp, SaveLocalState
  <2> QED
    BY <2>1, <2>2
<1>9. CASE \/ PublishPrekeys(p) \/ (\E q \in Party : AcquireBundle(p, q) \/ VerifyPeerSafetyNumber(p, q))
           \/ Replay(p) \/ InitiateRefused(p) \/ InitiateSession(p) \/ InitiateNotPosted(p)
  <2>1. poll' = poll
    BY <1>9 DEF PublishPrekeys, AcquireBundle, VerifyPeerSafetyNumber, Replay, InitiateRefused,
                InitiateSession, InitiateNotPosted, StartInitial
  <2> QED
    BY <1>2, <2>1
<1> QED
  BY <1>3, <1>4, <1>5, <1>6, <1>7, <1>8, <1>9 DEF PoolsAlone, Quiet

\* The pools of a client after such a step.
LEMMA FullKept ==
    ASSUME NEW b, NEW e, NEW old, FullAt(b, e, old), NEW c, NEW d, NEW call,
           SamePools(c, b), c.dirty = b.dirty, d = e \/ (SamePools(d, c) /\ d.dirty = c.dirty),
           Len(b.pool) < PoolTarget => call.pc \in {"drain", "handle", "end"} /\ call.out # <<>>
    PROVE  FullAt(c, d, call)
BY DEF FullAt, SamePools

\* A step that touches no pool leaves the bundle as answerable as it was.
LEMMA OfferKept ==
    ASSUME NEW b, NEW e, NEW x, NEW h, OfferAt(x, b, e, h), NEW c, NEW d,
           SamePools(c, b), c.dirty = b.dirty, d = e \/ (SamePools(d, c) /\ d.dirty = c.dirty)
    PROVE  OfferAt(x, c, d, h)
BY DEF OfferAt, OfferedBy, SamePools

\* The bundles just published are the pools.
LEMMA InitialOffer == Init => OfferInv
<1> SUFFICES ASSUME Init, NEW p \in Party
             PROVE  FullAt(mem[p], disk[p], poll[p]) /\ OfferAt(bundle[p], mem[p], disk[p], handed[p])
  BY DEF OfferInv
<1>1. /\ mem[p] = Created(p) /\ disk[p] = mem[p]
      /\ bundle[p] = [identity |-> 1, pairs |-> mem[p].pool]
  BY DEF Init
<1>2. mem[p].pool = FreshPool(p, 0) /\ mem[p].self = 1
  BY <1>1, CreatedTypes
<1>3. Len(mem[p].pool) = PoolTarget /\ PoolTarget \in Nat
  BY <1>2, Fresh, HandshakeAssumption
<1>4. FullAt(mem[p], disk[p], poll[p])
  BY <1>1, <1>3 DEF FullAt
<1>5. bundle[p].identity = mem[p].self /\ bundle[p].pairs = mem[p].pool
  BY <1>1, <1>2
<1>6. OfferedBy(bundle[p], mem[p], handed[p])
  BY <1>5, OfferedAll
<1> QED
  BY <1>4, <1>6 DEF OfferAt

\* AcquireBundleForSession takes the first pair of a bundle.
LEMMA PairsAreSome == \A x \in Pair : x # None
<1>1. None \notin Party \X Nat
  BY HandshakeAssumption
<1>2. Pair \subseteq Party \X Nat
  BY DEF Pair
<1> QED
  BY <1>1, <1>2

\* AcquireBundleForSession takes at most one pair out of a bundle, and hands it
\* out.
LEMMA Taken ==
    ASSUME TypeInv, NEW p \in Party, NEW q \in Party, AcquireBundle(p, q)
    PROVE  /\ bundle'[q].identity = bundle[q].identity
           /\ \A r \in Party : r # q => bundle'[r] = bundle[r] /\ handed'[r] = handed[r]
           /\ Elements(bundle'[q].pairs) \subseteq Elements(bundle[q].pairs)
           /\ Elements(bundle[q].pairs) \ Elements(bundle'[q].pairs) \subseteq Elements(handed'[q])
           /\ Elements(handed[q]) \subseteq Elements(handed'[q])
<1>1. /\ bundle \in [Party -> [identity : Nat, pairs : Seq(Pair)]] /\ handed \in [Party -> Seq(Pair)]
      /\ bundle[q].pairs \in Seq(Pair) /\ handed[q] \in Seq(Pair)
  BY UserTypes DEF TypeInv, StoreTypes, HistoryTypes
<1>2. PICK s \in Seq(Pair), h \in Seq(Pair) : s = bundle[q].pairs /\ h = handed[q]
  BY <1>1
<1>3. CASE s = <<>>
  <2>1. bundle' = [bundle EXCEPT ![q].pairs = s] /\ handed' = [handed EXCEPT ![q] = h]
    BY <1>2, <1>3 DEF AcquireBundle, FirstPair, WithoutFirst
  <2>2. bundle' = bundle /\ handed' = handed
    BY <1>1, <1>2, <2>1
  <2> QED
    BY <2>2
<1>4. CASE s # <<>>
  <2>1. PICK x \in Pair : x = Head(s)
    BY <1>4
  <2>2. x # None
    BY PairsAreSome
  <2>3. PICK t, k : t = Tail(s) /\ k = Append(h, x)
    OBVIOUS
  <2>4. bundle' = [bundle EXCEPT ![q].pairs = t] /\ handed' = [handed EXCEPT ![q] = k]
    BY <1>2, <1>4, <2>1, <2>2, <2>3 DEF AcquireBundle, FirstPair, WithoutFirst
  <2>5. /\ bundle'[q].pairs = t /\ bundle'[q].identity = bundle[q].identity /\ handed'[q] = k
        /\ \A r \in Party : r # q => bundle'[r] = bundle[r] /\ handed'[r] = handed[r]
    BY <1>1, <2>4
  <2>6. /\ Len(s) \in Nat \ {0} /\ DOMAIN s = 1 .. Len(s) /\ x = s[1]
        /\ t \in Seq(Pair) /\ Len(t) = Len(s) - 1 /\ \A i \in 1 .. Len(s) - 1 : t[i] = s[i + 1]
    BY <1>4, <2>1, <2>3
  <2>7. Elements(t) \subseteq Elements(s)
    <3> SUFFICES ASSUME NEW i \in DOMAIN t PROVE t[i] \in Elements(s)
      BY DEF Elements
    <3>1. i \in 1 .. Len(s) - 1 /\ i + 1 \in DOMAIN s /\ t[i] = s[i + 1]
      BY <2>6
    <3> QED
      BY <3>1 DEF Elements
  <2>8. Elements(s) \subseteq Elements(t) \cup {x}
    <3> SUFFICES ASSUME NEW i \in DOMAIN s, s[i] # x PROVE s[i] \in Elements(t)
      BY DEF Elements
    <3>1. i # 1
      BY <2>6
    <3>2. PICK j \in 1 .. Len(s) - 1 : i = j + 1
      <4>1. i - 1 \in 1 .. Len(s) - 1 /\ i = (i - 1) + 1
        BY <2>6, <3>1
      <4> QED
        BY <4>1
    <3>3. t[j] = s[i] /\ j \in DOMAIN t
      BY <2>6, <3>2
    <3> QED
      BY <3>3 DEF Elements
  <2>9. DOMAIN k = DOMAIN h \cup {Len(h) + 1} /\ k[Len(h) + 1] = x /\ \A i \in DOMAIN h : k[i] = h[i]
    BY <2>3, AppendProperties
  <2>10. Elements(h) \subseteq Elements(k) /\ x \in Elements(k)
    BY <2>9 DEF Elements
  <2> QED
    BY <1>2, <2>5, <2>7, <2>8, <2>10
<1> QED
  BY <1>3, <1>4

\* A refill that adds pairs is a pool no state file has.
LEMMA RefillIsNew ==
    ASSUME TypeInv, NEW p \in Party, NEW b \in ClientState, Limits(b), NEW e, PairsOk(p, e, made[p]),
           NEW r, r = Refill(p, b), e.pool = r.pool
    PROVE  r.pool = b.pool
<1>1. made[p] \in Nat /\ Len(b.pool) <= PoolTarget /\ Len(b.pool) \in Nat /\ PoolTarget \in Nat
      /\ b.pool \in Seq(Pair)
  BY UserTypes, Fields, HandshakeAssumption DEF Limits
<1>2. PICK n \in Nat, k \in Nat : n = Len(b.pool) /\ k = Lacking(b)
  BY <1>1, RefilledLimits
<1>3. k = PoolTarget - n /\ Len(r.pool) = PoolTarget
  BY <1>1, <1>2, Refilled
<1>4. k = 0 => r.pool = b.pool
  BY <1>1, <1>2, Refilled
<1>5. ASSUME k # 0 PROVE FALSE
  <2>1. r.pool \in Seq(Pair)
    BY RefilledLimits, Fields
  <2>2. PICK i \in Nat : i = n + 1
    OBVIOUS
  <2>3. i \in DOMAIN r.pool /\ i \notin DOMAIN b.pool
    BY <1>1, <1>2, <1>3, <1>5, <2>1, <2>2
  <2>4. r.pool[i] = <<p, made[p] + (i - Len(b.pool))>>
    BY <1>1, <2>3, Refilled
  <2>5. made[p] + (i - Len(b.pool)) = made[p] + 1
    BY <1>1, <1>2, <2>2
  <2>6. e.pool[i] \in {p} \X (1 .. made[p])
    BY <2>3 DEF PairsOk
  <2>7. <<p, made[p] + 1>> \in {p} \X (1 .. made[p])
    BY <2>4, <2>5, <2>6
  <2>8. made[p] + 1 \in 1 .. made[p]
    BY <2>7
  <2> QED
    BY <1>1, <2>8
<1> QED
  BY <1>4, <1>5

\* The pools after an initial message was accepted.
LEMMA AcceptedPool ==
    ASSUME NEW c \in ClientState, Limits(c), NEW m \in Initial, HasPair(c, m.pair),
           \A i, j \in DOMAIN c.pool : c.pool[i] = c.pool[j] => i = j, NEW r, r = Accept(c, m)
    PROVE  /\ r.self = c.self /\ Len(r.pool) = Len(c.pool) - 1
           /\ Elements(r.pool) = Elements(c.pool) \ {m.pair} /\ r.accepted = Append(c.accepted, m)
<1>1. Len(r.pool) = Len(c.pool) - 1
  BY Accepted
<1>2. Elements(r.pool) = Elements(c.pool) \ {m.pair} /\ r.accepted = Append(c.accepted, m)
  BY Accepted
<1>3. r.self = c.self
  BY DEF Accept, WithSession, ClientState
<1> QED
  BY <1>1, <1>2, <1>3

\* Every step keeps the bundles answerable.
LEMMA OfferStep == TypeInv /\ PairInv /\ OfferInv /\ [Next]_vars => OfferInv'
<1> SUFFICES ASSUME TypeInv, PairInv, OfferInv, [Next]_vars PROVE OfferInv'
  OBVIOUS
<1>1. CASE UNCHANGED vars
  <2>1. UNCHANGED <<mem, disk, bundle, poll, handed, cause>>
    BY <1>1 DEF vars, store, history
  <2>2. \A p \in Party : FullAt(mem'[p], disk'[p], poll'[p])
    BY <2>1 DEF OfferInv
  <2>3. "pool" \notin cause' => \A p \in Party : OfferAt(bundle'[p], mem'[p], disk'[p], handed'[p])
    BY <2>1 DEF OfferInv
  <2> QED
    BY <2>2, <2>3 DEF OfferInv, FullAt, OfferAt, OfferedBy, Elements
<1>0. PoolTarget \in Nat
  BY HandshakeAssumption
<1>2. ASSUME NEW p \in Party, PublishPrekeys(p) PROVE OfferInv'
  <2>1. PICK b \in ClientState, e \in ClientState : b = mem[p] /\ e = disk[p] /\ Limits(b) /\ FullAt(b, e, poll[p])
        /\ ("pool" \notin cause => OfferAt(bundle[p], b, e, handed[p]))
    BY UserTypes DEF OfferInv
  <2>2. Len(b.pool) = PoolTarget
    <3>1. poll[p].pc = "idle"
      BY <1>2 DEF PublishPrekeys, Free
    <3>2. ~(Len(b.pool) < PoolTarget) /\ Len(b.pool) <= PoolTarget /\ Len(b.pool) \in Nat
      BY <2>1, <3>1, Fields DEF FullAt, Limits
    <3> QED
      BY <1>0, <3>2
  <2>3. disk' = [disk EXCEPT ![p] = e] /\ poll' = [poll EXCEPT ![p] = poll[p]] /\ handed' = handed /\ cause' = cause
    BY <1>2, <2>1, SavedCallSame DEF PublishPrekeys, history, TypeInv, ClientTypes
  <2>4. CASE Publish(p, mem[p])
    <3>1. PICK c : c = [b EXCEPT !.dirty = FALSE]
      OBVIOUS
    <3>2. c.self = b.self /\ c.pool = b.pool
      BY <3>1, CleanTypes DEF SameCore
    <3>3. mem' = [mem EXCEPT ![p] = c] /\ bundle' = StoreBundle(p, b)
      BY <2>1, <2>4, <3>1 DEF Publish
    <3>4. bundle'[p].identity = c.self /\ bundle'[p].pairs = c.pool
          /\ \A q \in Party : q # p => bundle'[q] = bundle[q]
      BY <3>2, <3>3, Published
    <3>5. FullAt(c, e, poll[p])
      BY <2>1, <2>2, <3>2 DEF FullAt
    <3>6. OfferAt(bundle'[p], c, e, handed[p])
      BY <3>4, OfferedAll DEF OfferAt
    <3>7. Leaves(p, c, e) /\ cause \subseteq cause'
      BY <2>3, <3>3 DEF Leaves
    <3> QED
      BY <2>3, <3>4, <3>5, <3>6, <3>7, OfferStepOf
  <2>5. CASE PublishFails(p, mem[p])
    <3>1. mem' = [mem EXCEPT ![p] = b] /\ (bundle' = bundle \/ bundle' = StoreBundle(p, b))
      BY <2>1, <2>5 DEF PublishFails
    <3>2. Leaves(p, b, e) /\ cause \subseteq cause'
      BY <2>3, <3>1 DEF Leaves
    <3>3. CASE bundle' = bundle
      BY <2>1, <2>3, <3>2, <3>3, OfferStepOf
    <3>4. CASE bundle' = StoreBundle(p, b)
      <4>1. bundle'[p].identity = b.self /\ bundle'[p].pairs = b.pool
            /\ \A q \in Party : q # p => bundle'[q] = bundle[q]
        BY <3>4, Published
      <4>2. OfferAt(bundle'[p], b, e, handed[p])
        BY <4>1, OfferedAll DEF OfferAt
      <4> QED
        BY <2>1, <2>3, <3>2, <4>1, <4>2, OfferStepOf
    <3> QED
      BY <3>1, <3>3, <3>4
  <2> QED
    BY <1>2, <2>4, <2>5 DEF PublishPrekeys
<1>3. ASSUME NEW p \in Party, NEW q \in Party, AcquireBundle(p, q) PROVE OfferInv'
  <2>1. mem' = mem /\ disk' = disk /\ poll' = poll /\ cause' = cause
    BY <1>3 DEF AcquireBundle
  <2>2. \A r \in Party : FullAt(mem'[r], disk'[r], poll'[r])
    BY <2>1 DEF OfferInv
  <2>3. \A r \in Party : r # q /\ "pool" \notin cause => OfferAt(bundle'[r], mem'[r], disk'[r], handed'[r])
    BY <1>3, <2>1, Taken DEF OfferInv
  <2>4. ASSUME NEW c, OfferedBy(bundle[q], c, handed[q]) PROVE OfferedBy(bundle'[q], c, handed'[q])
    BY <1>3, <2>4, Taken DEF OfferedBy
  <2>5. "pool" \notin cause => OfferAt(bundle'[q], mem'[q], disk'[q], handed'[q])
    BY <2>1, <2>4 DEF OfferInv, OfferAt
  <2>6. \A r \in Party : "pool" \notin cause' => OfferAt(bundle'[r], mem'[r], disk'[r], handed'[r])
    BY <2>1, <2>3, <2>5
  <2> QED
    BY <2>2, <2>6 DEF OfferInv, FullAt, OfferAt, OfferedBy, Elements
<1>4. ASSUME NEW p \in Party, PoolsAlone(p), ~PublishPrekeys(p), ~\E q \in Party : AcquireBundle(p, q)
      PROVE  OfferInv'
  <2>1. PICK b, e : b = mem[p] /\ e = disk[p] /\ FullAt(b, e, poll[p])
                    /\ ("pool" \notin cause => OfferAt(bundle[p], b, e, handed[p]))
    BY DEF OfferInv
  <2>2. PICK c \in ClientState, d \in ClientState :
          /\ Leaves(p, c, d) /\ SamePools(c, b) /\ c.dirty = b.dirty
          /\ d = e \/ (SamePools(d, c) /\ d.dirty = c.dirty)
    BY <1>4, <2>1, PoolsKept
  <2>3. PICK call : /\ poll' = [poll EXCEPT ![p] = call]
                    /\ Len(b.pool) < PoolTarget =>
                         call.pc \in {"drain", "handle", "end"} /\ call.out # <<>>
    BY <1>4, <2>1, CallKept
  <2>4. bundle' = bundle /\ handed' = handed /\ cause \subseteq cause'
    BY <1>4 DEF PoolsAlone, Quiet, SavePrekeys, ProcessInbox, DrainInbox, DrainInboxFails, GiveUp,
                SaveLocalState, Replay, VerifyPeerSafetyNumber, HandleRefused, InitiateRefused,
                InitiateSession, InitiateNotPosted, StartInitial, Causes, store, history
  <2>5. FullAt(c, d, call)
    BY <2>1, <2>2, <2>3, FullKept
  <2>6. "pool" \notin cause' => OfferAt(bundle'[p], c, d, handed[p])
    BY <2>1, <2>2, <2>4, OfferKept
  <2> QED
    BY <2>2, <2>3, <2>4, <2>5, <2>6, OfferStepOf
<1>5. ASSUME NEW p \in Party, HandleAccepted(p) PROVE OfferInv'
  <2>1. PICK c \in ClientState, m \in posted[p], call \in PollState(Entry) :
          /\ Leaves(p, c, disk[p]) /\ poll' = [poll EXCEPT ![p] = call] /\ m \in Initial
          /\ Accepts(mem[p], m) /\ SameCore(c, Accept(mem[p], m)) /\ c.dirty = TRUE
          /\ call.out # <<>> /\ call.pc \in {"handle", "drain", "end"}
    BY <1>5, AcceptEffect
  <2>2. PICK b \in ClientState, e \in ClientState : /\ b = mem[p] /\ e = disk[p] /\ Limits(b) /\ PairsOk(p, b, made[p])
                                                    /\ FullAt(b, e, poll[p])
    BY UserTypes DEF PairInv, OfferInv
  <2>3. PICK r : r = Accept(b, m)
    OBVIOUS
  <2>4. m \in Initial /\ HasPair(b, m.pair) /\ \A i, j \in DOMAIN b.pool : b.pool[i] = b.pool[j] => i = j
    BY <2>1, <2>2 DEF Accepts, PairsOk
  <2>5. Len(r.pool) = Len(b.pool) - 1 /\ r.self = b.self
    BY <2>2, <2>3, <2>4, AcceptedPool
  <2>6. c.pool = r.pool /\ c.self = r.self
    BY <2>1, <2>2, <2>3 DEF SameCore
  <2>7. Len(b.pool) \in Nat /\ Len(b.pool) <= PoolTarget
    BY <2>2, Fields DEF Limits
  <2>8. Len(c.pool) # PoolTarget
    BY <1>0, <2>5, <2>6, <2>7
  <2>9. FullAt(c, e, call)
    BY <2>1, <2>2, <2>5, <2>6 DEF FullAt
  <2>10. OfferAt(bundle'[p], c, e, handed[p])
    BY <2>1, <2>2, <2>8 DEF FullAt, OfferAt
  <2>11. bundle' = bundle /\ handed' = handed /\ cause \subseteq cause' /\ Leaves(p, c, e)
    BY <1>5, <2>1, <2>2 DEF HandleAccepted, store, history
  <2> QED
    BY <2>1, <2>9, <2>10, <2>11, OfferStepOf
<1>6. ASSUME NEW p \in Party, Republish(p) PROVE OfferInv'
  <2>1. PICK b \in ClientState, e \in ClientState : /\ b = mem[p] /\ e = disk[p] /\ Limits(b) /\ FullAt(b, e, poll[p])
                                                    /\ PairsOk(p, e, made[p]) /\ made[p] \in Nat
                                                    /\ ("pool" \notin cause => OfferAt(bundle[p], b, e, handed[p]))
    BY UserTypes DEF PairInv, OfferInv
  <2>2. PICK r \in ClientState : r = Refill(p, b)
    BY <2>1, RefilledLimits
  <2>3. Len(b.pool) <= PoolTarget
    BY <2>1 DEF Limits
  <2>4. Len(r.pool) = PoolTarget
    BY <2>1, <2>2, <2>3, Refilled
  <2>5. r.self = b.self
    BY <2>2 DEF Refill
  <2>6. r.dirty
    <3>1. b.dirty
      BY <1>6, <2>1 DEF Republish
    <3> QED
      BY <2>1, <2>2, <2>3, <3>1, Refilled
  <2>7. disk' = [disk EXCEPT ![p] = e] /\ handed' = handed /\ cause \subseteq cause'
    BY <1>6, <2>1 DEF Republish, history, TypeInv, ClientTypes
  <2>8. PICK call : poll' = [poll EXCEPT ![p] = call]
    BY <1>6 DEF Republish
  <2>9. ASSUME NEW c, c.self = r.self, c.pool = r.pool PROVE FullAt(c, e, call)
    BY <1>0, <2>1, <2>4, <2>5, <2>9 DEF FullAt
  <2>10. CASE Publish(p, r)
    <3>1. PICK c : c = [r EXCEPT !.dirty = FALSE]
      OBVIOUS
    <3>2. c.self = r.self /\ c.pool = r.pool
      BY <3>1, CleanTypes DEF SameCore
    <3>3. mem' = [mem EXCEPT ![p] = c] /\ bundle' = StoreBundle(p, r)
      BY <2>10, <3>1 DEF Publish
    <3>4. bundle'[p].identity = c.self /\ bundle'[p].pairs = c.pool
          /\ \A q \in Party : q # p => bundle'[q] = bundle[q]
      BY <3>2, <3>3, Published
    <3>5. FullAt(c, e, call)
      BY <2>9, <3>2
    <3>6. OfferAt(bundle'[p], c, e, handed[p])
      BY <3>4, OfferedAll DEF OfferAt
    <3>7. Leaves(p, c, e)
      BY <2>7, <3>3 DEF Leaves
    <3> QED
      BY <2>7, <2>8, <3>4, <3>5, <3>6, <3>7, OfferStepOf
  <2>11. CASE PublishFails(p, r)
    <3>1. mem' = [mem EXCEPT ![p] = r] /\ (bundle' = bundle \/ bundle' = StoreBundle(p, r))
      BY <2>11 DEF PublishFails
    <3>2. Leaves(p, r, e)
      BY <2>7, <3>1 DEF Leaves
    <3>3. FullAt(r, e, call)
      BY <2>9
    <3>4. CASE bundle' = bundle
      <4>1. e.pool = r.pool => e.pool = b.pool /\ r.pool = b.pool
        BY <2>1, <2>2, RefillIsNew
      <4>2. "pool" \notin cause' => OfferAt(bundle'[p], r, e, handed[p])
        BY <2>1, <2>5, <2>6, <2>7, <3>4, <4>1 DEF OfferAt, OfferedBy
      <4> QED
        BY <2>7, <2>8, <3>2, <3>3, <3>4, <4>2, OfferStepOf
    <3>5. CASE bundle' = StoreBundle(p, r)
      <4>1. bundle'[p].identity = r.self /\ bundle'[p].pairs = r.pool
            /\ \A q \in Party : q # p => bundle'[q] = bundle[q]
        BY <3>5, Published
      <4>2. OfferAt(bundle'[p], r, e, handed[p])
        BY <4>1, OfferedAll DEF OfferAt
      <4> QED
        BY <2>7, <2>8, <3>2, <3>3, <4>1, <4>2, OfferStepOf
    <3> QED
      BY <3>1, <3>4, <3>5
  <2> QED
    BY <1>6, <2>1, <2>2, <2>10, <2>11 DEF Republish
<1>7. ASSUME NEW p \in Party, Restart(p) \/ InitiateCrash(p) PROVE OfferInv'
  <2>1. PICK b, e \in ClientState : /\ b = mem[p] /\ e = disk[p] /\ Limits(e) /\ FullAt(b, e, poll[p])
                                    /\ made[p] \in Nat
                                    /\ ("pool" \notin cause => OfferAt(bundle[p], b, e, handed[p]))
    BY UserTypes DEF OfferInv
  <2>2. Recreate(p) /\ cause \subseteq cause' /\ Lost(p) \subseteq cause' /\ bundle' = bundle /\ handed' = handed
    BY <1>7 DEF Restart, InitiateCrash, store
  <2>3. PICK c \in ClientState : c = Refill(p, e)
    BY <2>1, RefilledLimits
  <2>4. Leaves(p, c, c) /\ poll' = [poll EXCEPT ![p] = Idle]
    BY <2>1, <2>2, <2>3, RecreateEffect DEF Recreate
  <2>5. Len(e.pool) <= PoolTarget
    BY <2>1 DEF Limits
  <2>6. Len(c.pool) = PoolTarget
    BY <2>1, <2>3, <2>5, Refilled
  <2>7. c.self = e.self
    BY <2>3 DEF Refill
  <2>8. ~c.dirty => ~e.dirty /\ c.pool = e.pool
    <3>1. PICK k \in Nat : k = Lacking(e)
      BY <2>1, RefilledLimits
    <3>2. c.dirty <=> e.dirty \/ k > 0
      BY <2>1, <2>3, <2>5, <3>1, Refilled
    <3>3. k = 0 => c.pool = e.pool
      BY <2>1, <2>3, <2>5, <3>1, Refilled
    <3>4. ~(k > 0) => k = 0
      OBVIOUS
    <3> QED
      BY <3>2, <3>3, <3>4
  <2>9. FullAt(c, c, Idle)
    BY <1>0, <2>6 DEF FullAt
  <2>10. ASSUME "pool" \notin cause' PROVE OfferAt(bundle[p], c, c, handed[p])
    <3>1. b.pool = e.pool /\ "pool" \notin cause
      BY <2>1, <2>2, <2>10 DEF Lost
    <3>2. b.self = e.self
      BY <2>1 DEF FullAt
    <3> QED
      BY <2>1, <2>7, <2>8, <3>1, <3>2 DEF OfferAt, OfferedBy
  <2> QED
    BY <2>2, <2>4, <2>9, <2>10, OfferStepOf
<1>8. ASSUME NEW p \in Party, LoseStateFile(p) PROVE OfferInv'
  <2>1. PICK c \in ClientState :
          Leaves(p, c, c) /\ c = NewClient(mem[p].self + 1, FreshPool(p, made[p]))
    BY <1>8, LossEffect
  <2>2. c.dirty = TRUE /\ c.pool = FreshPool(p, made[p])
    BY <2>1 DEF NewClient
  <2>3. Len(c.pool) = PoolTarget
    BY <2>2, Fresh, UserTypes
  <2>4. bundle' = bundle /\ handed' = handed /\ cause \subseteq cause' /\ poll' = [poll EXCEPT ![p] = Idle]
    BY <1>8 DEF LoseStateFile, store
  <2>5. FullAt(c, c, Idle) /\ OfferAt(bundle'[p], c, c, handed[p])
    BY <1>0, <2>2, <2>3 DEF FullAt, OfferAt
  <2> QED
    BY <2>1, <2>4, <2>5, OfferStepOf
<1> QED
  BY <1>1, <1>2, <1>3, <1>4, <1>5, <1>6, <1>7, <1>8 DEF Next, CallStep, PoolsAlone, Quiet

\* Unless a client died with unsaved pools, the bundle of a client with nothing to
\* publish (prekeys_dirty_ false) lists only pairs of its pool, and every pair of
\* the pool that it lacks was handed out; a pool is short of PoolTarget only within
\* a ProcessInbox call that has accepted something.
THEOREM OffersHold == Spec => []OfferInv
<1>1. TypeInv /\ PairInv /\ OfferInv /\ [Next]_vars => OfferInv'
  BY OfferStep
<1> QED
  BY <1>1, InitialOffer, PairsHold, PTL DEF Spec

\* PublishPrekeys and the tail of ProcessInbox keep the bundle at the server
\* and the pools together: what AcquireBundleForSession can hand out the
\* client can answer for, and what it holds besides was handed out, unless it
\* died with unsaved pools.
THEOREM BundlesAreAnswerable == Spec => []StoredPairsAnswerable
<1>1. OfferInv => StoredPairsAnswerable
  BY DEF OfferInv, OfferAt, OfferedBy, StoredPairsAnswerable
<1> QED
  BY <1>1, OffersHold, PTL
----------------------------------------------------------------------------
\* Handshakes on their way: who has which pair.

\* A step that neither begins a handshake nor posts one ...
NoMail ==
    /\ posted' = posted /\ inits' = inits /\ handed' = handed
    /\ \A p \in Party : task'[p] = task[p] \/ task'[p].op # "acquired"

\* ... and one that posts the handshake p has begun.
Posts(p) ==
    /\ Acquired(p) /\ task[p].pair # None
    /\ posted' = [posted EXCEPT ![task[p].peer] = @ \cup {Begun(p)}]
    /\ task' = [task EXCEPT ![p] = NoTask]
    /\ inits' = inits /\ handed' = handed

\* A task that acquires nothing leaves the acquired bundles alone.
LEMMA Tasks ==
    ASSUME TypeInv, NEW p \in Party, NEW t, t.op # "acquired", task' = [task EXCEPT ![p] = t]
    PROVE  \A q \in Party : task'[q] = task[q] \/ task'[q].op # "acquired"
BY DEF TypeInv, TaskTypes

\* An initial message leaves a client by InitiateSession alone, and a pair
\* reaches a client by AcquireBundleForSession alone.
LEMMA Mailing ==
    ASSUME TypeInv, [Next]_vars
    PROVE  NoMail \/ (\E p \in Party : Posts(p)) \/ (\E p, q \in Party : AcquireBundle(p, q))
<1>1. CASE UNCHANGED vars
  BY <1>1 DEF vars, history, NoMail
<1>2. ASSUME NEW p \in Party,
             \/ PublishPrekeys(p) \/ Republish(p)
             \/ SavePrekeys(p) \/ InitiateRefused(p) \/ InitiateNotPosted(p)
             \/ Restart(p) \/ LoseStateFile(p)
      PROVE  NoMail
  <2>1. NoTask.op # "acquired" /\ [NoTask EXCEPT !.op = "published"].op # "acquired"
    BY TaskKinds
  <2>2. posted' = posted /\ inits' = inits /\ handed' = handed
    BY <1>2 DEF PublishPrekeys, Republish, SavePrekeys, InitiateRefused, InitiateNotPosted, StartInitial,
                Restart, LoseStateFile, history
  <2>3. \/ task' = task \/ task' = [task EXCEPT ![p] = NoTask]
        \/ task' = [task EXCEPT ![p] = [NoTask EXCEPT !.op = "published"]]
    BY <1>2 DEF PublishPrekeys, Republish, Publish, PublishFails, SavePrekeys, InitiateRefused,
                InitiateNotPosted, StartInitial, Restart, Recreate, LoseStateFile
  <2>4. PICK t : t.op # "acquired" /\ (task' = task \/ task' = [task EXCEPT ![p] = t])
    BY <2>1, <2>3
  <2>5. \A q \in Party : task'[q] = task[q] \/ task'[q].op # "acquired"
    BY <2>4, Tasks
  <2> QED
    BY <2>2, <2>5 DEF NoMail
<1>3. ASSUME NEW p \in Party,
             \/ \E q \in Party : VerifyPeerSafetyNumber(p, q)
             \/ ProcessInbox(p) \/ DrainInbox(p) \/ DrainInboxFails(p) \/ HandleAccepted(p)
             \/ HandleRefused(p) \/ GiveUp(p) \/ SaveLocalState(p) \/ Replay(p)
      PROVE  NoMail
  BY <1>3 DEF VerifyPeerSafetyNumber, ProcessInbox, DrainInbox, DrainInboxFails, HandleAccepted,
              HandleRefused, GiveUp, SaveLocalState, Replay, history, NoMail
<1>4. ASSUME NEW p \in Party, InitiateSession(p) \/ InitiateCrash(p) PROVE Posts(p)
  BY <1>4 DEF InitiateSession, StartInitial, InitiateCrash, PostInitial, Recreate, Posts
<1> QED
  BY <1>1, <1>2, <1>3, <1>4 DEF Next, CallStep

\* What p's post adds.
LEMMA Posted ==
    ASSUME TypeInv, NEW p \in Party, Posts(p)
    PROVE  \E q \in Party, b \in Initial :
             /\ q = task[p].peer /\ q # p /\ b = Begun(p)
             /\ b.id = <<p, inits[p]>> /\ b.from = p /\ b.to = task[p].identity /\ b.pair = task[p].pair
             /\ posted'[q] = posted[q] \cup {b}
             /\ \A r \in Party : r # q => posted'[r] = posted[r]
             /\ task'[p].op # "acquired" /\ \A r \in Party : r # p => task'[r] = task[r]
             /\ inits' = inits /\ handed' = handed /\ inits[p] \in Nat
<1>1. PICK q \in Party, b \in Initial :
        /\ q = task[p].peer /\ q # p /\ b = Begun(p)
        /\ b.id = <<p, inits[p]>> /\ b.from = p /\ b.to = task[p].identity /\ b.pair = task[p].pair
        /\ inits[p] \in Nat
  BY BegunTypes DEF Posts
<1>2. posted \in [Party -> SUBSET Initial] /\ task \in [Party -> Task]
  BY DEF TypeInv, StoreTypes, TaskTypes
<1>3. posted'[q] = posted[q] \cup {b} /\ \A r \in Party : r # q => posted'[r] = posted[r]
  BY <1>1, <1>2 DEF Posts
<1>4. task'[p].op # "acquired" /\ \A r \in Party : r # p => task'[r] = task[r]
  BY <1>2, TaskKinds DEF Posts
<1> QED
  BY <1>1, <1>3, <1>4 DEF Posts

\* What AcquireBundle leaves behind.
LEMMA Begins ==
    ASSUME TypeInv, NEW p \in Party, NEW q \in Party, AcquireBundle(p, q)
    PROVE  /\ posted' = posted /\ task[p].op # "acquired"
           /\ inits[p] \in Nat /\ inits'[p] = inits[p] + 1 /\ \A r \in Party : r # p => inits'[r] = inits[r]
           /\ \A r \in Party : r # p => task'[r] = task[r]
           /\ task'[p].op = "acquired" =>
                task'[p].peer = q /\ task'[p].identity = bundle[q].identity /\ task'[p].pair = FirstPair(q)
<1>1. inits \in [Party -> Nat] /\ task \in [Party -> Task]
  BY DEF TypeInv, TaskTypes
<1>2. posted' = posted /\ task[p].op # "acquired" /\ inits' = [inits EXCEPT ![p] = inits[p] + 1]
  BY TaskKinds DEF AcquireBundle, Free
<1>3. PICK t : /\ t.op = "acquired" /\ t.peer = q /\ t.identity = bundle[q].identity /\ t.pair = FirstPair(q)
               /\ (task' = task \/ task' = [task EXCEPT ![p] = t])
  <2>1. PICK t : t = [op |-> "acquired", peer |-> q, identity |-> bundle[q].identity, pair |-> FirstPair(q)]
    OBVIOUS
  <2>2. task' = task \/ task' = [task EXCEPT ![p] = t]
    BY <2>1 DEF AcquireBundle
  <2> QED
    BY <2>1, <2>2
<1>4. CASE task' = task
  BY <1>1, <1>2, <1>4
<1>5. CASE task' = [task EXCEPT ![p] = t]
  BY <1>1, <1>2, <1>3, <1>5
<1> QED
  BY <1>3, <1>4, <1>5

\* The pairs handed out before stay where they are, and a pair handed out now
\* comes behind them.
LEMMA HandedGrows ==
    ASSUME TypeInv, NEW p \in Party, NEW q \in Party, AcquireBundle(p, q)
    PROVE  /\ \A r \in Party : \A i \in DOMAIN handed[r] : i \in DOMAIN handed'[r] /\ handed'[r][i] = handed[r][i]
           /\ FirstPair(q) # None =>
                \E k : k \in DOMAIN handed'[q] /\ k \notin DOMAIN handed[q] /\ handed'[q][k] = FirstPair(q)
<1>1. handed \in [Party -> Seq(Pair)] /\ handed[q] \in Seq(Pair)
  BY UserTypes DEF TypeInv, HistoryTypes
<1>0. PICK x : x = FirstPair(q)
  OBVIOUS
<1>2. PICK h \in Seq(Pair) : x = FirstPair(q) /\ h = handed[q]
  BY <1>0, <1>1
<1>3. handed' = [handed EXCEPT ![q] = IF x = None THEN h ELSE Append(h, x)]
  BY <1>2 DEF AcquireBundle
<1>4. CASE x = None
  BY <1>1, <1>2, <1>3, <1>4
<1>5. CASE x # None
  <2>1. x \in Pair
    BY <1>2, <1>5, BundleTypes, UserTypes
  <2>2. PICK k : k = Append(h, x)
    OBVIOUS
  <2>3. /\ DOMAIN k = DOMAIN h \cup {Len(h) + 1} /\ k[Len(h) + 1] = x /\ \A i \in DOMAIN h : k[i] = h[i]
        /\ Len(h) + 1 \notin DOMAIN h
    BY <2>1, <2>2, AppendProperties
  <2>4. handed'[q] = k /\ \A r \in Party : r # q => handed'[r] = handed[r]
    BY <1>1, <1>2, <1>3, <1>5, <2>2
  <2> QED
    BY <1>2, <2>3, <2>4
<1> QED
  BY <1>4, <1>5

----------------------------------------------------------------------------
\* An initial message is the one of its handshake, which its initiator is done
\* with.
PostOk(p) ==
    /\ \A m \in posted[p] :
         /\ m.id[1] = m.from /\ m.from # p /\ m.id[2] <= inits[m.from]
         /\ task[m.from].op = "acquired" => m.id[2] < inits[m.from]
    /\ \A m, n \in posted[p] : m.id = n.id => m = n

PostInv == \A p \in Party : PostOk(p)

\* Every step keeps the posted initial messages apart.
LEMMA PostStep == TypeInv /\ PostInv /\ [Next]_vars => PostInv'
<1> SUFFICES ASSUME TypeInv, PostInv, [Next]_vars PROVE PostInv'
  OBVIOUS
<1>0. \A p \in Party : \A m \in posted[p] : m \in Initial /\ m.from \in Party /\ m.id[2] \in Nat
  BY UserTypes DEF Initial, HandshakeId
<1>1. CASE NoMail
  <2>1. posted' = posted /\ inits' = inits /\ \A p \in Party : task'[p].op = "acquired" => task[p].op = "acquired"
    BY <1>1 DEF NoMail
  <2> QED
    BY <1>0, <2>1 DEF PostInv, PostOk
<1>2. ASSUME NEW p \in Party, Posts(p) PROVE PostInv'
  <2>1. PICK q \in Party, b \in Initial :
          /\ q # p /\ b.id = <<p, inits[p]>> /\ b.from = p
          /\ posted'[q] = posted[q] \cup {b} /\ \A r \in Party : r # q => posted'[r] = posted[r]
          /\ task'[p].op # "acquired" /\ \A r \in Party : r # p => task'[r] = task[r]
          /\ inits' = inits /\ inits[p] \in Nat
    BY <1>2, Posted
  <2>2. b.id[1] = p /\ b.id[2] = inits[p] /\ task[p].op = "acquired"
    BY <1>2, <2>1 DEF Posts, Acquired
  <2>3. \A r \in Party : \A m \in posted'[r] :
          /\ m.id[1] = m.from /\ m.from # r /\ m.id[2] <= inits'[m.from]
          /\ task'[m.from].op = "acquired" => m.id[2] < inits'[m.from]
    BY <1>0, <2>1, <2>2 DEF PostInv, PostOk
  <2>4. \A m \in posted[q] : m.id # b.id
    <3> SUFFICES ASSUME NEW m \in posted[q], m.id = b.id PROVE FALSE
      OBVIOUS
    <3>1. m.from = p /\ m.id[2] < inits[p] /\ m.id[2] = inits[p]
      BY <2>2 DEF PostInv, PostOk
    <3> QED
      BY <2>1, <3>1
  <2>5. \A r \in Party : \A m, n \in posted'[r] : m.id = n.id => m = n
    BY <2>1, <2>4 DEF PostInv, PostOk
  <2> QED
    BY <2>3, <2>5 DEF PostInv, PostOk
<1>3. ASSUME NEW p \in Party, NEW q \in Party, AcquireBundle(p, q) PROVE PostInv'
  <2>1. /\ posted' = posted /\ inits[p] \in Nat /\ inits'[p] = inits[p] + 1
        /\ \A r \in Party : r # p => inits'[r] = inits[r] /\ task'[r] = task[r]
    BY <1>3, Begins
  <2>2. \A r \in Party : \A m \in posted[r] :
          /\ m.id[1] = m.from /\ m.from # r /\ m.id[2] <= inits[m.from]
          /\ task[m.from].op = "acquired" => m.id[2] < inits[m.from]
    BY DEF PostInv, PostOk
  <2>3. \A r \in Party : \A m \in posted[r] :
          /\ m.id[2] <= inits'[m.from]
          /\ task'[m.from].op = "acquired" => m.id[2] < inits'[m.from]
    <3> SUFFICES ASSUME NEW r \in Party, NEW m \in posted[r]
                 PROVE  /\ m.id[2] <= inits'[m.from]
                        /\ task'[m.from].op = "acquired" => m.id[2] < inits'[m.from]
      OBVIOUS
    <3>1. CASE m.from = p
      <4>1. m.id[2] <= inits[p] /\ m.id[2] \in Nat
        BY <1>0, <2>2, <3>1
      <4> QED
        BY <2>1, <3>1, <4>1
    <3>2. CASE m.from # p
      BY <1>0, <2>1, <2>2, <3>2
    <3> QED
      BY <3>1, <3>2
  <2> QED
    BY <2>1, <2>2, <2>3 DEF PostInv, PostOk
<1> QED
  BY <1>1, <1>2, <1>3, Mailing

----------------------------------------------------------------------------
\* Handshake h has pair x of p, posted or with its initiator.
Holds(p, h, x) ==
    \/ \E m \in posted[p] : m.id = h /\ m.pair = x
    \/ /\ task[h[1]].op = "acquired" /\ task[h[1]].peer = p
       /\ h[2] = inits[h[1]] /\ task[h[1]].pair = x

\* A pair that a handshake has was handed out, and one that two have was
\* handed out twice.
HeldOk(p) ==
    /\ \A h \in HandshakeId : \A x \in Pair :
         Holds(p, h, x) => \E i \in DOMAIN handed[p] : handed[p][i] = x
    /\ \A h, g \in HandshakeId : \A x \in Pair : h # g /\ Holds(p, h, x) /\ Holds(p, g, x) =>
         \E i, j \in DOMAIN handed[p] : i # j /\ handed[p][i] = x /\ handed[p][j] = x

HeldInv == \A p \in Party : HeldOk(p)

\* A step after which nobody holds a pair it did not hold before.
LEMMA HeldSame ==
    ASSUME HeldInv, handed' = handed,
           \A p \in Party : \A h \in HandshakeId : \A x \in Pair : Holds(p, h, x)' => Holds(p, h, x)
    PROVE  HeldInv'
<1>1. \A p \in Party : \A h \in HandshakeId : \A x \in Pair :
        Holds(p, h, x)' => \E i \in DOMAIN handed'[p] : handed'[p][i] = x
  BY DEF HeldInv, HeldOk
<1>2. \A p \in Party : \A h, g \in HandshakeId : \A x \in Pair : h # g /\ Holds(p, h, x)' /\ Holds(p, g, x)' =>
        \E i, j \in DOMAIN handed'[p] : i # j /\ handed'[p][i] = x /\ handed'[p][j] = x
  BY DEF HeldInv, HeldOk
<1> QED
  BY <1>1, <1>2 DEF HeldInv, HeldOk

\* Every step keeps it so: two handshakes with one pair mean it was handed out
\* twice.
LEMMA HeldStep == TypeInv /\ HeldInv /\ [Next]_vars => HeldInv'
<1> SUFFICES ASSUME TypeInv, HeldInv, [Next]_vars PROVE HeldInv'
  OBVIOUS
<1>0. \A h \in HandshakeId : h[1] \in Party /\ h[2] \in Nat /\ h = <<h[1], h[2]>>
  BY DEF HandshakeId
<1>1. CASE NoMail
  <2>1. /\ posted' = posted /\ inits' = inits /\ handed' = handed
        /\ \A p \in Party : task'[p].op = "acquired" => task'[p] = task[p]
    BY <1>1 DEF NoMail
  <2>2. \A p \in Party : \A h \in HandshakeId : \A x \in Pair : Holds(p, h, x)' => Holds(p, h, x)
    BY <1>0, <2>1 DEF Holds
  <2> QED
    BY <2>1, <2>2, HeldSame
<1>2. ASSUME NEW p \in Party, Posts(p) PROVE HeldInv'
  <2>1. PICK q \in Party, b \in Initial :
          /\ q = task[p].peer /\ b.id = <<p, inits[p]>> /\ b.pair = task[p].pair
          /\ posted'[q] = posted[q] \cup {b} /\ \A r \in Party : r # q => posted'[r] = posted[r]
          /\ task'[p].op # "acquired" /\ \A r \in Party : r # p => task'[r] = task[r]
          /\ inits' = inits /\ handed' = handed
    BY <1>2, Posted
  <2>2. task[p].op = "acquired"
    BY <1>2 DEF Posts, Acquired
  <2>3. ASSUME NEW r \in Party, NEW h \in HandshakeId, NEW x \in Pair, Holds(r, h, x)' PROVE Holds(r, h, x)
    <3>1. CASE \E m \in posted'[r] : m.id = h /\ m.pair = x
      <4>1. PICK m \in posted'[r] : m.id = h /\ m.pair = x
        BY <3>1
      <4>2. CASE m \in posted[r]
        BY <4>1, <4>2 DEF Holds
      <4>3. CASE m \notin posted[r]
        <5>1. r = q /\ m = b
          BY <2>1, <4>1, <4>3
        <5>2. h[1] = p /\ h[2] = inits[p] /\ x = task[p].pair
          BY <2>1, <4>1, <5>1
        <5> QED
          BY <2>1, <2>2, <5>1, <5>2 DEF Holds
      <4> QED
        BY <4>2, <4>3
    <3>2. CASE /\ task'[h[1]].op = "acquired" /\ task'[h[1]].peer = r
               /\ h[2] = inits'[h[1]] /\ task'[h[1]].pair = x
      BY <1>0, <2>1, <3>2 DEF Holds
    <3> QED
      BY <2>3, <3>1, <3>2 DEF Holds
  <2> QED
    BY <2>1, <2>3, HeldSame
<1>3. ASSUME NEW p \in Party, NEW q \in Party, AcquireBundle(p, q) PROVE HeldInv'
  <2>1. /\ posted' = posted /\ inits[p] \in Nat
        /\ \A r \in Party : r # p => inits'[r] = inits[r] /\ task'[r] = task[r]
        /\ task'[p].op = "acquired" => task'[p].peer = q /\ task'[p].pair = FirstPair(q)
    BY <1>3, Begins
  <2>2. ASSUME NEW r \in Party, NEW h \in HandshakeId, NEW x \in Pair, Holds(r, h, x)', ~Holds(r, h, x)
        PROVE  r = q /\ h[1] = p /\ h[2] = inits'[p] /\ x = FirstPair(q) /\ x # None
    <3>1. x # None
      BY PairsAreSome
    <3>2. /\ task'[h[1]].op = "acquired" /\ task'[h[1]].peer = r
          /\ h[2] = inits'[h[1]] /\ task'[h[1]].pair = x
      BY <2>1, <2>2 DEF Holds
    <3>3. h[1] = p
      BY <1>0, <2>1, <2>2, <3>2 DEF Holds
    <3> QED
      BY <2>1, <3>1, <3>2, <3>3
  <2>3. \A r \in Party : \A i \in DOMAIN handed[r] : i \in DOMAIN handed'[r] /\ handed'[r][i] = handed[r][i]
    BY <1>3, HandedGrows
  <2>4. FirstPair(q) # None =>
          \E k : k \in DOMAIN handed'[q] /\ k \notin DOMAIN handed[q] /\ handed'[q][k] = FirstPair(q)
    BY <1>3, HandedGrows
  <2>5. ASSUME NEW r \in Party, NEW h \in HandshakeId, NEW x \in Pair, Holds(r, h, x)'
        PROVE  \E i \in DOMAIN handed'[r] : handed'[r][i] = x
    <3>1. CASE Holds(r, h, x)
      BY <2>3, <3>1 DEF HeldInv, HeldOk
    <3>2. CASE ~Holds(r, h, x)
      BY <2>2, <2>4, <2>5, <3>2
    <3> QED
      BY <3>1, <3>2
  <2>6. ASSUME NEW r \in Party, NEW h \in HandshakeId, NEW g \in HandshakeId, NEW x \in Pair, h # g,
               Holds(r, h, x)', Holds(r, g, x)'
        PROVE  \E i, j \in DOMAIN handed'[r] : i # j /\ handed'[r][i] = x /\ handed'[r][j] = x
    <3>1. CASE Holds(r, h, x) /\ Holds(r, g, x)
      <4>1. PICK i \in DOMAIN handed[r], j \in DOMAIN handed[r] : i # j /\ handed[r][i] = x /\ handed[r][j] = x
        BY <2>6, <3>1 DEF HeldInv, HeldOk
      <4> QED
        BY <2>3, <4>1
    <3>2. ASSUME NEW e \in HandshakeId, NEW f \in HandshakeId, Holds(r, e, x), ~Holds(r, f, x), Holds(r, f, x)'
          PROVE  \E i, j \in DOMAIN handed'[r] : i # j /\ handed'[r][i] = x /\ handed'[r][j] = x
      <4>1. r = q /\ x = FirstPair(q) /\ x # None
        BY <2>2, <3>2
      <4>2. PICK k : k \in DOMAIN handed'[r] /\ k \notin DOMAIN handed[r] /\ handed'[r][k] = x
        BY <2>4, <4>1
      <4>3. PICK i \in DOMAIN handed[r] : handed[r][i] = x
        BY <3>2 DEF HeldInv, HeldOk
      <4>4. i \in DOMAIN handed'[r] /\ handed'[r][i] = x /\ i # k
        BY <2>3, <4>2, <4>3
      <4> QED
        BY <4>2, <4>4
    <3>3. CASE ~Holds(r, h, x) /\ ~Holds(r, g, x)
      <4>1. h[1] = g[1] /\ h[2] = g[2]
        BY <2>2, <2>6, <3>3
      <4>2. h = g
        BY <1>0, <4>1
      <4> QED
        BY <2>6, <4>2
    <3> QED
      BY <2>6, <3>1, <3>2, <3>3
  <2> QED
    BY <2>5, <2>6 DEF HeldInv, HeldOk
<1> QED
  BY <1>1, <1>2, <1>3, Mailing
----------------------------------------------------------------------------
\* The pairs a client can answer for or has used.
Had(c) == Elements(c.pool) \cup {c.accepted[i].pair : i \in DOMAIN c.accepted}

\* A pair that AcceptInitialMessage erases is one the client has accepted.
LEMMA HadAccepted ==
    ASSUME NEW c \in ClientState, Limits(c), NEW m \in Initial, HasPair(c, m.pair),
           \A i, j \in DOMAIN c.pool : c.pool[i] = c.pool[j] => i = j, NEW r, r = Accept(c, m)
    PROVE  Had(c) \subseteq Had(r)
<1>1. Elements(r.pool) = Elements(c.pool) \ {m.pair} /\ r.accepted = Append(c.accepted, m)
  BY AcceptedPool
<1>2. PICK s, t : s = c.accepted /\ t = r.accepted
  OBVIOUS
<1>5. s \in Seq(Initial)
  BY <1>2, Fields
<1>3. DOMAIN t = DOMAIN s \cup {Len(s) + 1} /\ t[Len(s) + 1] = m /\ \A i \in DOMAIN s : t[i] = s[i]
  BY <1>1, <1>2, <1>5, AppendProperties
<1>4. m.pair \in {t[i].pair : i \in DOMAIN t} /\ {s[i].pair : i \in DOMAIN s} \subseteq {t[i].pair : i \in DOMAIN t}
  BY <1>3
<1> QED
  BY <1>1, <1>2, <1>4 DEF Had

\* A refill forgets no pair.
LEMMA HadRefilled ==
    ASSUME TypeInv, NEW p \in Party, NEW c \in ClientState, Limits(c), NEW r, r = Refill(p, c)
    PROVE  r.self = c.self /\ Had(c) \subseteq Had(r)
<1>1. made[p] \in Nat /\ Len(c.pool) <= PoolTarget
  BY UserTypes DEF Limits
<1>2. \A i \in DOMAIN c.pool : i \in DOMAIN r.pool /\ r.pool[i] = c.pool[i]
  BY <1>1, Refilled
<1>3. r.accepted = c.accepted /\ r.self = c.self
  BY DEF Refill, ClientState
<1>4. Elements(c.pool) \subseteq Elements(r.pool)
  BY <1>2 DEF Elements
<1> QED
  BY <1>3, <1>4 DEF Had

\* A client keeps its identity and what it can answer for, or is a new one.
LEMMA ClientGrows ==
    ASSUME TypeInv, PairInv, OfferInv, [Next]_vars, NEW p \in Party
    PROVE  \/ mem'[p].self = mem[p].self /\ ("pool" \notin cause' => Had(mem[p]) \subseteq Had(mem'[p]))
           \/ mem'[p].self = mem[p].self + 1
<1>0. ClientTypes
  BY DEF TypeInv
<1>1. CASE mem'[p] = mem[p]
  BY <1>1
<1>2. ASSUME NEW o \in Party, NEW c, NEW d, Leaves(o, c, d),
             \/ c.self = mem[o].self /\ ("pool" \notin cause' => Had(mem[o]) \subseteq Had(c))
             \/ c.self = mem[o].self + 1
      PROVE  \/ mem'[p].self = mem[p].self /\ ("pool" \notin cause' => Had(mem[p]) \subseteq Had(mem'[p]))
             \/ mem'[p].self = mem[p].self + 1
  <2>1. mem'[o] = c /\ \A q \in Party : q # o => mem'[q] = mem[q]
    BY <1>0, <1>2, Left
  <2>2. CASE p = o
    BY <1>2, <2>1, <2>2
  <2>3. CASE p # o
    BY <1>1, <2>1, <2>3
  <2> QED
    BY <2>2, <2>3
<1>3. CASE UNCHANGED vars
  BY <1>1, <1>3 DEF vars
<1>4. ASSUME NEW o \in Party, PoolsAlone(o)
      PROVE  \/ mem'[p].self = mem[p].self /\ ("pool" \notin cause' => Had(mem[p]) \subseteq Had(mem'[p]))
             \/ mem'[p].self = mem[p].self + 1
  <2>1. PICK c \in ClientState, d \in ClientState : Leaves(o, c, d) /\ SamePools(c, mem[o])
    BY <1>4, PoolsKept
  <2>2. c.self = mem[o].self /\ Had(c) = Had(mem[o])
    BY <2>1 DEF SamePools, Had
  <2> QED
    BY <1>2, <2>1, <2>2
<1>5. ASSUME NEW o \in Party, HandleAccepted(o)
      PROVE  \/ mem'[p].self = mem[p].self /\ ("pool" \notin cause' => Had(mem[p]) \subseteq Had(mem'[p]))
             \/ mem'[p].self = mem[p].self + 1
  <2>1. PICK c \in ClientState, m \in posted[o], call \in PollState(Entry) :
          /\ Leaves(o, c, disk[o]) /\ m \in Initial /\ Accepts(mem[o], m)
          /\ SameCore(c, Accept(mem[o], m))
    BY <1>5, AcceptEffect
  <2>2. PICK b \in ClientState : b = mem[o] /\ Limits(b) /\ PairsOk(o, b, made[o])
    BY UserTypes DEF PairInv
  <2>3. PICK r : r = Accept(b, m)
    OBVIOUS
  <2>4. m \in Initial /\ HasPair(b, m.pair) /\ \A i, j \in DOMAIN b.pool : b.pool[i] = b.pool[j] => i = j
    BY <2>1, <2>2 DEF Accepts, PairsOk
  <2>5. Had(b) \subseteq Had(r)
    BY <2>2, <2>3, <2>4, HadAccepted
  <2>6. r.self = b.self
    BY <2>2, <2>3, <2>4, AcceptedPool
  <2>7. c.self = r.self /\ Had(c) = Had(r)
    BY <2>1, <2>2, <2>3 DEF SameCore, Had
  <2> QED
    BY <1>2, <2>1, <2>2, <2>5, <2>6, <2>7
<1>6. ASSUME NEW o \in Party, Republish(o)
      PROVE  \/ mem'[p].self = mem[p].self /\ ("pool" \notin cause' => Had(mem[p]) \subseteq Had(mem'[p]))
             \/ mem'[p].self = mem[p].self + 1
  <2>1. PICK b \in ClientState : b = mem[o] /\ Limits(b)
    BY UserTypes
  <2>2. PICK r \in ClientState : r = Refill(o, b)
    BY <2>1, RefilledLimits
  <2>3. r.self = b.self /\ Had(b) \subseteq Had(r)
    BY <2>1, <2>2, HadRefilled
  <2>4. PICK clean : clean = [r EXCEPT !.dirty = FALSE]
    OBVIOUS
  <2>5. clean.self = r.self /\ Had(clean) = Had(r)
    BY <2>4, CleanTypes DEF SameCore, Had
  <2>6. PICK c : mem' = [mem EXCEPT ![o] = c] /\ (c = r \/ c = clean)
    BY <1>6, <2>1, <2>2, <2>4 DEF Republish, Publish, PublishFails
  <2>7. Leaves(o, c, disk[o])
    BY <1>6, <2>6 DEF Republish, Leaves, TypeInv, ClientTypes
  <2> QED
    BY <1>2, <2>1, <2>3, <2>5, <2>6, <2>7
<1>7. ASSUME NEW o \in Party, Restart(o) \/ InitiateCrash(o)
      PROVE  \/ mem'[p].self = mem[p].self /\ ("pool" \notin cause' => Had(mem[p]) \subseteq Had(mem'[p]))
             \/ mem'[p].self = mem[p].self + 1
  <2>1. PICK e \in ClientState : e = disk[o] /\ Limits(e) /\ e.self = mem[o].self
    BY UserTypes DEF OfferInv, FullAt
  <2>2. Recreate(o) /\ Lost(o) \subseteq cause'
    BY <1>7 DEF Restart, InitiateCrash
  <2>3. PICK c : c = Refill(o, e)
    OBVIOUS
  <2>4. Leaves(o, c, c)
    BY <2>1, <2>2, <2>3, RecreateEffect
  <2>5. c.self = e.self /\ Had(e) \subseteq Had(c)
    BY <2>1, <2>3, HadRefilled
  <2>6. "pool" \notin cause' => e.pool = mem[o].pool /\ e.accepted = mem[o].accepted
    BY <2>1, <2>2 DEF Lost
  <2>7. "pool" \notin cause' => Had(e) = Had(mem[o])
    BY <2>6 DEF Had
  <2> QED
    BY <1>2, <2>1, <2>4, <2>5, <2>7
<1>8. ASSUME NEW o \in Party, LoseStateFile(o)
      PROVE  \/ mem'[p].self = mem[p].self /\ ("pool" \notin cause' => Had(mem[p]) \subseteq Had(mem'[p]))
             \/ mem'[p].self = mem[p].self + 1
  <2>1. PICK c \in ClientState :
          Leaves(o, c, c) /\ c = NewClient(mem[o].self + 1, FreshPool(o, made[o]))
    BY <1>8, LossEffect
  <2>2. c.self = mem[o].self + 1
    BY <2>1 DEF NewClient
  <2> QED
    BY <1>2, <2>1, <2>2
<1> QED
  BY <1>3, <1>4, <1>5, <1>6, <1>7, <1>8 DEF Next, CallStep, PoolsAlone, Quiet

\* A bundle loses pairs, or is replaced by what the client offers.
LEMMA BundleStep ==
    ASSUME TypeInv, [Next]_vars, NEW p \in Party
    PROVE  \/ bundle'[p].identity = bundle[p].identity /\ Elements(bundle'[p].pairs) \subseteq Elements(bundle[p].pairs)
           \/ bundle'[p].identity = mem'[p].self /\ Elements(bundle'[p].pairs) \subseteq Elements(mem'[p].pool)
<1> DEFINE goal ==
        \/ bundle'[p].identity = bundle[p].identity /\ Elements(bundle'[p].pairs) \subseteq Elements(bundle[p].pairs)
        \/ bundle'[p].identity = mem'[p].self /\ Elements(bundle'[p].pairs) \subseteq Elements(mem'[p].pool)
<1>1. CASE bundle'[p] = bundle[p]
  BY <1>1
<1>2. ASSUME NEW o \in Party, NEW r \in ClientState, NEW c, c.self = r.self, c.pool = r.pool,
             mem' = [mem EXCEPT ![o] = c], bundle' = StoreBundle(o, r)
      PROVE  goal
  <2>1. mem'[o] = c
    BY <1>2 DEF TypeInv, ClientTypes
  <2>2. bundle'[o].identity = r.self /\ bundle'[o].pairs = r.pool /\ \A q \in Party : q # o => bundle'[q] = bundle[q]
    BY <1>2, Published
  <2> QED
    BY <1>1, <1>2, <2>1, <2>2
<1>3. ASSUME NEW o \in Party, NEW r \in ClientState, Publish(o, r) \/ PublishFails(o, r) PROVE goal
  <2>1. PICK clean : clean = [r EXCEPT !.dirty = FALSE]
    OBVIOUS
  <2>2. clean.self = r.self /\ clean.pool = r.pool
    BY <2>1, CleanTypes DEF SameCore
  <2>3. CASE Publish(o, r)
    <3>1. mem' = [mem EXCEPT ![o] = clean] /\ bundle' = StoreBundle(o, r)
      BY <2>1, <2>3 DEF Publish
    <3> QED
      BY <1>2, <2>2, <3>1
  <2>4. CASE PublishFails(o, r)
    <3>1. mem' = [mem EXCEPT ![o] = r] /\ (bundle' = bundle \/ bundle' = StoreBundle(o, r))
      BY <2>4 DEF PublishFails
    <3> QED
      BY <1>1, <1>2, <3>1
  <2> QED
    BY <1>3, <2>3, <2>4
<1>4. ASSUME NEW o \in Party, PublishPrekeys(o) PROVE goal
  <2>1. mem[o] \in ClientState /\ (Publish(o, mem[o]) \/ PublishFails(o, mem[o]))
    BY <1>4, UserTypes DEF PublishPrekeys
  <2> QED
    BY <1>3, <2>1
<1>5. ASSUME NEW o \in Party, Republish(o) PROVE goal
  <2>1. PICK r \in ClientState : r = Refill(o, mem[o])
    BY RefilledLimits, UserTypes
  <2>2. Publish(o, r) \/ PublishFails(o, r)
    BY <1>5, <2>1 DEF Republish
  <2> QED
    BY <1>3, <2>2
<1>6. ASSUME NEW o \in Party, NEW q \in Party, AcquireBundle(o, q) PROVE goal
  <2>1. /\ bundle'[q].identity = bundle[q].identity /\ Elements(bundle'[q].pairs) \subseteq Elements(bundle[q].pairs)
        /\ \A r \in Party : r # q => bundle'[r] = bundle[r]
    BY <1>6, Taken
  <2> QED
    BY <1>1, <2>1
<1>7. ASSUME NEW o \in Party,
             \/ SavePrekeys(o) \/ (\E q \in Party : VerifyPeerSafetyNumber(o, q))
             \/ ProcessInbox(o) \/ DrainInbox(o) \/ DrainInboxFails(o) \/ HandleAccepted(o) \/ HandleRefused(o)
             \/ GiveUp(o) \/ SaveLocalState(o) \/ InitiateRefused(o) \/ InitiateSession(o)
             \/ InitiateNotPosted(o) \/ InitiateCrash(o) \/ Restart(o) \/ LoseStateFile(o) \/ Replay(o)
      PROVE  goal
  <2>1. bundle' = bundle
    BY <1>7 DEF SavePrekeys, VerifyPeerSafetyNumber, ProcessInbox, DrainInbox, DrainInboxFails, HandleAccepted,
                HandleRefused, GiveUp, SaveLocalState, InitiateRefused, InitiateSession, StartInitial,
                InitiateNotPosted, InitiateCrash, Restart, LoseStateFile, Replay, store
  <2> QED
    BY <1>1, <2>1
<1>8. CASE UNCHANGED vars
  BY <1>1, <1>8 DEF vars, store
<1> QED
  BY <1>4, <1>5, <1>6, <1>7, <1>8 DEF Next, CallStep

\* What is posted was begun, and what was begun came out of a bundle.
LEMMA FirstIsOffered ==
    ASSUME TypeInv, NEW q \in Party, FirstPair(q) # None
    PROVE  FirstPair(q) \in Elements(bundle[q].pairs)
<1>1. PICK s \in Seq(Pair) : s = bundle[q].pairs
  BY UserTypes
<1>2. s # <<>> /\ FirstPair(q) = Head(s)
  BY <1>1 DEF FirstPair
<1>3. Head(s) = s[1] /\ 1 \in DOMAIN s
  BY <1>2
<1> QED
  BY <1>1, <1>2, <1>3 DEF Elements

\* An initial message is made of a bundle that was acquired.
LEMMA PostedWasBegun ==
    ASSUME TypeInv, [Next]_vars, NEW p \in Party
    PROVE  \A m \in posted'[p] :
             \/ m \in posted[p]
             \/ \E r \in Party : /\ task[r].op = "acquired" /\ task[r].peer = p /\ task[r].pair # None
                                 /\ m.to = task[r].identity /\ m.pair = task[r].pair
<1>1. CASE posted'[p] = posted[p]
  BY <1>1
<1>2. ASSUME NEW o \in Party, Posts(o), NEW m \in posted'[p], m \notin posted[p]
      PROVE  /\ task[o].op = "acquired" /\ task[o].peer = p /\ task[o].pair # None
             /\ m.to = task[o].identity /\ m.pair = task[o].pair
  <2>1. PICK q \in Party, b \in Initial :
          /\ q = task[o].peer /\ b = Begun(o)
          /\ posted'[q] = posted[q] \cup {b} /\ \A r \in Party : r # q => posted'[r] = posted[r]
    BY <1>2, Posted
  <2>5. b.to = task[o].identity /\ b.pair = task[o].pair
    BY <2>1 DEF Begun
  <2>2. task[o].op = "acquired" /\ task[o].pair # None
    BY <1>2 DEF Posts, Acquired
  <2>3. p = q
    BY <1>2, <2>1
  <2>4. m = b
    BY <1>2, <2>1, <2>3
  <2> QED
    BY <2>1, <2>2, <2>3, <2>4, <2>5
<1>3. CASE \E r, q \in Party : AcquireBundle(r, q)
  BY <1>1, <1>3, Begins
<1>4. CASE NoMail
  BY <1>1, <1>4 DEF NoMail
<1> QED
  BY <1>2, <1>3, <1>4, Mailing

\* A bundle that is acquired was offered.
LEMMA BegunWasOffered ==
    ASSUME TypeInv, [Next]_vars, NEW r \in Party, NEW p \in Party,
           task'[r].op = "acquired", task'[r].peer = p
    PROVE  \/ task'[r] = task[r]
           \/ /\ task'[r].identity = bundle[p].identity
              /\ task'[r].pair # None => task'[r].pair \in Elements(bundle[p].pairs)
<1>1. CASE NoMail
  BY <1>1 DEF NoMail
<1>2. ASSUME NEW o \in Party, Posts(o) PROVE task'[r] = task[r]
  BY <1>2, Posted
<1>3. ASSUME NEW o \in Party, NEW q \in Party, AcquireBundle(o, q)
      PROVE  \/ task'[r] = task[r]
             \/ /\ task'[r].identity = bundle[p].identity
                /\ task'[r].pair # None => task'[r].pair \in Elements(bundle[p].pairs)
  <2>1. /\ \A k \in Party : k # o => task'[k] = task[k]
        /\ task'[o].op = "acquired" =>
             task'[o].peer = q /\ task'[o].identity = bundle[q].identity /\ task'[o].pair = FirstPair(q)
    BY <1>3, Begins
  <2> QED
    BY <2>1, FirstIsOffered
<1> QED
  BY <1>1, <1>2, <1>3, Mailing

\* Nothing is for an identity the client is yet to have.
IdentityOk(p) ==
    /\ \A m \in posted[p] : m.to <= mem[p].self
    /\ bundle[p].identity <= mem[p].self
    /\ \A q \in Party : task[q].op = "acquired" /\ task[q].peer = p => task[q].identity <= mem[p].self

IdentityInv == \A p \in Party : IdentityOk(p)

\* What is for the identity it has, it can answer for or has answered, unless
\* it died with unsaved pools.
AnswerOk(p) ==
    /\ \A m \in posted[p] : m.to = mem[p].self => m.pair \in Had(mem[p])
    /\ bundle[p].identity = mem[p].self => Elements(bundle[p].pairs) \subseteq Had(mem[p])
    /\ \A q \in Party :
         task[q].op = "acquired" /\ task[q].peer = p /\ task[q].identity = mem[p].self /\ task[q].pair # None
           => task[q].pair \in Had(mem[p])

AnswerInv == "pool" \notin cause => \A p \in Party : AnswerOk(p)

\* What has gone wrong is not forgotten.
LEMMA CauseGrows == [Next]_vars => cause \subseteq cause'
<1> SUFFICES ASSUME [Next]_vars PROVE cause \subseteq cause'
  OBVIOUS
<1>1. CASE UNCHANGED vars
  BY <1>1 DEF vars, history
<1>2. ASSUME NEW p \in Party,
             \/ PublishPrekeys(p) \/ (\E q \in Party : AcquireBundle(p, q) \/ VerifyPeerSafetyNumber(p, q))
             \/ ProcessInbox(p) \/ DrainInbox(p) \/ DrainInboxFails(p) \/ HandleAccepted(p)
             \/ Republish(p) \/ SavePrekeys(p) \/ GiveUp(p) \/ SaveLocalState(p) \/ InitiateRefused(p)
      PROVE  cause' = cause
  BY <1>2 DEF PublishPrekeys, AcquireBundle, VerifyPeerSafetyNumber, ProcessInbox, DrainInbox, DrainInboxFails,
              HandleAccepted, Republish, SavePrekeys, GiveUp, SaveLocalState, InitiateRefused, history
<1>3. ASSUME NEW p \in Party,
             \/ InitiateSession(p) \/ InitiateNotPosted(p) \/ InitiateCrash(p) \/ Restart(p) \/ LoseStateFile(p)
             \/ HandleRefused(p) \/ Replay(p)
      PROVE  cause \subseteq cause'
  BY <1>3 DEF InitiateSession, InitiateNotPosted, Causes, InitiateCrash, Restart, LoseStateFile,
              HandleRefused, Replay
<1> QED
  BY <1>1, <1>2, <1>3 DEF Next, CallStep

\* Every step keeps the identities under way no newer than their client's.
LEMMA IdentityStep ==
    TypeInv /\ PairInv /\ OfferInv /\ IdentityInv /\ [Next]_vars => IdentityInv'
<1> SUFFICES ASSUME TypeInv, PairInv, OfferInv, IdentityInv, [Next]_vars, NEW p \in Party PROVE IdentityOk(p)'
  BY DEF IdentityInv
<1>1. PICK s \in Nat, t \in Nat : s = mem[p].self /\ t = mem'[p].self /\ s <= t
  <2>1. mem[p].self \in Nat
    BY UserTypes, Fields
  <2>2. mem'[p].self = mem[p].self \/ mem'[p].self = mem[p].self + 1
    BY ClientGrows
  <2> QED
    BY <2>1, <2>2
<1>2. /\ \A m \in posted[p] : m.to <= s /\ m.to \in Nat
      /\ bundle[p].identity <= s /\ bundle[p].identity \in Nat
      /\ \A q \in Party : task[q].op = "acquired" /\ task[q].peer = p => task[q].identity <= s
      /\ \A q \in Party : task[q].identity \in Nat
  <2>1. \A m \in posted[p] : m.to \in Nat
    BY UserTypes DEF Initial
  <2>2. \A q \in Party : task[q].identity \in Nat
    BY UserTypes DEF Task
  <2> QED
    BY <1>1, <2>1, <2>2, UserTypes DEF IdentityInv, IdentityOk
<1>3. \A m \in posted'[p] : m.to <= t
  <2> SUFFICES ASSUME NEW m \in posted'[p] PROVE m.to <= t
    OBVIOUS
  <2>1. m.to <= s /\ m.to \in Nat
    BY <1>2, PostedWasBegun
  <2> QED
    BY <1>1, <2>1
<1>4. bundle'[p].identity <= t
  <2>1. bundle'[p].identity = bundle[p].identity \/ bundle'[p].identity = t
    BY <1>1, BundleStep
  <2> QED
    BY <1>1, <1>2, <2>1
<1>5. \A q \in Party : task'[q].op = "acquired" /\ task'[q].peer = p => task'[q].identity <= t
  <2> SUFFICES ASSUME NEW q \in Party, task'[q].op = "acquired", task'[q].peer = p PROVE task'[q].identity <= t
    OBVIOUS
  <2>1. task'[q] = task[q] \/ task'[q].identity = bundle[p].identity
    BY BegunWasOffered
  <2>2. task'[q].identity <= s /\ task'[q].identity \in Nat
    BY <1>2, <2>1
  <2> QED
    BY <1>1, <2>2
<1> QED
  BY <1>1, <1>3, <1>4, <1>5 DEF IdentityOk

\* Every step keeps the pairs under way known to the client that made them.
LEMMA AnswerStep ==
    TypeInv /\ PairInv /\ OfferInv /\ IdentityInv /\ AnswerInv /\ [Next]_vars => AnswerInv'
<1> SUFFICES ASSUME TypeInv, PairInv, OfferInv, IdentityInv, AnswerInv, [Next]_vars,
                    "pool" \notin cause', NEW p \in Party
             PROVE  AnswerOk(p)'
  BY DEF AnswerInv
<1>0. AnswerOk(p) /\ IdentityOk(p)
  BY CauseGrows DEF AnswerInv, IdentityInv
<1>1. PICK s, t, old, new : /\ s \in Nat /\ s = mem[p].self /\ t = mem'[p].self
                            /\ old = Had(mem[p]) /\ new = Had(mem'[p])
  BY UserTypes, Fields
<1>2. (t = s /\ old \subseteq new) \/ t = s + 1
  BY <1>1, ClientGrows
<1>3. \A k \in Nat : k <= s /\ k = t => k = s /\ t = s
  BY <1>1, <1>2
<1>4. Elements(mem'[p].pool) \subseteq new
  BY <1>1 DEF Had
<1>5. /\ \A m \in posted[p] : m.to <= s /\ m.to \in Nat /\ (m.to = s => m.pair \in old)
      /\ bundle[p].identity <= s /\ bundle[p].identity \in Nat
      /\ bundle[p].identity = s => Elements(bundle[p].pairs) \subseteq old
      /\ \A q \in Party : task[q].op = "acquired" /\ task[q].peer = p =>
           /\ task[q].identity <= s /\ task[q].identity \in Nat
           /\ task[q].identity = s /\ task[q].pair # None => task[q].pair \in old
  <2>1. \A m \in posted[p] : m.to \in Nat
    BY UserTypes DEF Initial
  <2>2. \A q \in Party : task[q].identity \in Nat
    BY UserTypes DEF Task
  <2>3. bundle[p].identity \in Nat
    BY UserTypes
  <2> QED
    BY <1>0, <1>1, <2>1, <2>2, <2>3 DEF AnswerOk, IdentityOk
<1>6. ASSUME NEW m \in posted'[p], m.to = t PROVE m.pair \in new
  <2>1. m.to <= s /\ m.to \in Nat /\ (m.to = s => m.pair \in old)
    BY <1>5, PostedWasBegun
  <2> QED
    BY <1>2, <1>3, <1>6, <2>1
<1>7. ASSUME bundle'[p].identity = t PROVE Elements(bundle'[p].pairs) \subseteq new
  <2>1. CASE bundle'[p].identity = bundle[p].identity /\ Elements(bundle'[p].pairs) \subseteq Elements(bundle[p].pairs)
    BY <1>2, <1>3, <1>5, <1>7, <2>1
  <2>2. CASE Elements(bundle'[p].pairs) \subseteq Elements(mem'[p].pool)
    BY <1>4, <2>2
  <2> QED
    BY <2>1, <2>2, BundleStep
<1>8. ASSUME NEW q \in Party, task'[q].op = "acquired", task'[q].peer = p, task'[q].identity = t,
             task'[q].pair # None
      PROVE  task'[q].pair \in new
  <2>1. CASE task'[q] = task[q]
    BY <1>2, <1>3, <1>5, <1>8, <2>1
  <2>2. CASE task'[q].identity = bundle[p].identity /\ task'[q].pair \in Elements(bundle[p].pairs)
    BY <1>2, <1>3, <1>5, <1>8, <2>2
  <2> QED
    BY <1>8, <2>1, <2>2, BegunWasOffered
<1> QED
  BY <1>1, <1>6, <1>7, <1>8 DEF AnswerOk
----------------------------------------------------------------------------
\* The replay guards.

\* What client c of p accepted was posted, and a replay guard of c is of a
\* handshake p began itself or of one c accepted.
GuardsOk(p, c, posts) ==
    /\ \A i \in DOMAIN c.accepted : c.accepted[i] \in posts
    /\ \A i \in DOMAIN c.guards :
         c.guards[i][1] = p \/ \E j \in DOMAIN c.accepted : c.accepted[j].id = c.guards[i]

GuardInv == \A p \in Party : GuardsOk(p, mem[p], posted[p]) /\ GuardsOk(p, disk[p], posted[p])

\* A posted message is not forgotten.
LEMMA PostedGrows ==
    ASSUME TypeInv, [Next]_vars, NEW p \in Party
    PROVE  posted[p] \subseteq posted'[p]
<1>1. CASE NoMail
  BY <1>1 DEF NoMail
<1>2. ASSUME NEW r \in Party, Posts(r) PROVE posted[p] \subseteq posted'[p]
  <2>1. PICK q \in Party, b \in Initial :
          posted'[q] = posted[q] \cup {b} /\ \A o \in Party : o # q => posted'[o] = posted[o]
    BY <1>2, Posted
  <2> QED
    BY <2>1
<1>3. CASE \E r, q \in Party : AcquireBundle(r, q)
  BY <1>3, Begins
<1> QED
  BY <1>1, <1>2, <1>3, Mailing

\* Replay guards unchanged, they stay guards of what was begun or accepted.
LEMMA GuardsMore ==
    ASSUME NEW p, NEW b, NEW c, c.guards = b.guards, c.accepted = b.accepted, NEW S, NEW T, S \subseteq T,
           GuardsOk(p, b, S)
    PROVE  GuardsOk(p, c, T)
BY DEF GuardsOk

\* What a step of one client owes to the replay guards of all.
LEMMA GuardStepOf ==
    ASSUME TypeInv, GuardInv, [Next]_vars, NEW p \in Party, NEW c, NEW d, Leaves(p, c, d),
           GuardsOk(p, c, posted'[p]), GuardsOk(p, d, posted'[p])
    PROVE  GuardInv'
<1>0. ClientTypes
  BY DEF TypeInv
<1>1. /\ mem'[p] = c /\ disk'[p] = d
      /\ \A q \in Party : q # p => mem'[q] = mem[q] /\ disk'[q] = disk[q]
  BY <1>0, Left
<1>2. \A q \in Party : GuardsOk(q, mem[q], posted'[q]) /\ GuardsOk(q, disk[q], posted'[q])
  BY PostedGrows, GuardsMore DEF GuardInv
<1>3. \A q \in Party : GuardsOk(q, mem'[q], posted'[q]) /\ GuardsOk(q, disk'[q], posted'[q])
  BY <1>1, <1>2
<1> QED
  BY <1>3 DEF GuardInv, GuardsOk

\* The replay guards after a session came into place.
LEMMA GuardsEstablished ==
    ASSUME NEW c \in ClientState, Limits(c), NEW q \in Party, NEW n \in Nat, NEW m \in Initial,
           NEW r, r = WithSession(c, q, n, m) \/ r = Accept(c, m)
    PROVE  \A i \in DOMAIN r.guards : r.guards[i] = m.id \/ \E j \in DOMAIN c.guards : r.guards[i] = c.guards[j]
<1>1. PICK g \in Seq(HandshakeId), h \in HandshakeId : g = c.guards /\ h = m.id /\ Len(g) <= MaxGuards
  BY Fields DEF Initial, Limits
<1>2. r.guards = Remember(g, h)
  BY <1>1 DEF WithSession, Accept, ClientState
<1>3. PICK k : k = Remember(g, h)
  OBVIOUS
<1>4. \A i \in DOMAIN k : k[i] = h \/ \E j \in DOMAIN g : k[i] = g[j]
  BY <1>1, <1>3, Remembered
<1> QED
  BY <1>1, <1>2, <1>3, <1>4

\* AcceptInitialMessage adds the guard of the message it accepts.
LEMMA GuardsAccepted ==
    ASSUME NEW p \in Party, NEW c \in ClientState, Limits(c), NEW m \in Initial, HasPair(c, m.pair),
           \A i, j \in DOMAIN c.pool : c.pool[i] = c.pool[j] => i = j, NEW r, r = Accept(c, m),
           NEW S, m \in S, GuardsOk(p, c, S)
    PROVE  GuardsOk(p, r, S)
<1>1. r.accepted = Append(c.accepted, m)
  BY AcceptedPool
<1>2. \A i \in DOMAIN r.guards : r.guards[i] = m.id \/ \E j \in DOMAIN c.guards : r.guards[i] = c.guards[j]
  <2>1. PICK q \in Party, n \in Nat : q = m.from /\ n = m.identity
    BY DEF Initial
  <2> QED
    BY <2>1, GuardsEstablished
<1>3. c.accepted \in Seq(Initial)
  BY Fields
<1>4. PICK s \in Seq(Initial) : s = c.accepted
  BY <1>3
<1>5. PICK t : t = r.accepted
  OBVIOUS
<1>6. DOMAIN t = DOMAIN s \cup {Len(s) + 1} /\ t[Len(s) + 1] = m /\ \A i \in DOMAIN s : t[i] = s[i]
  BY <1>1, <1>4, <1>5, AppendProperties
<1>7. \A i \in DOMAIN t : t[i] \in S
  BY <1>4, <1>6 DEF GuardsOk
<1>8. \A i \in DOMAIN c.guards : c.guards[i][1] = p \/ \E j \in DOMAIN t : t[j].id = c.guards[i]
  BY <1>4, <1>6 DEF GuardsOk
<1>9. \A i \in DOMAIN r.guards : r.guards[i][1] = p \/ \E j \in DOMAIN t : t[j].id = r.guards[i]
  BY <1>2, <1>6, <1>8
<1> QED
  BY <1>5, <1>7, <1>9 DEF GuardsOk

\* Every step keeps the replay guards to handshakes begun or accepted.
LEMMA GuardStep == TypeInv /\ PairInv /\ GuardInv /\ [Next]_vars => GuardInv'
<1> SUFFICES ASSUME TypeInv, PairInv, GuardInv, [Next]_vars PROVE GuardInv'
  OBVIOUS
<1>0. \A p \in Party : GuardsOk(p, mem[p], posted'[p]) /\ GuardsOk(p, disk[p], posted'[p])
  BY PostedGrows, GuardsMore DEF GuardInv
<1>1. CASE UNCHANGED vars
  <2>1. mem' = mem /\ disk' = disk
    BY <1>1 DEF vars
  <2> QED
    BY <1>0, <2>1 DEF GuardInv, GuardsOk
<1>2. ASSUME NEW p \in Party, NEW c, NEW d, Leaves(p, c, d),
             (c.guards = mem[p].guards /\ c.accepted = mem[p].accepted)
               \/ (c.guards = disk[p].guards /\ c.accepted = disk[p].accepted),
             d = disk[p] \/ (d.guards = c.guards /\ d.accepted = c.accepted)
      PROVE  GuardInv'
  <2>1. posted'[p] \subseteq posted'[p]
    OBVIOUS
  <2>2. GuardsOk(p, c, posted'[p])
    BY <1>0, <1>2, <2>1, GuardsMore
  <2>3. GuardsOk(p, d, posted'[p])
    BY <1>0, <1>2, <2>1, <2>2, GuardsMore
  <2> QED
    BY <1>2, <2>2, <2>3, GuardStepOf
<1>3. ASSUME NEW p \in Party, Quiet(p) PROVE GuardInv'
  <2>1. PICK c \in ClientState, d \in ClientState :
          Leaves(p, c, d) /\ SameCore(c, mem[p]) /\ (d = disk[p] \/ SameCore(d, c))
    BY <1>3, QuietKept
  <2> QED
    BY <1>2, <2>1 DEF SameCore
<1>4. ASSUME NEW p \in Party, NEW q \in Party, VerifyPeerSafetyNumber(p, q) PROVE GuardInv'
  <2>1. PICK c \in ClientState, d \in ClientState :
          /\ Leaves(p, c, d) /\ (d = disk[p] \/ d = c) /\ c.guards = mem[p].guards
          /\ c.accepted = mem[p].accepted
    BY <1>4, VerifyEffect, ZenonT(30)
  <2> QED
    BY <1>2, <2>1
<1>5. ASSUME NEW p \in Party, HandleRefused(p) PROVE GuardInv'
  <2>1. PICK c \in ClientState, d \in ClientState, met \in ClientState, m \in posted[p],
             call \in PollState(Entry) :
          /\ Leaves(p, c, d) /\ m \in Initial
          /\ (met = mem[p] \/ met = Meet(mem[p], m.from, m.identity))
          /\ SameCore(c, met) /\ (d = disk[p] \/ d = met)
    BY <1>5, HandleRefusedEffect
  <2>2. PICK b \in ClientState, q \in Party, n \in Nat : b = mem[p] /\ q = m.from /\ n = m.identity
    BY <2>1, UserTypes DEF Initial
  <2>3. met = b \/ met = Meet(b, q, n)
    BY <2>1, <2>2
  <2>4. met.guards = b.guards /\ met.accepted = b.accepted
    BY <2>3, MetSame
  <2> QED
    BY <1>2, <2>1, <2>2, <2>4 DEF SameCore
<1>6. ASSUME NEW p \in Party, InitiateRefused(p) PROVE GuardInv'
  <2>1. PICK c \in ClientState, d \in ClientState :
          /\ Leaves(p, c, d) /\ (d = disk[p] \/ d = c) /\ task[p].peer \in Party /\ task[p].identity \in Nat
          /\ c = Meet(mem[p], task[p].peer, task[p].identity)
    BY <1>6, RefusalEffect
  <2>2. PICK b \in ClientState, q \in Party, n \in Nat : b = mem[p] /\ q = task[p].peer /\ n = task[p].identity
    BY <2>1, UserTypes
  <2>3. c = Meet(b, q, n)
    BY <2>1, <2>2
  <2>4. c.guards = b.guards /\ c.accepted = b.accepted
    BY <2>3, MetSame
  <2> QED
    BY <1>2, <2>1, <2>2, <2>4
<1>7. ASSUME NEW p \in Party, InitiateSession(p) \/ InitiateNotPosted(p) PROVE GuardInv'
  <2>1. PICK c \in ClientState, d \in ClientState :
          /\ Leaves(p, c, d) /\ (d = disk[p] \/ d = c) /\ Acquired(p) /\ task[p].pair # None
          /\ c = WithSession(mem[p], task[p].peer, task[p].identity, Begun(p))
    BY <1>7, BeginEffect
  <2>2. PICK q \in Party, n \in Nat, m \in Initial, b \in ClientState :
          /\ q = task[p].peer /\ n = task[p].identity /\ m = Begun(p) /\ b = mem[p] /\ Limits(b)
          /\ m.id = <<p, inits[p]>>
    BY <2>1, BegunTypes, UserTypes
  <2>3. c = WithSession(b, q, n, m)
    BY <2>1, <2>2
  <2>4. c.accepted = b.accepted
    BY <2>2, <2>3, EstablishedSame
  <2>5. \A i \in DOMAIN c.guards : c.guards[i] = m.id \/ \E j \in DOMAIN b.guards : c.guards[i] = b.guards[j]
    BY <2>2, <2>3, GuardsEstablished
  <2>6. m.id[1] = p
    BY <2>2
  <2>7. GuardsOk(p, b, posted'[p])
    BY <1>0, <2>2
  <2>8. GuardsOk(p, c, posted'[p])
    BY <2>4, <2>5, <2>6, <2>7 DEF GuardsOk
  <2>9. GuardsOk(p, d, posted'[p])
    BY <1>0, <2>1, <2>8
  <2> QED
    BY <2>1, <2>8, <2>9, GuardStepOf
<1>8. ASSUME NEW p \in Party, HandleAccepted(p) PROVE GuardInv'
  <2>1. PICK c \in ClientState, m \in posted[p], call \in PollState(Entry) :
          /\ Leaves(p, c, disk[p]) /\ m \in Initial /\ Accepts(mem[p], m)
          /\ SameCore(c, Accept(mem[p], m))
    BY <1>8, AcceptEffect
  <2>2. PICK b \in ClientState : b = mem[p] /\ Limits(b) /\ PairsOk(p, b, made[p])
    BY UserTypes DEF PairInv
  <2>3. PICK r : r = Accept(b, m)
    OBVIOUS
  <2>4. m \in Initial /\ HasPair(b, m.pair) /\ \A i, j \in DOMAIN b.pool : b.pool[i] = b.pool[j] => i = j
    BY <2>1, <2>2 DEF Accepts, PairsOk
  <2>5. m \in posted'[p] /\ GuardsOk(p, b, posted'[p])
    BY <1>0, <2>2, PostedGrows
  <2>6. GuardsOk(p, r, posted'[p])
    BY <2>2, <2>3, <2>4, <2>5, GuardsAccepted
  <2>7. c.guards = r.guards /\ c.accepted = r.accepted
    BY <2>1, <2>2, <2>3 DEF SameCore
  <2>8. GuardsOk(p, c, posted'[p])
    BY <2>6, <2>7 DEF GuardsOk
  <2> QED
    BY <1>0, <2>1, <2>8, GuardStepOf
<1>9. ASSUME NEW p \in Party, Republish(p) PROVE GuardInv'
  <2>1. PICK b \in ClientState : b = mem[p] /\ Limits(b)
    BY UserTypes
  <2>2. PICK r \in ClientState : r = Refill(p, b)
    BY <2>1, RefilledLimits
  <2>3. r.guards = b.guards /\ r.accepted = b.accepted
    BY <2>2 DEF Refill, ClientState
  <2>4. PICK clean : clean = [r EXCEPT !.dirty = FALSE]
    OBVIOUS
  <2>5. clean.guards = r.guards /\ clean.accepted = r.accepted
    BY <2>4, CleanTypes DEF SameCore
  <2>6. PICK c : mem' = [mem EXCEPT ![p] = c] /\ (c = r \/ c = clean)
    BY <1>9, <2>1, <2>2, <2>4 DEF Republish, Publish, PublishFails
  <2>7. Leaves(p, c, disk[p])
    BY <1>9, <2>6 DEF Republish, Leaves, TypeInv, ClientTypes
  <2> QED
    BY <1>2, <2>1, <2>3, <2>5, <2>6, <2>7
<1>10. ASSUME NEW p \in Party, Restart(p) \/ InitiateCrash(p) PROVE GuardInv'
  <2>1. PICK e \in ClientState : e = disk[p]
    BY UserTypes
  <2>2. Recreate(p)
    BY <1>10 DEF Restart, InitiateCrash
  <2>3. PICK c : c = Refill(p, e)
    OBVIOUS
  <2>4. Leaves(p, c, c)
    BY <2>1, <2>2, <2>3, RecreateEffect
  <2>5. c.guards = e.guards /\ c.accepted = e.accepted
    BY <2>3 DEF Refill, ClientState
  <2> QED
    BY <1>2, <2>1, <2>4, <2>5
<1>11. ASSUME NEW p \in Party, LoseStateFile(p) PROVE GuardInv'
  <2>1. PICK c \in ClientState :
          Leaves(p, c, c) /\ c = NewClient(mem[p].self + 1, FreshPool(p, made[p]))
    BY <1>11, LossEffect
  <2>2. c.guards = <<>> /\ c.accepted = <<>>
    BY <2>1 DEF NewClient
  <2>3. GuardsOk(p, c, posted'[p])
    BY <2>2 DEF GuardsOk
  <2> QED
    BY <2>1, <2>3, GuardStepOf
<1> QED
  BY <1>1, <1>3, <1>4, <1>5, <1>6, <1>7, <1>8, <1>9, <1>10, <1>11 DEF Next, CallStep, Quiet
----------------------------------------------------------------------------
\* Refused for a missing pair.

HandedTwice(x) ==
    \E i, j \in DOMAIN handed[x[1]] : i # j /\ handed[x[1]][i] = x /\ handed[x[1]][j] = x

MissingInv == "pool" \notin cause => \A x \in missing : HandedTwice(x)

\* Two places of one pair among those handed out count as more than one.
LEMMA TwiceIsMany ==
    ASSUME NEW s \in Seq(Pair), NEW x, NEW i \in DOMAIN s, NEW j \in DOMAIN s, i # j, s[i] = x, s[j] = x
    PROVE  Cardinality({k \in DOMAIN s : s[k] = x}) > 1
<1>1. PICK S : S = {k \in DOMAIN s : s[k] = x}
  OBVIOUS
<1>2. IsFiniteSet(DOMAIN s) /\ S \subseteq DOMAIN s /\ {i, j} \subseteq S
  <2>1. Len(s) \in Nat /\ DOMAIN s = 1 .. Len(s)
    OBVIOUS
  <2>2. IsFiniteSet(1 .. Len(s))
    BY <2>1, FS_Interval
  <2> QED
    BY <1>1, <2>1, <2>2
<1>3. IsFiniteSet(S)
  BY <1>2, FS_Subset
<1>4. Cardinality({i}) = 1 /\ IsFiniteSet({i})
  BY FS_Singleton
<1>5. PICK T : T = {i} \cup {j}
  OBVIOUS
<1>6. Cardinality(T) = Cardinality({i}) + 1 /\ T \subseteq S
  BY <1>2, <1>4, <1>5, FS_AddElement
<1>7. Cardinality(T) <= Cardinality(S) /\ Cardinality(S) \in Nat
  BY <1>3, <1>6, FS_Subset, FS_CardinalityType
<1>8. PICK t, n \in Nat : t = Cardinality(T) /\ n = Cardinality(S) /\ t <= n /\ t = 1 + 1
  BY <1>4, <1>6, <1>7
<1>9. n > 1
  BY <1>8
<1> QED
  BY <1>1, <1>8, <1>9

\* A pair handed out twice stays so.
LEMMA TwiceStays ==
    ASSUME TypeInv, [Next]_vars, NEW x \in Pair, HandedTwice(x)
    PROVE  HandedTwice(x)'
<1>1. PICK p \in Party : p = x[1]
  BY DEF Pair
<1>2. \A i \in DOMAIN handed[p] : i \in DOMAIN handed'[p] /\ handed'[p][i] = handed[p][i]
  <2>1. CASE handed' = handed
    BY <2>1
  <2>2. CASE \E r, q \in Party : AcquireBundle(r, q)
    BY <2>2, HandedGrows
  <2> QED
    BY <2>1, <2>2, Mailing DEF NoMail, Posts
<1>3. PICK i \in DOMAIN handed[p], j \in DOMAIN handed[p] : i # j /\ handed[p][i] = x /\ handed[p][j] = x
  BY <1>1 DEF HandedTwice
<1>4. /\ i \in DOMAIN handed'[p] /\ j \in DOMAIN handed'[p]
      /\ handed'[p][i] = x /\ handed'[p][j] = x
  BY <1>2, <1>3
<1> QED
  BY <1>1, <1>3, <1>4 DEF HandedTwice

\* A pair is found missing by a refused initial message alone.
LEMMA MissingGrows ==
    ASSUME [Next]_vars
    PROVE  missing' = missing \/ \E p \in Party : HandleRefused(p)
<1>1. CASE UNCHANGED vars
  BY <1>1 DEF vars, history
<1>2. ASSUME NEW p \in Party,
             \/ PublishPrekeys(p) \/ (\E q \in Party : AcquireBundle(p, q) \/ VerifyPeerSafetyNumber(p, q))
             \/ ProcessInbox(p) \/ DrainInbox(p) \/ DrainInboxFails(p) \/ HandleAccepted(p)
             \/ Republish(p) \/ SavePrekeys(p) \/ GiveUp(p) \/ SaveLocalState(p) \/ InitiateRefused(p) \/ Replay(p)
             \/ InitiateSession(p) \/ InitiateNotPosted(p) \/ InitiateCrash(p) \/ Restart(p) \/ LoseStateFile(p)
      PROVE  missing' = missing
  BY <1>2 DEF PublishPrekeys, AcquireBundle, VerifyPeerSafetyNumber, ProcessInbox, DrainInbox, DrainInboxFails,
              HandleAccepted, Republish, SavePrekeys, GiveUp, SaveLocalState, InitiateRefused, Replay,
              InitiateSession, InitiateNotPosted, StartInitial, InitiateCrash, Restart, LoseStateFile, history
<1> QED
  BY <1>1, <1>2 DEF Next, CallStep

\* An initial message to the client as it is, from a peer it trusts, not yet
\* accepted and not acceptable, has a pair that another one used up.
LEMMA MissingIsTwice ==
    ASSUME TypeInv, PairInv, PostInv, HeldInv, GuardInv, NEW p \in Party, AnswerOk(p),
           NEW m \in posted[p], NoPair(p, m), ~Accepts(mem[p], m)
    PROVE  HandedTwice(m.pair)
<1>1. PICK c \in ClientState : /\ c = mem[p] /\ PairsOk(p, c, made[p]) /\ GuardsOk(p, c, posted[p])
                               /\ m.pair \in Had(c)
  BY UserTypes DEF PairInv, GuardInv, AnswerOk, NoPair
<1>2. m \in Initial /\ m.id \in HandshakeId /\ m.pair \in Pair
  BY UserTypes DEF Initial
<1>3. /\ m.id[1] # p
      /\ \A n \in posted[p] : m.id = n.id => m = n
  BY DEF PostInv, PostOk
<1>4. ~HasAccepted(c, m)
  BY <1>1 DEF NoPair
<1>5. ~Replayed(c, m)
  <2> SUFFICES ASSUME Replayed(c, m) PROVE FALSE
    OBVIOUS
  <2>1. PICK i \in DOMAIN c.guards : c.guards[i] = m.id
    BY DEF Replayed
  <2>2. PICK j \in DOMAIN c.accepted : c.accepted[j].id = m.id
    BY <1>1, <1>3, <2>1 DEF GuardsOk
  <2>3. c.accepted[j] \in posted[p]
    BY <1>1 DEF GuardsOk
  <2>4. c.accepted[j] = m
    BY <1>3, <2>2, <2>3
  <2> QED
    BY <1>4, <2>4 DEF HasAccepted
<1>6. ~HasPair(c, m.pair)
  BY <1>1, <1>5 DEF Accepts, Genuine, NoPair
<1>7. PICK j \in DOMAIN c.accepted : c.accepted[j].pair = m.pair
  BY <1>1, <1>6 DEF Had, HasPair, Elements
<1>8. PICK n : n = c.accepted[j] /\ n \in posted[p] /\ n # m /\ n.pair = m.pair
  BY <1>1, <1>4, <1>7 DEF GuardsOk, HasAccepted
<1>9. n.id # m.id
  BY <1>3, <1>8
<1>10. n.id \in HandshakeId
  BY <1>8, UserTypes DEF Initial
<1>11. Holds(p, m.id, m.pair) /\ Holds(p, n.id, m.pair)
  BY <1>8 DEF Holds
<1>12. \E e, f \in DOMAIN handed[p] : e # f /\ handed[p][e] = m.pair /\ handed[p][f] = m.pair
  BY <1>2, <1>9, <1>10, <1>11 DEF HeldInv, HeldOk
<1>13. m.pair \in {p} \X (1 .. made[p])
  BY <1>1, <1>7 DEF PairsOk
<1>14. m.pair[1] = p
  BY <1>13
<1> QED
  BY <1>12, <1>14 DEF HandedTwice

\* Every step keeps a cause for each pair found missing.
LEMMA MissingStep ==
    TypeInv /\ PairInv /\ PostInv /\ HeldInv /\ GuardInv /\ AnswerInv /\ MissingInv /\ [Next]_vars
        => MissingInv'
<1> SUFFICES ASSUME TypeInv, PairInv, PostInv, HeldInv, GuardInv, AnswerInv, MissingInv, [Next]_vars,
                    "pool" \notin cause', NEW x \in missing'
             PROVE  HandedTwice(x)'
  BY DEF MissingInv
<1>1. "pool" \notin cause /\ missing \subseteq Pair
  BY CauseGrows DEF TypeInv, HistoryTypes
<1>2. ASSUME x \in missing PROVE HandedTwice(x)'
  BY <1>1, <1>2, TwiceStays DEF MissingInv
<1>3. ASSUME NEW p \in Party, HandleRefused(p), x \notin missing PROVE HandedTwice(x)'
  <2>1. PICK c \in ClientState, d \in ClientState, met \in ClientState, m \in posted[p],
             call \in PollState(Entry) :
          /\ m \in Initial /\ ~Accepts(mem[p], m)
          /\ missing' = IF NoPair(p, m) THEN missing \cup {m.pair} ELSE missing
    BY <1>3, HandleRefusedEffect
  <2>2. NoPair(p, m) /\ x = m.pair /\ x \in Pair
    BY <1>3, <2>1 DEF Initial
  <2>3. AnswerOk(p)
    BY <1>1 DEF AnswerInv
  <2>4. HandedTwice(x)
    BY <2>1, <2>2, <2>3, MissingIsTwice
  <2> QED
    BY <2>2, <2>4, TwiceStays
<1> QED
  BY <1>2, <1>3, MissingGrows

\* The invariant of the pairs under way.
HoldInv ==
    /\ OfferInv /\ PostInv /\ HeldInv /\ IdentityInv /\ AnswerInv /\ GuardInv /\ MissingInv

\* The clients just created satisfy the invariant on pairs under way.
LEMMA InitialHold == Init => HoldInv
<1> SUFFICES ASSUME Init PROVE HoldInv
  OBVIOUS
<1>1. \A p \in Party : /\ posted[p] = {} /\ task[p].op # "acquired" /\ mem[p] = Created(p) /\ disk[p] = Created(p)
                       /\ bundle[p] = [identity |-> 1, pairs |-> mem[p].pool]
  BY TaskKinds DEF Init
<1>2. \A p \in Party : /\ mem[p].self = 1 /\ mem[p].guards = <<>> /\ mem[p].accepted = <<>>
                       /\ disk[p].guards = <<>> /\ disk[p].accepted = <<>>
  BY <1>1, CreatedTypes
<1>3. PostInv
  BY <1>1 DEF PostInv, PostOk
<1>4. HeldInv
  BY <1>1, ZenonT(30) DEF HeldInv, HeldOk, Holds, HandshakeId
<1>9. \A p \in Party : bundle[p].identity = 1 /\ bundle[p].pairs = mem[p].pool
  <2> SUFFICES ASSUME NEW p \in Party
               PROVE  bundle[p].identity = 1 /\ bundle[p].pairs = mem[p].pool
    OBVIOUS
  <2>1. PICK s : s = mem[p].pool
    OBVIOUS
  <2>2. bundle[p] = [identity |-> 1, pairs |-> s]
    BY <1>1, <2>1
  <2>3. PICK b : b = bundle[p]
    OBVIOUS
  <2>4. b.identity = 1 /\ b.pairs = s
    BY <2>2, <2>3
  <2> QED
    BY <2>1, <2>3, <2>4
<1>10. \A p \in Party : posted[p] = {} /\ task[p].op # "acquired"
  BY <1>1
<1>11. \A p \in Party : mem[p].self = 1
  BY <1>2
<1>5. IdentityInv
  BY <1>9, <1>10, <1>11 DEF IdentityInv, IdentityOk
<1>6. AnswerInv
  BY <1>9, <1>10 DEF AnswerInv, AnswerOk, Had
<1>7. GuardInv
  BY <1>1, <1>2 DEF GuardInv, GuardsOk
<1>8. MissingInv
  BY DEF Init, MissingInv
<1> QED
  BY <1>3, <1>4, <1>5, <1>6, <1>7, <1>8, InitialOffer DEF HoldInv

\* Every step keeps the invariant on pairs under way.
LEMMA HoldStep == TypeInv /\ PairInv /\ HoldInv /\ [Next]_vars => HoldInv'
<1> SUFFICES ASSUME TypeInv, PairInv, HoldInv, [Next]_vars PROVE HoldInv'
  OBVIOUS
<1>1. OfferInv /\ PostInv /\ HeldInv /\ IdentityInv /\ AnswerInv /\ GuardInv /\ MissingInv
  BY DEF HoldInv
<1>2. OfferInv' /\ PostInv' /\ HeldInv' /\ IdentityInv' /\ AnswerInv' /\ GuardInv' /\ MissingInv'
  BY <1>1, OfferStep, PostStep, HeldStep, IdentityStep, AnswerStep, GuardStep, MissingStep
<1> QED
  BY <1>2 DEF HoldInv

\* HandleInitialMessage lacks the pair of a new initial message of a verified
\* peer only if AcquireBundleForSession handed the pair out twice, or the
\* client died with unsaved pools.
THEOREM MissingIsExplained == Spec => []MissingHasCause
<1>1. TypeInv /\ HoldInv => MissingHasCause
  <2> SUFFICES ASSUME TypeInv, HoldInv, "pool" \notin cause, NEW x \in missing
               PROVE  Cardinality({i \in DOMAIN handed[x[1]] : handed[x[1]][i] = x}) > 1
    BY DEF MissingHasCause
  <2>1. x \in Pair /\ HandedTwice(x)
    BY DEF TypeInv, HistoryTypes, HoldInv, MissingInv
  <2>2. PICK s \in Seq(Pair) : s = handed[x[1]]
    <3>1. x[1] \in Party
      BY <2>1 DEF Pair
    <3> QED
      BY <3>1, UserTypes
  <2>3. PICK i \in DOMAIN s, j \in DOMAIN s : i # j /\ s[i] = x /\ s[j] = x
    BY <2>1, <2>2 DEF HandedTwice
  <2>4. Cardinality({k \in DOMAIN s : s[k] = x}) > 1
    BY <2>3, TwiceIsMany
  <2> QED
    BY <2>2, <2>4
<1>2. TypeInv /\ PairInv /\ HoldInv /\ [Next]_vars => HoldInv'
  BY HoldStep
<1> QED
  BY <1>1, <1>2, InitialHold, PairsHold, PTL DEF Spec

----------------------------------------------------------------------------
\* What was read.

\* Client c has accepted every initial message of the mailbox up to number a.
Covers(c, box, a) == \A e \in Entries(box) : e.id <= a => HasAccepted(c, e.env)

\* What client c of a user, its state file d and its call know of the mailbox:
\* nothing that an acknowledgement in memory, in the file or to come covers is
\* unread, and the numbers are below the next one.
ReadAt(c, d, call, box, next) ==
    /\ Ordered(box) /\ \A x \in InboxIds(box) : x < next
    /\ c.pending < next /\ d.pending < next /\ call.done < next
    /\ Covers(c, box, c.pending) /\ Covers(d, box, d.pending)
    /\ call.pc = "handle" => PageOpen(call, box) /\ Covers(c, box, call.done)
    /\ call.pc # "handle" => call.page = <<>>
    /\ call.pc = "drain" => call.ack = c.pending

ReadInv == \A p \in Party : ReadAt(mem[p], disk[p], poll[p], inbox[p], nextId[p])

\* What has been accepted covers as much in another client that accepted it.
LEMMA CoversSame ==
    ASSUME NEW b, NEW c, c.accepted = b.accepted, NEW box, NEW a, Covers(b, box, a)
    PROVE  Covers(c, box, a)
BY DEF Covers, HasAccepted

\* The client keeps what it accepted and its acknowledgement; so does what it
\* saves.  The call goes on in its place, or outside DrainInbox and its page.
LEMMA ReadSame ==
    ASSUME NEW b, NEW e, NEW old, NEW box, NEW next, ReadAt(b, e, old, box, next),
           NEW c, c.accepted = b.accepted, c.pending = b.pending,
           NEW d, d = e \/ (d.accepted = c.accepted /\ d.pending = c.pending),
           NEW call, \/ call.pc = old.pc /\ call.page = old.page /\ call.done = old.done /\ call.ack = old.ack
                     \/ call.pc \notin {"handle", "drain"} /\ call.page = <<>> /\ call.done \in {0, old.done},
           0 < next
    PROVE  ReadAt(c, d, call, box, next)
<1>1. /\ Ordered(box) /\ \A x \in InboxIds(box) : x < next
      /\ b.pending < next /\ e.pending < next /\ old.done < next
      /\ Covers(b, box, b.pending) /\ Covers(e, box, e.pending)
      /\ old.pc = "handle" => PageOpen(old, box) /\ Covers(b, box, old.done)
      /\ old.pc # "handle" => old.page = <<>>
      /\ old.pc = "drain" => old.ack = b.pending
  BY DEF ReadAt
<1>2. Covers(c, box, c.pending) /\ (old.pc = "handle" => Covers(c, box, old.done))
  BY <1>1, CoversSame
<1>3. Covers(d, box, d.pending) /\ d.pending < next
  BY <1>1, <1>2, CoversSame
<1>4. call.done < next
  BY <1>1
<1>5. /\ call.pc = "handle" => PageOpen(call, box) /\ Covers(c, box, call.done)
      /\ call.pc # "handle" => call.page = <<>>
      /\ call.pc = "drain" => call.ack = c.pending
  <2>1. CASE call.pc = old.pc /\ call.page = old.page /\ call.done = old.done /\ call.ack = old.ack
    BY <1>1, <1>2, <2>1 DEF PageOpen
  <2>2. CASE call.pc \notin {"handle", "drain"} /\ call.page = <<>> /\ call.done \in {0, old.done}
    BY <2>2
  <2> QED
    BY <2>1, <2>2
<1> QED
  BY <1>1, <1>2, <1>3, <1>4, <1>5 DEF ReadAt

\* An envelope behind what an acknowledgement covers changes nothing.
LEMMA CoversMail ==
    ASSUME NEW c, NEW box, NEW a \in Nat, Covers(c, box, a), NEW id \in Nat, a < id, NEW env, NEW new,
           Entries(new) = Entries(box) \cup {[id |-> id, env |-> env]}
    PROVE  Covers(c, new, a)
<1> SUFFICES ASSUME NEW e \in Entries(new), e.id <= a PROVE HasAccepted(c, e.env)
  BY DEF Covers
<1>1. e # [id |-> id, env |-> env]
  OBVIOUS
<1> QED
  BY <1>1 DEF Covers

\* A new envelope covers nothing and disturbs no call.
LEMMA ReadMail ==
    ASSUME NEW c \in ClientState, NEW d \in ClientState, NEW call \in PollState(Entry),
           NEW box \in Seq(Entry), NEW next \in Nat \ {0}, NEW env \in Initial,
           ReadAt(c, d, call, box, next), NEW new, new = EnqueueEnvelope(box, next, env)
    PROVE  ReadAt(c, d, call, new, next + 1)
<1>1. /\ Ordered(box) /\ \A x \in InboxIds(box) : x < next
      /\ c.pending < next /\ d.pending < next /\ call.done < next
      /\ Covers(c, box, c.pending) /\ Covers(d, box, d.pending)
      /\ call.pc = "handle" => PageOpen(call, box) /\ Covers(c, box, call.done)
      /\ call.pc # "handle" => call.page = <<>>
      /\ call.pc = "drain" => call.ack = c.pending
  BY DEF ReadAt
<1>2. c.pending \in Nat /\ d.pending \in Nat /\ call.done \in Nat /\ InboxIds(box) \subseteq Nat
  BY Fields, EntryIds, BoxTypes DEF PollState
<1>3. [id |-> next, env |-> env] \in Entry
  BY DEF Entry
<1>4. /\ Ordered(new) /\ InboxIds(new) = InboxIds(box) \cup {next}
      /\ Entries(new) = Entries(box) \cup {[id |-> next, env |-> env]}
  BY <1>1, <1>3, EntryIds, Enqueued
<1>5. Covers(c, new, c.pending) /\ Covers(d, new, d.pending) /\ (call.pc = "handle" => Covers(c, new, call.done))
  BY <1>1, <1>2, <1>4, CoversMail
<1>6. call.pc = "handle" => PageOpen(call, new)
  <2> SUFFICES ASSUME PageOpen(call, box) PROVE PageOpen(call, new)
    BY <1>1
  <2>1. InboxIds(call.page) \subseteq InboxIds(box)
    BY IdsOfEntries DEF PageOpen
  <2>2. ASSUME NEW x \in InboxIds(new), NEW y \in InboxIds(call.page), call.done < x, x <= y
        PROVE  x \in InboxIds(call.page)
    <3>1. y < next /\ y \in Nat
      BY <1>1, <1>2, <2>1
    <3>2. x \in InboxIds(box)
      BY <1>4, <2>2, <3>1
    <3> QED
      BY <2>2, <3>2 DEF PageOpen
  <2> QED
    BY <1>4, <2>2 DEF PageOpen
<1>7. \A x \in InboxIds(new) : x < next + 1
  BY <1>1, <1>2, <1>4
<1>8. c.pending < next + 1 /\ d.pending < next + 1 /\ call.done < next + 1
  BY <1>1, <1>2
<1> QED
  BY <1>1, <1>4, <1>5, <1>6, <1>7, <1>8 DEF ReadAt

\* ProcessInbox begins.
LEMMA ReadStarted ==
    ASSUME NEW c \in ClientState, NEW d, NEW old, NEW box, NEW next, ReadAt(c, d, old, box, next), 0 < next,
           NEW call, call = StartPoll(c.pending)
    PROVE  ReadAt(c, d, call, box, next)
<1>1. call.page = <<>> /\ call.done = 0 /\ call.pc = "drain" /\ call.ack = c.pending
  BY DEF StartPoll, Idle
<1> QED
  BY <1>1 DEF ReadAt

\* DrainInbox was served: what it deleted was covered, and the page begins behind.
LEMMA ReadServed ==
    ASSUME NEW b \in ClientState, NEW d \in ClientState, NEW old \in PollState(Entry), Going(old),
           NEW box \in Seq(Entry),
           NEW next \in Nat \ {0}, ReadAt(b, d, old, box, next), old.pc = "drain",
           NEW left, left = DropAcked(box, old.ack), NEW n \in PageLengths(left),
           NEW c \in ClientState, c.accepted = b.accepted, c.pending = 0,
           NEW call, call = Served(old, PageOf(left, n))
    PROVE  ReadAt(c, d, call, left, next)
<1>1. /\ Ordered(box) /\ \A x \in InboxIds(box) : x < next
      /\ d.pending < next /\ Covers(d, box, d.pending)
      /\ old.page = <<>> /\ old.ack = b.pending
  BY DEF ReadAt
<1>2. old.ack \in Nat /\ InboxIds(box) \subseteq Nat \ {0} /\ old.pass < MaxPasses
  BY EntryIds, BoxTypes DEF PollState, Going
<1>3. /\ left \in Seq(Entry) /\ Ordered(left) /\ InboxIds(left) \subseteq InboxIds(box)
      /\ Entries(left) \subseteq Entries(box)
  <2>1. PICK ack \in Nat : ack = old.ack
    BY <1>2
  <2>2. /\ DropAcked(box, ack) \in Seq(Entry) /\ Ordered(DropAcked(box, ack))
        /\ InboxIds(DropAcked(box, ack)) = {x \in InboxIds(box) : x > ack}
        /\ Entries(DropAcked(box, ack)) \subseteq Entries(box)
    BY <1>1, EntryIds, Dropped
  <2> QED
    BY <2>1, <2>2
<1>4. PICK H \in SUBSET Nat : H = {x \in InboxIds(box) : x <= old.ack}
  BY <1>2
<1>5. UpTo(box, H, old.ack)
  BY <1>2, <1>4 DEF UpTo
<1>6. PollOk(old, box, H, old.ack)
  BY <1>1, <1>2, <1>5 DEF PollOk
<1>7. call.done = 0 /\ call.pc \in {"handle", "end"} /\ PollOk(call, left, H, 0)
  <2>1. n \in PageLengths(DropAcked(box, old.ack)) /\ HasIds(Entry)
    BY EntryIds
  <2>2. /\ Served(old, PageOf(DropAcked(box, old.ack), n)).done = 0
        /\ Served(old, PageOf(DropAcked(box, old.ack), n)).pc \in {"handle", "end"}
        /\ PollOk(Served(old, PageOf(DropAcked(box, old.ack), n)), DropAcked(box, old.ack), H, 0)
    BY <1>1, <1>6, <2>1, ServedOk, SMTT(30)
  <2> QED
    BY <2>2
<1>8. \A e \in Entries(left) : e.id \in Nat \ {0}
  BY <1>3, EntryIds, BoxTypes DEF HasIds
<1>9. Covers(c, left, 0)
  BY <1>8 DEF Covers
<1>10. Covers(d, left, d.pending)
  BY <1>1, <1>3 DEF Covers
<1>11. /\ call.pc = "handle" => PageOpen(call, left)
       /\ call.pc # "handle" => call.page = <<>>
  BY <1>7 DEF PollOk
<1>12. \A x \in InboxIds(left) : x < next
  BY <1>1, <1>3
<1> QED
  BY <1>1, <1>3, <1>7, <1>9, <1>10, <1>11, <1>12 DEF ReadAt

\* The entry with a number in a mailbox is the only one.
LEMMA OneEntry ==
    ASSUME NEW box \in Seq(Entry), Ordered(box), NEW e \in Entries(box), NEW f \in Entries(box), e.id = f.id
    PROVE  e = f
<1>1. PICK i \in DOMAIN box, j \in DOMAIN box : e = box[i] /\ f = box[j]
  BY DEF Entries
<1>2. e.id \in Nat
  BY EntryIds, BoxTypes DEF HasIds
<1>3. i \in Nat /\ j \in Nat
  OBVIOUS
<1>4. ~(i < j) /\ ~(j < i)
  BY <1>1, <1>2 DEF Ordered
<1> QED
  BY <1>1, <1>3, <1>4

\* What precedes the first entry of the page was accepted.
LEMMA BeforePage ==
    ASSUME NEW c, NEW call \in PollState(Entry), NEW box \in Seq(Entry), PageOpen(call, box),
           Covers(c, box, call.done), NEW e \in Entries(box), e.id < Head(call.page).id
    PROVE  HasAccepted(c, e.env)
<1>1. e.id \in InboxIds(box) /\ e.id \in Nat /\ call.done \in Nat /\ call.page \in Seq(Entry)
  BY IdsOfEntries, EntryIds, BoxTypes DEF HasIds, PollState
<1>2. call.page # <<>> /\ Ordered(call.page)
  BY DEF PageOpen
<1>3. /\ Head(call.page).id \in InboxIds(call.page) /\ Head(call.page).id \in Nat
      /\ \A x \in InboxIds(call.page) : x = Head(call.page).id \/ Head(call.page).id < x
  <2>1. /\ Head(call.page) \in Entry
        /\ InboxIds(call.page) = {Head(call.page).id} \cup InboxIds(Tail(call.page))
        /\ \A x \in InboxIds(Tail(call.page)) : Head(call.page).id < x
    BY <1>1, <1>2, EntryIds, Headed
  <2> QED
    BY <2>1, EntryIds DEF HasIds
<1>4. InboxIds(call.page) \subseteq Nat
  BY <1>1, EntryIds, BoxTypes
<1>5. e.id \notin InboxIds(call.page)
  BY <1>1, <1>3, <1>4
<1>6. ~(call.done < e.id)
  BY <1>1, <1>3, <1>5 DEF PageOpen
<1> QED
  BY <1>1, <1>6 DEF Covers

\* The first entry of the page was accepted, and with it everything up to it.
LEMMA ReadHandled ==
    ASSUME NEW b \in ClientState, NEW d \in ClientState, NEW old \in PollState(Entry), Going(old),
           NEW box \in Seq(Entry), NEW next \in Nat \ {0}, ReadAt(b, d, old, box, next), old.pc = "handle",
           NEW call, call = Handled(old), NEW c \in ClientState,
           \A m : HasAccepted(b, m) \/ m = Head(old.page).env => HasAccepted(c, m),
           c.pending = PendingAfter(call, b.pending)
    PROVE  ReadAt(c, d, call, box, next)
<1>1. /\ Ordered(box) /\ \A x \in InboxIds(box) : x < next
      /\ b.pending < next /\ d.pending < next /\ Covers(d, box, d.pending) /\ Covers(b, box, b.pending)
      /\ PageOpen(old, box) /\ Covers(b, box, old.done)
  BY DEF ReadAt
<1>2. old.done \in Nat /\ InboxIds(box) \subseteq Nat /\ old.pass < MaxPasses
  BY EntryIds, BoxTypes DEF PollState, Going
<1>3. PICK H \in SUBSET Nat : H = {x \in InboxIds(box) : x <= old.done}
  BY <1>2
<1>4. UpTo(box, H, old.done)
  BY <1>2, <1>3 DEF UpTo
<1>5. PollOk(old, box, H, b.pending)
  BY <1>1, <1>2, <1>4 DEF PollOk
<1>6. PICK id : id = Head(old.page).id
  OBVIOUS
<1>7. /\ id \in InboxIds(box) /\ Head(old.page) \in Entries(box)
      /\ call \in PollState(Entry) /\ call.pc \in {"handle", "drain", "end"}
      /\ call.done \in {0, id} /\ c.pending \in {b.pending, id}
      /\ PollOk(call, box, H \cup {id}, c.pending)
  <2>1. PICK pending : pending = b.pending
    OBVIOUS
  <2>2. PollOk(old, box, H, pending)
    BY <1>5, <2>1
  <2>3. /\ Head(old.page).id \in InboxIds(box) /\ Head(old.page) \in Entries(box)
        /\ Handled(old) \in PollState(Entry) /\ Handled(old).pc \in {"handle", "drain", "end"}
        /\ Handled(old).done \in {0, Head(old.page).id}
        /\ PendingAfter(Handled(old), pending) \in {pending, Head(old.page).id}
        /\ PollOk(Handled(old), box, H \cup {Head(old.page).id}, PendingAfter(Handled(old), pending))
    BY <1>1, <2>2, EntryIds, HandledOk
  <2>4. c.pending = PendingAfter(Handled(old), pending)
    BY <2>1
  <2> QED
    BY <1>6, <2>1, <2>3, <2>4
<1>8. \A e \in Entries(box) : e.id = id \/ e.id <= old.done => HasAccepted(c, e.env)
  BY <1>1, <1>6, <1>7, OneEntry DEF Covers
<1>9. \A e \in Entries(box) : e.id <= id => HasAccepted(c, e.env)
  <2> SUFFICES ASSUME NEW e \in Entries(box), e.id <= id PROVE HasAccepted(c, e.env)
    OBVIOUS
  <2>1. e.id \in Nat /\ id \in Nat
    BY <1>2, <1>7, IdsOfEntries
  <2>2. CASE e.id = id
    BY <1>8, <2>2
  <2>3. CASE e.id < id
    BY <1>1, <1>6, <2>3, BeforePage
  <2> QED
    BY <2>1, <2>2, <2>3
<1>10. Covers(c, box, c.pending)
  BY <1>1, <1>7, <1>9 DEF Covers
<1>11. Covers(c, box, call.done)
  <2>1. \A e \in Entries(box) : e.id \in Nat \ {0}
    BY EntryIds, BoxTypes DEF HasIds
  <2>2. CASE call.done = 0
    BY <2>1, <2>2 DEF Covers
  <2>3. CASE call.done = id
    BY <1>9, <2>3 DEF Covers
  <2> QED
    BY <1>7, <2>2, <2>3
<1>12. /\ call.pc = "handle" => PageOpen(call, box)
       /\ call.pc # "handle" => call.page = <<>>
       /\ call.pc = "drain" => call.ack = c.pending
  BY <1>7 DEF PollOk
<1>13. call.done < next /\ c.pending < next
  BY <1>1, <1>7
<1> QED
  BY <1>1, <1>10, <1>11, <1>12, <1>13 DEF ReadAt

\* It was refused: the acknowledgement stops in front of it.
LEMMA ReadRefused ==
    ASSUME NEW b \in ClientState, NEW e \in ClientState, NEW old \in PollState(Entry), Going(old),
           NEW box \in Seq(Entry), NEW next \in Nat \ {0}, ReadAt(b, e, old, box, next), old.pc = "handle",
           NEW call, call = Refused(old), NEW c \in ClientState, c.accepted = b.accepted,
           c.pending = PendingAfter(call, b.pending),
           NEW d \in ClientState, d = e \/ (d.accepted = b.accepted /\ d.pending = b.pending)
    PROVE  ReadAt(c, d, call, box, next)
<1>1. /\ Ordered(box) /\ \A x \in InboxIds(box) : x < next
      /\ b.pending < next /\ e.pending < next /\ Covers(e, box, e.pending) /\ Covers(b, box, b.pending)
      /\ PageOpen(old, box) /\ Covers(b, box, old.done) /\ old.done < next
  BY DEF ReadAt
<1>2. old.done \in Nat /\ InboxIds(box) \subseteq Nat /\ old.pass < MaxPasses
  BY EntryIds, BoxTypes DEF PollState, Going
<1>3. PICK H \in SUBSET Nat : H = {x \in InboxIds(box) : x <= old.done}
  BY <1>2
<1>4. UpTo(box, H, old.done)
  BY <1>2, <1>3 DEF UpTo
<1>5. PollOk(old, box, H, b.pending)
  BY <1>1, <1>2, <1>4 DEF PollOk
<1>6. /\ call.pc \in {"drain", "end"} /\ call.done = 0 /\ c.pending = old.done
      /\ PollOk(call, box, H, c.pending)
  BY <1>1, <1>5, EntryIds, RefusedOk
<1>7. Covers(c, box, c.pending)
  BY <1>1, <1>6, CoversSame
<1>8. Covers(d, box, d.pending) /\ d.pending < next
  BY <1>1, CoversSame
<1>9. call.page = <<>> /\ (call.pc = "drain" => call.ack = c.pending)
  BY <1>6 DEF PollOk
<1> QED
  BY <1>1, <1>6, <1>7, <1>8, <1>9 DEF ReadAt

\* What a step of one client owes to the mailboxes of all.
LEMMA ReadStepOf ==
    ASSUME TypeInv, ReadInv, NEW p \in Party, NEW c, NEW d, Leaves(p, c, d),
           NEW call, poll' = [poll EXCEPT ![p] = call],
           NEW box, inbox' = [inbox EXCEPT ![p] = box], nextId' = nextId,
           ReadAt(c, d, call, box, nextId[p])
    PROVE  ReadInv'
<1> SUFFICES ASSUME NEW q \in Party PROVE ReadAt(mem'[q], disk'[q], poll'[q], inbox'[q], nextId'[q])
  BY DEF ReadInv
<1>1. /\ poll \in [Party -> PollState(Entry)] /\ inbox \in [Party -> Seq(Entry)] /\ ClientTypes
  BY DEF TypeInv, PollTypes, StoreTypes
<1>2. CASE q = p
  <2>1. mem'[p] = c /\ disk'[p] = d /\ poll'[p] = call /\ inbox'[p] = box
    BY <1>1, Left
  <2> QED
    BY <1>2, <2>1
<1>3. CASE q # p
  <2>1. mem'[q] = mem[q] /\ disk'[q] = disk[q] /\ poll'[q] = poll[q] /\ inbox'[q] = inbox[q]
    BY <1>1, <1>3, Left
  <2> QED
    BY <2>1 DEF ReadInv
<1> QED
  BY <1>2, <1>3

\* What a client and its state file know when it keeps what it accepted.
KeepsReading(p, c, d, call) ==
    /\ c.accepted = mem[p].accepted /\ c.pending = mem[p].pending
    /\ d = disk[p] \/ (d.accepted = c.accepted /\ d.pending = c.pending)
    /\ \/ call.pc = poll[p].pc /\ call.page = poll[p].page /\ call.done = poll[p].done /\ call.ack = poll[p].ack
       \/ call.pc \notin {"handle", "drain"} /\ call.page = <<>> /\ call.done \in {0, poll[p].done}

\* It knows as much of its mailbox as before.
LEMMA KeptReading ==
    ASSUME TypeInv, ReadInv, NEW p \in Party, NEW c, NEW d, NEW call, KeepsReading(p, c, d, call)
    PROVE  ReadAt(c, d, call, inbox[p], nextId[p])
<1>1. PICK b, e, old, box, next :
        b = mem[p] /\ e = disk[p] /\ old = poll[p] /\ box = inbox[p] /\ next = nextId[p]
  OBVIOUS
<1>2. ReadAt(b, e, old, box, next)
  BY <1>1 DEF ReadInv
<1>3. 0 < next
  BY <1>1, UserTypes
<1>4. /\ c.accepted = b.accepted /\ c.pending = b.pending
      /\ d = e \/ (d.accepted = c.accepted /\ d.pending = c.pending)
      /\ \/ call.pc = old.pc /\ call.page = old.page /\ call.done = old.done /\ call.ack = old.ack
         \/ call.pc \notin {"handle", "drain"} /\ call.page = <<>> /\ call.done \in {0, old.done}
  BY <1>1 DEF KeepsReading
<1>5. ReadAt(c, d, call, box, next)
  BY <1>2, <1>3, <1>4, ReadSame
<1> QED
  BY <1>1, <1>5

\* A step that leaves the mailboxes alone and keeps what the client accepted.
LEMMA ReadKept ==
    ASSUME TypeInv, ReadInv, NEW p \in Party, NEW c, NEW d, Leaves(p, c, d),
           NEW call, poll' = [poll EXCEPT ![p] = call], inbox' = inbox, nextId' = nextId,
           KeepsReading(p, c, d, call)
    PROVE  ReadInv'
<1>1. ReadAt(c, d, call, inbox[p], nextId[p])
  BY KeptReading
<1>2. inbox' = [inbox EXCEPT ![p] = inbox[p]]
  BY Unchanged DEF TypeInv, StoreTypes
<1> QED
  BY <1>1, <1>2, ReadStepOf

\* A step that posts an initial message to another user.
LEMMA ReadPosted ==
    ASSUME TypeInv, ReadInv, NEW p \in Party, NEW c, NEW d, Leaves(p, c, d),
           NEW call, poll' = [poll EXCEPT ![p] = call], Acquired(p), task[p].pair # None, PostInitial(p),
           ReadAt(c, d, call, inbox[p], nextId[p])
    PROVE  ReadInv'
<1> SUFFICES ASSUME NEW r \in Party PROVE ReadAt(mem'[r], disk'[r], poll'[r], inbox'[r], nextId'[r])
  BY DEF ReadInv
<1>1. PICK q \in Party, m \in Initial : q = task[p].peer /\ m = Begun(p) /\ q # p
  BY BegunTypes
<1>2. /\ poll \in [Party -> PollState(Entry)] /\ inbox \in [Party -> Seq(Entry)] /\ ClientTypes
      /\ nextId \in [Party -> Nat \ {0}]
  BY DEF TypeInv, PollTypes, StoreTypes
<1>3. PICK box, next : box = inbox[q] /\ next = nextId[q]
  OBVIOUS
<1>4. /\ inbox' = [inbox EXCEPT ![q] = EnqueueEnvelope(box, next, m)]
      /\ nextId' = [nextId EXCEPT ![q] = next + 1]
  BY <1>1, <1>3 DEF PostInitial
<1>5. /\ inbox'[q] = EnqueueEnvelope(box, next, m) /\ nextId'[q] = next + 1
      /\ \A o \in Party : o # q => inbox'[o] = inbox[o] /\ nextId'[o] = nextId[o]
  BY <1>2, <1>4
<1>6. /\ mem'[p] = c /\ disk'[p] = d /\ poll'[p] = call
      /\ \A o \in Party : o # p => mem'[o] = mem[o] /\ disk'[o] = disk[o] /\ poll'[o] = poll[o]
  BY <1>2, Left
<1>7. CASE r = p
  BY <1>1, <1>5, <1>6, <1>7
<1>8. CASE r = q
  <2>1. PICK b, e, old : b = mem[q] /\ e = disk[q] /\ old = poll[q]
    OBVIOUS
  <2>2. /\ b \in ClientState /\ e \in ClientState /\ old \in PollState(Entry)
        /\ box \in Seq(Entry) /\ next \in Nat \ {0}
    BY <1>3, <2>1, UserTypes
  <2>3. ReadAt(b, e, old, box, next)
    BY <1>3, <2>1 DEF ReadInv
  <2>4. ReadAt(b, e, old, EnqueueEnvelope(box, next, m), next + 1)
    BY <2>2, <2>3, ReadMail
  <2> QED
    BY <1>1, <1>5, <1>6, <1>8, <2>1, <2>4
<1>9. CASE r # p /\ r # q
  BY <1>5, <1>6, <1>9 DEF ReadInv
<1> QED
  BY <1>7, <1>8, <1>9

\* Nothing has been read yet.
LEMMA InitialRead == Init => ReadInv
<1> SUFFICES ASSUME Init, NEW p \in Party PROVE ReadAt(mem[p], disk[p], poll[p], inbox[p], nextId[p])
  BY DEF ReadInv
<1>1. mem[p] = Created(p) /\ disk[p] = Created(p) /\ poll[p] = Idle /\ inbox[p] = <<>> /\ nextId[p] = 1
  BY DEF Init
<1>2. Created(p).pending = 0
  BY DEF Created, NewClient
<1>3. Ordered(<<>>) /\ InboxIds(<<>>) = {} /\ Entries(<<>>) = {}
  BY EmptyBox
<1>4. Idle.done = 0 /\ Idle.pc = "idle" /\ Idle.page = <<>>
  BY DEF Idle
<1>5. \A c, a : Covers(c, <<>>, a)
  BY <1>3 DEF Covers
<1> QED
  BY <1>1, <1>2, <1>3, <1>4, <1>5 DEF ReadAt

\* A step that leaves the mailboxes alone, and of what the client has read what
\* it was, in memory and in what it saves.
ReadsOn(p) ==
    \E c, d, call :
        /\ Leaves(p, c, d) /\ poll' = [poll EXCEPT ![p] = call] /\ inbox' = inbox /\ nextId' = nextId
        /\ KeepsReading(p, c, d, call)

\* The steps of a client that only saves, publishes or meets a peer are of this
\* kind.
LEMMA StillReading ==
    ASSUME TypeInv, ReadInv, NEW p \in Party,
           \/ PublishPrekeys(p) \/ SavePrekeys(p) \/ (\E q \in Party : AcquireBundle(p, q))
           \/ (\E q \in Party : VerifyPeerSafetyNumber(p, q)) \/ InitiateRefused(p)
           \/ InitiateNotPosted(p) \/ GiveUp(p) \/ SaveLocalState(p) \/ Republish(p)
    PROVE  ReadsOn(p)
<1>0. /\ mem[p] \in ClientState /\ disk[p] \in ClientState /\ ClientTypes /\ poll[p] \in PollState(Entry)
      /\ poll \in [Party -> PollState(Entry)] /\ Limits(mem[p])
  BY UserTypes DEF TypeInv, PollTypes
<1>1. ASSUME NEW c, NEW d, Leaves(p, c, d), poll' = poll, inbox' = inbox, nextId' = nextId,
             c.accepted = mem[p].accepted, c.pending = mem[p].pending, d = disk[p] \/ d = c
      PROVE  ReadsOn(p)
  <2>1. KeepsReading(p, c, d, poll[p])
    BY <1>1 DEF KeepsReading
  <2>2. poll' = [poll EXCEPT ![p] = poll[p]]
    BY <1>1, SavedCallSame
  <2> QED
    BY <1>1, <2>1, <2>2 DEF ReadsOn
<1>2. CASE PublishPrekeys(p)
  <2>1. PICK b, clean : b \in ClientState /\ b = mem[p] /\ clean = [b EXCEPT !.dirty = FALSE]
    BY <1>0
  <2>2. clean.accepted = b.accepted /\ clean.pending = b.pending
    BY <2>1 DEF ClientState
  <2>3. PICK c : mem' = [mem EXCEPT ![p] = c] /\ (c = b \/ c = clean)
    BY <1>2, <2>1 DEF PublishPrekeys, Publish, PublishFails
  <2>4. Leaves(p, c, disk[p])
    BY <1>0, <1>2, <2>3 DEF PublishPrekeys, Leaves, ClientTypes
  <2>5. poll' = poll /\ inbox' = inbox /\ nextId' = nextId
    BY <1>2 DEF PublishPrekeys
  <2> QED
    BY <1>1, <2>1, <2>2, <2>3, <2>4, <2>5
<1>3. CASE SavePrekeys(p)
  <2>1. mem' = mem /\ inbox' = inbox /\ nextId' = nextId
    BY <1>3 DEF SavePrekeys, store
  <2>2. PICK ok \in BOOLEAN : /\ SaveOf(p, mem[p], ok)
                              /\ poll' = [poll EXCEPT ![p].err = poll[p].err \/ (poll[p].pc = "save" /\ ~ok)]
    BY <1>3 DEF SavePrekeys
  <2>3. PICK d \in {disk[p], mem[p]} : disk' = [disk EXCEPT ![p] = d]
    BY <1>0, <2>2, SaveEffect
  <2>4. Leaves(p, mem[p], d)
    BY <1>0, <2>1, <2>3 DEF Leaves, ClientTypes
  <2>5. PICK call : call = [poll[p] EXCEPT !.err = poll[p].err \/ (poll[p].pc = "save" /\ ~ok)]
    OBVIOUS
  <2>6. call.pc = poll[p].pc /\ call.page = poll[p].page /\ call.done = poll[p].done /\ call.ack = poll[p].ack
    BY <1>0, <2>5 DEF PollState
  <2>7. poll' = [poll EXCEPT ![p] = call]
    BY <2>2, <2>5
  <2>8. KeepsReading(p, mem[p], d, call)
    BY <2>3, <2>6 DEF KeepsReading
  <2> QED
    BY <2>1, <2>4, <2>7, <2>8 DEF ReadsOn
<1>4. CASE \E q \in Party : AcquireBundle(p, q)
  <2>1. mem' = mem /\ disk' = disk /\ poll' = poll /\ inbox' = inbox /\ nextId' = nextId
    BY <1>4 DEF AcquireBundle
  <2> QED
    BY <1>1, <2>1, StillClients
<1>5. CASE \E q \in Party : VerifyPeerSafetyNumber(p, q)
  <2>1. PICK q \in Party : VerifyPeerSafetyNumber(p, q)
    BY <1>5
  <2>2. PICK c \in ClientState, d \in ClientState :
          /\ Leaves(p, c, d) /\ (d = disk[p] \/ d = c)
          /\ c.accepted = mem[p].accepted /\ c.pending = mem[p].pending
    BY <2>1, VerifyEffect, ZenonT(30)
  <2>3. poll' = poll /\ inbox' = inbox /\ nextId' = nextId
    BY <2>1 DEF VerifyPeerSafetyNumber, store
  <2> QED
    BY <1>1, <2>2, <2>3
<1>6. CASE InitiateRefused(p)
  <2>1. PICK c \in ClientState, d \in ClientState :
          /\ Leaves(p, c, d) /\ (d = disk[p] \/ d = c) /\ task[p].peer \in Party /\ task[p].identity \in Nat
          /\ c = Meet(mem[p], task[p].peer, task[p].identity)
    BY <1>6, RefusalEffect
  <2>2. PICK b \in ClientState, q \in Party, n \in Nat : b = mem[p] /\ q = task[p].peer /\ n = task[p].identity
    BY <2>1, UserTypes
  <2>3. c = Meet(b, q, n)
    BY <2>1, <2>2
  <2>4. c.accepted = b.accepted /\ c.pending = b.pending
    BY <2>3, MetSame
  <2>5. poll' = poll /\ inbox' = inbox /\ nextId' = nextId
    BY <1>6 DEF InitiateRefused, store
  <2> QED
    BY <1>1, <2>1, <2>2, <2>4, <2>5
<1>7. CASE InitiateNotPosted(p)
  <2>1. PICK c \in ClientState, d \in ClientState :
          /\ Leaves(p, c, d) /\ (d = disk[p] \/ d = c) /\ Acquired(p) /\ task[p].pair # None
          /\ c = WithSession(mem[p], task[p].peer, task[p].identity, Begun(p))
    BY <1>7, BeginEffect
  <2>2. PICK q \in Party, n \in Nat, m \in Initial, b \in ClientState :
          q = task[p].peer /\ n = task[p].identity /\ m = Begun(p) /\ b = mem[p] /\ Limits(b)
    BY <2>1, BegunTypes, UserTypes
  <2>3. c = WithSession(b, q, n, m)
    BY <2>1, <2>2
  <2>4. c.accepted = b.accepted /\ c.pending = b.pending
    BY <2>2, <2>3, EstablishedSame
  <2>5. poll' = poll /\ inbox' = inbox /\ nextId' = nextId
    BY <1>7 DEF InitiateNotPosted, StartInitial
  <2> QED
    BY <1>1, <2>1, <2>2, <2>4, <2>5
<1>8. CASE GiveUp(p) \/ SaveLocalState(p)
  <2>1. /\ poll' = [poll EXCEPT ![p] = Idle] /\ inbox' = inbox /\ nextId' = nextId
    BY <1>8 DEF GiveUp, SaveLocalState, store
  <2>2. PICK d : Leaves(p, mem[p], d) /\ (d = disk[p] \/ d = mem[p])
    <3>1. CASE GiveUp(p)
      <4>1. mem' = mem /\ disk' = disk
        BY <3>1 DEF GiveUp
      <4> QED
        BY <4>1, StillClients
    <3>2. CASE SaveLocalState(p)
      BY <3>2, EndEffect
    <3> QED
      BY <1>8, <3>1, <3>2
  <2>3. Idle.pc = "idle" /\ Idle.page = <<>> /\ Idle.done = 0
    BY DEF Idle
  <2>4. KeepsReading(p, mem[p], d, Idle)
    BY <2>2, <2>3 DEF KeepsReading
  <2> QED
    BY <2>1, <2>2, <2>4 DEF ReadsOn
<1>9. CASE Republish(p)
  <2>1. PICK b \in ClientState : b = mem[p] /\ Limits(b)
    BY <1>0
  <2>2. PICK r, clean : r \in ClientState /\ r = Refill(p, b) /\ clean = [r EXCEPT !.dirty = FALSE]
    BY <2>1, RefilledLimits
  <2>3. r.accepted = b.accepted /\ r.pending = b.pending
    BY <2>2 DEF Refill, ClientState
  <2>4. clean.accepted = r.accepted /\ clean.pending = r.pending
    BY <2>2 DEF ClientState
  <2>5. PICK c : mem' = [mem EXCEPT ![p] = c] /\ (c = r \/ c = clean)
    BY <1>9, <2>1, <2>2 DEF Republish, Publish, PublishFails
  <2>6. Leaves(p, c, disk[p]) /\ inbox' = inbox /\ nextId' = nextId
    BY <1>0, <1>9, <2>5 DEF Republish, Leaves, ClientTypes
  <2>7. PICK err : poll' = [poll EXCEPT ![p].pc = "save", ![p].err = err]
                     \/ poll' = [poll EXCEPT ![p].pc = "save"]
    BY <1>9 DEF Republish
  <2>8. PICK call : /\ call = [poll[p] EXCEPT !.pc = "save", !.err = err] \/ call = [poll[p] EXCEPT !.pc = "save"]
                    /\ poll' = [poll EXCEPT ![p] = call]
    BY <2>7
  <2>9. call.pc = "save" /\ call.page = poll[p].page /\ call.done = poll[p].done
    BY <1>0, <2>8 DEF PollState
  <2>10. poll[p].page = <<>>
    BY <1>9 DEF Republish, ReadInv, ReadAt
  <2>11. KeepsReading(p, c, disk[p], call)
    BY <2>1, <2>3, <2>4, <2>5, <2>9, <2>10 DEF KeepsReading
  <2> QED
    BY <2>6, <2>8, <2>11 DEF ReadsOn
<1> QED
  BY <1>2, <1>3, <1>4, <1>5, <1>6, <1>7, <1>8, <1>9

\* They keep what the client has read.
LEMMA ReadStill ==
    ASSUME TypeInv, ReadInv, NEW p \in Party,
           \/ PublishPrekeys(p) \/ SavePrekeys(p) \/ (\E q \in Party : AcquireBundle(p, q))
           \/ (\E q \in Party : VerifyPeerSafetyNumber(p, q)) \/ InitiateRefused(p)
           \/ InitiateNotPosted(p) \/ GiveUp(p) \/ SaveLocalState(p) \/ Republish(p)
    PROVE  ReadInv'
<1>1. PICK c, d, call :
        /\ Leaves(p, c, d) /\ poll' = [poll EXCEPT ![p] = call] /\ inbox' = inbox /\ nextId' = nextId
        /\ KeepsReading(p, c, d, call)
  <2>1. ReadsOn(p)
    BY StillReading
  <2> QED
    BY <2>1 DEF ReadsOn
<1> QED
  BY <1>1, ReadKept

\* A restart knows what the state file knows, a new client nothing.
LEMMA ReadRestarted ==
    ASSUME TypeInv, ReadInv, NEW p \in Party, NEW c,
           c.pending = 0 \/ (c.accepted = disk[p].accepted /\ c.pending = disk[p].pending)
    PROVE  ReadAt(c, c, Idle, inbox[p], nextId[p])
<1>1. PICK e, box, next : e = disk[p] /\ box = inbox[p] /\ next = nextId[p]
  OBVIOUS
<1>2. Ordered(box) /\ (\A x \in InboxIds(box) : x < next) /\ e.pending < next /\ Covers(e, box, e.pending)
  BY <1>1 DEF ReadInv, ReadAt
<1>3. box \in Seq(Entry) /\ next \in Nat /\ 0 < next
  BY <1>1, UserTypes
<1>4. \A f \in Entries(box) : f.id \in Nat \ {0}
  BY <1>3, EntryIds, BoxTypes DEF HasIds
<1>5. Covers(c, box, c.pending) /\ c.pending < next
  <2>1. CASE c.pending = 0
    BY <1>3, <1>4, <2>1 DEF Covers
  <2>2. CASE c.accepted = disk[p].accepted /\ c.pending = disk[p].pending
    BY <1>1, <1>2, <2>2, CoversSame
  <2> QED
    BY <2>1, <2>2
<1>6. Idle.pc = "idle" /\ Idle.page = <<>> /\ Idle.done = 0
  BY DEF Idle
<1>7. ReadAt(c, c, Idle, box, next)
  BY <1>2, <1>3, <1>5, <1>6 DEF ReadAt
<1> QED
  BY <1>1, <1>7

\* HandleInitialMessage takes the first message of the page.
LEMMA AcceptsHead ==
    ASSUME TypeInv, PairInv, NEW p \in Party, HandleAccepted(p)
    PROVE  \E c \in ClientState, m \in posted[p] :
             /\ Leaves(p, c, disk[p]) /\ m = Head(poll[p].page).env /\ m \in Initial
             /\ Accepts(mem[p], m) /\ poll[p].pc = "handle"
             /\ poll' = [poll EXCEPT ![p] = Handled(poll[p])]
             /\ c.accepted = Append(mem[p].accepted, m)
             /\ c.sessions = Accept(mem[p], m).sessions
             /\ c.pending = PendingAfter(Handled(poll[p]), mem[p].pending)
<1>1. /\ mem[p] \in ClientState /\ Limits(mem[p]) /\ poll[p] \in PollState(Entry) /\ Going(poll[p])
      /\ ClientTypes /\ poll \in [Party -> PollState(Entry)] /\ mem[p].pending \in Nat
  BY UserTypes, Fields DEF TypeInv, PollTypes
<1>2. PICK m : m = Head(poll[p].page).env
  OBVIOUS
<1>3. poll[p].pc = "handle" /\ Accepts(mem[p], m)
  BY <1>2 DEF HandleAccepted
<1>4. m \in posted[p] /\ m \in Initial
  BY <1>2, <1>3, InHand
<1>5. PICK call : call = Handled(poll[p])
  OBVIOUS
<1>6. PICK n \in Nat : n = PendingAfter(call, mem[p].pending)
  BY <1>1, <1>3, <1>5, EntryIds, HandledGoing
<1>7. poll' = [poll EXCEPT ![p] = call] /\ poll'[p] = call
  BY <1>1, <1>5 DEF HandleAccepted
<1>8. PICK a : a = Accept(mem[p], m)
  OBVIOUS
<1>9. HasPair(mem[p], m.pair) /\ \A i, j \in DOMAIN mem[p].pool : mem[p].pool[i] = mem[p].pool[j] => i = j
  BY <1>3 DEF Accepts, PairInv, PairsOk
<1>10. a \in ClientState /\ a.pending = mem[p].pending /\ a.accepted = Append(mem[p].accepted, m)
  BY <1>1, <1>4, <1>8, <1>9, Accepted
<1>11. PICK c : c = [a EXCEPT !.pending = n]
  OBVIOUS
<1>12. c \in ClientState /\ SameCore(c, a) /\ c.pending = n
  BY <1>10, <1>11, PendingTypes
<1>13. mem' = [mem EXCEPT ![p] = c]
  <2>1. mem' = [mem EXCEPT ![p] = [a EXCEPT !.pending = PendingAfter(poll'[p], a.pending)]]
    BY <1>2, <1>8 DEF HandleAccepted
  <2> QED
    BY <1>6, <1>7, <1>10, <1>11, <2>1
<1>14. Leaves(p, c, disk[p])
  BY <1>1, <1>13 DEF HandleAccepted, ClientTypes, Leaves
<1>15. c.accepted = Append(mem[p].accepted, m) /\ c.sessions = Accept(mem[p], m).sessions
  BY <1>8, <1>10, <1>12 DEF SameCore
<1> QED
  BY <1>2, <1>3, <1>4, <1>5, <1>6, <1>7, <1>12, <1>14, <1>15

\* What is appended is accepted with the rest.
LEMMA AcceptedMore ==
    ASSUME NEW b \in ClientState, NEW m \in Initial, NEW c, c.accepted = Append(b.accepted, m), NEW n
    PROVE  HasAccepted(c, n) <=> HasAccepted(b, n) \/ n = m
<1>1. PICK s \in Seq(Initial) : s = b.accepted
  BY Fields
<1>2. PICK t : t = Append(s, m)
  OBVIOUS
<1>3. /\ DOMAIN t = DOMAIN s \cup {Len(s) + 1} /\ t[Len(s) + 1] = m
      /\ \A i \in DOMAIN s : t[i] = s[i]
  BY <1>1, <1>2
<1>4. (\E i \in DOMAIN t : t[i] = n) <=> (\E i \in DOMAIN s : s[i] = n) \/ n = m
  BY <1>3
<1> QED
  BY <1>1, <1>2, <1>4 DEF HasAccepted

\* HandleInitialMessage refuses the first message of the page.
LEMMA RefusesHead ==
    ASSUME TypeInv, NEW p \in Party, HandleRefused(p)
    PROVE  \E c, d \in ClientState :
             /\ Leaves(p, c, d) /\ poll[p].pc = "handle"
             /\ poll' = [poll EXCEPT ![p] = Refused(poll[p])]
             /\ c.accepted = mem[p].accepted /\ c.sessions = mem[p].sessions
             /\ c.pending = PendingAfter(Refused(poll[p]), mem[p].pending)
             /\ d = disk[p] \/ (d.accepted = mem[p].accepted /\ d.sessions = mem[p].sessions
                                  /\ d.pending = mem[p].pending)
<1>1. /\ mem[p] \in ClientState /\ disk[p] \in ClientState /\ poll[p] \in PollState(Entry)
      /\ Going(poll[p]) /\ ClientTypes /\ poll \in [Party -> PollState(Entry)]
  BY UserTypes DEF TypeInv, PollTypes
<1>2. PICK c \in ClientState, d \in ClientState, met \in ClientState, m \in posted[p],
           call \in PollState(Entry) :
        /\ Leaves(p, c, d) /\ m \in Initial
        /\ (met = mem[p] \/ met = Meet(mem[p], m.from, m.identity))
        /\ SameCore(c, met) /\ (d = disk[p] \/ d = met)
  BY HandleRefusedEffect
<1>3. PICK b \in ClientState, q \in Party, n \in Nat : b = mem[p] /\ q = m.from /\ n = m.identity
  BY <1>1, <1>2 DEF Initial
<1>4. met = b \/ met = Meet(b, q, n)
  BY <1>2, <1>3
<1>5. met.accepted = b.accepted /\ met.sessions = b.sessions /\ met.pending = b.pending
  BY <1>4, MetSame
<1>6. poll[p].pc = "handle" /\ poll' = [poll EXCEPT ![p] = Refused(poll[p])] /\ poll'[p] = Refused(poll[p])
  BY <1>1 DEF HandleRefused
<1>7. c.pending = PendingAfter(Refused(poll[p]), mem[p].pending)
  <2>1. PICK h \in Initial, first \in BOOLEAN :
          h = Head(poll[p].page).env /\ first = (Genuine(mem[p], h) /\ mem[p].peers[h.from] = None)
    BY <1>6, InHand
  <2>2. PICK k : k = IF first THEN Meet(mem[p], h.from, h.identity) ELSE mem[p]
    OBVIOUS
  <2>3. mem' = [mem EXCEPT ![p] = [k EXCEPT !.pending = PendingAfter(poll'[p], k.pending)]]
    BY <2>1, <2>2 DEF HandleRefused
  <2>4. PICK o \in Party, i \in Nat : o = h.from /\ i = h.identity
    BY <2>1 DEF Initial
  <2>5. k = b \/ k = Meet(b, o, i)
    BY <1>3, <2>2, <2>4
  <2>6. k \in ClientState /\ k.pending = b.pending
    <3>1. CASE k = b
      BY <3>1
    <3>2. CASE k = Meet(b, o, i)
      <4>1. Meet(b, o, i) \in ClientState /\ Meet(b, o, i).pending = b.pending
        BY Met
      <4> QED
        BY <3>2, <4>1
    <3> QED
      BY <2>5, <3>1, <3>2
  <2>7. c = [k EXCEPT !.pending = PendingAfter(poll'[p], k.pending)]
    BY <1>1, <1>2, <2>3, Left DEF ClientTypes
  <2>8. c.pending = PendingAfter(poll'[p], k.pending)
    BY <2>6, <2>7 DEF ClientState
  <2> QED
    BY <1>3, <1>6, <2>6, <2>8
<1>8. c.accepted = mem[p].accepted /\ c.sessions = mem[p].sessions
  BY <1>2, <1>3, <1>5 DEF SameCore
<1>9. d = disk[p] \/ (d.accepted = mem[p].accepted /\ d.sessions = mem[p].sessions /\ d.pending = mem[p].pending)
  BY <1>2, <1>3, <1>5
<1> QED
  BY <1>2, <1>6, <1>7, <1>8, <1>9

\* The acknowledgement of a client changes, and what it accepted does not.
LEMMA PendingSame ==
    ASSUME NEW b \in ClientState, NEW n \in Nat, NEW c, c = [b EXCEPT !.pending = n]
    PROVE  c \in ClientState /\ c.accepted = b.accepted /\ c.sessions = b.sessions /\ c.pending = n
BY PendingTypes DEF SameCore

\* Every step keeps what the acknowledgements cover read.
LEMMA ReadStep == TypeInv /\ PairInv /\ ReadInv /\ [Next]_vars => ReadInv'
<1> SUFFICES ASSUME TypeInv, PairInv, ReadInv, [Next]_vars PROVE ReadInv'
  OBVIOUS
<1>1. CASE UNCHANGED vars
  BY <1>1 DEF vars, store, ReadInv
<1>2. ASSUME NEW p \in Party,
             \/ PublishPrekeys(p) \/ SavePrekeys(p) \/ (\E q \in Party : AcquireBundle(p, q))
             \/ (\E q \in Party : VerifyPeerSafetyNumber(p, q)) \/ InitiateRefused(p)
             \/ InitiateNotPosted(p) \/ GiveUp(p) \/ SaveLocalState(p) \/ Republish(p)
      PROVE  ReadInv'
  BY <1>2, ReadStill
<1>3. ASSUME NEW p \in Party, InitiateSession(p) PROVE ReadInv'
  <2>1. PICK c \in ClientState, d \in ClientState :
          /\ Leaves(p, c, d) /\ (d = disk[p] \/ d = c) /\ Acquired(p) /\ task[p].pair # None
          /\ c = WithSession(mem[p], task[p].peer, task[p].identity, Begun(p))
    BY <1>3, BeginEffect
  <2>2. PICK q \in Party, n \in Nat, m \in Initial, b \in ClientState :
          q = task[p].peer /\ n = task[p].identity /\ m = Begun(p) /\ b = mem[p] /\ Limits(b)
    BY <2>1, BegunTypes, UserTypes
  <2>3. c = WithSession(b, q, n, m)
    BY <2>1, <2>2
  <2>4. c.accepted = b.accepted /\ c.pending = b.pending
    BY <2>2, <2>3, EstablishedSame
  <2>5. KeepsReading(p, c, d, poll[p])
    BY <2>1, <2>2, <2>4 DEF KeepsReading
  <2>6. ReadAt(c, d, poll[p], inbox[p], nextId[p])
    BY <2>5, KeptReading
  <2>7. poll' = poll /\ PostInitial(p)
    BY <1>3 DEF InitiateSession, StartInitial
  <2>8. poll' = [poll EXCEPT ![p] = poll[p]]
    BY <2>7, SavedCallSame
  <2> QED
    BY <2>1, <2>6, <2>7, <2>8, ReadPosted
<1>4. ASSUME NEW p \in Party, ProcessInbox(p) PROVE ReadInv'
  <2>1. PICK b \in ClientState, e \in ClientState, old \in PollState(Entry), box \in Seq(Entry),
             next \in Nat \ {0} :
          b = mem[p] /\ e = disk[p] /\ old = poll[p] /\ box = inbox[p] /\ next = nextId[p]
    BY UserTypes
  <2>2. ReadAt(b, e, old, box, next) /\ 0 < next
    BY <2>1, UserTypes DEF ReadInv
  <2>3. PICK call : call = StartPoll(b.pending)
    OBVIOUS
  <2>4. ReadAt(b, e, call, box, next)
    BY <2>2, <2>3, ReadStarted
  <2>5. /\ poll' = [poll EXCEPT ![p] = call] /\ inbox' = inbox /\ nextId' = nextId
        /\ mem' = mem /\ disk' = disk
    BY <1>4, <2>1, <2>3 DEF ProcessInbox, store
  <2>6. inbox' = [inbox EXCEPT ![p] = box] /\ Leaves(p, b, e)
    BY <2>1, <2>5, Unchanged, StillClients DEF TypeInv, StoreTypes
  <2> QED
    BY <2>1, <2>4, <2>5, <2>6, ReadStepOf
<1>5. ASSUME NEW p \in Party, DrainInbox(p) PROVE ReadInv'
  <2>1. PICK b \in ClientState, e \in ClientState, old \in PollState(Entry), box \in Seq(Entry),
             next \in Nat \ {0} :
          b = mem[p] /\ e = disk[p] /\ old = poll[p] /\ box = inbox[p] /\ next = nextId[p] /\ Going(old)
    BY UserTypes
  <2>2. ReadAt(b, e, old, box, next)
    BY <2>1 DEF ReadInv
  <2>3. PICK left : left = DropAcked(box, old.ack)
    OBVIOUS
  <2>4. /\ old.pc = "drain" /\ inbox' = [inbox EXCEPT ![p] = left] /\ nextId' = nextId /\ disk' = disk
        /\ mem' = [mem EXCEPT ![p] = [b EXCEPT !.pending = 0]]
        /\ \E n \in PageLengths(left) : poll' = [poll EXCEPT ![p] = Served(old, PageOf(left, n))]
    BY <1>5, <2>1, <2>3 DEF DrainInbox
  <2>5. PICK n \in PageLengths(left) : poll' = [poll EXCEPT ![p] = Served(old, PageOf(left, n))]
    BY <2>4
  <2>6. PICK call : call = Served(old, PageOf(left, n))
    OBVIOUS
  <2>7. PICK c : c = [b EXCEPT !.pending = 0]
    OBVIOUS
  <2>8. ReadAt(c, e, call, left, next)
    <3>1. c \in ClientState /\ c.accepted = b.accepted /\ c.pending = 0
      BY <2>7, PendingSame
    <3>2. Going(old) /\ old.pc = "drain"
      BY <2>1, <2>4
    <3> QED
      BY <2>2, <2>3, <2>6, <3>1, <3>2, ReadServed
  <2>9. Leaves(p, c, e)
    BY <2>1, <2>4, <2>7 DEF Leaves, TypeInv, ClientTypes
  <2> QED
    BY <2>1, <2>4, <2>5, <2>6, <2>8, <2>9, ReadStepOf
<1>6. ASSUME NEW p \in Party, DrainInboxFails(p) PROVE ReadInv'
  <2>1. PICK b \in ClientState, e \in ClientState, old \in PollState(Entry), box \in Seq(Entry),
             next \in Nat \ {0} :
          b = mem[p] /\ e = disk[p] /\ old = poll[p] /\ box = inbox[p] /\ next = nextId[p] /\ Going(old)
    BY UserTypes
  <2>2. ReadAt(b, e, old, box, next)
    BY <2>1 DEF ReadInv
  <2>3. PICK left : /\ left = box \/ left = DropAcked(box, old.ack)
                    /\ inbox' = [inbox EXCEPT ![p] = left]
    BY <1>6, <2>1, Unchanged DEF DrainInboxFails, TypeInv, StoreTypes
  <2>4. /\ old.pc = "drain" /\ nextId' = nextId /\ disk' = disk
        /\ mem' = [mem EXCEPT ![p] = [b EXCEPT !.pending = IF old.ack # 0 THEN old.ack ELSE b.pending]]
        /\ poll' = [poll EXCEPT ![p] = NotServed(old)]
    BY <1>6, <2>1 DEF DrainInboxFails
  <2>5. old.ack = b.pending /\ old.page = <<>> /\ old.done < next /\ old.ack \in Nat
    BY <2>2, <2>4 DEF ReadAt, PollState
  <2>6. PICK c : /\ c = [b EXCEPT !.pending = IF old.ack # 0 THEN old.ack ELSE b.pending]
                 /\ c \in ClientState /\ c.accepted = b.accepted /\ c.pending = b.pending
    <3>1. PICK k \in Nat : k = IF old.ack # 0 THEN old.ack ELSE b.pending
      BY <2>5
    <3>2. k = b.pending
      BY <2>5, <3>1
    <3>3. PICK c : c = [b EXCEPT !.pending = k]
      OBVIOUS
    <3>4. c \in ClientState /\ c.accepted = b.accepted /\ c.pending = k
      BY <3>3, PendingSame
    <3> QED
      BY <3>1, <3>2, <3>3, <3>4
  <2>7. PICK call : call = NotServed(old)
    OBVIOUS
  <2>8. call.pc \notin {"handle", "drain"} /\ call.page = <<>> /\ call.done \in {0, old.done}
    <3>1. Idle.pc = "idle" /\ Idle.page = <<>> /\ Idle.done = 0
      BY DEF Idle
    <3>2. CASE old.out = <<>>
      BY <2>7, <3>1, <3>2 DEF NotServed
    <3>3. CASE old.out # <<>>
      BY <2>5, <2>7, <3>3 DEF NotServed, PollState
    <3> QED
      BY <3>2, <3>3
  <2>9. ReadAt(c, e, call, box, next)
    <3>1. 0 < next
      OBVIOUS
    <3> QED
      BY <2>2, <2>6, <2>8, <3>1, ReadSame
  <2>10. ReadAt(c, e, call, left, next)
    <3>1. CASE left = box
      BY <2>9, <3>1
    <3>2. CASE left = DropAcked(box, old.ack)
      <4>1. PICK ack \in Nat : ack = old.ack
        BY <2>5
      <4>2. Ordered(box)
        BY <2>9 DEF ReadAt
      <4>3. /\ DropAcked(box, ack) \in Seq(Entry) /\ Ordered(DropAcked(box, ack))
            /\ InboxIds(DropAcked(box, ack)) = {x \in InboxIds(box) : x > ack}
            /\ Entries(DropAcked(box, ack)) \subseteq Entries(box)
        BY <4>2, EntryIds, Dropped
      <4>4. Ordered(left) /\ InboxIds(left) \subseteq InboxIds(box) /\ Entries(left) \subseteq Entries(box)
        BY <3>2, <4>1, <4>3
      <4>5. \A x, a : Covers(x, box, a) => Covers(x, left, a)
        BY <4>4 DEF Covers
      <4> QED
        BY <2>8, <2>9, <4>4, <4>5 DEF ReadAt
    <3> QED
      BY <2>3, <3>1, <3>2
  <2>11. Leaves(p, c, e)
    BY <2>1, <2>4, <2>6 DEF Leaves, TypeInv, ClientTypes
  <2> QED
    BY <2>1, <2>3, <2>4, <2>7, <2>10, <2>11, ReadStepOf
<1>7. ASSUME NEW p \in Party, HandleAccepted(p) PROVE ReadInv'
  <2>1. PICK c \in ClientState, m \in posted[p] :
          /\ Leaves(p, c, disk[p]) /\ m = Head(poll[p].page).env /\ m \in Initial
          /\ poll[p].pc = "handle" /\ poll' = [poll EXCEPT ![p] = Handled(poll[p])]
          /\ c.accepted = Append(mem[p].accepted, m)
          /\ c.pending = PendingAfter(Handled(poll[p]), mem[p].pending)
    BY <1>7, AcceptsHead
  <2>2. PICK b \in ClientState, e \in ClientState, old \in PollState(Entry), box \in Seq(Entry),
             next \in Nat \ {0} :
          b = mem[p] /\ e = disk[p] /\ old = poll[p] /\ box = inbox[p] /\ next = nextId[p] /\ Going(old)
    BY UserTypes
  <2>3. ReadAt(b, e, old, box, next)
    BY <2>2 DEF ReadInv
  <2>4. PICK call : call = Handled(old)
    OBVIOUS
  <2>5. \A n : HasAccepted(b, n) \/ n = Head(old.page).env => HasAccepted(c, n)
    <3>1. m \in Initial /\ c.accepted = Append(b.accepted, m) /\ m = Head(old.page).env
      BY <2>1, <2>2
    <3>2. \A n : HasAccepted(c, n) <=> HasAccepted(b, n) \/ n = m
      BY <3>1, AcceptedMore
    <3> QED
      BY <3>1, <3>2
  <2>6. c.pending = PendingAfter(call, b.pending) /\ old.pc = "handle" /\ poll' = [poll EXCEPT ![p] = call]
    BY <2>1, <2>2, <2>4
  <2>7. ReadAt(c, e, call, box, next)
    BY <2>2, <2>3, <2>4, <2>5, <2>6, ReadHandled
  <2>8. inbox' = [inbox EXCEPT ![p] = box] /\ nextId' = nextId
    BY <1>7, <2>2, Unchanged DEF HandleAccepted, store, TypeInv, StoreTypes
  <2> QED
    BY <2>1, <2>2, <2>6, <2>7, <2>8, ReadStepOf
<1>8. ASSUME NEW p \in Party, HandleRefused(p) PROVE ReadInv'
  <2>1. PICK c \in ClientState, d \in ClientState :
          /\ Leaves(p, c, d) /\ poll[p].pc = "handle"
          /\ poll' = [poll EXCEPT ![p] = Refused(poll[p])] /\ c.accepted = mem[p].accepted
          /\ c.pending = PendingAfter(Refused(poll[p]), mem[p].pending)
          /\ d = disk[p] \/ (d.accepted = mem[p].accepted /\ d.pending = mem[p].pending)
    BY <1>8, RefusesHead
  <2>2. PICK b \in ClientState, e \in ClientState, old \in PollState(Entry), box \in Seq(Entry),
             next \in Nat \ {0} :
          b = mem[p] /\ e = disk[p] /\ old = poll[p] /\ box = inbox[p] /\ next = nextId[p] /\ Going(old)
    BY UserTypes
  <2>3. ReadAt(b, e, old, box, next)
    BY <2>2 DEF ReadInv
  <2>4. PICK call : call = Refused(old)
    OBVIOUS
  <2>5. /\ c.pending = PendingAfter(call, b.pending) /\ old.pc = "handle" /\ poll' = [poll EXCEPT ![p] = call]
        /\ c.accepted = b.accepted /\ (d = e \/ (d.accepted = b.accepted /\ d.pending = b.pending))
    BY <2>1, <2>2, <2>4
  <2>6. ReadAt(c, d, call, box, next)
    BY <2>2, <2>3, <2>4, <2>5, ReadRefused
  <2>7. inbox' = [inbox EXCEPT ![p] = box] /\ nextId' = nextId
    BY <1>8, <2>2, Unchanged DEF HandleRefused, store, TypeInv, StoreTypes
  <2> QED
    BY <2>1, <2>2, <2>5, <2>6, <2>7, ReadStepOf
<1>9. ASSUME NEW p \in Party, Restart(p) \/ InitiateCrash(p) PROVE ReadInv'
  <2>1. PICK e \in ClientState : e = disk[p]
    BY UserTypes
  <2>2. Recreate(p)
    BY <1>9 DEF Restart, InitiateCrash
  <2>3. PICK c : c = Refill(p, e)
    OBVIOUS
  <2>4. Leaves(p, c, c) /\ poll' = [poll EXCEPT ![p] = Idle]
    BY <2>1, <2>2, <2>3, RecreateEffect DEF Recreate
  <2>5. c.accepted = e.accepted /\ c.pending = e.pending
    BY <2>3 DEF Refill, ClientState
  <2>6. ReadAt(c, c, Idle, inbox[p], nextId[p])
    BY <2>1, <2>5, ReadRestarted
  <2>7. CASE Restart(p)
    <3>1. inbox' = [inbox EXCEPT ![p] = inbox[p]] /\ nextId' = nextId
      BY <2>7, Unchanged DEF Restart, store, TypeInv, StoreTypes
    <3> QED
      BY <2>4, <2>6, <3>1, ReadStepOf
  <2>8. CASE InitiateCrash(p)
    <3>1. Acquired(p) /\ task[p].pair # None /\ PostInitial(p)
      BY <2>8 DEF InitiateCrash
    <3> QED
      BY <2>4, <2>6, <3>1, ReadPosted
  <2> QED
    BY <1>9, <2>7, <2>8
<1>10. ASSUME NEW p \in Party, LoseStateFile(p) PROVE ReadInv'
  <2>1. PICK c \in ClientState :
          Leaves(p, c, c) /\ c = NewClient(mem[p].self + 1, FreshPool(p, made[p]))
    BY <1>10, LossEffect
  <2>2. c.pending = 0
    BY <2>1 DEF NewClient
  <2>3. ReadAt(c, c, Idle, inbox[p], nextId[p])
    BY <2>2, ReadRestarted
  <2>4. /\ poll' = [poll EXCEPT ![p] = Idle] /\ nextId' = nextId
        /\ inbox' = [inbox EXCEPT ![p] = inbox[p]]
    BY <1>10, Unchanged DEF LoseStateFile, store, TypeInv, StoreTypes
  <2> QED
    BY <2>1, <2>3, <2>4, ReadStepOf
<1>11. ASSUME NEW p \in Party, Replay(p) PROVE ReadInv'
  <2>1. PICK m \in posted[p] : inbox' = [inbox EXCEPT ![p] = EnqueueEnvelope(inbox[p], nextId[p], m)]
    BY <1>11 DEF Replay
  <2>2. mem' = mem /\ disk' = disk /\ poll' = poll /\ nextId' = [nextId EXCEPT ![p] = nextId[p] + 1]
    BY <1>11 DEF Replay
  <2> SUFFICES ASSUME NEW q \in Party PROVE ReadAt(mem'[q], disk'[q], poll'[q], inbox'[q], nextId'[q])
    BY DEF ReadInv
  <2>3. CASE q # p
    <3>1. inbox'[q] = inbox[q] /\ nextId'[q] = nextId[q]
      BY <2>1, <2>2, <2>3 DEF TypeInv, StoreTypes
    <3> QED
      BY <2>2, <3>1 DEF ReadInv
  <2>4. CASE q = p
    <3>1. PICK b \in ClientState, e \in ClientState, old \in PollState(Entry), box \in Seq(Entry),
               next \in Nat \ {0} :
            b = mem[p] /\ e = disk[p] /\ old = poll[p] /\ box = inbox[p] /\ next = nextId[p]
      BY UserTypes
    <3>2. ReadAt(b, e, old, box, next) /\ m \in Initial
      BY <3>1, UserTypes DEF ReadInv
    <3>3. PICK new : new = EnqueueEnvelope(box, next, m)
      OBVIOUS
    <3>4. ReadAt(b, e, old, new, next + 1)
      BY <3>2, <3>3, ReadMail
    <3>5. inbox'[p] = new /\ nextId'[p] = next + 1
      BY <2>1, <2>2, <3>1, <3>3 DEF TypeInv, StoreTypes
    <3> QED
      BY <2>2, <2>4, <3>1, <3>4, <3>5
  <2> QED
    BY <2>3, <2>4
<1> QED
  BY <1>1, <1>2, <1>3, <1>4, <1>5, <1>6, <1>7, <1>8, <1>9, <1>10, <1>11 DEF Next, CallStep

\* Nothing that a pending acknowledgement covers, of a client or of its state
\* file, is unread: DrainInbox deletes only initial messages that
\* HandleInitialMessage has accepted, whatever fails, crashes or comes twice, and
\* a client that starts from its state file deletes nothing that file has not.
THEOREM DeletesOnlyAccepted == Spec => []ReadInv
<1>1. TypeInv /\ PairInv /\ ReadInv /\ [Next]_vars => ReadInv'
  BY ReadStep
<1> QED
  BY <1>1, InitialRead, PairsHold, PTL DEF Spec

----------------------------------------------------------------------------
\* What a crash takes away.

\* The handshakes that p is done with: all it began but the one in progress.
Ended(p) == IF task[p].op = "acquired" THEN inits[p] - 1 ELSE inits[p]

\* A session of client c of p is of one of the first n handshakes p began, or of
\* an initial message c accepted.
SessionsOk(p, c, n) ==
    \A q \in Party : c.sessions[q] # None =>
        \/ c.sessions[q].id[1] = p /\ c.sessions[q].id[2] <= n
        \/ \E i \in DOMAIN c.accepted : c.accepted[i].id = c.sessions[q].id

\* The state file d of client c has accepted nothing that c has not, and has
\* accepted all of it if it has the same sessions.
FileAt(p, c, d, n) ==
    /\ Elements(d.accepted) \subseteq Elements(c.accepted)
    /\ SessionsOk(p, c, n) /\ SessionsOk(p, d, n)
    /\ c.sessions = d.sessions => c.accepted = d.accepted

FileInv == \A p \in Party : FileAt(p, mem[p], disk[p], Ended(p))

\* A client with the sessions and the accepted messages of another.
LEMMA SessionsSame ==
    ASSUME NEW p, NEW b, NEW c, c.sessions = b.sessions, c.accepted = b.accepted,
           NEW n \in Int, NEW k \in Int, n <= k, SessionsOk(p, b, n),
           \A q \in Party : b.sessions[q] # None => b.sessions[q].id[2] \in Int
    PROVE  SessionsOk(p, c, k)
BY DEF SessionsOk

\* The number of a session is one.
LEMMA SessionNumbers ==
    ASSUME NEW c \in ClientState, NEW q \in Party, c.sessions[q] # None
    PROVE  c.sessions[q].id \in HandshakeId /\ c.sessions[q].id[2] \in Int
<1>1. c.sessions[q] \in SessionState
  BY Fields
<1>2. c.sessions[q].id \in HandshakeId
  BY <1>1 DEF SessionState
<1> QED
  BY <1>2 DEF HandshakeId

\* A client is done with ever more handshakes.
LEMMA EndedGrows ==
    ASSUME TypeInv, [Next]_vars, NEW p \in Party
    PROVE  Ended(p) \in Int /\ Ended(p)' \in Int /\ Ended(p) <= Ended(p)'
<1>1. inits[p] \in Nat
  BY UserTypes
<1>2. CASE NoMail
  BY <1>1, <1>2 DEF NoMail, Ended
<1>3. ASSUME NEW r \in Party, Posts(r) PROVE Ended(p) \in Int /\ Ended(p)' \in Int /\ Ended(p) <= Ended(p)'
  <2>1. /\ task'[r].op # "acquired" /\ \A o \in Party : o # r => task'[o] = task[o]
        /\ inits' = inits
    BY <1>3, Posted
  <2> QED
    BY <1>1, <2>1 DEF Ended
<1>4. ASSUME NEW r \in Party, NEW q \in Party, AcquireBundle(r, q)
      PROVE  Ended(p) \in Int /\ Ended(p)' \in Int /\ Ended(p) <= Ended(p)'
  <2>1. /\ task[r].op # "acquired" /\ inits'[r] = inits[r] + 1
        /\ \A o \in Party : o # r => inits'[o] = inits[o] /\ task'[o] = task[o]
    BY <1>4, Begins
  <2> QED
    BY <1>1, <2>1 DEF Ended
<1> QED
  BY <1>2, <1>3, <1>4, Mailing

\* What a step of one client owes to the state files of all.
LEMMA FileStepOf ==
    ASSUME TypeInv, FileInv, [Next]_vars, NEW p \in Party, NEW c, NEW d, Leaves(p, c, d),
           FileAt(p, c, d, Ended(p)')
    PROVE  FileInv'
<1> SUFFICES ASSUME NEW q \in Party PROVE FileAt(q, mem'[q], disk'[q], Ended(q)')
  BY DEF FileInv
<1>1. CASE q = p
  BY <1>1, Left DEF TypeInv
<1>2. CASE q # p
  <2>1. mem'[q] = mem[q] /\ disk'[q] = disk[q]
    BY <1>2, Left DEF TypeInv
  <2>2. PICK c1 \in ClientState, d1 \in ClientState : c1 = mem[q] /\ d1 = disk[q]
    BY UserTypes
  <2>3. PICK n \in Int, k \in Int : n = Ended(q) /\ k = Ended(q)' /\ n <= k
    BY EndedGrows
  <2>4. FileAt(q, c1, d1, n)
    BY <2>2, <2>3 DEF FileInv
  <2>5. SessionsOk(q, c1, k) /\ SessionsOk(q, d1, k)
    BY <2>3, <2>4, SessionsSame, SessionNumbers DEF FileAt
  <2>6. FileAt(q, c1, d1, k)
    BY <2>4, <2>5 DEF FileAt
  <2> QED
    BY <2>1, <2>2, <2>3, <2>6
<1> QED
  BY <1>1, <1>2

\* A step that keeps the sessions and the accepted messages of its client, or
\* goes back to those of its state file.
LEMMA FileKept ==
    ASSUME TypeInv, FileInv, [Next]_vars, NEW p \in Party, NEW c, NEW d, Leaves(p, c, d),
           \/ c.sessions = mem[p].sessions /\ c.accepted = mem[p].accepted /\ d = disk[p]
           \/ c.sessions = mem[p].sessions /\ c.accepted = mem[p].accepted
                /\ d.sessions = c.sessions /\ d.accepted = c.accepted
           \/ c.sessions = disk[p].sessions /\ c.accepted = disk[p].accepted /\ d = c
    PROVE  FileInv'
<1>1. PICK b \in ClientState, e \in ClientState : b = mem[p] /\ e = disk[p]
  BY UserTypes
<1>2. PICK n \in Int, k \in Int : n = Ended(p) /\ k = Ended(p)' /\ n <= k
  BY EndedGrows
<1>3. FileAt(p, b, e, n)
  BY <1>1, <1>2 DEF FileInv
<1>4. /\ Elements(e.accepted) \subseteq Elements(b.accepted) /\ (b.sessions = e.sessions => b.accepted = e.accepted)
      /\ SessionsOk(p, b, n) /\ SessionsOk(p, e, n)
  BY <1>3 DEF FileAt
<1>5. /\ \A x : x.sessions = b.sessions /\ x.accepted = b.accepted => SessionsOk(p, x, k)
      /\ \A x : x.sessions = e.sessions /\ x.accepted = e.accepted => SessionsOk(p, x, k)
  BY <1>2, <1>4, SessionsSame, SessionNumbers
<1>6. SessionsOk(p, c, k) /\ SessionsOk(p, d, k)
  BY <1>1, <1>5
<1>7. Elements(d.accepted) \subseteq Elements(c.accepted) /\ (c.sessions = d.sessions => c.accepted = d.accepted)
  BY <1>1, <1>4
<1>8. FileAt(p, c, d, k)
  BY <1>6, <1>7 DEF FileAt
<1> QED
  BY <1>2, <1>8, FileStepOf

\* A session is not the absence of one.
LEMMA SessionsAreSome == \A s \in [id : HandshakeId, with : Nat] : s # None
<1>1. None \notin [id : Party \X Nat, with : Nat]
  BY HandshakeAssumption
<1>2. HandshakeId \subseteq Party \X Nat
  BY DEF HandshakeId
<1> QED
  BY <1>1, <1>2

\* Neither a client nor its state file has a session of a handshake that p is
\* about to post.
LEMMA BegunIsNew ==
    ASSUME TypeInv, PostInv, GuardInv, FileInv, NEW p \in Party, Acquired(p), NEW q \in Party,
           disk[p].sessions[q] # None
    PROVE  disk[p].sessions[q].id # <<p, inits[p]>>
<1> SUFFICES ASSUME disk[p].sessions[q].id = <<p, inits[p]>> PROVE FALSE
  OBVIOUS
<1>1. PICK e, id : e \in ClientState /\ e = disk[p] /\ id = e.sessions[q].id /\ id = <<p, inits[p]>>
  BY UserTypes
<1>2. inits[p] \in Nat /\ Ended(p) = inits[p] - 1
  BY UserTypes DEF Acquired, Ended
<1>3. id[1] = p /\ id[2] = inits[p]
  BY <1>1
<1>4. SessionsOk(p, e, Ended(p))
  BY <1>1 DEF FileInv, FileAt
<1>5. PICK i \in DOMAIN e.accepted : e.accepted[i].id = id
  BY <1>1, <1>2, <1>3, <1>4 DEF SessionsOk
<1>6. e.accepted[i] \in posted[p]
  BY <1>1, <1>5 DEF GuardInv, GuardsOk
<1>7. e.accepted[i].id[1] # p
  BY <1>6 DEF PostInv, PostOk
<1> QED
  BY <1>3, <1>5, <1>7

\* A message that a client accepts is new to it: its pair was in the pool.
LEMMA AcceptsNew ==
    ASSUME TypeInv, PairInv, NEW p \in Party, NEW m \in Initial, Accepts(mem[p], m)
    PROVE  ~HasAccepted(mem[p], m)
<1>1. PICK c : c = mem[p] /\ PairsOk(p, c, made[p]) /\ HasPair(c, m.pair)
  BY DEF PairInv, Accepts
<1>2. ASSUME HasAccepted(c, m) PROVE FALSE
  <2>1. PICK i \in DOMAIN c.pool : c.pool[i] = m.pair
    BY <1>1 DEF HasPair
  <2>2. PICK j \in DOMAIN c.accepted : c.accepted[j] = m
    BY <1>2 DEF HasAccepted
  <2> QED
    BY <1>1, <2>1, <2>2 DEF PairsOk
<1> QED
  BY <1>1, <1>2

\* What a client has accepted, in terms of the elements of the sequence.
LEMMA AcceptedElements ==
    ASSUME NEW c, NEW m
    PROVE  HasAccepted(c, m) <=> m \in Elements(c.accepted)
BY DEF HasAccepted, Elements

\* Nor has the state file a session of it.
LEMMA AcceptedIsNew ==
    ASSUME TypeInv, PairInv, PostInv, GuardInv, FileInv, NEW p \in Party, NEW m \in posted[p], m \in Initial,
           Accepts(mem[p], m), NEW q \in Party, disk[p].sessions[q] # None
    PROVE  disk[p].sessions[q].id # m.id
<1> SUFFICES ASSUME disk[p].sessions[q].id = m.id PROVE FALSE
  OBVIOUS
<1>1. PICK b, e : b = mem[p] /\ e = disk[p]
  OBVIOUS
<1>2. m.id[1] # p
  BY DEF PostInv, PostOk
<1>3. SessionsOk(p, e, Ended(p)) /\ Elements(e.accepted) \subseteq Elements(b.accepted)
  BY <1>1 DEF FileInv, FileAt
<1>4. PICK i \in DOMAIN e.accepted : e.accepted[i].id = m.id
  BY <1>1, <1>2, <1>3 DEF SessionsOk
<1>5. e.accepted[i] \in posted[p]
  BY <1>1, <1>4 DEF GuardInv, GuardsOk
<1>6. e.accepted[i] = m
  BY <1>4, <1>5 DEF PostInv, PostOk
<1>7. m \in Elements(b.accepted)
  BY <1>3, <1>6 DEF Elements
<1> QED
  BY <1>1, <1>7, AcceptsNew, AcceptedElements

\* No client or state file has a session yet.
LEMMA InitialFile == Init => FileInv
<1> SUFFICES ASSUME Init, NEW p \in Party PROVE FileAt(p, mem[p], disk[p], Ended(p))
  BY DEF FileInv
<1>1. mem[p] = Created(p) /\ disk[p] = Created(p)
  BY DEF Init
<1>2. \A q \in Party : Created(p).sessions[q] = None
  BY CreatedTypes
<1>3. SessionsOk(p, Created(p), Ended(p))
  BY <1>2 DEF SessionsOk
<1> QED
  BY <1>1, <1>3 DEF FileAt

\* Every step keeps the state file behind its client.
LEMMA FileStep == TypeInv /\ PairInv /\ PostInv /\ GuardInv /\ FileInv /\ [Next]_vars => FileInv'
<1> SUFFICES ASSUME TypeInv, PairInv, PostInv, GuardInv, FileInv, [Next]_vars PROVE FileInv'
  OBVIOUS
<1>1. CASE UNCHANGED vars
  <2>1. mem' = mem /\ disk' = disk /\ task' = task /\ inits' = inits
    BY <1>1 DEF vars
  <2> QED
    BY <2>1 DEF FileInv, Ended
<1>2. ASSUME NEW p \in Party, Quiet(p) PROVE FileInv'
  <2>1. PICK c \in ClientState, d \in ClientState :
          Leaves(p, c, d) /\ SameCore(c, mem[p]) /\ (d = disk[p] \/ SameCore(d, c))
    BY <1>2, QuietKept
  <2> QED
    BY <2>1, FileKept DEF SameCore
<1>3. ASSUME NEW p \in Party, NEW q \in Party, VerifyPeerSafetyNumber(p, q) PROVE FileInv'
  <2>1. PICK c \in ClientState, d \in ClientState :
          /\ Leaves(p, c, d) /\ (d = disk[p] \/ d = c) /\ c.sessions = mem[p].sessions
          /\ c.accepted = mem[p].accepted
    BY <1>3, VerifyEffect, ZenonT(30)
  <2> QED
    BY <2>1, FileKept
<1>4. ASSUME NEW p \in Party, HandleRefused(p) PROVE FileInv'
  <2>1. PICK c \in ClientState, d \in ClientState :
          /\ Leaves(p, c, d) /\ c.accepted = mem[p].accepted /\ c.sessions = mem[p].sessions
          /\ d = disk[p] \/ (d.accepted = mem[p].accepted /\ d.sessions = mem[p].sessions)
    BY <1>4, RefusesHead
  <2> QED
    BY <2>1, FileKept
<1>5. ASSUME NEW p \in Party, InitiateRefused(p) PROVE FileInv'
  <2>1. PICK c \in ClientState, d \in ClientState :
          /\ Leaves(p, c, d) /\ (d = disk[p] \/ d = c) /\ task[p].peer \in Party /\ task[p].identity \in Nat
          /\ c = Meet(mem[p], task[p].peer, task[p].identity)
    BY <1>5, RefusalEffect
  <2>2. PICK b \in ClientState, q \in Party, n \in Nat : b = mem[p] /\ q = task[p].peer /\ n = task[p].identity
    BY <2>1, UserTypes
  <2>3. c = Meet(b, q, n)
    BY <2>1, <2>2
  <2>4. c.sessions = b.sessions /\ c.accepted = b.accepted
    BY <2>3, MetSame
  <2> QED
    BY <2>1, <2>2, <2>4, FileKept
<1>6. ASSUME NEW p \in Party, Republish(p) PROVE FileInv'
  <2>1. PICK b \in ClientState : b = mem[p] /\ Limits(b)
    BY UserTypes
  <2>2. PICK r, clean : r \in ClientState /\ r = Refill(p, b) /\ clean = [r EXCEPT !.dirty = FALSE]
    BY <2>1, RefilledLimits
  <2>3. r.accepted = b.accepted /\ r.sessions = b.sessions
    BY <2>2 DEF Refill, ClientState
  <2>4. clean.accepted = r.accepted /\ clean.sessions = r.sessions
    BY <2>2 DEF ClientState
  <2>5. PICK c : mem' = [mem EXCEPT ![p] = c] /\ (c = r \/ c = clean)
    BY <1>6, <2>1, <2>2 DEF Republish, Publish, PublishFails
  <2>6. Leaves(p, c, disk[p])
    BY <1>6, <2>5 DEF Republish, Leaves, TypeInv, ClientTypes
  <2> QED
    BY <2>1, <2>3, <2>4, <2>5, <2>6, FileKept
<1>7. ASSUME NEW p \in Party, Restart(p) \/ InitiateCrash(p) PROVE FileInv'
  <2>1. PICK e \in ClientState : e = disk[p]
    BY UserTypes
  <2>2. Recreate(p)
    BY <1>7 DEF Restart, InitiateCrash
  <2>3. PICK c : c = Refill(p, e)
    OBVIOUS
  <2>4. Leaves(p, c, c)
    BY <2>1, <2>2, <2>3, RecreateEffect
  <2>5. c.sessions = e.sessions /\ c.accepted = e.accepted
    BY <2>3 DEF Refill, ClientState
  <2> QED
    BY <2>1, <2>4, <2>5, FileKept
<1>8. ASSUME NEW p \in Party, LoseStateFile(p) PROVE FileInv'
  <2>1. PICK c \in ClientState :
          Leaves(p, c, c) /\ c = NewClient(mem[p].self + 1, FreshPool(p, made[p]))
    BY <1>8, LossEffect
  <2>2. \A q \in Party : c.sessions[q] = None
    BY <2>1 DEF NewClient
  <2>3. FileAt(p, c, c, Ended(p)')
    BY <2>2 DEF FileAt, SessionsOk
  <2> QED
    BY <2>1, <2>3, FileStepOf
<1>9. ASSUME NEW p \in Party, InitiateSession(p) \/ InitiateNotPosted(p) PROVE FileInv'
  <2>1. PICK c \in ClientState, d \in ClientState :
          /\ Leaves(p, c, d) /\ (d = disk[p] \/ d = c) /\ Acquired(p) /\ task[p].pair # None
          /\ c = WithSession(mem[p], task[p].peer, task[p].identity, Begun(p))
    BY <1>9, BeginEffect
  <2>2. PICK q \in Party, k \in Nat, m \in Initial, b \in ClientState, e \in ClientState :
          /\ q = task[p].peer /\ k = task[p].identity /\ m = Begun(p) /\ b = mem[p] /\ Limits(b)
          /\ m.id = <<p, inits[p]>> /\ e = disk[p]
    BY <2>1, BegunTypes, UserTypes
  <2>3. c = WithSession(b, q, k, m)
    BY <2>1, <2>2
  <2>4. c.accepted = b.accepted
    BY <2>2, <2>3, EstablishedSame
  <2>5. c.sessions[q] = [id |-> m.id, with |-> k] /\ \A o \in Party : o # q => c.sessions[o] = b.sessions[o]
    BY <2>2, <2>3, Established
  <2>6. PICK n \in Int : n = Ended(p)' /\ n = inits[p] /\ inits[p] \in Nat /\ Ended(p) = inits[p] - 1
    <3>1. inits' = inits /\ task'[p] = NoTask /\ inits[p] \in Nat
      BY <1>9, UserTypes DEF InitiateSession, InitiateNotPosted, StartInitial, TypeInv, TaskTypes
    <3> QED
      BY <2>1, <3>1, TaskKinds DEF Ended, Acquired
  <2>7. FileAt(p, b, e, inits[p] - 1)
    BY <2>2, <2>6 DEF FileInv
  <2>8. SessionsOk(p, b, n) /\ SessionsOk(p, e, n)
    <3>1. inits[p] - 1 \in Int /\ inits[p] - 1 <= n
      BY <2>6
    <3>2. SessionsOk(p, b, inits[p] - 1) /\ SessionsOk(p, e, inits[p] - 1)
      BY <2>7 DEF FileAt
    <3> QED
      BY <3>1, <3>2, SessionsSame, SessionNumbers
  <2>9. SessionsOk(p, c, n)
    <3> SUFFICES ASSUME NEW o \in Party, c.sessions[o] # None
                 PROVE  \/ c.sessions[o].id[1] = p /\ c.sessions[o].id[2] <= n
                        \/ \E i \in DOMAIN c.accepted : c.accepted[i].id = c.sessions[o].id
      BY DEF SessionsOk
    <3>1. CASE o = q
      BY <2>2, <2>5, <2>6, <3>1
    <3>2. CASE o # q
      BY <2>4, <2>5, <2>8, <3>2 DEF SessionsOk
    <3> QED
      BY <3>1, <3>2
  <2>10. c.sessions # e.sessions
    <3>1. c.sessions[q] # None /\ c.sessions[q].id = <<p, inits[p]>>
      <4>1. c.sessions[q].id = <<p, inits[p]>>
        BY <2>2, <2>5
      <4>2. m.id \in HandshakeId
        BY DEF Initial
      <4>3. [id |-> m.id, with |-> k] \in [id : HandshakeId, with : Nat]
        BY <4>2
      <4> QED
        BY <2>5, <4>1, <4>3, SessionsAreSome
    <3> QED
      BY <2>1, <2>2, <3>1, BegunIsNew
  <2>11. Elements(e.accepted) \subseteq Elements(c.accepted)
    BY <2>4, <2>7 DEF FileAt
  <2>12. FileAt(p, c, d, n)
    BY <2>1, <2>2, <2>8, <2>9, <2>10, <2>11 DEF FileAt
  <2> QED
    BY <2>1, <2>6, <2>12, FileStepOf
<1>10. ASSUME NEW p \in Party, HandleAccepted(p) PROVE FileInv'
  <2>1. PICK c \in ClientState, m \in posted[p] :
          /\ Leaves(p, c, disk[p]) /\ m \in Initial /\ Accepts(mem[p], m)
          /\ c.accepted = Append(mem[p].accepted, m) /\ c.sessions = Accept(mem[p], m).sessions
    BY <1>10, AcceptsHead
  <2>2. PICK b \in ClientState, e \in ClientState : b = mem[p] /\ e = disk[p]
    BY UserTypes
  <2>3. /\ c.sessions[m.from] = [id |-> m.id, with |-> m.identity]
        /\ \A o \in Party : o # m.from => c.sessions[o] = b.sessions[o]
    <3>1. PICK r : r = Accept(b, m)
      OBVIOUS
    <3>2. c.sessions = r.sessions /\ m \in Initial
      BY <2>1, <2>2, <3>1
    <3> QED
      BY <3>1, <3>2, AcceptedSessions
  <2>4. PICK n \in Int, k \in Int : n = Ended(p) /\ k = Ended(p)' /\ n <= k
    BY EndedGrows
  <2>5. FileAt(p, b, e, n)
    BY <2>2, <2>4 DEF FileInv
  <2>6. SessionsOk(p, b, k) /\ SessionsOk(p, e, k)
    BY <2>4, <2>5, SessionsSame, SessionNumbers DEF FileAt
  <2>7. \A x : x \in Elements(c.accepted) <=> x \in Elements(b.accepted) \/ x = m
    <3>1. c.accepted = Append(b.accepted, m) /\ m \in Initial
      BY <2>1, <2>2
    <3>2. \A x : HasAccepted(c, x) <=> HasAccepted(b, x) \/ x = m
      BY <3>1, AcceptedMore
    <3> QED
      BY <3>2, AcceptedElements
  <2>8. SessionsOk(p, c, k)
    <3> SUFFICES ASSUME NEW o \in Party, c.sessions[o] # None
                 PROVE  \/ c.sessions[o].id[1] = p /\ c.sessions[o].id[2] <= k
                        \/ \E i \in DOMAIN c.accepted : c.accepted[i].id = c.sessions[o].id
      BY DEF SessionsOk
    <3>1. CASE o = m.from
      BY <2>3, <2>7, <3>1 DEF Elements
    <3>2. CASE o # m.from
      <4>1. c.sessions[o] = b.sessions[o]
        BY <2>3, <3>2
      <4>2. \A i \in DOMAIN b.accepted : \E j \in DOMAIN c.accepted : c.accepted[j] = b.accepted[i]
        BY <2>7 DEF Elements
      <4> QED
        BY <2>6, <4>1, <4>2 DEF SessionsOk
    <3> QED
      BY <3>1, <3>2
  <2>9. c.sessions # e.sessions
    <3>1. m.from \in Party /\ m.id \in HandshakeId /\ m.identity \in Nat
      BY <2>1 DEF Initial
    <3>2. [id |-> m.id, with |-> m.identity] \in [id : HandshakeId, with : Nat]
      BY <3>1
    <3>3. c.sessions[m.from] # None /\ c.sessions[m.from].id = m.id
      BY <2>3, <3>2, SessionsAreSome
    <3> QED
      BY <2>1, <2>2, <3>1, <3>3, AcceptedIsNew
  <2>10. Elements(e.accepted) \subseteq Elements(c.accepted)
    BY <2>5, <2>7 DEF FileAt
  <2>11. FileAt(p, c, e, k)
    BY <2>6, <2>8, <2>9, <2>10 DEF FileAt
  <2> QED
    BY <2>1, <2>2, <2>4, <2>11, FileStepOf
<1> QED
  BY <1>1, <1>2, <1>3, <1>4, <1>5, <1>6, <1>7, <1>8, <1>9, <1>10 DEF Next, CallStep, Quiet

----------------------------------------------------------------------------
\* The two ends of a session.

\* An initial message that q sent and p has not accepted is in p's mailbox, in
\* front of every newer one of q.
Queued(p, q) ==
    \A m \in posted[p] : m.from = q /\ ~HasAccepted(mem[p], m) =>
        \E e \in Entries(inbox[p]) :
            /\ e.env = m
            /\ \A f \in Entries(inbox[p]) : f.env.from = q /\ f.env.id[2] > m.id[2] => e.id < f.id

\* p accepts the initial messages of q in the order in which q sent them.
InOrder(p, q) ==
    \A m, n \in posted[p] :
        m.from = q /\ n.from = q /\ m.id[2] < n.id[2] /\ HasAccepted(mem[p], n) => HasAccepted(mem[p], m)

\* Initial messages are on their way in one direction only.
OneWay(p, q) == Settled(p, q) \/ Settled(q, p)

\* While some are on their way to p, the session of q is the one of the last.
Newest(p, q) ==
    ~Settled(p, q) =>
        \E n \in posted[p] : /\ n.from = q /\ SessionId(q, p) = n.id
                             /\ \A k \in posted[p] : k.from = q => k.id[2] <= n.id[2]

TalkOk(p, q) == Queued(p, q) /\ InOrder(p, q) /\ OneWay(p, q) /\ Newest(p, q) /\ Agree(p, q)

TalkInv == cause \cap Partings = {} => \A p, q \in Party : p # q => TalkOk(p, q)

\* A step deletes only mail that was accepted, and puts new mail behind the rest.
KeepsMail ==
    \A p \in Party :
        /\ \A e \in Entries(inbox[p]) : HasAccepted(mem[p], e.env) \/ e \in Entries(inbox'[p])
        /\ \A e \in Entries(inbox'[p]) : e \in Entries(inbox[p]) \/ e.id = nextId[p]

\* What DrainInbox deletes was acknowledged.
LEMMA DropsAcked ==
    ASSUME NEW box \in Seq(Entry), Ordered(box), NEW ack \in Nat, NEW left, left = DropAcked(box, ack),
           NEW e \in Entries(box)
    PROVE  e.id <= ack \/ e \in Entries(left)
<1>1. /\ DropAcked(box, ack) \in Seq(Entry) /\ Ordered(DropAcked(box, ack))
      /\ InboxIds(DropAcked(box, ack)) = {x \in InboxIds(box) : x > ack}
      /\ Entries(DropAcked(box, ack)) \subseteq Entries(box)
  BY EntryIds, Dropped
<1>2. e.id \in Nat /\ e.id \in InboxIds(box)
  BY EntryIds, BoxTypes, IdsOfEntries DEF HasIds
<1>3. ASSUME e.id > ack PROVE e \in Entries(left)
  <2>1. e.id \in InboxIds(left)
    BY <1>1, <1>2, <1>3
  <2>2. PICK f \in Entries(left) : f.id = e.id
    BY <2>1, IdsOfEntries
  <2>3. f = e
    BY <1>1, <2>2, OneEntry
  <2> QED
    BY <2>2, <2>3
<1> QED
  BY <1>2, <1>3

\* Every step keeps the mail that was not accepted.
LEMMA MailKept ==
    ASSUME TypeInv, ReadInv, [Next]_vars
    PROVE  KeepsMail
<1>1. ASSUME inbox' = inbox PROVE KeepsMail
  BY <1>1 DEF KeepsMail
<1>2. ASSUME NEW p \in Party, DrainInbox(p) \/ DrainInboxFails(p) PROVE KeepsMail
  <2>1. PICK b \in ClientState, box \in Seq(Entry), ack \in Nat :
          b = mem[p] /\ box = inbox[p] /\ ack = poll[p].ack
    BY UserTypes DEF PollState
  <2>2. /\ poll[p].pc = "drain"
        /\ inbox' = inbox \/ inbox' = [inbox EXCEPT ![p] = DropAcked(box, ack)]
    BY <1>2, <2>1 DEF DrainInbox, DrainInboxFails
  <2>3. Ordered(box) /\ Covers(b, box, ack) /\ ack \in Nat
    BY <2>1, <2>2, UserTypes DEF ReadInv, ReadAt, PollState
  <2>4. CASE inbox' = [inbox EXCEPT ![p] = DropAcked(box, ack)]
    <3>1. PICK left : left = DropAcked(box, ack)
      OBVIOUS
    <3>2. inbox'[p] = left /\ \A q \in Party : q # p => inbox'[q] = inbox[q]
      BY <2>4, <3>1 DEF TypeInv, StoreTypes
    <3>3. \A e \in Entries(box) : HasAccepted(b, e.env) \/ e \in Entries(left)
      BY <2>3, <3>1, DropsAcked DEF Covers
    <3>4. Entries(left) \subseteq Entries(box)
      BY <3>1, PartOfBox
    <3> QED
      BY <2>1, <3>2, <3>3, <3>4 DEF KeepsMail
  <2> QED
    BY <1>1, <2>2, <2>4
<1>3. ASSUME NEW p \in Party, NEW m \in Initial,
             inbox' = [inbox EXCEPT ![p] = EnqueueEnvelope(inbox[p], nextId[p], m)]
      PROVE  KeepsMail
  <2>1. PICK box \in Seq(Entry), id \in Nat \ {0} : box = inbox[p] /\ id = nextId[p]
    BY UserTypes
  <2>2. PICK new : new = EnqueueEnvelope(box, id, m)
    OBVIOUS
  <2>3. [id |-> id, env |-> m] \in Entry
    BY DEF Entry
  <2>4. Entries(new) = Entries(box) \cup {[id |-> id, env |-> m]}
    BY <2>2, <2>3, OneMore
  <2>5. inbox'[p] = new /\ \A q \in Party : q # p => inbox'[q] = inbox[q]
    BY <1>3, <2>1, <2>2 DEF TypeInv, StoreTypes
  <2>6. /\ \A e \in Entries(box) : e \in Entries(new)
        /\ \A e \in Entries(new) : e \in Entries(box) \/ e.id = id
    BY <2>4
  <2> QED
    BY <2>1, <2>5, <2>6 DEF KeepsMail
<1>4. ASSUME NEW p \in Party, InitiateSession(p) \/ InitiateCrash(p) PROVE KeepsMail
  <2>1. Acquired(p) /\ task[p].pair # None /\ PostInitial(p)
    BY <1>4 DEF InitiateSession, StartInitial, InitiateCrash
  <2>2. PICK q \in Party, m \in Initial : q = task[p].peer /\ m = Begun(p)
    BY <2>1, BegunTypes
  <2>3. inbox' = [inbox EXCEPT ![q] = EnqueueEnvelope(inbox[q], nextId[q], m)]
    BY <2>1, <2>2 DEF PostInitial
  <2> QED
    BY <1>3, <2>3
<1>5. ASSUME NEW p \in Party, Replay(p) PROVE KeepsMail
  <2>1. PICK m \in posted[p] : inbox' = [inbox EXCEPT ![p] = EnqueueEnvelope(inbox[p], nextId[p], m)]
    BY <1>5 DEF Replay
  <2>2. m \in Initial
    BY UserTypes
  <2> QED
    BY <1>3, <2>1, <2>2
<1>6. CASE UNCHANGED vars
  BY <1>1, <1>6 DEF vars, store
<1>7. ASSUME NEW p \in Party,
             \/ PublishPrekeys(p) \/ SavePrekeys(p) \/ (\E q \in Party : AcquireBundle(p, q))
             \/ (\E q \in Party : VerifyPeerSafetyNumber(p, q)) \/ InitiateRefused(p)
             \/ InitiateNotPosted(p) \/ GiveUp(p) \/ SaveLocalState(p) \/ Republish(p)
             \/ ProcessInbox(p) \/ HandleAccepted(p) \/ HandleRefused(p) \/ Restart(p) \/ LoseStateFile(p)
      PROVE  KeepsMail
  <2>1. inbox' = inbox
    BY <1>7 DEF PublishPrekeys, SavePrekeys, AcquireBundle, VerifyPeerSafetyNumber, InitiateRefused,
                InitiateNotPosted, GiveUp, SaveLocalState, Republish, ProcessInbox, HandleAccepted,
                HandleRefused, Restart, LoseStateFile, store
  <2> QED
    BY <1>1, <2>1
<1> QED
  BY <1>2, <1>4, <1>5, <1>6, <1>7 DEF Next, CallStep

\* No end of a session changes.
Silent ==
    /\ posted' = posted
    /\ \A p \in Party : mem'[p].accepted = mem[p].accepted /\ mem'[p].sessions = mem[p].sessions

\* A step of one client that keeps its sessions and what it accepted is silent.
LEMMA SilentStep ==
    ASSUME TypeInv, NEW p \in Party, NEW c, NEW d, Leaves(p, c, d), posted' = posted,
           c.accepted = mem[p].accepted, c.sessions = mem[p].sessions
    PROVE  Silent
BY Left DEF TypeInv, Silent

\* Without a cause for disagreement the ends change only by InitiateSession and
\* HandleInitialMessage: a restart that loses no session loses no accepted message.
LEMMA Talking ==
    ASSUME TypeInv, PairInv, FileInv, [Next]_vars, cause' \cap Partings = {}
    PROVE  Silent \/ (\E p \in Party : InitiateSession(p)) \/ (\E p \in Party : HandleAccepted(p))
<1>1. CASE UNCHANGED vars
  BY <1>1 DEF vars, history, Silent
<1>2. ASSUME NEW p \in Party, Quiet(p) PROVE Silent
  <2>1. PICK c \in ClientState, d \in ClientState : Leaves(p, c, d) /\ SameCore(c, mem[p])
    BY <1>2, QuietKept
  <2>2. posted' = posted
    BY <1>2 DEF Quiet, PublishPrekeys, SavePrekeys, AcquireBundle, ProcessInbox, DrainInbox, DrainInboxFails,
                GiveUp, SaveLocalState, Replay, history
  <2> QED
    BY <2>1, <2>2, SilentStep DEF SameCore
<1>3. ASSUME NEW p \in Party, NEW q \in Party, VerifyPeerSafetyNumber(p, q) PROVE Silent
  <2>1. PICK c \in ClientState, d \in ClientState :
          Leaves(p, c, d) /\ c.sessions = mem[p].sessions /\ c.accepted = mem[p].accepted
    BY <1>3, VerifyEffect, ZenonT(30)
  <2>2. posted' = posted
    BY <1>3 DEF VerifyPeerSafetyNumber
  <2> QED
    BY <2>1, <2>2, SilentStep
<1>4. ASSUME NEW p \in Party, HandleRefused(p) PROVE Silent
  <2>1. PICK c \in ClientState, d \in ClientState :
          Leaves(p, c, d) /\ c.accepted = mem[p].accepted /\ c.sessions = mem[p].sessions
    BY <1>4, RefusesHead
  <2>2. posted' = posted
    BY <1>4 DEF HandleRefused
  <2> QED
    BY <2>1, <2>2, SilentStep
<1>5. ASSUME NEW p \in Party, InitiateRefused(p) PROVE Silent
  <2>1. PICK c \in ClientState, d \in ClientState :
          /\ Leaves(p, c, d) /\ task[p].peer \in Party /\ task[p].identity \in Nat
          /\ c = Meet(mem[p], task[p].peer, task[p].identity)
    BY <1>5, RefusalEffect
  <2>2. PICK b \in ClientState, q \in Party, n \in Nat : b = mem[p] /\ q = task[p].peer /\ n = task[p].identity
    BY <2>1, UserTypes
  <2>3. c = Meet(b, q, n)
    BY <2>1, <2>2
  <2>4. c.sessions = b.sessions /\ c.accepted = b.accepted
    BY <2>3, MetSame
  <2>5. posted' = posted
    BY <1>5 DEF InitiateRefused, history
  <2> QED
    BY <2>1, <2>2, <2>4, <2>5, SilentStep
<1>6. ASSUME NEW p \in Party, Republish(p) PROVE Silent
  <2>1. PICK b \in ClientState : b = mem[p] /\ Limits(b)
    BY UserTypes
  <2>2. PICK r, clean : r \in ClientState /\ r = Refill(p, b) /\ clean = [r EXCEPT !.dirty = FALSE]
    BY <2>1, RefilledLimits
  <2>3. r.accepted = b.accepted /\ r.sessions = b.sessions
    BY <2>2 DEF Refill, ClientState
  <2>4. clean.accepted = r.accepted /\ clean.sessions = r.sessions
    BY <2>2 DEF ClientState
  <2>5. PICK c : mem' = [mem EXCEPT ![p] = c] /\ (c = r \/ c = clean)
    BY <1>6, <2>1, <2>2 DEF Republish, Publish, PublishFails
  <2>6. Leaves(p, c, disk[p]) /\ posted' = posted
    BY <1>6, <2>5 DEF Republish, Leaves, TypeInv, ClientTypes, history
  <2> QED
    BY <2>1, <2>3, <2>4, <2>5, <2>6, SilentStep
<1>7. ASSUME NEW p \in Party, Restart(p) PROVE Silent
  <2>1. PICK b, e, c :
          b \in ClientState /\ e \in ClientState /\ b = mem[p] /\ e = disk[p] /\ c = Refill(p, e)
    BY UserTypes
  <2>2. Recreate(p) /\ Lost(p) \subseteq cause' /\ posted' = posted
    BY <1>7 DEF Restart
  <2>3. Leaves(p, c, c)
    BY <2>1, <2>2, RecreateEffect
  <2>4. c.sessions = e.sessions /\ c.accepted = e.accepted
    BY <2>1 DEF Refill, ClientState
  <2>5. b.sessions = e.sessions
    BY <2>1, <2>2 DEF Lost, Partings
  <2>6. b.accepted = e.accepted
    BY <2>1, <2>5 DEF FileInv, FileAt
  <2> QED
    BY <2>1, <2>2, <2>3, <2>4, <2>5, <2>6, SilentStep
<1>8. ASSUME NEW p \in Party, InitiateNotPosted(p) \/ InitiateCrash(p) \/ LoseStateFile(p) PROVE FALSE
  <2>1. "gap" \in cause' \/ "session" \in cause' \/ "identity" \in cause'
    BY <1>8 DEF InitiateNotPosted, Causes, InitiateCrash, LoseStateFile
  <2> QED
    BY <2>1 DEF Partings
<1> QED
  BY <1>1, <1>2, <1>3, <1>4, <1>5, <1>6, <1>7, <1>8 DEF Next, CallStep, Quiet

\* What p has of q's initial messages, and has accepted of them, is as before.
Still(p, q) ==
    /\ \A m : m.from = q => (m \in posted'[p] <=> m \in posted[p])
    /\ \A m \in posted[p] : m.from = q => (HasAccepted(mem'[p], m) <=> HasAccepted(mem[p], m))

\* Everybody agrees, as far as TalkInv goes.
AllTalk == \A p, q \in Party : p # q => TalkOk(p, q)

\* The fields of an initial message that was posted.
LEMMA PostedTypes ==
    ASSUME TypeInv, NEW p \in Party, NEW m \in posted[p]
    PROVE  m \in Initial /\ m.from \in Party /\ m.id[2] \in Int /\ m.id = <<m.id[1], m.id[2]>>
BY UserTypes DEF Initial, HandshakeId

\* An initial message that was not accepted stays in front of the newer ones.
LEMMA QueuedKept ==
    ASSUME TypeInv, ReadInv, KeepsMail, NEW p \in Party, NEW q \in Party, Queued(p, q),
           NEW m \in posted[p], m.from = q, ~HasAccepted(mem[p], m)
    PROVE  \E e \in Entries(inbox'[p]) :
             /\ e.env = m
             /\ \A f \in Entries(inbox'[p]) : f.env.from = q /\ f.env.id[2] > m.id[2] => e.id < f.id
<1>1. PICK e \in Entries(inbox[p]) :
        /\ e.env = m
        /\ \A f \in Entries(inbox[p]) : f.env.from = q /\ f.env.id[2] > m.id[2] => e.id < f.id
  BY DEF Queued
<1>2. e \in Entries(inbox'[p])
  BY <1>1 DEF KeepsMail
<1>3. e.id \in InboxIds(inbox[p])
  BY IdsOfEntries
<1>4. e.id < nextId[p]
  BY <1>3 DEF ReadInv, ReadAt
<1>5. ASSUME NEW f \in Entries(inbox'[p]), f.env.from = q, f.env.id[2] > m.id[2] PROVE e.id < f.id
  BY <1>1, <1>4, <1>5 DEF KeepsMail
<1> QED
  BY <1>1, <1>2, <1>5

\* The older initial messages of the sender of the one in hand were accepted.
LEMMA OlderAccepted ==
    ASSUME TypeInv, ReadInv, NEW p \in Party, poll[p].pc = "handle", NEW h, h = Head(poll[p].page).env,
           Queued(p, h.from), NEW m \in posted[p], m.from = h.from, m.id[2] < h.id[2]
    PROVE  HasAccepted(mem[p], m)
<1> SUFFICES ASSUME ~HasAccepted(mem[p], m) PROVE FALSE
  OBVIOUS
<1>1. PICK c, call, box : c = mem[p] /\ call = poll[p] /\ box = inbox[p]
  OBVIOUS
<1>2. call \in PollState(Entry) /\ box \in Seq(Entry)
  BY <1>1, UserTypes
<1>3. PageOpen(call, box) /\ Covers(c, box, call.done)
  BY <1>1 DEF ReadInv, ReadAt
<1>4. PICK e \in Entries(box) :
        /\ e.env = m
        /\ \A f \in Entries(box) : f.env.from = h.from /\ f.env.id[2] > m.id[2] => e.id < f.id
  BY <1>1 DEF Queued
<1>5. Head(call.page) \in Entries(box)
  <2>1. call.page \in Seq(Entry)
    BY <1>2 DEF PollState
  <2>2. call.page # <<>> /\ Entries(call.page) \subseteq Entries(box)
    BY <1>3 DEF PageOpen
  <2>3. Head(call.page) \in Entries(call.page)
    BY <2>1, <2>2 DEF Entries
  <2> QED
    BY <2>2, <2>3
<1>6. h.id[2] > m.id[2]
  OBVIOUS
<1>7. e.id < Head(call.page).id
  BY <1>1, <1>4, <1>5, <1>6
<1> QED
  BY <1>1, <1>2, <1>3, <1>4, <1>7, BeforePage

\* What p has of q's initial messages stays in order.
LEMMA HalfSame ==
    ASSUME TypeInv, ReadInv, KeepsMail, NEW p \in Party, NEW q \in Party, Queued(p, q), InOrder(p, q), Still(p, q)
    PROVE  Queued(p, q)' /\ InOrder(p, q)' /\ (Settled(p, q)' <=> Settled(p, q))
<1>1. ASSUME NEW m \in posted'[p], m.from = q, ~HasAccepted(mem'[p], m)
      PROVE  \E e \in Entries(inbox'[p]) :
               /\ e.env = m
               /\ \A f \in Entries(inbox'[p]) : f.env.from = q /\ f.env.id[2] > m.id[2] => e.id < f.id
  <2>1. m \in posted[p] /\ ~HasAccepted(mem[p], m)
    BY <1>1 DEF Still
  <2> QED
    BY <1>1, <2>1, QueuedKept
<1>2. Queued(p, q)'
  BY <1>1 DEF Queued
<1>3. InOrder(p, q)'
  BY DEF InOrder, Still
<1>4. Settled(p, q)' <=> Settled(p, q)
  BY DEF Settled, Still
<1> QED
  BY <1>2, <1>3, <1>4

\* The session of p with q, by its id.
LEMMA SessionIdSame ==
    ASSUME NEW p \in Party, NEW q \in Party, mem'[p].sessions[q] = mem[p].sessions[q]
    PROVE  SessionId(p, q)' = SessionId(p, q)
BY DEF SessionId

\* Two ends that stay as they are.
LEMMA TalkSame ==
    ASSUME TypeInv, ReadInv, KeepsMail, AllTalk, NEW p \in Party, NEW q \in Party, p # q,
           Still(p, q), Still(q, p), SessionId(p, q)' = SessionId(p, q), SessionId(q, p)' = SessionId(q, p)
    PROVE  TalkOk(p, q)'
<1>1. TalkOk(p, q) /\ TalkOk(q, p)
  BY DEF AllTalk
<1>2. Queued(p, q)' /\ InOrder(p, q)' /\ (Settled(p, q)' <=> Settled(p, q))
  BY <1>1, HalfSame DEF TalkOk
<1>3. Settled(q, p)' <=> Settled(q, p)
  BY <1>1, HalfSame DEF TalkOk
<1>4. OneWay(p, q)' /\ Agree(p, q)'
  BY <1>1, <1>2, <1>3 DEF TalkOk, OneWay, Agree
<1>5. Newest(p, q)'
  <2>1. ASSUME ~Settled(p, q)
        PROVE  \E n \in posted'[p] : /\ n.from = q /\ SessionId(q, p)' = n.id
                                     /\ \A k \in posted'[p] : k.from = q => k.id[2] <= n.id[2]
    <3>1. PICK n \in posted[p] : /\ n.from = q /\ SessionId(q, p) = n.id
                                 /\ \A k \in posted[p] : k.from = q => k.id[2] <= n.id[2]
      BY <1>1, <2>1 DEF TalkOk, Newest
    <3> QED
      BY <3>1 DEF Still
  <2> QED
    BY <1>2, <2>1 DEF Newest
<1> QED
  BY <1>2, <1>4, <1>5 DEF TalkOk

\* HandleInitialMessage takes the oldest message on its way from the peer.  When
\* it was the last one, both ends have its session.
LEMMA TalkAccepted ==
    ASSUME TypeInv, PairInv, PostInv, ReadInv, KeepsMail, AllTalk, NEW p \in Party, HandleAccepted(p)
    PROVE  AllTalk'
<1>1. PICK c \in ClientState, m \in posted[p] :
        /\ Leaves(p, c, disk[p]) /\ m = Head(poll[p].page).env /\ m \in Initial
        /\ Accepts(mem[p], m) /\ poll[p].pc = "handle"
        /\ c.accepted = Append(mem[p].accepted, m)
        /\ c.sessions = Accept(mem[p], m).sessions
  BY AcceptsHead
<1>2. PICK q \in Party : q = m.from /\ q # p
  <2>1. m.from \in Party
    BY PostedTypes
  <2> QED
    BY <2>1 DEF PostInv, PostOk
<1>3. posted' = posted /\ mem'[p] = c /\ \A r \in Party : r # p => mem'[r] = mem[r]
  <2>1. posted' = posted
    BY DEF HandleAccepted, history
  <2> QED
    BY <1>1, <2>1, Left DEF TypeInv
<1>4. PICK b \in ClientState : b = mem[p]
  BY UserTypes
<1>5. \A n : HasAccepted(c, n) <=> HasAccepted(b, n) \/ n = m
  <2>1. m \in Initial /\ c.accepted = Append(b.accepted, m)
    BY <1>1, <1>4
  <2> QED
    BY <2>1, AcceptedMore
<1>6. ~HasAccepted(b, m)
  BY <1>1, <1>4, AcceptsNew
<1>7. c.sessions[q] = [id |-> m.id, with |-> m.identity] /\ \A o \in Party : o # q => c.sessions[o] = b.sessions[o]
  <2>1. PICK r : r = Accept(b, m)
    OBVIOUS
  <2>2. c.sessions = r.sessions /\ m \in Initial
    BY <1>1, <1>4, <2>1
  <2> QED
    BY <1>2, <2>1, <2>2, AcceptedSessions
<1>8. ASSUME NEW r \in Party, NEW s \in Party, r # p \/ s # q
      PROVE  Still(r, s) /\ SessionId(r, s)' = SessionId(r, s)
  <2>1. CASE r # p
    BY <1>3, <2>1, SessionIdSame DEF Still
  <2>2. CASE r = p /\ s # q
    <3>1. mem'[r].sessions[s] = mem[r].sessions[s]
      BY <1>3, <1>4, <1>7, <2>2
    <3>2. Still(r, s)
      BY <1>2, <1>3, <1>4, <1>5, <2>2 DEF Still
    <3> QED
      BY <3>1, <3>2, SessionIdSame
  <2> QED
    BY <1>8, <2>1, <2>2
<1>9. TalkOk(p, q) /\ TalkOk(q, p)
  BY <1>2 DEF AllTalk
<1>10. ~Settled(p, q) /\ Settled(q, p)
  <2>1. ~Settled(p, q)
    BY <1>2, <1>4, <1>6 DEF Settled
  <2> QED
    BY <1>9, <2>1 DEF TalkOk, OneWay
<1>11. Queued(q, p)' /\ InOrder(q, p)' /\ Settled(q, p)' /\ SessionId(q, p)' = SessionId(q, p)
  BY <1>2, <1>8, <1>9, <1>10, HalfSame DEF TalkOk
<1>12. PICK n \in posted[p] : /\ n.from = q /\ SessionId(q, p) = n.id
                              /\ \A k \in posted[p] : k.from = q => k.id[2] <= n.id[2]
  BY <1>9, <1>10 DEF TalkOk, Newest
<1>13. Queued(p, q)'
  <2>1. ASSUME NEW k \in posted[p], k.from = q, ~HasAccepted(c, k)
        PROVE  \E e \in Entries(inbox'[p]) :
                 /\ e.env = k
                 /\ \A f \in Entries(inbox'[p]) : f.env.from = q /\ f.env.id[2] > k.id[2] => e.id < f.id
    <3>1. ~HasAccepted(mem[p], k) /\ Queued(p, q)
      BY <1>4, <1>5, <1>9, <2>1 DEF TalkOk
    <3> QED
      BY <2>1, <3>1, QueuedKept
  <2> QED
    BY <1>3, <2>1 DEF Queued
<1>14. InOrder(p, q)'
  <2>1. ASSUME NEW k \in posted[p], NEW l \in posted[p], k.from = q, l.from = q, k.id[2] < l.id[2], HasAccepted(c, l)
        PROVE  HasAccepted(c, k)
    <3>1. CASE l = m
      <4>1. Queued(p, m.from) /\ k.from = m.from /\ k.id[2] < m.id[2]
        BY <1>2, <1>9, <2>1, <3>1 DEF TalkOk
      <4>2. HasAccepted(mem[p], k)
        BY <1>1, <4>1, OlderAccepted
      <4> QED
        BY <1>4, <1>5, <4>2
    <3>2. CASE HasAccepted(b, l)
      <4>1. HasAccepted(b, k)
        BY <1>4, <1>9, <2>1, <3>2 DEF TalkOk, InOrder
      <4> QED
        BY <1>5, <4>1
    <3> QED
      BY <1>5, <2>1, <3>1, <3>2
  <2> QED
    BY <1>3, <2>1 DEF InOrder
<1>15. Newest(p, q)' /\ Newest(q, p)'
  BY <1>3, <1>11, <1>12 DEF Newest
<1>16. ASSUME Settled(p, q)' PROVE SessionId(p, q)' = SessionId(q, p)'
  <2>1. HasAccepted(c, n)
    <3>1. n \in posted'[p] /\ n.from = q
      BY <1>3, <1>12
    <3>2. HasAccepted(mem'[p], n)
      BY <1>16, <3>1 DEF Settled
    <3> QED
      BY <1>3, <3>2
  <2>2. n = m
    <3> SUFFICES ASSUME n # m PROVE FALSE
      OBVIOUS
    <3>1. HasAccepted(b, n)
      BY <1>5, <2>1
    <3>2. m.id # n.id /\ m.id[1] = q /\ n.id[1] = q
      BY <1>2, <1>12 DEF PostInv, PostOk
    <3>3. /\ m.id[2] \in Int /\ m.id = <<m.id[1], m.id[2]>>
          /\ n.id[2] \in Int /\ n.id = <<n.id[1], n.id[2]>>
      BY PostedTypes
    <3>4. m.id[2] <= n.id[2]
      BY <1>2, <1>12
    <3>5. m.id[2] < n.id[2]
      BY <3>2, <3>3, <3>4
    <3> QED
      BY <1>2, <1>4, <1>6, <1>9, <1>12, <3>1, <3>5 DEF TalkOk, InOrder
  <2>3. c.sessions[q] # None /\ c.sessions[q].id = m.id
    <3>1. [id |-> m.id, with |-> m.identity] \in [id : HandshakeId, with : Nat]
      BY <1>1 DEF Initial
    <3> QED
      BY <1>7, <3>1, SessionsAreSome
  <2>4. SessionId(p, q)' = m.id
    BY <1>3, <2>3 DEF SessionId
  <2> QED
    BY <1>11, <1>12, <2>2, <2>4
<1>17. TalkOk(p, q)' /\ TalkOk(q, p)'
  <2>1. OneWay(p, q)' /\ OneWay(q, p)' /\ Agree(p, q)' /\ Agree(q, p)'
    BY <1>11, <1>16 DEF OneWay, Agree
  <2> QED
    BY <1>11, <1>13, <1>14, <1>15, <2>1 DEF TalkOk
<1>18. ASSUME NEW r \in Party, NEW s \in Party, r # s PROVE TalkOk(r, s)'
  <2>1. CASE (r # p \/ s # q) /\ (s # p \/ r # q)
    BY <1>8, <1>18, <2>1, TalkSame
  <2> QED
    BY <1>17, <2>1
<1> QED
  BY <1>18 DEF AllTalk

\* InitiateSession while nothing is on its way from the peer puts the new
\* session at one end, and the message that brings it to the other behind the
\* ones that are on their way there.
LEMMA TalkBegun ==
    ASSUME TypeInv, TypeInv', PostInv, PostInv', GuardInv, ReadInv, KeepsMail, AllTalk,
           NEW p \in Party, InitiateSession(p), "crossed" \notin cause'
    PROVE  AllTalk'
<1>1. Posts(p) /\ PostInitial(p) /\ ~Crossing(p, task[p].peer)
  BY DEF InitiateSession, StartInitial, PostInitial, Posts, Causes
<1>2. PICK q \in Party, b \in Initial :
        /\ q = task[p].peer /\ q # p /\ b = Begun(p)
        /\ b.id = <<p, inits[p]>> /\ b.from = p
        /\ posted'[q] = posted[q] \cup {b}
        /\ \A r \in Party : r # q => posted'[r] = posted[r]
        /\ inits' = inits /\ inits[p] \in Nat
  BY <1>1, Posted
<1>3. PICK c \in ClientState :
        /\ mem'[p] = c /\ \A r \in Party : r # p => mem'[r] = mem[r]
        /\ c = WithSession(mem[p], q, task[p].identity, b)
  <2>1. PICK c \in ClientState, d \in ClientState :
          Leaves(p, c, d) /\ c = WithSession(mem[p], task[p].peer, task[p].identity, Begun(p))
    BY BeginEffect
  <2> QED
    BY <1>2, <2>1, Left DEF TypeInv
<1>4. /\ c.accepted = mem[p].accepted /\ c.sessions[q] # None /\ c.sessions[q].id = b.id
      /\ \A o \in Party : o # q => c.sessions[o] = mem[p].sessions[o]
  <2>1. PICK a \in ClientState, n \in Nat : a = mem[p] /\ Limits(a) /\ n = task[p].identity
    BY UserTypes DEF Task
  <2>2. /\ WithSession(a, q, n, b).accepted = a.accepted
        /\ WithSession(a, q, n, b).sessions[q] = [id |-> b.id, with |-> n]
        /\ \A r \in Party : r # q => WithSession(a, q, n, b).sessions[r] = a.sessions[r]
    BY <2>1, Established
  <2>3. [id |-> b.id, with |-> n] \in [id : HandshakeId, with : Nat]
    BY DEF Initial
  <2>4. c = WithSession(a, q, n, b)
    BY <1>3, <2>1
  <2> QED
    BY <2>1, <2>2, <2>3, <2>4, SessionsAreSome
<1>5. \A r \in Party : \A n : HasAccepted(mem'[r], n) <=> HasAccepted(mem[r], n)
  BY <1>3, <1>4 DEF HasAccepted
<1>6. \A n \in posted[q] : n.from = p => n.id[2] \in Int /\ n.id[2] < b.id[2]
  <2>1. b.id[2] = inits[p] /\ task[p].op = "acquired"
    BY <1>1, <1>2 DEF Posts, Acquired
  <2>2. ASSUME NEW n \in posted[q], n.from = p PROVE n.id[2] \in Int /\ n.id[2] < inits[p]
    BY <2>1, <2>2, PostedTypes DEF PostInv, PostOk
  <2> QED
    BY <2>1, <2>2
<1>7. b \notin posted[q] /\ b \in posted'[q] /\ b.id[2] \in Int
  BY <1>2, <1>6
<1>8. ~HasAccepted(mem[q], b)
  BY <1>7 DEF HasAccepted, GuardInv, GuardsOk
<1>9. ASSUME NEW r \in Party, NEW s \in Party, r # q \/ s # p PROVE Still(r, s)
  BY <1>2, <1>5, <1>9 DEF Still
<1>10. ASSUME NEW r \in Party, NEW s \in Party, r # p \/ s # q PROVE SessionId(r, s)' = SessionId(r, s)
  BY <1>3, <1>4, <1>10, SessionIdSame
<1>11. TalkOk(p, q) /\ TalkOk(q, p)
  BY <1>2 DEF AllTalk
<1>12. Settled(p, q)
  <2> SUFFICES ASSUME NEW m \in posted[p], m.from = q, ~HasAccepted(mem[p], m) PROVE FALSE
    BY DEF Settled
  <2>1. PICK e \in Entries(inbox[p]) : e.env = m
    BY <1>11 DEF TalkOk, Queued
  <2> QED
    BY <1>1, <1>2, <2>1 DEF Crossing, Entries
<1>13. Queued(p, q)' /\ InOrder(p, q)' /\ Settled(p, q)'
  BY <1>2, <1>9, <1>11, <1>12, HalfSame DEF TalkOk
<1>14. \A n \in posted'[q] : n.from = p => n.id[2] <= b.id[2]
  BY <1>2, <1>6, <1>7
<1>15. Queued(q, p)'
  <2>1. \E e \in Entries(inbox'[q]) :
          e.env = b /\ \A f \in Entries(inbox'[q]) : f.env.from = p /\ f.env.id[2] > b.id[2] => e.id < f.id
    <3>1. PICK box \in Seq(Entry), id \in Nat \ {0} : box = inbox[q] /\ id = nextId[q]
      BY UserTypes
    <3>2. inbox'[q] = EnqueueEnvelope(box, id, b)
      BY <1>1, <1>2, <3>1 DEF PostInitial, TypeInv, StoreTypes
    <3>3. [id |-> id, env |-> b] \in Entry
      BY DEF Entry
    <3>4. [id |-> id, env |-> b] \in Entries(inbox'[q])
      BY <3>2, <3>3, OneMore
    <3>5. \A f \in Entries(inbox'[q]) : f.env \in posted'[q]
      BY DEF TypeInv, StoreTypes
    <3>6. \A f \in Entries(inbox'[q]) : f.env.from = p => f.env \in posted'[q] /\ f.env.id[2] \in Int
      BY <1>2, <1>6, <1>7, <3>5
    <3>7. \A f \in Entries(inbox'[q]) : f.env.from = p => ~(f.env.id[2] > b.id[2])
      BY <1>7, <1>14, <3>6
    <3> QED
      BY <3>4, <3>7
  <2>2. ASSUME NEW m \in posted[q], m.from = p, ~HasAccepted(mem'[q], m)
        PROVE  \E e \in Entries(inbox'[q]) :
                 /\ e.env = m
                 /\ \A f \in Entries(inbox'[q]) : f.env.from = p /\ f.env.id[2] > m.id[2] => e.id < f.id
    <3>1. ~HasAccepted(mem[q], m) /\ Queued(q, p)
      BY <1>5, <1>11, <2>2 DEF TalkOk
    <3> QED
      BY <2>2, <3>1, QueuedKept
  <2>3. \A m \in posted'[q] : m = b \/ m \in posted[q]
    BY <1>2
  <2> QED
    BY <2>1, <2>2, <2>3 DEF Queued
<1>16. InOrder(q, p)'
  <2>1. ASSUME NEW m \in posted'[q], NEW n \in posted'[q], m.from = p, n.from = p, m.id[2] < n.id[2],
               HasAccepted(mem'[q], n)
        PROVE  HasAccepted(mem'[q], m)
    <3>1. HasAccepted(mem[q], n)
      BY <1>5, <2>1
    <3>2. n \in posted[q]
      BY <1>2, <1>8, <3>1
    <3>3. m # b
      BY <1>6, <1>7, <2>1, <3>2
    <3>4. m \in posted[q]
      BY <1>2, <3>3
    <3>5. HasAccepted(mem[q], m)
      BY <1>11, <2>1, <3>1, <3>2, <3>4 DEF TalkOk, InOrder
    <3> QED
      BY <1>5, <3>5
  <2> QED
    BY <2>1 DEF InOrder
<1>17. SessionId(p, q)' = b.id
  BY <1>3, <1>4 DEF SessionId
<1>18. Newest(q, p)' /\ Newest(p, q)'
  BY <1>2, <1>7, <1>13, <1>14, <1>17 DEF Newest
<1>19. ~Settled(q, p)'
  <2>1. ~HasAccepted(mem'[q], b)
    BY <1>5, <1>8
  <2> QED
    BY <1>2, <1>7, <2>1 DEF Settled
<1>20. TalkOk(p, q)' /\ TalkOk(q, p)'
  <2>1. OneWay(p, q)' /\ OneWay(q, p)' /\ Agree(p, q)' /\ Agree(q, p)'
    BY <1>13, <1>19 DEF OneWay, Agree
  <2> QED
    BY <1>13, <1>15, <1>16, <1>18, <2>1 DEF TalkOk
<1>21. ASSUME NEW r \in Party, NEW s \in Party, r # s PROVE TalkOk(r, s)'
  <2>1. CASE (r # p \/ s # q) /\ (s # p \/ r # q)
    BY <1>9, <1>10, <1>21, <2>1, TalkSame
  <2> QED
    BY <1>20, <2>1
<1> QED
  BY <1>21 DEF AllTalk

\* Nobody has a session or an initial message when the clients are created.
LEMMA InitialTalk == Init => TalkInv
<1> SUFFICES ASSUME Init, NEW p \in Party, NEW q \in Party PROVE TalkOk(p, q)
  BY DEF TalkInv
<1>1. posted[p] = {} /\ posted[q] = {} /\ mem[p] = Created(p) /\ mem[q] = Created(q)
  BY DEF Init
<1>2. \A r \in Party : Created(r).sessions = [s \in Party |-> None]
  BY DEF Created, NewClient
<1>3. SessionId(p, q) = SessionId(q, p)
  BY <1>1, <1>2 DEF SessionId
<1> QED
  BY <1>1, <1>3 DEF TalkOk, Queued, InOrder, OneWay, Newest, Agree, Settled

\* Every step keeps the two ends of a session apart by no more than what is on
\* its way, as long as there is no cause for disagreement.
LEMMA TalkStep == TypeInv /\ PairInv /\ HoldInv /\ ReadInv /\ FileInv /\ TalkInv /\ [Next]_vars => TalkInv'
<1> SUFFICES ASSUME TypeInv, PairInv, HoldInv, ReadInv, FileInv, TalkInv, [Next]_vars,
                    cause' \cap Partings = {}
             PROVE  AllTalk'
  BY DEF TalkInv, AllTalk
<1>1. AllTalk
  BY CauseGrows DEF TalkInv, AllTalk
<1>2. PostInv /\ GuardInv
  BY DEF HoldInv
<1>3. TypeInv' /\ PostInv' /\ KeepsMail
  BY <1>2, TypeStep, PostStep, MailKept
<1>4. CASE Silent
  <2>1. \A p, q \in Party : Still(p, q)
    BY <1>4 DEF Silent, Still, HasAccepted
  <2>2. \A p, q \in Party : SessionId(p, q)' = SessionId(p, q)
    BY <1>4, SessionIdSame DEF Silent
  <2>3. ASSUME NEW p \in Party, NEW q \in Party, p # q PROVE TalkOk(p, q)'
    BY <1>1, <1>3, <2>1, <2>2, <2>3, TalkSame
  <2> QED
    BY <2>3 DEF AllTalk
<1>5. ASSUME NEW p \in Party, HandleAccepted(p) PROVE AllTalk'
  BY <1>1, <1>2, <1>3, <1>5, TalkAccepted
<1>6. ASSUME NEW p \in Party, InitiateSession(p) PROVE AllTalk'
  <2>1. "crossed" \notin cause'
    BY DEF Partings
  <2> QED
    BY <1>1, <1>2, <1>3, <1>6, <2>1, TalkBegun
<1> QED
  BY <1>4, <1>5, <1>6, Talking

\* Two clients with nothing on its way between them have the same session, or
\* both none, unless two initiations crossed, one was not posted, or a client
\* restarted without a session or without its state file: InitiateSession and
\* HandleInitialMessage leave both ends with one session id for any number of
\* users, sessions, replays, refused messages and failed calls.
THEOREM EndsAgree == Spec => []DisagreementHasCause
<1>1. Init => TypeInv /\ PairInv /\ HoldInv /\ ReadInv /\ FileInv /\ TalkInv
  BY InitialTypes, InitialPairs, InitialHold, InitialRead, InitialFile, InitialTalk
<1>2. TypeInv /\ PairInv /\ HoldInv /\ ReadInv /\ FileInv /\ TalkInv /\ [Next]_vars
        => (TypeInv /\ PairInv /\ HoldInv /\ ReadInv /\ FileInv /\ TalkInv)'
  <2>1. HoldInv => PostInv /\ GuardInv
    BY DEF HoldInv
  <2> QED
    BY <2>1, TypeStep, PairStep, HoldStep, ReadStep, FileStep, TalkStep
<1>3. TalkInv => DisagreementHasCause
  BY DEF TalkInv, TalkOk, DisagreementHasCause, BothEndsAgree
<1> QED
  BY <1>1, <1>2, <1>3, PTL DEF Spec

----------------------------------------------------------------------------
\* What is met again.

\* What client c has accepted of the mailbox has a number up to a.
Within(c, box, a) == \A e \in Entries(box) : HasAccepted(c, e.env) => e.id <= a

\* A call has accepted up to its place in the page, and between two pages the
\* client has an acknowledgement for it.
Reached(c, call) == IF call.pc = "handle" THEN call.done ELSE c.pending

\* No message is twice in the mailbox.
Single(box) == \A e, f \in Entries(box) : e.env = f.env => e = f

\* What a client c, its state file d and its call have accepted is
\* acknowledged, or will be when the page ends: in memory as long as no
\* acknowledgement was lost, in the state file as long as nothing was saved in
\* the middle of a page.
AckAt(c, d, call, box, causes) ==
    /\ Single(box)
    /\ ~({"midpage", "unacked"} \subseteq causes) => Within(c, box, Reached(c, call))
    /\ "midpage" \notin causes => Within(d, box, d.pending)

AckInv ==
    "replayed" \notin cause => \A p \in Party : AckAt(mem[p], disk[p], poll[p], inbox[p], cause)

\* A client in another call is between two calls of ProcessInbox, or behind
\* the loop of one.
BusyInv == \A p \in Party : task[p] # NoTask => poll[p].pc \in {"idle", "save"}

\* More causes ask less.
LEMMA AckMore ==
    ASSUME NEW c, NEW d, NEW call, NEW box, NEW S, NEW T, S \subseteq T, AckAt(c, d, call, box, S)
    PROVE  AckAt(c, d, call, box, T)
BY DEF AckAt

\* Another client that accepted the same, of a mailbox with no more in it.
LEMMA WithinSame ==
    ASSUME NEW b, NEW c, c.accepted = b.accepted, NEW box, NEW new, Entries(new) \subseteq Entries(box),
           NEW a, Within(b, box, a)
    PROVE  Within(c, new, a)
BY DEF Within, HasAccepted

\* A message that the client has not accepted comes in.
LEMMA WithinMail ==
    ASSUME NEW c, NEW box, NEW a, Within(c, box, a), NEW id, NEW env, ~HasAccepted(c, env), NEW new,
           Entries(new) = Entries(box) \cup {[id |-> id, env |-> env]}
    PROVE  Within(c, new, a)
BY DEF Within

\* A message that is not in the mailbox comes in once.
LEMMA SingleMail ==
    ASSUME NEW box, Single(box), NEW id, NEW env, \A e \in Entries(box) : e.env # env, NEW new,
           Entries(new) = Entries(box) \cup {[id |-> id, env |-> env]}
    PROVE  Single(new)
BY DEF Single

\* How far the call has come after the first message of the page was accepted ...
LEMMA HandledReach ==
    ASSUME NEW old \in PollState(Entry), old.pc = "handle", NEW call, call = Handled(old), NEW c, NEW n,
           c.pending = PendingAfter(call, n)
    PROVE  Reached(c, call) = Head(old.page).id
<1>1. PICK id, next : id = Head(old.page).id
                        /\ next = [old EXCEPT !.page = Tail(@), !.out = Append(@, id), !.done = id]
  OBVIOUS
<1>2. next.done = id /\ next.pc = "handle"
  BY <1>1 DEF PollState
<1>3. CASE next.page = <<>>
  <2>1. call = EndPage(next, id, FALSE)
    BY <1>1, <1>3 DEF Handled
  <2>2. call.pc \in {"end", "drain"} /\ call.ack = id
    BY <1>1, <2>1 DEF EndPage, AckableId, PollState
  <2> QED
    BY <1>1, <2>2 DEF PendingAfter, Reached
<1>4. CASE next.page # <<>>
  <2>1. call = next
    BY <1>1, <1>4 DEF Handled
  <2> QED
    BY <1>1, <1>2, <2>1 DEF Reached
<1> QED
  BY <1>3, <1>4

\* ... or refused ...
LEMMA RefusedReach ==
    ASSUME NEW old \in PollState(Entry), NEW call, call = Refused(old), NEW c, NEW n,
           c.pending = PendingAfter(call, n)
    PROVE  Reached(c, call) = old.done
<1>1. call.pc \in {"end", "drain"} /\ call.ack = old.done
  BY DEF Refused, EndPage, AckableId, PollState
<1> QED
  BY <1>1 DEF PendingAfter, Reached

\* ... and when a page was served.
LEMMA ServedReach ==
    ASSUME NEW old \in PollState(Entry), NEW page, NEW call, call = Served(old, page), NEW c, c.pending = 0
    PROVE  Reached(c, call) = 0
BY DEF Served, PollState, Reached

\* What a step of one client owes to the acknowledgements of all.
LEMMA AckStepOf ==
    ASSUME TypeInv, AckInv, cause \subseteq cause', NEW p \in Party, NEW c, NEW d, Leaves(p, c, d),
           NEW call, poll' = [poll EXCEPT ![p] = call],
           NEW box, inbox' = [inbox EXCEPT ![p] = box],
           "replayed" \notin cause => AckAt(c, d, call, box, cause')
    PROVE  AckInv'
<1> SUFFICES ASSUME "replayed" \notin cause', NEW q \in Party
             PROVE  AckAt(mem'[q], disk'[q], poll'[q], inbox'[q], cause')
  BY DEF AckInv
<1>0. "replayed" \notin cause
  OBVIOUS
<1>1. /\ poll \in [Party -> PollState(Entry)] /\ inbox \in [Party -> Seq(Entry)] /\ ClientTypes
  BY DEF TypeInv, PollTypes, StoreTypes
<1>2. CASE q = p
  <2>1. mem'[p] = c /\ disk'[p] = d /\ poll'[p] = call /\ inbox'[p] = box
    BY <1>1, Left
  <2> QED
    BY <1>0, <1>2, <2>1
<1>3. CASE q # p
  <2>1. mem'[q] = mem[q] /\ disk'[q] = disk[q] /\ poll'[q] = poll[q] /\ inbox'[q] = inbox[q]
    BY <1>1, <1>3, Left
  <2>2. AckAt(mem[q], disk[q], poll[q], inbox[q], cause)
    BY <1>0 DEF AckInv
  <2> QED
    BY <2>1, <2>2, AckMore
<1> QED
  BY <1>2, <1>3

\* A client that keeps what it accepted and its acknowledgement, outside a page.
LEMMA AckKept ==
    ASSUME AckInv, "replayed" \notin cause, cause \subseteq cause', NEW p \in Party, NEW c, NEW d, NEW call,
           KeepsReading(p, c, d, call), poll[p].pc # "handle"
    PROVE  AckAt(c, d, call, inbox[p], cause')
<1>1. PICK b, e, old, box : b = mem[p] /\ e = disk[p] /\ old = poll[p] /\ box = inbox[p]
  OBVIOUS
<1>2. AckAt(b, e, old, box, cause)
  BY <1>1 DEF AckInv
<1>3. /\ c.accepted = b.accepted /\ c.pending = b.pending /\ call.pc # "handle" /\ old.pc # "handle"
      /\ d = e \/ (d.accepted = c.accepted /\ d.pending = c.pending)
  BY <1>1 DEF KeepsReading
<1>4. Reached(c, call) = c.pending /\ Reached(b, old) = c.pending
  BY <1>3 DEF Reached
<1>5. ~({"midpage", "unacked"} \subseteq cause') => Within(c, box, c.pending)
  BY <1>2, <1>3, <1>4, WithinSame DEF AckAt
<1>6. "midpage" \notin cause' => Within(d, box, d.pending)
  <2>1. CASE d = e
    BY <1>2, <2>1 DEF AckAt
  <2>2. CASE d.accepted = c.accepted /\ d.pending = c.pending
    BY <1>5, <2>2, WithinSame
  <2> QED
    BY <1>3, <2>1, <2>2
<1> QED
  BY <1>1, <1>2, <1>4, <1>5, <1>6 DEF AckAt

\* The steps of a client that only saves, publishes or meets a peer.
LEMMA AckStill ==
    ASSUME TypeInv, ReadInv, AckInv, BusyInv, cause \subseteq cause', NEW p \in Party,
           \/ PublishPrekeys(p) \/ SavePrekeys(p) \/ (\E q \in Party : AcquireBundle(p, q))
           \/ (\E q \in Party : VerifyPeerSafetyNumber(p, q)) \/ InitiateRefused(p)
           \/ InitiateNotPosted(p) \/ GiveUp(p) \/ SaveLocalState(p) \/ Republish(p)
    PROVE  AckInv'
<1>1. ReadsOn(p)
  BY StillReading
<1>2. PICK c, d, call :
        /\ Leaves(p, c, d) /\ poll' = [poll EXCEPT ![p] = call] /\ inbox' = inbox /\ nextId' = nextId
        /\ KeepsReading(p, c, d, call)
  BY <1>1 DEF ReadsOn
<1>3. poll[p].pc # "handle"
  <2>1. CASE \/ PublishPrekeys(p) \/ (\E q \in Party : AcquireBundle(p, q))
             \/ (\E q \in Party : VerifyPeerSafetyNumber(p, q))
    BY <2>1 DEF PublishPrekeys, AcquireBundle, VerifyPeerSafetyNumber, Free
  <2>2. CASE SavePrekeys(p) \/ InitiateRefused(p) \/ InitiateNotPosted(p)
    <3>1. task[p].op \in {"published", "acquired"}
      BY <2>2 DEF SavePrekeys, InitiateRefused, InitiateNotPosted, StartInitial, Acquired
    <3>2. task[p] # NoTask
      BY <3>1, TaskKinds
    <3> QED
      BY <3>2 DEF BusyInv
  <2>3. CASE GiveUp(p) \/ SaveLocalState(p) \/ Republish(p)
    BY <2>3 DEF GiveUp, SaveLocalState, Over, Republish
  <2> QED
    BY <2>1, <2>2, <2>3
<1>4. "replayed" \notin cause => AckAt(c, d, call, inbox[p], cause')
  BY <1>2, <1>3, AckKept
<1>5. inbox' = [inbox EXCEPT ![p] = inbox[p]]
  BY <1>2, Unchanged DEF TypeInv, StoreTypes
<1> QED
  BY <1>2, <1>4, <1>5, AckStepOf

\* A message that was just begun is in no mailbox, and nobody has accepted it.
LEMMA BegunIsUnread ==
    ASSUME TypeInv, PostInv, GuardInv, NEW p \in Party, Acquired(p), NEW q \in Party, NEW m, m.id = <<p, inits[p]>>
    PROVE  /\ m \notin posted[q] /\ ~HasAccepted(mem[q], m) /\ ~HasAccepted(disk[q], m)
           /\ \A e \in Entries(inbox[q]) : e.env # m
<1>1. m \notin posted[q]
  <2>1. inits[p] \in Nat /\ m.id[1] = p /\ m.id[2] = inits[p]
    BY UserTypes
  <2>2. ASSUME m \in posted[q] PROVE FALSE
    <3>1. m.id[1] = m.from /\ (task[m.from].op = "acquired" => m.id[2] < inits[m.from])
      BY <2>2 DEF PostInv, PostOk
    <3>2. m.from = p /\ task[p].op = "acquired"
      BY <2>1, <3>1 DEF Acquired
    <3> QED
      BY <2>1, <3>1, <3>2
  <2> QED
    BY <2>2
<1>2. ~HasAccepted(mem[q], m) /\ ~HasAccepted(disk[q], m)
  BY <1>1 DEF HasAccepted, GuardInv, GuardsOk
<1>3. \A e \in Entries(inbox[q]) : e.env # m
  BY <1>1 DEF TypeInv, StoreTypes
<1> QED
  BY <1>1, <1>2, <1>3

\* A step that posts an initial message to another user.
LEMMA AckPosted ==
    ASSUME TypeInv, PostInv, GuardInv, ReadInv, AckInv, cause \subseteq cause', NEW p \in Party,
           NEW c, NEW d, Leaves(p, c, d), NEW call, poll' = [poll EXCEPT ![p] = call],
           Acquired(p), task[p].pair # None, PostInitial(p),
           "replayed" \notin cause => AckAt(c, d, call, inbox[p], cause')
    PROVE  AckInv'
<1> SUFFICES ASSUME "replayed" \notin cause', NEW r \in Party
             PROVE  AckAt(mem'[r], disk'[r], poll'[r], inbox'[r], cause')
  BY DEF AckInv
<1>0. "replayed" \notin cause
  OBVIOUS
<1>1. PICK q \in Party, m \in Initial : q = task[p].peer /\ m = Begun(p) /\ q # p /\ m.id = <<p, inits[p]>>
  BY BegunTypes
<1>2. /\ poll \in [Party -> PollState(Entry)] /\ inbox \in [Party -> Seq(Entry)] /\ ClientTypes
  BY DEF TypeInv, PollTypes, StoreTypes
<1>3. PICK box, next : box = inbox[q] /\ next = nextId[q]
  OBVIOUS
<1>4. PICK new : new = EnqueueEnvelope(box, next, m)
  OBVIOUS
<1>5. inbox'[q] = new /\ \A o \in Party : o # q => inbox'[o] = inbox[o]
  BY <1>1, <1>2, <1>3, <1>4 DEF PostInitial
<1>6. /\ mem'[p] = c /\ disk'[p] = d /\ poll'[p] = call
      /\ \A o \in Party : o # p => mem'[o] = mem[o] /\ disk'[o] = disk[o] /\ poll'[o] = poll[o]
  BY <1>2, Left
<1>7. CASE r = p
  BY <1>0, <1>1, <1>5, <1>6, <1>7
<1>8. CASE r = q
  <2>1. PICK b, e, old : b = mem[q] /\ e = disk[q] /\ old = poll[q]
    OBVIOUS
  <2>2. AckAt(b, e, old, box, cause)
    BY <1>0, <1>3, <2>1 DEF AckInv
  <2>3. ~HasAccepted(b, m) /\ ~HasAccepted(e, m) /\ \A x \in Entries(box) : x.env # m
    BY <1>1, <1>3, <2>1, BegunIsUnread
  <2>4. Entries(new) = Entries(box) \cup {[id |-> next, env |-> m]}
    <3>1. box \in Seq(Entry) /\ next \in Nat \ {0} /\ Ordered(box) /\ \A x \in InboxIds(box) : x < next
      BY <1>3, UserTypes DEF ReadInv, ReadAt
    <3>2. [id |-> next, env |-> m] \in Entry
      BY <3>1 DEF Entry
    <3> QED
      BY <1>4, <3>1, <3>2, EntryIds, Enqueued
  <2>5. Single(new)
    BY <2>2, <2>3, <2>4, SingleMail DEF AckAt
  <2>6. \A x, a : ~HasAccepted(x, m) /\ Within(x, box, a) => Within(x, new, a)
    BY <2>4, WithinMail
  <2>7. AckAt(b, e, old, new, cause')
    BY <2>2, <2>3, <2>5, <2>6 DEF AckAt
  <2> QED
    BY <1>1, <1>5, <1>6, <1>8, <2>1, <2>7
<1>9. CASE r # p /\ r # q
  <2>1. AckAt(mem[r], disk[r], poll[r], inbox[r], cause)
    BY <1>0 DEF AckInv
  <2> QED
    BY <1>5, <1>6, <1>9, <2>1, AckMore
<1> QED
  BY <1>7, <1>8, <1>9

\* A page was served: nothing that is left in the mailbox was accepted.
LEMMA AckServed ==
    ASSUME NEW b, NEW d, NEW old \in PollState(Entry), NEW box \in Seq(Entry), NEW next, ReadAt(b, d, old, box, next),
           old.pc = "drain", NEW causes, AckAt(b, d, old, box, causes),
           NEW left, left = DropAcked(box, old.ack), NEW page, NEW call, call = Served(old, page),
           NEW c, c.accepted = b.accepted, c.pending = 0
    PROVE  AckAt(c, d, call, left, causes)
<1>1. Ordered(box) /\ old.ack = b.pending
  BY DEF ReadAt
<1>2. PICK ack \in Nat : ack = old.ack
  BY DEF PollState
<1>3. /\ DropAcked(box, ack) \in Seq(Entry)
      /\ InboxIds(DropAcked(box, ack)) = {x \in InboxIds(box) : x > ack}
      /\ Entries(DropAcked(box, ack)) \subseteq Entries(box)
  BY <1>1, EntryIds, Dropped
<1>4. /\ Entries(left) \subseteq Entries(box) /\ left \in Seq(Entry)
      /\ \A e \in Entries(left) : e.id > ack /\ e.id \in Nat
  <2>1. InboxIds(left) = {e.id : e \in Entries(left)} /\ InboxIds(box) \subseteq Nat
    BY IdsOfEntries, EntryIds, BoxTypes
  <2> QED
    BY <1>2, <1>3, <2>1
<1>5. Reached(c, call) = 0
  BY ServedReach
<1>6. ~({"midpage", "unacked"} \subseteq causes) => Within(c, left, 0)
  <2> SUFFICES ASSUME ~({"midpage", "unacked"} \subseteq causes), NEW e \in Entries(left), HasAccepted(c, e.env)
               PROVE  FALSE
    BY DEF Within
  <2>1. Within(b, box, b.pending)
    BY DEF AckAt, Reached
  <2>2. HasAccepted(b, e.env)
    BY DEF HasAccepted
  <2>3. e.id <= ack
    BY <1>1, <1>2, <1>4, <2>1, <2>2 DEF Within
  <2> QED
    BY <1>4, <2>3
<1>7. Single(left) /\ ("midpage" \notin causes => Within(d, left, d.pending))
  BY <1>4 DEF AckAt, Single, Within
<1> QED
  BY <1>5, <1>6, <1>7 DEF AckAt

\* DrainInbox failed, and the store deleted what was acknowledged or not.
LEMMA AckNotServed ==
    ASSUME NEW b, NEW d, NEW old, old.pc = "drain", NEW box, NEW causes, AckAt(b, d, old, box, causes),
           NEW left, Entries(left) \subseteq Entries(box), NEW call, call.pc # "handle",
           NEW c, c.accepted = b.accepted, c.pending = b.pending
    PROVE  AckAt(c, d, call, left, causes)
<1>1. Reached(c, call) = b.pending /\ Reached(b, old) = b.pending
  BY DEF Reached
<1>2. Single(left)
  BY DEF AckAt, Single
<1>3. ~({"midpage", "unacked"} \subseteq causes) => Within(c, left, b.pending)
  BY <1>1, WithinSame DEF AckAt
<1>4. "midpage" \notin causes => Within(d, left, d.pending)
  BY DEF AckAt, Within
<1> QED
  BY <1>1, <1>2, <1>3, <1>4 DEF AckAt

\* The first message of an open page is in the mailbox, behind what was read.
LEMMA HeadOfPage ==
    ASSUME NEW call \in PollState(Entry), NEW box \in Seq(Entry), PageOpen(call, box)
    PROVE  /\ Head(call.page) \in Entries(box) /\ Head(call.page).id \in Nat
           /\ call.done \in Nat /\ call.done < Head(call.page).id
<1>1. call.page \in Seq(Entry) /\ call.done \in Nat /\ call.page # <<>> /\ Ordered(call.page)
  BY DEF PollState, PageOpen
<1>2. Head(call.page) \in Entries(call.page) /\ Head(call.page).id \in InboxIds(call.page)
  BY <1>1, EntryIds, Headed
<1>3. InboxIds(call.page) \subseteq Nat
  BY <1>1, EntryIds, BoxTypes
<1> QED
  BY <1>1, <1>2, <1>3 DEF PageOpen

\* The first message of the page was accepted.
LEMMA AckHandled ==
    ASSUME NEW b, NEW d, NEW old \in PollState(Entry), old.pc = "handle", NEW box \in Seq(Entry),
           PageOpen(old, box), NEW causes, AckAt(b, d, old, box, causes), NEW call, call = Handled(old),
           NEW c, \A m : HasAccepted(c, m) => HasAccepted(b, m) \/ m = Head(old.page).env,
           c.pending = PendingAfter(call, b.pending)
    PROVE  AckAt(c, d, call, box, causes)
<1>1. PICK h : h = Head(old.page) /\ h \in Entries(box) /\ h.id \in Nat /\ old.done \in Nat /\ old.done < h.id
  BY HeadOfPage
<1>2. Reached(c, call) = h.id /\ Reached(b, old) = old.done
  BY <1>1, HandledReach DEF Reached
<1>3. ~({"midpage", "unacked"} \subseteq causes) => Within(c, box, h.id)
  <2> SUFFICES ASSUME ~({"midpage", "unacked"} \subseteq causes), NEW e \in Entries(box), HasAccepted(c, e.env)
               PROVE  e.id <= h.id
    BY DEF Within
  <2>1. CASE HasAccepted(b, e.env)
    <3>1. e.id <= old.done /\ e.id \in Nat
      BY <1>2, <2>1, EntryIds, BoxTypes DEF AckAt, Within, HasIds
    <3> QED
      BY <1>1, <3>1
  <2>2. CASE e.env = h.env
    <3>1. e = h
      BY <1>1, <2>2 DEF AckAt, Single
    <3> QED
      BY <1>1, <3>1
  <2> QED
    BY <1>1, <2>1, <2>2
<1> QED
  BY <1>2, <1>3 DEF AckAt

\* It was refused; what was saved on the way was saved in front of the page,
\* or in the middle of it, which is a cause.
LEMMA AckRefused ==
    ASSUME NEW b, NEW e, NEW old \in PollState(Entry), old.pc = "handle", NEW box \in Seq(Entry),
           NEW before, NEW causes, before \subseteq causes, AckAt(b, e, old, box, before),
           NEW call, call = Refused(old), NEW c, c.accepted = b.accepted, c.pending = PendingAfter(call, b.pending),
           NEW d, d = e \/ (d.accepted = b.accepted /\ d.pending \in Nat),
           d = e \/ old.done = 0 \/ "midpage" \in causes
    PROVE  AckAt(c, d, call, box, causes)
<1>1. Reached(c, call) = old.done /\ Reached(b, old) = old.done
  BY RefusedReach DEF Reached
<1>2. ~({"midpage", "unacked"} \subseteq causes) => Within(c, box, old.done)
  BY <1>1, WithinSame DEF AckAt
<1>3. "midpage" \notin causes => Within(d, box, d.pending)
  <2>1. CASE d = e
    BY <2>1 DEF AckAt
  <2>2. CASE d.accepted = b.accepted /\ d.pending \in Nat /\ old.done = 0 /\ "midpage" \notin causes
    <3>1. Within(d, box, 0)
      BY <1>1, <2>2, WithinSame DEF AckAt
    <3>2. \A x \in Entries(box) : x.id \in Nat
      BY EntryIds, BoxTypes DEF HasIds
    <3> QED
      BY <2>2, <3>1, <3>2 DEF Within
  <2> QED
    BY <2>1, <2>2
<1> QED
  BY <1>1, <1>2, <1>3 DEF AckAt

\* A first contact that is saved behind accepted messages of the page is a cause.
LEMMA MidPageSave ==
    ASSUME TypeInv, NEW p \in Party, HandleRefused(p)
    PROVE  disk' = disk \/ poll[p].done = 0 \/ "midpage" \in cause'
<1>0. poll[p].pc = "handle"
  BY DEF HandleRefused
<1>1. PICK h \in Initial, first \in BOOLEAN :
        h = Head(poll[p].page).env /\ first = (Genuine(mem[p], h) /\ mem[p].peers[h.from] = None)
  BY <1>0, InHand
<1>2. CASE first
  <2>1. cause' = cause \cup (IF poll[p].done # 0 THEN {"midpage"} ELSE {})
    BY <1>1, <1>2 DEF HandleRefused
  <2> QED
    BY <2>1
<1>3. CASE ~first
  BY <1>1, <1>3 DEF HandleRefused
<1> QED
  BY <1>2, <1>3

\* A client starts from its state file.
LEMMA AckRestarted ==
    ASSUME TypeInv, AckInv, "replayed" \notin cause, NEW p \in Party, cause \cup Lost(p) \subseteq cause',
           NEW c, c.accepted = disk[p].accepted, c.pending = disk[p].pending
    PROVE  AckAt(c, c, Idle, inbox[p], cause')
<1>1. PICK e, box : e = disk[p] /\ box = inbox[p]
  OBVIOUS
<1>2. AckAt(mem[p], e, poll[p], box, cause)
  BY <1>1 DEF AckInv
<1>3. Reached(c, Idle) = c.pending
  BY DEF Reached, Idle
<1>4. "midpage" \notin cause' => Within(c, box, c.pending)
  <2>1. Entries(box) \subseteq Entries(box)
    OBVIOUS
  <2>2. "midpage" \notin cause' => Within(e, box, e.pending)
    BY <1>2 DEF AckAt
  <2> QED
    BY <1>1, <2>1, <2>2, WithinSame
<1>5. "unacked" \notin cause' => Within(c, box, c.pending)
  <2> SUFFICES ASSUME "unacked" \notin cause', NEW f \in Entries(box), HasAccepted(c, f.env)
               PROVE  f.id <= c.pending
    BY DEF Within
  <2>1. "unacked" \notin Lost(p)
    OBVIOUS
  <2>2. PICK i \in DOMAIN box : f = box[i]
    BY DEF Entries
  <2>3. HasAccepted(e, f.env)
    BY <1>1 DEF HasAccepted
  <2>4. ~(inbox[p][i].id > disk[p].pending)
    BY <1>1, <2>1, <2>2, <2>3 DEF Lost
  <2>5. f.id \in Nat /\ e.pending \in Nat
    BY <1>1, UserTypes, Fields, EntryIds, BoxTypes DEF HasIds
  <2> QED
    BY <1>1, <2>2, <2>4, <2>5
<1> QED
  BY <1>1, <1>2, <1>3, <1>4, <1>5 DEF AckAt

\* Every step keeps a client in one call at a time.
LEMMA BusyStep == TypeInv /\ BusyInv /\ [Next]_vars => BusyInv'
<1> SUFFICES ASSUME TypeInv, BusyInv, [Next]_vars, NEW q \in Party, task'[q] # NoTask
             PROVE  poll'[q].pc \in {"idle", "save"}
  BY DEF BusyInv
<1>0. poll \in [Party -> PollState(Entry)] /\ task \in [Party -> Task]
  BY DEF TypeInv, PollTypes, TaskTypes
<1>1. CASE task' = task /\ poll' = poll
  BY <1>1 DEF BusyInv
<1>2. ASSUME NEW p \in Party, NEW t, task' = [task EXCEPT ![p] = t], poll' = poll, poll[p].pc \in {"idle", "save"}
      PROVE  poll'[q].pc \in {"idle", "save"}
  BY <1>0, <1>2 DEF BusyInv
<1>3. ASSUME NEW p \in Party, NEW call, poll' = [poll EXCEPT ![p] = call], task[p] = NoTask, task' = task
      PROVE  poll'[q].pc \in {"idle", "save"}
  BY <1>0, <1>3 DEF BusyInv
<1>4. ASSUME NEW p \in Party, NEW call, poll' = [poll EXCEPT ![p] = call],
             NEW t, task' = [task EXCEPT ![p] = t], t = NoTask \/ call.pc = "save"
      PROVE  poll'[q].pc \in {"idle", "save"}
  BY <1>0, <1>4 DEF BusyInv
<1>5. \A p \in Party : poll[p].pc \notin {"idle", "save"} => task[p] = NoTask
  BY DEF BusyInv
<1>6. CASE UNCHANGED vars
  BY <1>1, <1>6 DEF vars
<1>7. ASSUME NEW p \in Party, PublishPrekeys(p) \/ (\E r \in Party : AcquireBundle(p, r))
      PROVE  poll'[q].pc \in {"idle", "save"}
  <2>1. /\ poll' = poll /\ poll[p].pc \in {"idle", "save"}
        /\ task' = task \/ \E t : task' = [task EXCEPT ![p] = t]
    BY <1>7 DEF PublishPrekeys, Publish, PublishFails, AcquireBundle, Free
  <2> QED
    BY <1>1, <1>2, <2>1
<1>8. ASSUME NEW p \in Party, (\E r \in Party : VerifyPeerSafetyNumber(p, r)) \/ Replay(p)
      PROVE  poll'[q].pc \in {"idle", "save"}
  BY <1>1, <1>8 DEF VerifyPeerSafetyNumber, Replay
<1>9. ASSUME NEW p \in Party,
             \/ ProcessInbox(p) \/ DrainInbox(p) \/ DrainInboxFails(p) \/ HandleAccepted(p) \/ HandleRefused(p)
             \/ GiveUp(p) \/ SaveLocalState(p)
      PROVE  poll'[q].pc \in {"idle", "save"}
  <2>1. task' = task /\ \E call : poll' = [poll EXCEPT ![p] = call]
    BY <1>9 DEF ProcessInbox, DrainInbox, DrainInboxFails, HandleAccepted, HandleRefused, GiveUp, SaveLocalState
  <2>2. task[p] = NoTask
    BY <1>5, <1>9 DEF ProcessInbox, DrainInbox, DrainInboxFails, HandleAccepted, HandleRefused, GiveUp,
                      SaveLocalState, Free
  <2> QED
    BY <1>3, <2>1, <2>2
<1>10. ASSUME NEW p \in Party, InitiateRefused(p) \/ InitiateSession(p) \/ InitiateNotPosted(p)
       PROVE  poll'[q].pc \in {"idle", "save"}
  <2>1. poll' = poll /\ task' = [task EXCEPT ![p] = NoTask] /\ Acquired(p)
    BY <1>10 DEF InitiateRefused, InitiateSession, InitiateNotPosted, StartInitial
  <2>2. task[p] # NoTask
    BY <2>1, TaskKinds DEF Acquired
  <2>3. poll[p].pc \in {"idle", "save"}
    BY <2>2 DEF BusyInv
  <2> QED
    BY <1>2, <2>1, <2>3
<1>11. ASSUME NEW p \in Party, SavePrekeys(p) PROVE poll'[q].pc \in {"idle", "save"}
  <2>1. task' = [task EXCEPT ![p] = NoTask]
    BY <1>11 DEF SavePrekeys
  <2>2. PICK ok \in BOOLEAN : poll' = [poll EXCEPT ![p].err = poll[p].err \/ (poll[p].pc = "save" /\ ~ok)]
    BY <1>11 DEF SavePrekeys
  <2>3. PICK call : poll' = [poll EXCEPT ![p] = call]
    BY <2>2
  <2> QED
    BY <1>4, <2>1, <2>3
<1>12. ASSUME NEW p \in Party, Republish(p) PROVE poll'[q].pc \in {"idle", "save"}
  <2>1. PICK err : poll' = [poll EXCEPT ![p].pc = "save", ![p].err = err]
                     \/ poll' = [poll EXCEPT ![p].pc = "save"]
    BY <1>12 DEF Republish
  <2>2. PICK call : /\ call = [poll[p] EXCEPT !.pc = "save", !.err = err] \/ call = [poll[p] EXCEPT !.pc = "save"]
                    /\ poll' = [poll EXCEPT ![p] = call]
    BY <2>1
  <2>3. call.pc = "save"
    BY <1>0, <2>2 DEF PollState
  <2>4. PICK t : task' = [task EXCEPT ![p] = t]
    <3>1. task = [task EXCEPT ![p] = task[p]]
      BY <1>0
    <3> QED
      BY <1>12, <3>1 DEF Republish, Publish, PublishFails
  <2> QED
    BY <1>4, <2>2, <2>3, <2>4
<1>13. ASSUME NEW p \in Party, Restart(p) \/ InitiateCrash(p) \/ LoseStateFile(p)
       PROVE  poll'[q].pc \in {"idle", "save"}
  <2>1. poll' = [poll EXCEPT ![p] = Idle] /\ task' = [task EXCEPT ![p] = NoTask]
    BY <1>13 DEF Restart, InitiateCrash, Recreate, LoseStateFile
  <2> QED
    BY <1>4, <2>1
<1> QED
  BY <1>6, <1>7, <1>8, <1>9, <1>10, <1>11, <1>12, <1>13 DEF Next, CallStep

\* Every step keeps what was accepted acknowledged.
LEMMA AckStep ==
    TypeInv /\ PairInv /\ PostInv /\ GuardInv /\ ReadInv /\ BusyInv /\ AckInv /\ [Next]_vars => AckInv'
<1> SUFFICES ASSUME TypeInv, PairInv, PostInv, GuardInv, ReadInv, BusyInv, AckInv, [Next]_vars PROVE AckInv'
  OBVIOUS
<1>0. cause \subseteq cause'
  BY CauseGrows
<1>1. CASE UNCHANGED vars
  BY <1>1 DEF vars, store, history, AckInv
<1>2. ASSUME NEW p \in Party,
             \/ PublishPrekeys(p) \/ SavePrekeys(p) \/ (\E q \in Party : AcquireBundle(p, q))
             \/ (\E q \in Party : VerifyPeerSafetyNumber(p, q)) \/ InitiateRefused(p)
             \/ InitiateNotPosted(p) \/ GiveUp(p) \/ SaveLocalState(p) \/ Republish(p)
      PROVE  AckInv'
  BY <1>0, <1>2, AckStill
<1>3. ASSUME NEW p \in Party, InitiateSession(p) PROVE AckInv'
  <2>1. PICK c \in ClientState, d \in ClientState :
          /\ Leaves(p, c, d) /\ (d = disk[p] \/ d = c) /\ Acquired(p) /\ task[p].pair # None
          /\ c = WithSession(mem[p], task[p].peer, task[p].identity, Begun(p))
    BY <1>3, BeginEffect
  <2>2. PICK q \in Party, n \in Nat, m \in Initial, b \in ClientState :
          q = task[p].peer /\ n = task[p].identity /\ m = Begun(p) /\ b = mem[p] /\ Limits(b)
    BY <2>1, BegunTypes, UserTypes
  <2>3. c = WithSession(b, q, n, m)
    BY <2>1, <2>2
  <2>4. c.accepted = b.accepted /\ c.pending = b.pending
    BY <2>2, <2>3, EstablishedSame
  <2>5. KeepsReading(p, c, d, poll[p])
    BY <2>1, <2>2, <2>4 DEF KeepsReading
  <2>6. poll[p].pc # "handle"
    <3>1. task[p] # NoTask
      BY <2>1, TaskKinds DEF Acquired
    <3> QED
      BY <3>1 DEF BusyInv
  <2>7. "replayed" \notin cause => AckAt(c, d, poll[p], inbox[p], cause')
    BY <1>0, <2>5, <2>6, AckKept
  <2>8. poll' = poll /\ PostInitial(p)
    BY <1>3 DEF InitiateSession, StartInitial
  <2>9. poll' = [poll EXCEPT ![p] = poll[p]]
    BY <2>8, SavedCallSame
  <2> QED
    BY <1>0, <2>1, <2>7, <2>8, <2>9, AckPosted
<1>4. ASSUME NEW p \in Party, ProcessInbox(p) PROVE AckInv'
  <2>1. PICK call : call = StartPoll(mem[p].pending)
    OBVIOUS
  <2>2. /\ poll' = [poll EXCEPT ![p] = call] /\ inbox' = inbox /\ mem' = mem /\ disk' = disk
        /\ poll[p].pc = "idle"
    BY <1>4, <2>1 DEF ProcessInbox, store, Free
  <2>3. call.pc # "handle"
    BY <2>1 DEF StartPoll, Idle
  <2>4. "replayed" \notin cause => AckAt(mem[p], disk[p], call, inbox[p], cause')
    <3>1. Reached(mem[p], call) = Reached(mem[p], poll[p])
      BY <2>2, <2>3 DEF Reached
    <3> QED
      BY <1>0, <3>1 DEF AckInv, AckAt
  <2>5. inbox' = [inbox EXCEPT ![p] = inbox[p]] /\ Leaves(p, mem[p], disk[p])
    BY <2>2, Unchanged, StillClients DEF TypeInv, StoreTypes
  <2> QED
    BY <1>0, <2>2, <2>4, <2>5, AckStepOf
<1>5. ASSUME NEW p \in Party, DrainInbox(p) PROVE AckInv'
  <2>1. PICK b \in ClientState, e \in ClientState, old \in PollState(Entry), box \in Seq(Entry),
             next \in Nat \ {0} :
          b = mem[p] /\ e = disk[p] /\ old = poll[p] /\ box = inbox[p] /\ next = nextId[p]
    BY UserTypes
  <2>2. ReadAt(b, e, old, box, next) /\ ("replayed" \notin cause => AckAt(b, e, old, box, cause))
    BY <2>1 DEF ReadInv, AckInv
  <2>3. PICK left : left = DropAcked(box, old.ack)
    OBVIOUS
  <2>4. /\ old.pc = "drain" /\ inbox' = [inbox EXCEPT ![p] = left] /\ disk' = disk
        /\ mem' = [mem EXCEPT ![p] = [b EXCEPT !.pending = 0]]
        /\ \E n \in PageLengths(left) : poll' = [poll EXCEPT ![p] = Served(old, PageOf(left, n))]
    BY <1>5, <2>1, <2>3 DEF DrainInbox
  <2>5. PICK page, call : call = Served(old, page) /\ poll' = [poll EXCEPT ![p] = call]
    BY <2>4
  <2>6. PICK c : c = [b EXCEPT !.pending = 0]
    OBVIOUS
  <2>7. c.accepted = b.accepted /\ c.pending = 0
    BY <2>6, PendingSame
  <2>8. "replayed" \notin cause => AckAt(c, e, call, left, cause)
    BY <2>2, <2>3, <2>4, <2>5, <2>7, AckServed
  <2>9. "replayed" \notin cause => AckAt(c, e, call, left, cause')
    BY <1>0, <2>8, AckMore
  <2>10. Leaves(p, c, e)
    BY <2>1, <2>4, <2>6 DEF Leaves, TypeInv, ClientTypes
  <2> QED
    BY <1>0, <2>4, <2>5, <2>9, <2>10, AckStepOf
<1>6. ASSUME NEW p \in Party, DrainInboxFails(p) PROVE AckInv'
  <2>1. PICK b \in ClientState, e \in ClientState, old \in PollState(Entry), box \in Seq(Entry),
             next \in Nat \ {0} :
          b = mem[p] /\ e = disk[p] /\ old = poll[p] /\ box = inbox[p] /\ next = nextId[p]
    BY UserTypes
  <2>2. ReadAt(b, e, old, box, next) /\ ("replayed" \notin cause => AckAt(b, e, old, box, cause))
    BY <2>1 DEF ReadInv, AckInv
  <2>3. PICK left : /\ left = box \/ left = DropAcked(box, old.ack)
                    /\ inbox' = [inbox EXCEPT ![p] = left]
    BY <1>6, <2>1, Unchanged DEF DrainInboxFails, TypeInv, StoreTypes
  <2>4. /\ old.pc = "drain" /\ disk' = disk
        /\ mem' = [mem EXCEPT ![p] = [b EXCEPT !.pending = IF old.ack # 0 THEN old.ack ELSE b.pending]]
        /\ poll' = [poll EXCEPT ![p] = NotServed(old)]
    BY <1>6, <2>1 DEF DrainInboxFails
  <2>5. old.ack = b.pending /\ Ordered(box) /\ old.ack \in Nat
    BY <2>2, <2>4 DEF ReadAt, PollState
  <2>6. PICK c : /\ c = [b EXCEPT !.pending = IF old.ack # 0 THEN old.ack ELSE b.pending]
                 /\ c.accepted = b.accepted /\ c.pending = b.pending
    <3>1. PICK k \in Nat : k = IF old.ack # 0 THEN old.ack ELSE b.pending
      BY <2>5
    <3>2. k = b.pending
      BY <2>5, <3>1
    <3>3. PICK c : c = [b EXCEPT !.pending = k]
      OBVIOUS
    <3>4. c.accepted = b.accepted /\ c.pending = k
      BY <3>3, PendingSame
    <3> QED
      BY <3>1, <3>2, <3>3, <3>4
  <2>7. PICK call : call = NotServed(old)
    OBVIOUS
  <2>8. call.pc # "handle"
    BY <2>7 DEF NotServed, PollState, Idle
  <2>9. Entries(left) \subseteq Entries(box)
    <3>1. PICK ack \in Nat : ack = old.ack
      BY <2>5
    <3>2. Entries(DropAcked(box, ack)) \subseteq Entries(box)
      BY <2>5, EntryIds, Dropped
    <3> QED
      BY <2>3, <3>1, <3>2
  <2>10. "replayed" \notin cause => AckAt(c, e, call, left, cause)
    <3> SUFFICES ASSUME "replayed" \notin cause PROVE AckAt(c, e, call, left, cause)
      OBVIOUS
    <3>1. AckAt(b, e, old, box, cause) /\ old.pc = "drain" /\ c.accepted = b.accepted /\ c.pending = b.pending
      BY <2>2, <2>4, <2>6
    <3> QED
      BY <2>8, <2>9, <3>1, AckNotServed
  <2>11. "replayed" \notin cause => AckAt(c, e, call, left, cause')
    BY <1>0, <2>10, AckMore
  <2>12. Leaves(p, c, e)
    BY <2>1, <2>4, <2>6 DEF Leaves, TypeInv, ClientTypes
  <2> QED
    BY <1>0, <2>3, <2>4, <2>7, <2>11, <2>12, AckStepOf
<1>7. ASSUME NEW p \in Party, HandleAccepted(p) PROVE AckInv'
  <2>1. PICK c \in ClientState, m \in posted[p] :
          /\ Leaves(p, c, disk[p]) /\ m = Head(poll[p].page).env /\ m \in Initial
          /\ poll[p].pc = "handle" /\ poll' = [poll EXCEPT ![p] = Handled(poll[p])]
          /\ c.accepted = Append(mem[p].accepted, m)
          /\ c.pending = PendingAfter(Handled(poll[p]), mem[p].pending)
    BY <1>7, AcceptsHead
  <2>2. PICK b \in ClientState, e \in ClientState, old \in PollState(Entry), box \in Seq(Entry),
             next \in Nat \ {0} :
          b = mem[p] /\ e = disk[p] /\ old = poll[p] /\ box = inbox[p] /\ next = nextId[p]
    BY UserTypes
  <2>3. PageOpen(old, box) /\ ("replayed" \notin cause => AckAt(b, e, old, box, cause))
    BY <2>1, <2>2 DEF ReadInv, ReadAt, AckInv
  <2>4. PICK call : call = Handled(old)
    OBVIOUS
  <2>5. \A n : HasAccepted(c, n) => HasAccepted(b, n) \/ n = Head(old.page).env
    <3>1. m \in Initial /\ c.accepted = Append(b.accepted, m) /\ m = Head(old.page).env
      BY <2>1, <2>2
    <3>2. \A n : HasAccepted(c, n) <=> HasAccepted(b, n) \/ n = m
      BY <3>1, AcceptedMore
    <3> QED
      BY <3>1, <3>2
  <2>6. c.pending = PendingAfter(call, b.pending) /\ old.pc = "handle" /\ poll' = [poll EXCEPT ![p] = call]
    BY <2>1, <2>2, <2>4
  <2>7. "replayed" \notin cause => AckAt(c, e, call, box, cause)
    BY <2>3, <2>4, <2>5, <2>6, AckHandled
  <2>8. "replayed" \notin cause => AckAt(c, e, call, box, cause')
    BY <1>0, <2>7, AckMore
  <2>9. inbox' = [inbox EXCEPT ![p] = box]
    BY <1>7, <2>2, Unchanged DEF HandleAccepted, store, TypeInv, StoreTypes
  <2> QED
    BY <1>0, <2>1, <2>2, <2>6, <2>8, <2>9, AckStepOf
<1>8. ASSUME NEW p \in Party, HandleRefused(p) PROVE AckInv'
  <2>1. PICK c \in ClientState, d \in ClientState :
          /\ Leaves(p, c, d) /\ poll[p].pc = "handle"
          /\ poll' = [poll EXCEPT ![p] = Refused(poll[p])] /\ c.accepted = mem[p].accepted
          /\ c.pending = PendingAfter(Refused(poll[p]), mem[p].pending)
          /\ d = disk[p] \/ (d.accepted = mem[p].accepted /\ d.pending = mem[p].pending)
    BY <1>8, RefusesHead
  <2>2. PICK b \in ClientState, e \in ClientState, old \in PollState(Entry), box \in Seq(Entry) :
          b = mem[p] /\ e = disk[p] /\ old = poll[p] /\ box = inbox[p]
    BY UserTypes
  <2>3. PICK call : call = Refused(old)
    OBVIOUS
  <2>4. /\ c.pending = PendingAfter(call, b.pending) /\ old.pc = "handle" /\ poll' = [poll EXCEPT ![p] = call]
        /\ c.accepted = b.accepted /\ (d = e \/ (d.accepted = b.accepted /\ d.pending \in Nat))
    BY <2>1, <2>2, <2>3, Fields
  <2>5. d = e \/ old.done = 0 \/ "midpage" \in cause'
    <3>1. disk' = disk \/ poll[p].done = 0 \/ "midpage" \in cause'
      BY <1>8, MidPageSave
    <3>2. disk'[p] = d
      BY <2>1, Left DEF TypeInv
    <3> QED
      BY <2>2, <3>1, <3>2
  <2>6. "replayed" \notin cause => AckAt(b, e, old, box, cause)
    BY <2>2 DEF AckInv
  <2>7. "replayed" \notin cause => AckAt(c, d, call, box, cause')
    <3>1. PICK before, causes : before = cause /\ causes = cause' /\ before \subseteq causes
      BY <1>0
    <3>2. d = e \/ old.done = 0 \/ "midpage" \in causes
      BY <2>5, <3>1
    <3>3. "replayed" \notin cause => AckAt(b, e, old, box, before)
      BY <2>6, <3>1
    <3>4. "replayed" \notin cause => AckAt(c, d, call, box, causes)
      BY <2>3, <2>4, <3>1, <3>2, <3>3, AckRefused
    <3> QED
      BY <3>1, <3>4
  <2>8. inbox' = [inbox EXCEPT ![p] = box]
    BY <1>8, <2>2, Unchanged DEF HandleRefused, store, TypeInv, StoreTypes
  <2> QED
    BY <1>0, <2>1, <2>4, <2>7, <2>8, AckStepOf
<1>9. ASSUME NEW p \in Party, Restart(p) \/ InitiateCrash(p) PROVE AckInv'
  <2>1. PICK e \in ClientState : e = disk[p]
    BY UserTypes
  <2>2. Recreate(p) /\ cause \cup Lost(p) \subseteq cause'
    BY <1>9 DEF Restart, InitiateCrash
  <2>3. PICK c : c = Refill(p, e)
    OBVIOUS
  <2>4. Leaves(p, c, c) /\ poll' = [poll EXCEPT ![p] = Idle]
    BY <2>1, <2>2, <2>3, RecreateEffect DEF Recreate
  <2>5. c.accepted = disk[p].accepted /\ c.pending = disk[p].pending
    BY <2>1, <2>3 DEF Refill, ClientState
  <2>6. "replayed" \notin cause => AckAt(c, c, Idle, inbox[p], cause')
    BY <2>2, <2>5, AckRestarted
  <2>7. CASE Restart(p)
    <3>1. inbox' = [inbox EXCEPT ![p] = inbox[p]]
      BY <2>7, Unchanged DEF Restart, store, TypeInv, StoreTypes
    <3> QED
      BY <1>0, <2>4, <2>6, <3>1, AckStepOf
  <2>8. CASE InitiateCrash(p)
    <3>1. Acquired(p) /\ task[p].pair # None /\ PostInitial(p)
      BY <2>8 DEF InitiateCrash
    <3> QED
      BY <1>0, <2>4, <2>6, <3>1, AckPosted
  <2> QED
    BY <1>9, <2>7, <2>8
<1>10. ASSUME NEW p \in Party, LoseStateFile(p) PROVE AckInv'
  <2>1. PICK c \in ClientState :
          Leaves(p, c, c) /\ c = NewClient(mem[p].self + 1, FreshPool(p, made[p]))
    BY <1>10, LossEffect
  <2>2. c.accepted = <<>>
    BY <2>1 DEF NewClient
  <2>3. \A box, a : Within(c, box, a)
    BY <2>2 DEF Within, HasAccepted
  <2>4. "replayed" \notin cause => AckAt(c, c, Idle, inbox[p], cause')
    BY <2>3 DEF AckInv, AckAt
  <2>5. poll' = [poll EXCEPT ![p] = Idle] /\ inbox' = [inbox EXCEPT ![p] = inbox[p]]
    BY <1>10, Unchanged DEF LoseStateFile, store, TypeInv, StoreTypes
  <2> QED
    BY <1>0, <2>1, <2>4, <2>5, AckStepOf
<1>11. ASSUME NEW p \in Party, Replay(p) PROVE AckInv'
  <2>1. "replayed" \in cause'
    BY <1>11 DEF Replay
  <2> QED
    BY <2>1 DEF AckInv
<1> QED
  BY <1>1, <1>2, <1>3, <1>4, <1>5, <1>6, <1>7, <1>8, <1>9, <1>10, <1>11 DEF Next, CallStep

\* Nothing has been accepted yet.
LEMMA InitialAck == Init => BusyInv /\ AckInv
<1> SUFFICES ASSUME Init, NEW p \in Party
             PROVE  task[p] = NoTask /\ AckAt(mem[p], disk[p], poll[p], inbox[p], cause)
  BY DEF BusyInv, AckInv
<1>1. task[p] = NoTask /\ inbox[p] = <<>>
  BY DEF Init
<1>2. Entries(inbox[p]) = {}
  BY <1>1, EmptyBox
<1> QED
  BY <1>1, <1>2 DEF AckAt, Single, Within

\* ProcessInbox never meets an initial message that its client has accepted,
\* for any number of users, messages and pages and whatever fails, is not saved
\* or crashes, unless the message reached the mailbox twice, or a first contact
\* was saved in the middle of a page and the client died before the
\* acknowledgement of what came before it was in the state file.
THEOREM RereadsHaveACause == Spec => []RereadHasCause
<1>1. Init => TypeInv /\ PairInv /\ HoldInv /\ ReadInv /\ BusyInv /\ AckInv
  BY InitialTypes, InitialPairs, InitialHold, InitialRead, InitialAck
<1>2. TypeInv /\ PairInv /\ HoldInv /\ ReadInv /\ BusyInv /\ AckInv /\ [Next]_vars
        => (TypeInv /\ PairInv /\ HoldInv /\ ReadInv /\ BusyInv /\ AckInv)'
  <2>1. HoldInv => PostInv /\ GuardInv
    BY DEF HoldInv
  <2> QED
    BY <2>1, TypeStep, PairStep, HoldStep, ReadStep, BusyStep, AckStep
<1>3. TypeInv /\ ReadInv /\ AckInv => RereadHasCause
  <2> SUFFICES ASSUME TypeInv, ReadInv, AckInv, ~AckLost, "replayed" \notin cause, NEW p \in Party,
                      poll[p].pc = "handle", HasAccepted(mem[p], Head(poll[p].page).env)
               PROVE  FALSE
    BY DEF RereadHasCause
  <2>1. PICK old \in PollState(Entry), box \in Seq(Entry) : old = poll[p] /\ box = inbox[p]
    BY UserTypes
  <2>2. PageOpen(old, box)
    BY <2>1 DEF ReadInv, ReadAt
  <2>3. PICK h : h = Head(old.page) /\ h \in Entries(box) /\ h.id \in Nat /\ old.done \in Nat /\ old.done < h.id
    BY <2>2, HeadOfPage
  <2>4. Within(mem[p], box, old.done)
    <3>1. AckAt(mem[p], disk[p], poll[p], inbox[p], cause)
      BY DEF AckInv
    <3>2. Reached(mem[p], poll[p]) = old.done
      BY <2>1 DEF Reached
    <3> QED
      BY <2>1, <3>1, <3>2 DEF AckAt, AckLost
  <2>5. h.id <= old.done
    BY <2>1, <2>3, <2>4 DEF Within
  <2> QED
    BY <2>3, <2>5
<1> QED
  BY <1>1, <1>2, <1>3, PTL DEF Spec
====
