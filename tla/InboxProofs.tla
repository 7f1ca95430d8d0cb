---- MODULE InboxProofs ----
(***************************************************************************)
(* What the store does to a mailbox (InboxStore) and what the loop of      *)
(* ProcessInbox keeps about it (InboxPoll), for every page size and number *)
(* of passes.  A mailbox is used through the ids and entries in it.        *)
(***************************************************************************)
EXTENDS InboxStore, InboxPoll, WellFoundedInduction, TLAPS

\* A set of entries with ids from one on, and mailboxes of them.
HasIds(E) == \A e \in E : e.id \in Nat \ {0}
Entries(box) == {box[i] : i \in DOMAIN box}
Ordered(box) == \A i, j \in DOMAIN box : i < j => box[i].id < box[j].id

----------------------------------------------------------------------------
\* The store.

\* A non-empty set of positions has a first one.
LEMMA FirstPosition ==
    ASSUME NEW S \in SUBSET Nat, S # {}
    PROVE  \E i \in S : \A j \in S : i <= j
<1>1. PICK i \in S : \A j \in S : ~(<<j, i>> \in OpToRel(<, Nat))
  BY NatLessThanWellFounded, WFMin
<1>2. \A j \in S : ~(j < i)
  BY <1>1 DEF OpToRel
<1> QED
  BY <1>2

\* The ids of a mailbox are those of its entries.
LEMMA IdsOfEntries ==
    ASSUME NEW box
    PROVE  InboxIds(box) = {e.id : e \in Entries(box)}
BY DEF InboxIds, Entries

\* The ids and the entries of a mailbox have their kind.
LEMMA BoxTypes ==
    ASSUME NEW E, HasIds(E), NEW box \in Seq(E)
    PROVE  InboxIds(box) \subseteq Nat \ {0} /\ Entries(box) \subseteq E
BY DEF InboxIds, Entries, HasIds

\* The empty mailbox.
LEMMA EmptyBox ==
    ASSUME NEW E
    PROVE  /\ <<>> \in Seq(E) /\ Ordered(<<>>)
           /\ InboxIds(<<>>) = {} /\ Entries(<<>>) = {}
BY DEF Ordered, InboxIds, Entries

\* EnqueueEnvelope puts one entry behind the others.
LEMMA Enqueued ==
    ASSUME NEW E, HasIds(E), NEW box \in Seq(E), Ordered(box), NEW id, NEW env,
           [id |-> id, env |-> env] \in E, \A x \in InboxIds(box) : x < id
    PROVE  /\ EnqueueEnvelope(box, id, env) \in Seq(E)
           /\ Ordered(EnqueueEnvelope(box, id, env))
           /\ InboxIds(EnqueueEnvelope(box, id, env)) = InboxIds(box) \cup {id}
           /\ Entries(EnqueueEnvelope(box, id, env)) = Entries(box) \cup {[id |-> id, env |-> env]}
<1> DEFINE e == [id |-> id, env |-> env]
           new == Append(box, e)
<1>1. e.id = id /\ e \in E
  OBVIOUS
<1> HIDE DEF e
<1>2. /\ new \in Seq(E) /\ DOMAIN new = DOMAIN box \cup {Len(box) + 1}
      /\ \A i \in DOMAIN box : new[i] = box[i] /\ i \in 1 .. Len(box)
      /\ new[Len(box) + 1] = e /\ Len(box) \in Nat /\ DOMAIN box \subseteq Nat
  BY <1>1
<1> HIDE DEF new
<1>3. \A i \in DOMAIN box : box[i].id < id
  BY DEF InboxIds
<1>4. Ordered(new)
  <2> SUFFICES ASSUME NEW i \in DOMAIN new, NEW j \in DOMAIN new, i < j PROVE new[i].id < new[j].id
    BY DEF Ordered
  <2>1. CASE j \in DOMAIN box
    BY <1>2, <2>1 DEF Ordered
  <2>2. CASE j = Len(box) + 1
    BY <1>1, <1>2, <1>3, <2>2
  <2> QED
    BY <1>2, <2>1, <2>2
<1>5. Entries(new) = Entries(box) \cup {e}
  BY <1>2 DEF Entries
<1>6. InboxIds(new) = InboxIds(box) \cup {id}
  BY <1>1, <1>2 DEF InboxIds
<1>7. EnqueueEnvelope(box, id, env) = new
  BY DEF EnqueueEnvelope, new, e
<1> QED
  BY <1>2, <1>4, <1>5, <1>6, <1>7 DEF e

\* DrainInbox deletes the entries up to the acknowledgement and no other.
LEMMA Dropped ==
    ASSUME NEW E, HasIds(E), NEW box \in Seq(E), Ordered(box), NEW ack \in Nat
    PROVE  /\ DropAcked(box, ack) \in Seq(E)
           /\ Ordered(DropAcked(box, ack))
           /\ InboxIds(DropAcked(box, ack)) = {x \in InboxIds(box) : x > ack}
           /\ Entries(DropAcked(box, ack)) \subseteq Entries(box)
<1> DEFINE kept == {i \in DOMAIN box : box[i].id > ack}
           left == DropAcked(box, ack)
<1>0. \A i \in DOMAIN box : box[i] \in E /\ box[i].id \in Nat
  BY DEF HasIds
<1>1. CASE kept = {}
  <2>1. left = <<>>
    BY <1>1 DEF DropAcked, BoxFrom
  <2>2. {x \in InboxIds(box) : x > ack} = {}
    BY <1>1 DEF InboxIds
  <2> QED
    BY <2>1, <2>2, EmptyBox
<1>2. CASE kept # {}
  <2>1. kept \in SUBSET Nat
    OBVIOUS
  <2>2. PICK first \in kept : /\ first = CHOOSE i \in kept : \A j \in kept : i <= j
                              /\ \A j \in kept : first <= j
    BY <1>2, <2>1, FirstPosition
  <2>3. left = SubSeq(box, first, Len(box)) /\ first \in 1 .. Len(box) /\ Len(box) \in Nat
    <3>1. left = SubSeq(box, first, Len(box))
      BY <1>2, <2>2, Zenon DEF DropAcked, BoxFrom
    <3>2. first \in 1 .. Len(box) /\ Len(box) \in Nat
      OBVIOUS
    <3> QED
      BY <3>1, <3>2
  <2> HIDE DEF left
  <2>4. /\ left \in Seq(E) /\ Len(left) = Len(box) - first + 1
        /\ \A i \in 1 .. Len(left) : left[i] = box[first + i - 1] /\ first + i - 1 \in DOMAIN box
    BY <2>3
  <2>5. \A i \in DOMAIN box : i >= first => i - first + 1 \in 1 .. Len(left) /\ left[i - first + 1] = box[i]
    BY <2>3, <2>4
  <2>6. \A i \in DOMAIN box : i \in kept <=> i >= first
    <3>1. box[first].id > ack
      BY <2>2
    <3> QED
      BY <1>0, <2>2, <2>3, <3>1, SMTT(30) DEF Ordered
  <2>7. Ordered(left)
    BY <2>3, <2>4, SMTT(30) DEF Ordered
  <2>8. Entries(left) \subseteq Entries(box)
    BY <2>4 DEF Entries
  <2>9. InboxIds(left) = {x \in InboxIds(box) : x > ack}
    <3>1. ASSUME NEW x \in InboxIds(left) PROVE x \in InboxIds(box) /\ x > ack
      <4>1. PICK i \in 1 .. Len(left) : x = left[i].id
        BY <2>4 DEF InboxIds
      <4>2. first + i - 1 \in kept /\ x = box[first + i - 1].id
        BY <2>3, <2>4, <2>6, <4>1
      <4> QED
        BY <4>2 DEF InboxIds
    <3>2. ASSUME NEW x \in InboxIds(box), x > ack PROVE x \in InboxIds(left)
      <4>1. PICK i \in kept : x = box[i].id
        BY <3>2 DEF InboxIds
      <4>2. i - first + 1 \in DOMAIN left /\ left[i - first + 1] = box[i]
        BY <2>4, <2>5, <2>6, <4>1
      <4> QED
        BY <4>1, <4>2 DEF InboxIds
    <3> QED
      BY <3>1, <3>2
  <2> QED
    BY <2>4, <2>7, <2>8, <2>9 DEF left
<1> QED
  BY <1>1, <1>2

\* Its page is the front of the mailbox, and only an empty one gives an empty
\* page.
LEMMA Paged ==
    ASSUME NEW E, HasIds(E), NEW box \in Seq(E), Ordered(box), NEW n \in PageLengths(box)
    PROVE  /\ PageOf(box, n) \in Seq(E)
           /\ Ordered(PageOf(box, n))
           /\ Entries(PageOf(box, n)) \subseteq Entries(box)
           /\ InboxIds(PageOf(box, n)) \subseteq InboxIds(box)
           /\ \A x \in InboxIds(box), y \in InboxIds(PageOf(box, n)) :
                x <= y => x \in InboxIds(PageOf(box, n))
           /\ PageOf(box, n) = <<>> => InboxIds(box) = {}
<1> DEFINE page == PageOf(box, n)
<1>0. \A i \in DOMAIN box : box[i] \in E /\ box[i].id \in Nat
  BY DEF HasIds
<1>1. n \in 0 .. Len(box) /\ (n = 0 => box = <<>>)
  BY PageMaxAssumption DEF PageLengths
<1>2. page \in Seq(E) /\ Len(page) = n /\ \A i \in 1 .. n : page[i] = box[i] /\ i \in DOMAIN box
  BY <1>1 DEF PageOf
<1> HIDE DEF page
<1>3. Ordered(page) /\ Entries(page) \subseteq Entries(box) /\ InboxIds(page) \subseteq InboxIds(box)
  BY <1>2 DEF Ordered, Entries, InboxIds
<1>4. ASSUME NEW x \in InboxIds(box), NEW y \in InboxIds(page), x <= y PROVE x \in InboxIds(page)
  <2>1. PICK i \in DOMAIN box, j \in 1 .. n : x = box[i].id /\ y = box[j].id /\ j \in DOMAIN box
    BY <1>2 DEF InboxIds
  <2>2. i \in 1 .. n
    BY <1>0, <1>1, <1>4, <2>1 DEF Ordered
  <2> QED
    BY <1>2, <2>1, <2>2 DEF InboxIds
<1>5. page = <<>> => InboxIds(box) = {}
  BY <1>1, <1>2, EmptyBox
<1> QED
  BY <1>2, <1>3, <1>4, <1>5 DEF page

\* The first entry of an ordered page, and what is left behind it.
LEMMA Headed ==
    ASSUME NEW E, HasIds(E), NEW page \in Seq(E), Ordered(page), page # <<>>
    PROVE  /\ Head(page) \in Entries(page) /\ Head(page) \in E
           /\ Tail(page) \in Seq(E) /\ Ordered(Tail(page))
           /\ Entries(Tail(page)) \subseteq Entries(page)
           /\ InboxIds(page) = {Head(page).id} \cup InboxIds(Tail(page))
           /\ \A x \in InboxIds(Tail(page)) : Head(page).id < x
<1> DEFINE rest == Tail(page)
<1>1. /\ rest \in Seq(E) /\ Len(page) \in Nat /\ Len(page) >= 1 /\ Len(rest) = Len(page) - 1
      /\ \A i \in 1 .. Len(rest) : rest[i] = page[i + 1] /\ i + 1 \in DOMAIN page
      /\ Head(page) = page[1] /\ 1 \in DOMAIN page
      /\ DOMAIN rest = 1 .. Len(rest) /\ DOMAIN page = 1 .. Len(page)
  OBVIOUS
<1> HIDE DEF rest
<1>2. \A i \in DOMAIN page : i = 1 \/ (i - 1 \in 1 .. Len(rest) /\ rest[i - 1] = page[i])
  BY <1>1
<1>3. Ordered(rest)
  <2> SUFFICES ASSUME NEW i \in 1 .. Len(rest), NEW j \in 1 .. Len(rest), i < j
               PROVE  rest[i].id < rest[j].id
    BY <1>1 DEF Ordered
  <2>1. i + 1 \in DOMAIN page /\ j + 1 \in DOMAIN page /\ i + 1 < j + 1
    BY <1>1
  <2>2. page[i + 1].id < page[j + 1].id
    BY <2>1 DEF Ordered
  <2> QED
    BY <1>1, <2>2
<1>4. Entries(rest) \subseteq Entries(page)
  BY <1>1 DEF Entries
<1>5. \A x \in InboxIds(rest) : Head(page).id < x
  <2>1. \A i \in 1 .. Len(rest) : Head(page).id < rest[i].id
    BY <1>1 DEF Ordered
  <2> QED
    BY <1>1, <2>1 DEF InboxIds
<1>6. InboxIds(page) = {Head(page).id} \cup InboxIds(rest)
  <2>1. ASSUME NEW x \in InboxIds(page) PROVE x \in {Head(page).id} \cup InboxIds(rest)
    <3>1. PICK i \in DOMAIN page : x = page[i].id
      BY DEF InboxIds
    <3> QED
      BY <1>1, <1>2, <3>1 DEF InboxIds
  <2>2. ASSUME NEW x \in InboxIds(rest) PROVE x \in InboxIds(page)
    <3>1. PICK i \in 1 .. Len(rest) : x = rest[i].id
      BY <1>1 DEF InboxIds
    <3> QED
      BY <1>1, <3>1 DEF InboxIds
  <2>3. Head(page).id \in InboxIds(page)
    BY <1>1 DEF InboxIds
  <2> QED
    BY <2>1, <2>2, <2>3
<1> QED
  BY <1>1, <1>3, <1>4, <1>5, <1>6 DEF rest, Entries

----------------------------------------------------------------------------
\* The loop of ProcessInbox.  H is the set of the ids it has handled.

\* The handled entries of the mailbox are those up to a, and no entry behind
\* them comes before one that was handled, deleted ones included.
UpTo(box, H, a) ==
    \A x \in InboxIds(box) : IF x <= a THEN x \in H ELSE \A h \in H : h < x

\* What is left of the page is what follows the last handled entry.
PageOpen(poll, box) ==
    /\ poll.page # <<>> /\ Ordered(poll.page)
    /\ Entries(poll.page) \subseteq Entries(box)
    /\ \A x \in InboxIds(poll.page) : poll.done < x
    /\ \A x \in InboxIds(box), y \in InboxIds(poll.page) :
         poll.done < x /\ x <= y => x \in InboxIds(poll.page)

\* The acknowledgement that is pending, or the one the page will leave, covers
\* exactly what was handled.
PollOk(poll, box, H, pending) ==
    /\ poll.pc = "handle" => PageOpen(poll, box) /\ UpTo(box, H, poll.done)
    /\ poll.pc # "handle" => poll.page = <<>> /\ UpTo(box, H, pending)
    /\ poll.pc = "drain" => poll.ack = pending
    /\ poll.pc \in {"drain", "handle"} => poll.pass < MaxPasses

\* The page holds nothing that was handled.
LEMMA PageUnhandled ==
    ASSUME NEW poll, NEW box, NEW H \in SUBSET Nat, NEW pending, PollOk(poll, box, H, pending),
           NEW E, HasIds(E), box \in Seq(E), poll \in PollState(E)
    PROVE  InboxIds(poll.page) \cap H = {}
<1>1. CASE poll.pc = "handle"
  <2>1. /\ \A x \in InboxIds(poll.page) : poll.done < x /\ x \in InboxIds(box)
        /\ UpTo(box, H, poll.done)
    BY <1>1, IdsOfEntries DEF PollOk, PageOpen
  <2>2. poll.done \in Nat /\ InboxIds(box) \subseteq Nat
    BY BoxTypes DEF PollState
  <2>3. ASSUME NEW x \in InboxIds(poll.page), x \in H PROVE FALSE
    <3>1. x < x /\ x \in Nat
      BY <2>1, <2>2, <2>3 DEF UpTo
    <3> QED
      BY <3>1
  <2> QED
    BY <2>3
<1>2. CASE poll.pc # "handle"
  BY <1>2, EmptyBox DEF PollOk
<1> QED
  BY <1>1, <1>2

\* New mail changes nothing: its id is above every one so far.
LEMMA NewMailUpTo ==
    ASSUME NEW box, NEW new, NEW H, NEW a \in Nat, NEW id \in Nat, UpTo(box, H, a),
           InboxIds(new) = InboxIds(box) \cup {id}, a < id, \A h \in H : h < id
    PROVE  UpTo(new, H, a)
BY DEF UpTo

\* A new envelope disturbs no call in progress.
LEMMA NewMail ==
    ASSUME NEW E, HasIds(E), NEW poll \in PollState(E), NEW box \in Seq(E), Ordered(box), NEW H,
           NEW pending \in Nat, PollOk(poll, box, H, pending),
           NEW id \in Nat, NEW env, [id |-> id, env |-> env] \in E, \A x \in InboxIds(box) : x < id,
           pending < id, poll.done < id, \A h \in H : h < id
    PROVE  PollOk(poll, EnqueueEnvelope(box, id, env), H, pending)
<1> DEFINE new == EnqueueEnvelope(box, id, env)
<1>1. InboxIds(new) = InboxIds(box) \cup {id} /\ Entries(box) \subseteq Entries(new)
  BY Enqueued
<1> SUFFICES PollOk(poll, new, H, pending)
  OBVIOUS
<1> HIDE DEF new
<1>2. poll.done \in Nat /\ InboxIds(box) \subseteq Nat
  BY BoxTypes DEF PollState
<1>3. CASE poll.pc = "handle"
  <2>1. InboxIds(poll.page) \subseteq InboxIds(box)
    BY <1>3, IdsOfEntries DEF PollOk, PageOpen
  <2>2. ~(\E y \in InboxIds(poll.page) : id <= y)
    BY <1>2, <2>1
  <2>3. PageOpen(poll, box) /\ UpTo(box, H, poll.done)
    BY <1>3 DEF PollOk
  <2>4. \A x \in InboxIds(new), y \in InboxIds(poll.page) :
          poll.done < x /\ x <= y => x \in InboxIds(poll.page)
    BY <1>1, <2>2, <2>3 DEF PageOpen
  <2>5. PageOpen(poll, new)
    BY <1>1, <2>3, <2>4 DEF PageOpen
  <2>6. UpTo(new, H, poll.done)
    BY <1>1, <1>2, <2>3, NewMailUpTo
  <2> QED
    BY <1>3, <2>5, <2>6 DEF PollOk
<1>4. CASE poll.pc # "handle"
  <2>1. UpTo(new, H, pending)
    BY <1>1, <1>4, NewMailUpTo DEF PollOk
  <2> QED
    BY <1>4, <2>1 DEF PollOk
<1> QED
  BY <1>3, <1>4

\* Deletion changes nothing either, outside a page.
LEMMA FewerUpTo ==
    ASSUME NEW box, NEW left, NEW H, NEW a, UpTo(box, H, a), InboxIds(left) \subseteq InboxIds(box)
    PROVE  UpTo(left, H, a)
BY DEF UpTo

\* No call is in progress.
LEMMA IdleOk ==
    ASSUME NEW E, NEW box, NEW H, NEW pending, UpTo(box, H, pending)
    PROVE  Idle \in PollState(E) /\ PollOk(Idle, box, H, pending) /\ Idle.out = <<>> /\ Idle.done = 0
<1>1. 0 \in 0 .. MaxPasses
  BY MaxPassesAssumption
<1> QED
  BY <1>1 DEF Idle, PollState, PollOk

\* The call begins.
LEMMA StartOk ==
    ASSUME NEW E, NEW box, NEW H, NEW pending \in Nat, UpTo(box, H, pending)
    PROVE  /\ StartPoll(pending) \in PollState(E) /\ StartPoll(pending).out = <<>>
           /\ StartPoll(pending).done = 0
           /\ PollOk(StartPoll(pending), box, H, pending)
<1> DEFINE poll == StartPoll(pending)
<1>1. Idle \in PollState(E) /\ Idle.page = <<>> /\ Idle.out = <<>> /\ Idle.done = 0 /\ Idle.pass = 0
  BY IdleOk DEF Idle
<1>2. /\ poll \in PollState(E) /\ poll.page = <<>> /\ poll.out = <<>> /\ poll.done = 0
      /\ poll.pass = 0 /\ poll.pc = "drain" /\ poll.ack = pending
  BY <1>1 DEF StartPoll, PollState
<1> HIDE DEF poll
<1>3. PollOk(poll, box, H, pending)
  BY <1>2, MaxPassesAssumption DEF PollOk
<1> QED
  BY <1>2, <1>3 DEF poll

\* The store has deleted what the acknowledgement covers, and the page is what
\* comes behind it.
LEMMA ServedOk ==
    ASSUME NEW E, HasIds(E), NEW poll \in PollState(E), NEW box \in Seq(E), Ordered(box),
           NEW H, NEW pending, PollOk(poll, box, H, pending), poll.pc = "drain",
           NEW n \in PageLengths(DropAcked(box, poll.ack))
    PROVE  /\ Served(poll, PageOf(DropAcked(box, poll.ack), n)) \in PollState(E)
           /\ Served(poll, PageOf(DropAcked(box, poll.ack), n)).done = 0
           /\ Served(poll, PageOf(DropAcked(box, poll.ack), n)).out = poll.out
           /\ Served(poll, PageOf(DropAcked(box, poll.ack), n)).pc \in {"handle", "end"}
           /\ PollOk(Served(poll, PageOf(DropAcked(box, poll.ack), n)), DropAcked(box, poll.ack), H, 0)
<1> DEFINE left == DropAcked(box, poll.ack)
           page == PageOf(left, n)
           next == Served(poll, page)
<1>1. poll.ack \in Nat /\ UpTo(box, H, poll.ack) /\ poll.pass < MaxPasses
  BY DEF PollOk, PollState
<1>2. /\ left \in Seq(E) /\ Ordered(left)
      /\ InboxIds(left) = {x \in InboxIds(box) : x > poll.ack}
  BY <1>1, Dropped
<1>3. InboxIds(box) \subseteq Nat \ {0}
  BY BoxTypes
<1> HIDE DEF left
<1>4. UpTo(left, H, 0)
  BY <1>1, <1>2, <1>3 DEF UpTo
<1>5. /\ page \in Seq(E) /\ Ordered(page) /\ Entries(page) \subseteq Entries(left)
      /\ InboxIds(page) \subseteq InboxIds(left)
      /\ \A x \in InboxIds(left), y \in InboxIds(page) : x <= y => x \in InboxIds(page)
  BY <1>2, Paged DEF left
<1> HIDE DEF page
<1>6. /\ next.page = page /\ next.ack = 0 /\ next.done = 0 /\ next.pass = poll.pass
      /\ next.out = poll.out /\ next.pc = IF page = <<>> THEN "end" ELSE "handle"
      /\ next \in PollState(E)
  BY <1>5 DEF Served, PollState
<1> HIDE DEF next
<1>7. PollOk(next, left, H, 0)
  <2>1. \A x \in InboxIds(page) : 0 < x
    BY <1>2, <1>3, <1>5
  <2>2. page # <<>> => PageOpen(next, left)
    BY <1>5, <1>6, <2>1 DEF PageOpen
  <2> QED
    BY <1>1, <1>4, <1>6, <2>2 DEF PollOk
<1>8. next.pc \in {"handle", "end"}
  BY <1>6
<1> QED
  BY <1>6, <1>7, <1>8 DEF next, page, left

\* DrainInbox failed: the acknowledgement is sent again by a later call.
LEMMA NotServedOk ==
    ASSUME NEW E, NEW poll \in PollState(E), poll.pc = "drain", NEW box, NEW H, NEW pending,
           poll.page = <<>>, UpTo(box, H, pending)
    PROVE  /\ NotServed(poll) \in PollState(E)
           /\ NotServed(poll).done = IF poll.out = <<>> THEN 0 ELSE poll.done
           /\ NotServed(poll).out = poll.out
           /\ NotServed(poll).pc \in {"idle", "end"}
           /\ NotServed(poll).pc = "idle" => poll.out = <<>>
           /\ PollOk(NotServed(poll), box, H, pending)
<1>1. CASE poll.out = <<>>
  BY <1>1, IdleOk DEF NotServed, Idle
<1>2. CASE poll.out # <<>>
  <2> DEFINE next == NotServed(poll)
  <2>1. /\ next \in PollState(E) /\ next.page = <<>> /\ next.pc = "end" /\ next.out = poll.out
        /\ next.done = poll.done
    BY <1>2 DEF NotServed, PollState
  <2> HIDE DEF next
  <2>2. PollOk(next, box, H, pending)
    BY <2>1 DEF PollOk
  <2> QED
    BY <1>2, <2>1, <2>2 DEF next
<1> QED
  BY <1>1, <1>2

\* What EndPage leaves.
LEMMA EndedPage ==
    ASSUME NEW E, NEW poll \in PollState(E), NEW done \in Nat, NEW err \in BOOLEAN,
           poll.pass < MaxPasses
    PROVE  /\ EndPage(poll, done, err) \in PollState(E)
           /\ EndPage(poll, done, err).page = <<>> /\ EndPage(poll, done, err).ack = done
           /\ EndPage(poll, done, err).done = 0 /\ EndPage(poll, done, err).out = poll.out
           /\ EndPage(poll, done, err).pc \in {"drain", "end"}
           /\ EndPage(poll, done, err).pc = "drain" => EndPage(poll, done, err).pass < MaxPasses
<1>1. poll.pass \in Nat /\ MaxPasses \in Nat /\ poll.pass + 1 \in 0 .. MaxPasses
  BY MaxPassesAssumption DEF PollState
<1> DEFINE pc == IF err \/ OutOfPasses(poll.pass + 1) THEN "end" ELSE "drain"
<1>2. pc \in {"drain", "end"} /\ (pc = "drain" => poll.pass + 1 < MaxPasses)
  BY <1>1 DEF OutOfPasses
<1> DEFINE after == EndPage(poll, done, err)
<1>3. after =
        [poll EXCEPT !.ack = done, !.done = 0, !.page = <<>>, !.pass = poll.pass + 1, !.err = err, !.pc = pc]
  BY DEF EndPage, AckableId
<1> HIDE DEF pc, after
<1>4. <<>> \in Seq(E)
  BY EmptyBox
<1>5. after \in PollState(E)
  BY <1>1, <1>2, <1>3, <1>4 DEF PollState
<1>6. /\ after.page = <<>> /\ after.ack = done /\ after.done = 0 /\ after.out = poll.out
      /\ after.pc = pc /\ after.pass = poll.pass + 1
  BY <1>3 DEF PollState
<1> QED
  BY <1>2, <1>5, <1>6 DEF after

\* The handler accepted the first entry of the page.
LEMMA HandledOk ==
    ASSUME NEW E, HasIds(E), NEW poll \in PollState(E), NEW box \in Seq(E), Ordered(box),
           NEW H \in SUBSET Nat, NEW pending, PollOk(poll, box, H, pending), poll.pc = "handle"
    PROVE  /\ Head(poll.page).id \in InboxIds(box) /\ \A h \in H : h < Head(poll.page).id
           /\ Head(poll.page) \in Entries(box)
           /\ Handled(poll) \in PollState(E) /\ Handled(poll).pc \in {"handle", "drain", "end"}
           /\ Handled(poll).out = Append(poll.out, Head(poll.page).id)
           /\ Handled(poll).done \in {0, Head(poll.page).id}
           /\ PendingAfter(Handled(poll), pending) \in {pending, Head(poll.page).id}
           /\ PollOk(Handled(poll), box, H \cup {Head(poll.page).id}, PendingAfter(Handled(poll), pending))
<1> DEFINE id == Head(poll.page).id
           rest == Tail(poll.page)
           next == [poll EXCEPT !.page = rest, !.out = Append(@, id), !.done = id]
           I == H \cup {id}
<1>1. /\ PageOpen(poll, box) /\ UpTo(box, H, poll.done) /\ poll.pass < MaxPasses
      /\ poll.page \in Seq(E) /\ poll.page # <<>> /\ Ordered(poll.page) /\ poll.done \in Nat
      /\ poll.pass \in Nat
  BY DEF PollOk, PageOpen, PollState
<1>2. /\ Head(poll.page) \in Entries(poll.page) /\ Head(poll.page) \in E
      /\ rest \in Seq(E) /\ Ordered(rest)
      /\ Entries(rest) \subseteq Entries(poll.page)
      /\ InboxIds(poll.page) = {id} \cup InboxIds(rest)
      /\ \A x \in InboxIds(rest) : id < x
  BY <1>1, Headed
<1>3. id \in Nat \ {0} /\ InboxIds(box) \subseteq Nat /\ InboxIds(poll.page) \subseteq Nat
  BY <1>1, <1>2, BoxTypes DEF HasIds
<1>4. /\ id \in InboxIds(box) /\ Head(poll.page) \in Entries(box) /\ poll.done < id
      /\ InboxIds(poll.page) \subseteq InboxIds(box)
  BY <1>1, <1>2, IdsOfEntries DEF PageOpen
<1>5. \A h \in H : h < id
  BY <1>1, <1>3, <1>4 DEF UpTo
<1>6. UpTo(box, I, id)
  <2> SUFFICES ASSUME NEW x \in InboxIds(box)
               PROVE  IF x <= id THEN x \in I ELSE \A h \in I : h < x
    BY DEF UpTo
  <2>1. CASE x <= poll.done
    BY <1>1, <1>3, <1>4, <2>1 DEF UpTo
  <2>2. CASE poll.done < x /\ x <= id
    <3>1. x \in InboxIds(poll.page)
      BY <1>1, <1>2, <2>2 DEF PageOpen
    <3>2. x = id
      BY <1>2, <1>3, <2>2, <3>1
    <3> QED
      BY <2>2, <3>2
  <2>3. CASE id < x
    BY <1>1, <1>3, <1>4, <2>3 DEF UpTo
  <2> QED
    BY <1>1, <1>3, <2>1, <2>2, <2>3
<1>7. poll.out \in Seq(Nat) /\ Append(poll.out, id) \in Seq(Nat)
  BY <1>3 DEF PollState
<1>8. /\ next \in PollState(E) /\ next.page = rest /\ next.done = id /\ next.pc = "handle"
      /\ next.pass = poll.pass /\ next.out = Append(poll.out, id)
  BY <1>2, <1>3, <1>7 DEF PollState
<1>9. Handled(poll) = IF rest = <<>> THEN EndPage(next, id, FALSE) ELSE next
  BY <1>8 DEF Handled
<1> HIDE DEF next, rest, id, I
<1>10. CASE rest = <<>>
  <2> DEFINE after == EndPage(next, id, FALSE)
  <2>0. next.pass < MaxPasses /\ id \in Nat
    BY <1>1, <1>3, <1>8
  <2>1. /\ after \in PollState(E) /\ after.page = <<>> /\ after.ack = id /\ after.done = 0
        /\ after.out = Append(poll.out, id) /\ after.pc \in {"drain", "end"}
        /\ after.pc = "drain" => after.pass < MaxPasses
    <3>1. PICK err \in BOOLEAN : err = FALSE
      OBVIOUS
    <3>2. after = EndPage(next, id, err)
      BY <3>1
    <3> HIDE DEF after
    <3> QED
      BY <1>8, <2>0, <3>2, EndedPage
  <2> HIDE DEF after
  <2>2. PendingAfter(after, pending) = id
    BY <2>1 DEF PendingAfter
  <2>3. PollOk(after, box, I, id)
    BY <1>6, <2>1 DEF PollOk
  <2>4. Handled(poll) = after
    BY <1>9, <1>10 DEF after
  <2> QED
    BY <1>4, <1>5, <2>1, <2>2, <2>3, <2>4 DEF id, I
<1>11. CASE rest # <<>>
  <2>1. Entries(rest) \subseteq Entries(box)
    BY <1>1, <1>2 DEF PageOpen
  <2>2. \A x \in InboxIds(box), y \in InboxIds(rest) : id < x /\ x <= y => x \in InboxIds(rest)
    <3> SUFFICES ASSUME NEW x \in InboxIds(box), NEW y \in InboxIds(rest), id < x, x <= y
                 PROVE  x \in InboxIds(rest)
      OBVIOUS
    <3>1. poll.done < x /\ y \in InboxIds(poll.page) /\ x # id
      BY <1>1, <1>2, <1>3, <1>4
    <3>2. x \in InboxIds(poll.page)
      BY <1>1, <3>1 DEF PageOpen
    <3> QED
      BY <1>2, <3>1, <3>2
  <2>3. PageOpen(next, box)
    BY <1>2, <1>8, <1>11, <2>1, <2>2 DEF PageOpen
  <2>4. PollOk(next, box, I, pending)
    BY <1>1, <1>6, <1>8, <2>3 DEF PollOk
  <2>5. Handled(poll) = next /\ PendingAfter(next, pending) = pending
    BY <1>8, <1>9, <1>11 DEF PendingAfter
  <2> QED
    BY <1>4, <1>5, <1>8, <2>4, <2>5 DEF id, I
<1> QED
  BY <1>10, <1>11

\* It refused it: the acknowledgement stops in front of it.
LEMMA RefusedOk ==
    ASSUME NEW E, HasIds(E), NEW poll \in PollState(E), NEW box \in Seq(E), Ordered(box),
           NEW H \in SUBSET Nat, NEW pending, PollOk(poll, box, H, pending), poll.pc = "handle"
    PROVE  /\ Head(poll.page).id \in InboxIds(box) /\ Head(poll.page) \in Entries(box)
           /\ Refused(poll) \in PollState(E) /\ Refused(poll).pc \in {"drain", "end"}
           /\ Refused(poll).out = poll.out
           /\ Refused(poll).done = 0
           /\ PendingAfter(Refused(poll), pending) = poll.done
           /\ PollOk(Refused(poll), box, H, PendingAfter(Refused(poll), pending))
<1> DEFINE after == Refused(poll)
<1>1. /\ PageOpen(poll, box) /\ UpTo(box, H, poll.done) /\ poll.pass < MaxPasses
      /\ poll.page \in Seq(E) /\ poll.page # <<>> /\ poll.done \in Nat
  BY DEF PollOk, PageOpen, PollState
<1>2. Head(poll.page) \in Entries(box) /\ Head(poll.page).id \in InboxIds(box)
  BY <1>1, Headed, IdsOfEntries DEF PageOpen
<1>3. /\ after \in PollState(E) /\ after.page = <<>> /\ after.ack = poll.done /\ after.done = 0
      /\ after.out = poll.out /\ after.pc \in {"drain", "end"}
      /\ after.pc = "drain" => after.pass < MaxPasses
  <2>1. PICK err \in BOOLEAN : err = TRUE
    OBVIOUS
  <2>2. after = EndPage(poll, poll.done, err)
    BY <2>1 DEF Refused
  <2> HIDE DEF after
  <2> QED
    BY <1>1, <2>2, EndedPage
<1> HIDE DEF after
<1>4. PendingAfter(after, pending) = poll.done
  BY <1>3 DEF PendingAfter
<1>5. PollOk(after, box, H, poll.done)
  BY <1>1, <1>3 DEF PollOk
<1> QED
  BY <1>2, <1>3, <1>4, <1>5 DEF after
====
