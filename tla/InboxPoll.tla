---- MODULE InboxPoll ----
(***************************************************************************)
(* The loop of ProcessInbox (src/src/client/client.cpp) as operators on the*)
(* record of a call in progress:                                           *)
(*   pc    idle, drain (about to call DrainInbox), handle (in the page),   *)
(*         end (the loop is over), save, return                            *)
(*   pass  completed passes           ack   ack_to_send, 0 for none        *)
(*   page  what is left of the page   done  max_ackable_inbox_id, 0 for none *)
(*   out   ids of the plaintexts      err   first_error is set             *)
(***************************************************************************)
EXTENDS Naturals, Sequences

CONSTANT MaxPasses  \* kMaxInboxDrainPasses

ASSUME MaxPassesAssumption == MaxPasses \in Nat \ {0}

Idle == [pc |-> "idle", pass |-> 0, ack |-> 0, page |-> <<>>, done |-> 0,
         out |-> <<>>, err |-> FALSE]

\* The call begins with the acknowledgement a former call left pending.
StartPoll(pending) == [Idle EXCEPT !.pc = "drain", !.ack = pending]

\* DrainInbox answered with a page; an empty one ends the loop.
Served(poll, page) ==
    [poll EXCEPT !.ack = 0, !.done = 0, !.page = page,
                 !.pc = IF page = <<>> THEN "end" ELSE "handle"]

\* DrainInbox failed: with nothing to return the call is over at once.
NotServed(poll) == IF poll.out = <<>> THEN Idle
                   ELSE [poll EXCEPT !.pc = "end", !.err = TRUE]

\* What the page may be acknowledged up to, from the last handled id.
AckableWholePage(poll, done) ==
    IF poll.page = <<>> THEN done ELSE poll.page[Len(poll.page)].id
AckableId(poll, done) == done

\* The loop over the passes ends with the last one.
OutOfPassesLate(pass) == pass > MaxPasses
OutOfPasses(pass) == pass >= MaxPasses

\* The page is done with, whole or up to an envelope that was refused.
EndPage(poll, done, err) ==
    [poll EXCEPT !.ack = AckableId(poll, done), !.done = 0, !.page = <<>>,
                 !.pass = @ + 1, !.err = err,
                 !.pc = IF err \/ OutOfPasses(poll.pass + 1) THEN "end" ELSE "drain"]

\* The handler accepted the first envelope of the page ...
Handled(poll) ==
    LET id   == Head(poll.page).id
        next == [poll EXCEPT !.page = Tail(@), !.out = Append(@, id), !.done = id]
    IN  IF next.page = <<>> THEN EndPage(next, id, FALSE) ELSE next

\* ... or refused it, and nothing behind it is looked at.
Refused(poll) == EndPage(poll, poll.done, TRUE)

\* pending_inbox_ack_up_to_id_ follows ack_to_send when a page ends.
PendingAfter(poll, pending) == IF poll.pc = "handle" THEN pending ELSE poll.ack

\* The call fails: no plaintext to return, and an error.
Fails(poll) == poll.err /\ poll.out = <<>>

PollState(Entry) ==
    [pc : {"idle", "drain", "handle", "end", "save", "return"}, pass : 0 .. MaxPasses,
     ack : Nat, page : Seq(Entry), done : Nat, out : Seq(Nat), err : BOOLEAN]
====
