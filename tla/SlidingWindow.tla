---- MODULE SlidingWindow ----
(***************************************************************************)
(* The sliding-window rate limiter of the stores (EnforceRateLimit of      *)
(* src/src/server/sqlite_store.cpp and in_memory_server.cpp) and of the    *)
(* TCP front end (CheckAndRecord of src/src/server/tcp_server.cpp).        *)
(* A bucket is the sequence of the times of the admitted attempts.         *)
(***************************************************************************)
EXTENDS Naturals, Sequences

CONSTANT Window  \* kAuthRateWindowSeconds, window_seconds

ASSUME WindowAssumption == Window \in Nat \ {0}

\* What a bucket may hold.
Bucket(limit) == {b \in Seq(Nat) : Len(b) <= limit}

\* Attempts that still count at time now.
CountsShort(time, now) == time + Window > now + 1
Counts(time, now) == time + Window > now

\* pop_front while the front has left the window.
TrimWindow(bucket, now) ==
    LET kept == {i \in DOMAIN bucket : Counts(bucket[i], now)}
    IN  IF kept = {} THEN <<>>
        ELSE SubSeq(bucket, CHOOSE i \in kept : \A j \in kept : i <= j, Len(bucket))

\* An attempt is refused at the limit ...
HasRoomLate(bucket, now, limit) == Len(TrimWindow(bucket, now)) <= limit
HasRoom(bucket, now, limit) == Len(TrimWindow(bucket, now)) < limit

\* ... and recorded otherwise; a refused attempt only trims the bucket.
CheckAndRecord(bucket, now, limit) ==
    IF HasRoom(bucket, now, limit) THEN Append(TrimWindow(bucket, now), now)
    ELSE TrimWindow(bucket, now)
====
