---- MODULE MCWirePath ----
(***************************************************************************)
(* An instance of WirePath: every message with each field at one of its    *)
(* boundaries, and envelopes of sizes around the limits of a page and of a *)
(* frame.  Limits are scaled down, in the order they have in the code.     *)
(***************************************************************************)
EXTENDS WirePath

AllKinds == DOMAIN Written

FirstOf(type) ==
    CASE type \in DOMAIN Width -> 1
      [] type \in {"string", "bytes"} -> <<1>>
      [] OTHER -> <<>>

Repeat(n) == [i \in 1 .. n |-> 2]
Entries(n) == [i \in 1 .. n |-> [id |-> i, bytes |-> <<i>>]]
OthersOf(type) ==
    CASE type = "u32" -> {0, Base ^ 4 - 1}
      [] type = "u64" -> {0, Base ^ 4, Base ^ 5 + 1}
      [] type = "string" -> {<<>>, Repeat(MaxStringBytes), Repeat(MaxStringBytes + 1)}
      [] type = "bytes" -> {<<>>, Repeat(Base + 1)}
      [] type \in {"optional u32", "optional u64"} -> {<<1>>, <<Base>>}
      [] type = "optional bytes" -> {<< <<>> >>, << <<0, 1>> >>}
      [] type = "prekeys" -> {Entries(n) : n \in 1 .. MaxOneTimePrekeys + 1}
      [] type = "items" -> {Entries(1), Entries(2)}

TypeIn(kind, name) ==
    LET fields == Written[kind]
    IN  fields[CHOOSE i \in DOMAIN fields : fields[i].name = name].type
Names(kind) == {Written[kind][i].name : i \in DOMAIN Written[kind]}
Plain(kind) == [name \in Names(kind) |-> FirstOf(TypeIn(kind, name))]
Varied(kind) ==
    {Plain(kind)} \cup
    UNION {{[Plain(kind) EXCEPT ![name] = value] : value \in OthersOf(TypeIn(kind, name))} :
           name \in Names(kind)}

Chat(size) ==
    [type |-> "chat", message |-> [Plain("chat") EXCEPT !["ciphertext"] = Repeat(size),
                                                        !["message_number"] = size]]
SomeEnvelopes == {Chat(size) : size \in {0, 66, 67, 176, 177}}
                 \cup {[type |-> "initial", message |-> Plain("initial")]}

OneByte == <<1>>
====
