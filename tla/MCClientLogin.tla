---- MODULE MCClientLogin ----
(* An instance of ClientLogin: one user with two devices, the server requires tokens. *)
EXTENDS ClientLogin

Ids == 1 .. 12
ClockSkew == -1
====
