--------------------------- MODULE MC_ClientLease ---------------------------
(***************************************************************************)
(* An instance of ClientLease for TLC. The sink's interval (500 ms) is two *)
(* units of time and a turn may come one unit late, so that a time is      *)
(* missed by a hair. The wall clock's second is two units long and begins  *)
(* at the odd ones. The timeout is one interval, the renewal (and the      *)
(* retry) comes after three and the lease is three times that: the         *)
(* smallest multiples for which one lost exchange is survived, as with the *)
(* code's 3 s, 5 s and 15 s. The list has one place.                       *)
(***************************************************************************)
EXTENDS ClientLease
=============================================================================
