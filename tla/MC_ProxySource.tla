--------------------------- MODULE MC_ProxySource ---------------------------
(* A back-end source with two streams, each with one layout. *)
EXTENDS ProxySource

MCMetas == {[ssrc |-> 1, subs |-> <<"video">>], [ssrc |-> 2, subs |-> <<"audio">>]}
=============================================================================
