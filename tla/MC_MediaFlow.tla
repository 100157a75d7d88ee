---------------------------- MODULE MC_MediaFlow ----------------------------
(* One source and one sink: two streams, one of them with a second layout. *)
EXTENDS MediaFlow

MCMetas == {[ssrc |-> 1, subs |-> <<"video">>],
            [ssrc |-> 1, subs |-> <<"video", "audio">>],
            [ssrc |-> 2, subs |-> <<"audio">>]}
=============================================================================
