------------------------------ MODULE MCDialogo ------------------------------
(***************************************************************************)
(* Small instances of Dialogo for TLC.                                     *)
(***************************************************************************)
EXTENDS Dialogo

(* Listings in any network; transfers where each recv gets one message. *)
Conversaciones == {"users", "content"} \X {"amable", "libre"} \cup {<<"file", "amable">>}
DeUsuarios     == {<<"users", "libre">>}
DeArchivos     == {<<"file", "libre">>}

Nadie == {}
Todas == {"cli", "srv", "disk"}
=============================================================================
