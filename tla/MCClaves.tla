------------------------------ MODULE MCClaves ------------------------------
(***************************************************************************)
(* Small instances of Claves for TLC.  Users are strings, so that the      *)
(* names overlap, or do not, as they would on a disk.                      *)
(***************************************************************************)
EXTENDS Claves

MCEmpty    == ""
MCNotFound == "notfound"
MCLista    == "conectados"
MCTemp     == "temp"
MCFiles    == {"", "notfound", "conectados", "temp", "libro"}
MCPorts    == {"", "5001", "5002"}
OnePort    == {"", "5001"}
MCCopias   == {1}

(* Two users neither of whose names occurs in the line of the other. *)
Apart       == {"", "ana", "luis"}
ApartTokens == {<<"ana", "ana">>, <<"luis", "luis">>}
ApartInside == ApartTokens \cup {<<"", u>> : u \in Apart}

(* Two users, the name of one a part of the name of the other. *)
Nested       == {"", "ana", "anabel"}
NestedTokens == {<<"ana", "ana">>, <<"anabel", "anabel">>}
NestedInside == NestedTokens \cup {<<"", u>> : u \in Nested} \cup {<<"ana", "anabel">>}

(* The tree before the first start, and one an earlier run has left. *)
FreshTree == [dirs |-> {""}, files |-> {}, lines |-> {}]
UsedTree  == [dirs  |-> {"", "ana"},
              files |-> {<<"", "conectados">>, <<"ana", "libro">>},
              lines |-> {[user |-> "ana", port |-> "5001", copy |-> 1]}]
MCDiscos  == {FreshTree, UsedTree}

WithAName == {p \in Request : p.user # ""}

NoFaults  == {}
=============================================================================
