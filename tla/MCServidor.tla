----------------------------- MODULE MCServidor -----------------------------
(***************************************************************************)
(* Small instances of Servidor for TLC.                                    *)
(***************************************************************************)
EXTENDS Servidor, TLC

MCEmpty    == ""
MCNotFound == "notfound"
MCLista    == "conectados"
MCTemp     == "temp"
MCFiles    == {"", "notfound", "conectados", "temp", "libro"}
MCPorts    == {"", "5001"}
MCCopias   == {1, 2}
MCNames    == {"", "ana", "luis"}
MCTokens   == {<<"ana", "ana">>, <<"luis", "luis">>}
MCInside   == MCTokens \cup {<<"", u>> : u \in MCNames}

UsedTree == [dirs  |-> {"", "ana"},
             files |-> {<<"", "conectados">>, <<"ana", "libro">>},
             lines |-> {}]
Used  == {UsedTree}

P(op, user, arg) == [op |-> op, user |-> user, arg |-> arg]

Register   == P("REGISTER", "luis", "")
Unregister == P("UNREGISTER", "ana", "")
Connect    == P("CONNECT", "ana", "5001")
Disconnect == P("DISCONNECT", "ana", "")
Publish    == P("PUBLISH", "luis", "libro")
Delete     == P("DELETE", "ana", "libro")
ListUsers  == P("LIST_USERS", "ana", "")
ListContent == P("LIST_CONTENT", "ana", "ana")
ListNobody  == P("LIST_CONTENT", "ana", "luis")

EveryKind == {Register, Unregister, Connect, Disconnect, Publish, Delete,
              ListUsers, ListContent}
Mixed     == EveryKind \cup {ListNobody}
Five      == EveryKind \ {Register, Publish, Delete}
NoListing == {Register, Connect, Disconnect, Publish}
Few       == {Connect, Delete}

NoFaults   == {}
KillOnly   == {"kill"}
AllButKill == {"disk", "close", "reset", "rpc", "thread"}
CloseOnly  == {"close"}
RpcOnly    == {"rpc"}

CONSTANTS c1, c2, c3
Dos  == {c1, c2}
Tres == {c1, c2, c3}

(* Connections are interchangeable in the safety runs. *)
Iguales == Permutations(Clients)
=============================================================================
