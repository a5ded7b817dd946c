------------------------------ MODULE MCSistema ------------------------------
(***************************************************************************)
(* Small instances of Sistema for TLC.                                     *)
(***************************************************************************)
EXTENDS Sistema, TLC

CONSTANTS
  c1, c2,        \* processes
  p1, p2, p3,    \* ports
  ana, luis      \* users

MCEmpty    == ""
MCNotFound == "notfound"
MCLista    == "conectados"
MCTemp     == "temp"
MCFiles    == {"", "notfound", "conectados", "temp", "libro"}
MCPorts    == {"", p1, p2, p3}
MCNames    == {"", ana, luis}
MCTokens   == {<<ana, ana>>, <<luis, luis>>}
MCInside   == MCTokens \cup {<<"", u>> : u \in MCNames}
MCCopias   == {1}
MCProcs    == {c1, c2}

UsedTree  == [dirs  |-> {"", ana, luis},
              files |-> {<<"", "conectados">>, <<ana, "libro">>},
              lines |-> {}]
MCDiscos  == {UsedTree}

O(op, arg) == [op |-> op, arg |-> arg]

Sesiones(us) == {O(op, u) : op \in {"CONNECT", "DISCONNECT", "UNREGISTER"}, u \in us}

(* Both processes open sessions as ana.  c1 may take a second one on top of  *)
(* it, takes addresses from the list and copies from them, also when they    *)
(* are old; c2 owns the account and the file, ends its sessions, takes the   *)
(* account away and makes it again, and quits.                               *)
Muchas == c1 :> {O("CONNECT", ana), O("CONNECT", luis), O("LIST_USERS", ""), O("GET_FILE", ana)}
       @@ c2 :> {O("CONNECT", ana), O("DISCONNECT", ana), O("UNREGISTER", ana),
                 O("REGISTER", ana), O("PUBLISH", "libro"), O("DELETE", "libro"),
                 O("LIST_CONTENT", ana), O("QUIT", "")}

DosCuentas == c1 :> {O("CONNECT", ana)}
           @@ c2 :> {O("CONNECT", ana), O("DISCONNECT", ana), O("UNREGISTER", ana)}

NoFaults  == {}
SysFaults == {"kill", "rpc", "close"}

(* What bears on the properties and on the rest of a run: of the last        *)
(* request, whether the server died of it; of a list, the users the process  *)
(* may ask for a file; of the tree, accounts and conectados.txt; of a        *)
(* request in the backlog whose answer changes nothing, that it is there,    *)
(* and nothing of a backlog nobody will serve; of a command whose answer     *)
(* changes nothing, only that it waits.                                      *)
Arbol    == [disco EXCEPT !.files = @ \cap {ListFile}]
Util(c)  == {e \in lista[c] : O("GET_FILE", e[1]) \in Ordenes[c]}
Curso(c) == IF curso[c].pet.op \in {"CONNECT", "DISCONNECT"} THEN curso[c]
            ELSE [Libre EXCEPT !.paso = curso[c].paso]
Callada(e) == \/ e.pet.op \in {"PUBLISH", "DELETE"}
              \/ e.espera /\ e.pet.op = "LIST_CONTENT"
EnCola(e)  == [e EXCEPT !.cl  = IF e.espera THEN @ ELSE Ninguno,
                        !.pet = IF Callada(e) THEN NoPedido ELSE @]
Vista == <<Arbol, ultima.res = "crash", servidor, era, sesion,
           IF servidor = "activo" THEN [i \in DOMAIN cola |-> EnCola(cola[i])] ELSE <<>>,
           [c \in Procs |-> Curso(c)], [c \in Procs |-> Util(c)], entreClientes>>

Iguales == Permutations({p1, p2, p3})
=============================================================================
