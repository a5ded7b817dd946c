------------------------------ MODULE Sistema ------------------------------
(***************************************************************************)
(* The whole system: several client processes (cliente/client.py), each    *)
(* with its command line, and the server with the registry of module       *)
(* Claves.  The server takes the connections in the order in which they    *)
(* were made and serves each request in one step, which is what module     *)
(* Servidor shows of its threads (ServesAtomically).                       *)
(*                                                                         *)
(* A command that goes to the server has several steps: it connects and    *)
(* sends (register, connect, ...), it is served (Sirve), and, where what   *)
(* comes back changes more than the screen, the client takes the answer    *)
(* (RecibeConnect, RecibeDisconnect) or an exception (Excepcion).  Other   *)
(* processes run in between.  A command that fails a test of the client    *)
(* before it sends anything, or finds no server, changes nothing and is no *)
(* step here.                                                              *)
(*                                                                         *)
(* A transfer is a call from one client to the thread of another: it is    *)
(* made (getfile), it ends at the thread, well or badly                    *)
(* (handle_server_connection), and the client that asked goes on           *)
(* (Desbloquea).                                                           *)
(*                                                                         *)
(* Requests cut short by the end of a client are in module Servidor, the   *)
(* messages of a listing or a transfer in module Dialogo.                  *)
(***************************************************************************)
EXTENDS Claves, Sequences

CONSTANTS
  Procs,     \* client processes
  Ordenes,   \* Ordenes[c]: the commands typed at process c
  MaxCola,   \* bound on the backlog, for requests nobody waits for
  MaxEra,    \* bound on the restarts of the server
  Ninguno    \* None

Orden == [op : Ops \cup {"GET_FILE", "QUIT"}, arg : Names \cup Files]

ASSUME SistemaAssumption ==
  /\ Ninguno \notin Names
  /\ Ordenes \in [Procs -> SUBSET Orden]
  /\ MaxCola \in Nat /\ MaxEra \in Nat

VARIABLES
  servidor,  \* "activo", "colgado" (every later connection waits), "caido"
  cola,      \* the connections the server has not served, oldest first
  era,       \* restarts so far
  sesion,    \* the attributes of each client
  lista,     \* _list_users of each client
  curso,     \* the command each client is carrying out
  llamadas,  \* the connections to clients that are not over
  aMedias    \* history: the users with a DISCONNECT broken off after its "0"

delServidor  == <<disco, ultima, servidor, era>>
entreClientes == <<llamadas, aMedias>>
vars == <<disco, ultima, servidor, cola, era, sesion, lista, curso, llamadas, aMedias>>

(* A connection of cl to a socket of en that listens on puerto.  One that   *)
(* does not ask for a file is the one disconnect wakes a thread with.       *)
Llamada == [cl : Procs, en : Procs, puerto : Ports, pide : BOOLEAN]

(* _connected_user (_isConnected is true when there is one), the port of    *)
(* _threadAddress, the port of _serverSock, and the ports on which a thread *)
(* of the process accepts.                                                  *)
SinSesion == [user |-> Ninguno, addr |-> Empty, sock |-> Empty, hilos |-> {}]
NoPedido  == [op |-> "none", user |-> Empty, arg |-> Empty]
Libre     == [paso |-> "libre", pet |-> NoPedido, cod |-> "none", baja |-> FALSE]

Init == /\ InitRegistro
        /\ servidor = "activo" /\ cola = <<>> /\ era = 0
        /\ sesion = [c \in Procs |-> SinSesion]
        /\ lista = [c \in Procs |-> {}]
        /\ curso = [c \in Procs |-> Libre]
        /\ llamadas = {} /\ aMedias = {}

-----------------------------------------------------------------------------
(* Sending a request *)

Puede(c, op, arg) == /\ curso[c].paso = "libre"
                     /\ [op |-> op, arg |-> arg] \in Ordenes[c]

Pet(op, user, arg) == [op |-> op, user |-> user, arg |-> arg]

Encola(c, p, espera) == cola' = Append(cola, [cl |-> c, pet |-> p, espera |-> espera])

(* Connect, send, and wait in recv. *)
Pide(c, p, baja) ==
  /\ servidor # "caido"
  /\ curso' = [curso EXCEPT ![c] = [paso |-> "pedida", pet |-> p, cod |-> "none", baja |-> baja]]
  /\ Encola(c, p, TRUE)

(* Connect, send, and close without reading: back to the prompt. *)
Suelta(c, p) ==
  /\ servidor # "caido" /\ Len(cola) < MaxCola
  /\ Encola(c, p, FALSE)
  /\ UNCHANGED curso

SoloPide == UNCHANGED <<delServidor, sesion, lista, entreClientes>>

Conectado(c) == sesion[c].user # Ninguno

register(c, u) == /\ Puede(c, "REGISTER", u)
                  /\ Pide(c, Pet("REGISTER", u, Empty), FALSE)
                  /\ SoloPide

(* The ports a process listens on: a socket is open while _serverSock or a  *)
(* thread has it, and is closed when nothing has it any more.               *)
Puertos(c) == (sesion[c].hilos \cup {sesion[c].sock}) \ {Empty}
EnUso  == UNION {Puertos(c) : c \in Procs}
Libres == Ports \ (EnUso \cup {Empty})

(* Of these connections, the ones whose socket is open after the step.      *)
Abiertas(ll) == {l \in ll : l.puerto \in Puertos(l.en)'}

(* Nothing asks whether the client is connected already, and _serverSock is *)
(* replaced before there is an answer.  A thread keeps the socket it got.   *)
connect(c, u) ==
  /\ Puede(c, "CONNECT", u)
  /\ \E p \in Libres :
       /\ sesion' = [sesion EXCEPT ![c].sock = p]
       /\ Pide(c, Pet("CONNECT", u, p), FALSE)
  /\ llamadas' = Abiertas(llamadas)
  /\ UNCHANGED <<delServidor, lista, aMedias>>

DisconnectDeCualquiera(c, u) ==  \* variant: the user is not compared with _connected_user
                    /\ Puede(c, "DISCONNECT", u)
                    /\ Pide(c, Pet("DISCONNECT", u, Empty), FALSE)
                    /\ SoloPide
disconnect(c, u) == /\ Puede(c, "DISCONNECT", u) /\ sesion[c].user = u
                    /\ Pide(c, Pet("DISCONNECT", u, Empty), FALSE)
                    /\ SoloPide

(* First the whole of disconnect, then a request of its own (see Acaba). *)
unregister(c, u) == /\ Puede(c, "UNREGISTER", u) /\ sesion[c].user = u
                    /\ Pide(c, Pet("DISCONNECT", u, Empty), TRUE)
                    /\ SoloPide

(* The operation is sent before the tests: what remains of the request      *)
(* reads as empty.  Without the local file the name is "notfound" and the   *)
(* answer is not read.                                                      *)
publish(c, f) ==
  /\ Puede(c, "PUBLISH", f)
  /\ \/ Conectado(c) /\ Pide(c, Pet("PUBLISH", sesion[c].user, f), FALSE)
     \/ Conectado(c) /\ Suelta(c, Pet("PUBLISH", sesion[c].user, NotFound))
     \/ ~Conectado(c) /\ Suelta(c, Pet("PUBLISH", Empty, Empty))
  /\ SoloPide

(* Without a session the user is None: an exception after the operation. *)
delete(c, f) ==
  /\ Puede(c, "DELETE", f)
  /\ \/ Conectado(c) /\ Pide(c, Pet("DELETE", sesion[c].user, f), FALSE)
     \/ ~Conectado(c) /\ Suelta(c, Pet("DELETE", Empty, Empty))
  /\ SoloPide

listusers(c) ==
  /\ Puede(c, "LIST_USERS", Empty)
  /\ Pide(c, Pet("LIST_USERS", IF Conectado(c) THEN sesion[c].user ELSE Empty, Empty), FALSE)
  /\ SoloPide

listcontent(c, u) ==
  /\ Puede(c, "LIST_CONTENT", u)
  /\ \/ Conectado(c) /\ Pide(c, Pet("LIST_CONTENT", sesion[c].user, u), FALSE)
     \/ ~Conectado(c) /\ Suelta(c, Pet("LIST_CONTENT", Empty, Empty))
  /\ SoloPide

-----------------------------------------------------------------------------
(* The server *)

LineasAlReves(d) ==  \* variant: the words of a line swapped
  {<<l.port, l.user>> : l \in d.lines}
Lineas(d) == {<<l.user, l.port>> : l \in d.lines}

(* The answer.  The lines of LIST_USERS follow while the thread holds the   *)
(* lock; the client replaces its list by them.  Only connect and disconnect *)
(* do more with an answer than print it.                                    *)
Contesta(e) ==
  LET c     == e.cl
      hecha == [curso[c] EXCEPT !.paso = "hecha", !.cod = ultima'.res]
  IN  IF e.espera
      THEN /\ curso' = [curso EXCEPT ![c] = IF e.pet.op \in {"CONNECT", "DISCONNECT"}
                                            THEN hecha ELSE Libre]
           /\ lista' = IF ultima'.op = "LIST_USERS" /\ ultima'.res = "0"
                       THEN [lista EXCEPT ![c] = Lineas(disco)] ELSE lista
      ELSE UNCHANGED <<curso, lista>>

(* unregister carries on after disconnect. *)
Sigue(c) == curso[c].baja /\ curso[c].pet.op = "DISCONNECT"

(* Every connection goes with the server; recv raises or returns nothing,   *)
(* and the first character of nothing raises.  Every command catches what   *)
(* it raises, so that unregister does not see it.                           *)
Caida ==
  /\ servidor' = "caido" /\ cola' = <<>>
  /\ curso' = [c \in Procs |->
       IF curso[c].paso # "pedida" THEN curso[c]
       ELSE IF Sigue(c) THEN [curso[c] EXCEPT !.paso = "rota"] ELSE Libre]

(* A listing sent to a client that has gone ends the server (Sigpipe of     *)
(* module Servidor).                                                        *)
Sirve ==
  /\ servidor = "activo" /\ cola # <<>>
  /\ LET e == Head(cola)
     IN  /\ Atiende(e.pet)
         /\ \/ /\ ultima'.res # "crash"
               /\ cola' = Tail(cola) /\ Contesta(e)
               /\ UNCHANGED servidor
            \/ /\ ultima'.res # "crash" /\ "rpc" \in Faults
               /\ cola' = Tail(cola) /\ servidor' = "colgado"
               /\ UNCHANGED <<curso, lista>>
            \/ /\ \/ ultima'.res = "crash" \/ "kill" \in Faults
                  \/ ~e.espera /\ e.pet.op \in Listings
               /\ Caida
               /\ UNCHANGED lista
            \/ /\ "kill" \in Faults /\ e.espera        \* halfway through the lines
               /\ ultima'.op = "LIST_USERS" /\ ultima'.res = "0"
               /\ \E some \in SUBSET Lineas(disco) : lista' = [lista EXCEPT ![e.cl] = some]
               /\ Caida
  /\ UNCHANGED <<era, sesion, entreClientes>>

Cae == /\ "kill" \in Faults /\ servidor # "caido"
       /\ Caida
       /\ UNCHANGED <<disco, ultima, era, sesion, lista, entreClientes>>

ReiniciaServidor ==
  /\ servidor = "caido" /\ era < MaxEra
  /\ servidor' = "activo" /\ era' = era + 1
  /\ Arranca
  /\ UNCHANGED <<cola, sesion, lista, curso, entreClientes>>

-----------------------------------------------------------------------------
(* The end of a command *)

(* Back to the prompt; but after disconnect, whatever came of it,           *)
(* unregister sends its own request, unless there is no server.             *)
Acaba(c) ==
  \/ Sigue(c) /\ Pide(c, Pet("UNREGISTER", curso[c].pet.user, Empty), TRUE)
  \/ /\ Sigue(c) => servidor = "caido"
     /\ curso' = [curso EXCEPT ![c] = Libre]
     /\ UNCHANGED cola

RecibeConnectCerrando(c) ==  \* variant: a refused client closes the socket it had
  /\ curso[c].paso = "hecha" /\ curso[c].pet.op = "CONNECT"
  /\ LET s == sesion[c]
         p == curso[c].pet.arg
     IN  sesion' = [sesion EXCEPT ![c] =
           IF curso[c].cod = "0"
           THEN [user |-> curso[c].pet.user, addr |-> p, sock |-> p, hilos |-> s.hilos \cup {p}]
           ELSE [s EXCEPT !.hilos = @ \ {s.addr}]]
  /\ curso' = [curso EXCEPT ![c] = Libre]
  /\ UNCHANGED <<delServidor, cola, lista, entreClientes>>

(* "0": a thread on _serverSock, and the attributes.  A session the process *)
(* had before is forgotten, its thread goes on.                             *)
RecibeConnect(c) ==
  /\ curso[c].paso = "hecha" /\ curso[c].pet.op = "CONNECT"
  /\ LET s == sesion[c]
     IN  sesion' = [sesion EXCEPT ![c] =
           IF curso[c].cod = "0"
           THEN [user |-> curso[c].pet.user, addr |-> s.sock, sock |-> s.sock,
                 hilos |-> s.hilos \cup {s.sock}]
           ELSE s]
  /\ curso' = [curso EXCEPT ![c] = Libre]
  /\ UNCHANGED <<delServidor, cola, lista, entreClientes>>

(* What "0" leaves of the session: the thread is woken and finds            *)
(* _isConnected false, and _serverSock, another socket perhaps, is closed.  *)
Terminada(c) == [user |-> Ninguno, addr |-> Empty, sock |-> Empty,
                 hilos |-> sesion[c].hilos \ {sesion[c].addr}]

RecibeDisconnectSinMirar(c) ==  \* variant: any answer ends the session
  /\ curso[c].paso = "hecha" /\ curso[c].pet.op = "DISCONNECT"
  /\ sesion' = [sesion EXCEPT ![c] = Terminada(c)]
  /\ llamadas' = Abiertas(llamadas)
  /\ Acaba(c)
  /\ UNCHANGED <<delServidor, lista, aMedias>>

(* "0": a connection to _threadAddress comes first.  Where nobody listens   *)
(* there any more it raises, and the session stays; another process that    *)
(* has the port by now has a connection nobody asks anything on.            *)
RecibeDisconnect(c) ==
  /\ curso[c].paso = "hecha" /\ curso[c].pet.op = "DISCONNECT"
  /\ LET p == sesion[c].addr
     IN  \/ /\ curso[c].cod # "0"
            /\ UNCHANGED <<sesion, entreClientes>>
         \/ /\ curso[c].cod = "0" /\ p \notin EnUso
            /\ aMedias' = aMedias \cup {curso[c].pet.user}
            /\ UNCHANGED <<sesion, llamadas>>
         \/ /\ curso[c].cod = "0" /\ p \in EnUso
            /\ sesion' = [sesion EXCEPT ![c] = Terminada(c)]
            /\ LET otros == {d \in Procs \ {c} : p \in Puertos(d)}
               IN  llamadas' = Abiertas(llamadas) \cup
                     {[cl |-> c, en |-> d, puerto |-> p, pide |-> FALSE] : d \in otros}
            /\ UNCHANGED aMedias
  /\ Acaba(c)
  /\ UNCHANGED <<delServidor, lista>>

Excepcion(c) ==
  /\ curso[c].paso = "rota"
  /\ Acaba(c)
  /\ UNCHANGED <<delServidor, sesion, lista, entreClientes>>

-----------------------------------------------------------------------------
(* Transfers between clients *)

(* Whoever listens on the port has the call, with a thread or without.  A   *)
(* connection that is refused ends the command.                             *)
getfile(c, u) ==
  /\ Puede(c, "GET_FILE", u)
  /\ \E e \in lista[c], d \in Procs :
       /\ e[1] = u /\ e[2] \in Puertos(d)
       /\ llamadas' = llamadas \cup {[cl |-> c, en |-> d, puerto |-> e[2], pide |-> TRUE]}
  /\ curso' = [curso EXCEPT ![c].paso = "bloqueada"]
  /\ UNCHANGED <<delServidor, cola, sesion, lista, aMedias>>

(* A call is over at the thread that took it.  The thread goes on while its *)
(* process has a session, unless what it reads or sends of a request        *)
(* raises: the client that asked has gone, or its request came in pieces.   *)
(* With the last thread goes a process whose command line has ended.        *)
handle_server_connection(d) ==
  \E l \in llamadas :
    /\ l.en = d /\ l.puerto \in sesion[d].hilos
    /\ \/ /\ Conectado(d)
          /\ llamadas' = llamadas \ {l}
          /\ UNCHANGED sesion
       \/ /\ ~Conectado(d) \/ l.pide
          /\ sesion' = [sesion EXCEPT ![d] =
               IF curso[d].paso = "fin" /\ sesion[d].hilos = {l.puerto} THEN SinSesion
               ELSE [sesion[d] EXCEPT !.hilos = @ \ {l.puerto}]]
          /\ llamadas' = Abiertas(llamadas \ {l})
    /\ UNCHANGED <<delServidor, cola, lista, curso, aMedias>>

(* The call is over, or its socket was closed. *)
Desbloquea(c) ==
  /\ curso[c].paso = "bloqueada"
  /\ ~\E l \in llamadas : l.cl = c /\ l.pide
  /\ curso' = [curso EXCEPT ![c] = Libre]
  /\ UNCHANGED <<delServidor, cola, sesion, lista, entreClientes>>

-----------------------------------------------------------------------------
(* QUIT leaves the threads running.  A kill does not, and what the client   *)
(* had asked for is still served, by the server and by another client.      *)
Quit(c) ==
  /\ Puede(c, "QUIT", Empty)
  /\ curso' = [curso EXCEPT ![c].paso = "fin"]
  /\ sesion' = IF sesion[c].hilos = {} THEN [sesion EXCEPT ![c] = SinSesion] ELSE sesion
  /\ llamadas' = Abiertas(llamadas)
  /\ UNCHANGED <<delServidor, cola, lista, aMedias>>

Mata(c) ==
  /\ "close" \in Faults
  /\ curso[c].paso = "fin" => sesion[c].hilos # {}
  /\ sesion' = [sesion EXCEPT ![c] = SinSesion]
  /\ curso' = [curso EXCEPT ![c] = [Libre EXCEPT !.paso = "fin"]]
  /\ cola' = [i \in DOMAIN cola |-> IF cola[i].cl = c THEN [cola[i] EXCEPT !.espera = FALSE]
                                    ELSE cola[i]]
  /\ llamadas' = Abiertas(llamadas)
  /\ UNCHANGED <<delServidor, lista, aMedias>>

Comando(c) ==
  \/ \E u \in Names \ {Empty} : \/ register(c, u) \/ connect(c, u) \/ disconnect(c, u)
                                \/ unregister(c, u) \/ listcontent(c, u) \/ getfile(c, u)
  \/ \E f \in Files \ {Empty, Lista, Temp} : publish(c, f) \/ delete(c, f)
  \/ listusers(c)

Cliente(c) == \/ Comando(c)
              \/ RecibeConnect(c) \/ RecibeDisconnect(c) \/ Excepcion(c)
              \/ handle_server_connection(c)
              \/ Desbloquea(c) \/ Quit(c) \/ Mata(c)

Next == Sirve \/ Cae \/ ReiniciaServidor \/ \E c \in Procs : Cliente(c)

Spec == Init /\ [][Next]_vars

-----------------------------------------------------------------------------
(***************************************************************************)
(* Properties.  The user names of a run are no part of one another (module *)
(* Claves shows what happens otherwise).                                   *)
(***************************************************************************)

(* The type invariant. *)
TypeOK ==
  /\ TreeOK
  /\ servidor \in {"activo", "colgado", "caido"} /\ era \in 0..MaxEra
  /\ cola \in Seq([cl : Procs, pet : Request, espera : BOOLEAN])
  /\ sesion \in [Procs -> [user : Names \cup {Ninguno}, addr : Ports, sock : Ports,
                           hilos : SUBSET Ports]]
  /\ lista \in [Procs -> SUBSET (Names \X Ports)]
  /\ curso \in [Procs -> [paso : {"libre", "pedida", "hecha", "rota", "bloqueada", "fin"},
                          pet : Request \cup {NoPedido}, cod : Codes, baja : BOOLEAN]]
  /\ llamadas \in SUBSET Llamada /\ aMedias \in SUBSET Names

EnCurso(c, op) == curso[c].paso # "libre" /\ curso[c].pet.op = op

(* The line of the session of c. *)
Linea(c) == <<sesion[c].user, sesion[c].addr>>

(* While the server has not been restarted, what a client believes is true: *)
(* a client with a session is in the list, under its address, however the   *)
(* other clients came and went, were killed, lost their accounts or were    *)
(* refused.  Only its own DISCONNECT may have been served already, or a     *)
(* DISCONNECT of that user broken off after its "0" (client.py:216).        *)
(* What a client sends with a session arrives whole: a DISCONNECT cut short *)
(* before the name would take every line away.                              *)
BeliefIsTrue ==
  era = 0 /\ servidor # "caido" =>
    \A c \in Procs :
      Conectado(c) /\ ~EnCurso(c, "DISCONNECT") /\ sesion[c].user \notin aMedias =>
        Linea(c) \in Lineas(disco)

(* A user has one session at a time: two processes are connected as the     *)
(* same user only while the DISCONNECT of one of them has been served and   *)
(* its answer not yet read, or after one of that user was broken off.       *)
(* Nothing in client.py enforces it, the server does, with the list it      *)
(* empties when it starts.                                                  *)
OneSessionPerUser ==
  era = 0 => \A c, d \in Procs :
    c # d /\ Conectado(c) /\ sesion[c].user = sesion[d].user /\ sesion[c].user \notin aMedias =>
      \E x \in {c, d} : EnCurso(x, "DISCONNECT") /\ curso[x].paso = "hecha" /\ curso[x].cod = "0"

(* A session that goes on loses the thread behind its address only at the   *)
(* end of a request for a file made to that thread: a CONNECT of its own    *)
(* that is refused and replaces _serverSock, the end of another session, of *)
(* another process or of the server, a connection that came to its port by  *)
(* an old address, leave it serving.                                        *)
AnnouncedIsServed ==
  [][\A c \in Procs :
       /\ Conectado(c) /\ Linea(c)' = Linea(c)
       /\ sesion[c].addr \in sesion[c].hilos /\ sesion'[c].addr \notin sesion'[c].hilos
       => \E l \in llamadas \ llamadas' : l.en = c /\ l.puerto = sesion[c].addr /\ l.pide]_vars

(* A line outlives its session only through a CONNECT that replaced the     *)
(* session or the end of the process: no answer, exception or transfer      *)
(* leaves a line nobody can take away.  (Where another process has taken    *)
(* the port since, the line is that process's.)                             *)
LinesEndWithTheirSession ==
  [][\A c \in Procs :
       /\ Linea(c) \in Lineas(disco) /\ Linea(c)' # Linea(c) /\ Linea(c) \in Lineas(disco')
       /\ \A d \in Procs \ {c} : sesion[c].addr \notin Puertos(d)
       => EnCurso(c, "CONNECT") \/ curso'[c].paso = "fin"]_vars

(* Nobody takes an account away while another client is connected with it:  *)
(* client.py says UNREGISTER needs a session of one's own for that reason.  *)
UnregisterIsOnesOwn ==
  [][\A d \in Procs :
       /\ ultima' # ultima /\ ultima'.op = "UNREGISTER" /\ ultima'.res = "0"
       /\ sesion[d].user = ultima'.user
       => d = Head(cola).cl]_vars
=============================================================================
