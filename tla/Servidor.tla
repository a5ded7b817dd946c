------------------------------ MODULE Servidor ------------------------------
(***************************************************************************)
(* The server of servidor/servidor.c: main, which accepts connections and  *)
(* starts one thread for each, and the threads (tratar_mensaje), which     *)
(* read a request, serve it with the registry of module Claves, report it  *)
(* to the RPC server and answer.                                           *)
(*                                                                         *)
(* A connection and the thread started for it have the same name, a member *)
(* of Clients; each connection carries one request, as in client.py.  A    *)
(* thread reaches its connection through loc[c].sk only, the number it     *)
(* copied from the variable sc of main.                                    *)
(*                                                                         *)
(* Steps of a thread, by hilo[c] (lines of servidor.c):                    *)
(*   cola, aceptada   the connection waits in the backlog, is accepted     *)
(*   nace     sc = *arg (20)              arranca  lock (34)               *)
(*   leeOp    read the operation (36)     rpcAbre  clnt_create (63)        *)
(*   leeArgs  read the other lines (73)   comprueba, actua  the *_serv     *)
(*   rpc      terminal_rpc_1 (84)         responde send the code (93)      *)
(*   conf, cuenta, lineas, confLinea      LIST_USERS (260-305)             *)
(*   conf, cuenta, archivos               LIST_CONTENT (342-393)           *)
(*   fin      signal and unlock (425)     cierra   close (428)             *)
(*   fuera    finished                    muerto   returned early          *)
(*   huerfana no thread was created       cortada  the process died        *)
(***************************************************************************)
EXTENDS Claves, Sequences

CONSTANTS
  Clients,   \* connections, each with one request
  Nadie      \* no connection: a free mutex, sc before and after a failed accept

VARIABLES
  main,           \* where main is
  sc,             \* the variable sc of main, whose address the threads get
  noCopiado,      \* mensaje_no_copiado
  mutex,          \* the holder of mutex_mensaje
  hilo,           \* where each thread is
  loc,            \* the stack of each thread
  con,            \* each connection, with what its client does
  hist,           \* the requests served, in order, with their codes
  log,            \* the calls the RPC server has answered, in order
  resp            \* the code sent on each connection

ASSUME ServidorAssumption == Nadie \notin Clients

traza    == <<hist, log, resp>>
vars     == <<disco, ultima, main, sc, noCopiado, mutex, hilo, loc, con, hist, log, resp>>

(* After the lock and before the unlock. *)
EnSeccion == {"leeOp", "rpcAbre", "leeArgs", "comprueba", "actua", "rpc", "responde",
              "conf", "cuenta", "lineas", "confLinea", "archivos", "fin"}
Fuera     == {"no", "fuera", "cortada", "huerfana"}
Lugares   == EnSeccion \cup Fuera \cup {"cola", "aceptada", "nace", "arranca", "cierra", "muerto"}

(* What a handler reads when the client closed before sending anything. *)
NoPet    == [op |-> "none", user |-> Empty, arg |-> Empty]
NoTree   == [dirs |-> {}, files |-> {}, lines |-> {}]
Pila     == [sk |-> Nadie, visto |-> NoTree, res |-> "none", n |-> 0, env |-> 0]
Nueva(p) == [peer |-> "abierto", enviado |-> 0, pet |-> p, ack |-> FALSE, debe |-> FALSE]

Init == /\ InitRegistro
        /\ main = "acepta" /\ sc = Nadie /\ noCopiado = TRUE /\ mutex = Nadie
        /\ hilo = [c \in Clients |-> "no"]
        /\ loc  = [c \in Clients |-> Pila]
        /\ con  = [c \in Clients |-> Nueva(NoPet)]
        /\ hist = <<>> /\ log = <<>>
        /\ resp = [c \in Clients |-> "none"]

-----------------------------------------------------------------------------
(* The other end of the connections: client.py, and the network.            *)

Llega(c) ==
  /\ hilo[c] = "no" /\ main # "caido"
  /\ hilo' = [hilo EXCEPT ![c] = "cola"]
  /\ \E p \in Peticiones : con' = [con EXCEPT ![c] = Nueva(p)]
  /\ UNCHANGED <<registro, main, sc, noCopiado, mutex, loc, traza>>

Vivo(c) == hilo[c] \notin Fuera /\ con[c].peer = "abierto"

ClienteSolo == UNCHANGED <<registro, main, sc, noCopiado, mutex, hilo, loc, traza>>

(* First the operation, then, once the clock service has answered, the rest. *)
Envia(c) ==
  /\ Vivo(c) /\ con[c].enviado < 2
  /\ con' = [con EXCEPT ![c].enviado = @ + 1]
  /\ ClienteSolo

(* "OK", after a message of a listing. *)
Confirma(c) ==
  /\ Vivo(c) /\ con[c].debe
  /\ con' = [con EXCEPT ![c].debe = FALSE, ![c].ack = TRUE]
  /\ ClienteSolo

(* The client ends early; what it did not send reads as end of file. *)
Abandona(c) ==
  /\ "close" \in Faults /\ Vivo(c)
  /\ \E p \in CASE con[c].enviado = 0 -> {NoPet}
                [] con[c].enviado = 1 -> Truncada(con[c].pet)
                [] con[c].enviado = 2 -> {con[c].pet} :
       con' = [con EXCEPT ![c] = [peer |-> "cerrado", enviado |-> 2, pet |-> p,
                                  ack |-> @.ack, debe |-> @.debe]]
  /\ ClienteSolo

(* The connection is reset while the server may be reading. *)
Corta(c) ==
  /\ "reset" \in Faults /\ Vivo(c)
  /\ con' = [con EXCEPT ![c].peer = "reset"]
  /\ ClienteSolo

-----------------------------------------------------------------------------
(* main                                                                     *)

Acepta(c) ==
  /\ main = "acepta" /\ hilo[c] = "cola"
  /\ sc' = c /\ main' = "crea"
  /\ hilo' = [hilo EXCEPT ![c] = "aceptada"]
  /\ UNCHANGED <<registro, noCopiado, mutex, loc, con, traza>>

(* serverAccept fails; main tries again. *)
NoAcepta ==
  /\ "thread" \in Faults /\ main = "acepta"
  /\ sc' = Nadie
  /\ UNCHANGED <<registro, main, noCopiado, mutex, hilo, loc, con, traza>>

(* The thread gets the address of sc.  Without a thread nobody closes the   *)
(* connection.                                                              *)
CreaSinEsperar ==  \* variant: main does not wait for the thread
  /\ main = "crea" /\ main' = "acepta"
  /\ hilo' = [hilo EXCEPT ![sc] = "nace"]
  /\ UNCHANGED <<registro, sc, noCopiado, mutex, loc, con, traza>>

CreaHilo ==
  /\ main = "crea"
  /\ \/ /\ main' = "cerrojo"
        /\ hilo' = [hilo EXCEPT ![sc] = "nace"]
     \/ /\ "thread" \in Faults
        /\ main' = "acepta"
        /\ hilo' = [hilo EXCEPT ![sc] = "huerfana"]
  /\ UNCHANGED <<registro, sc, noCopiado, mutex, loc, con, traza>>

(* main has the lock: it waits for the flag (and lets the lock go), or      *)
(* resets it and unlocks.                                                   *)
EsperaSinReponer ==  \* variant: the flag is not set again
  /\ main = "cerrojo" /\ mutex = Nadie
  /\ main' = IF noCopiado THEN "espera" ELSE "acepta"
  /\ UNCHANGED <<registro, sc, noCopiado, mutex, hilo, loc, con, traza>>

EsperaCopiado ==
  /\ main = "cerrojo" /\ mutex = Nadie
  /\ main' = IF noCopiado THEN "espera" ELSE "acepta"
  /\ noCopiado' = TRUE
  /\ UNCHANGED <<registro, sc, mutex, hilo, loc, con, traza>>

(* pthread_cond_wait may return without a signal. *)
DespiertaYSigue ==  \* variant: `if` in the place of `while`
  /\ main = "espera" /\ main' = "acepta"
  /\ UNCHANGED <<registro, sc, noCopiado, mutex, hilo, loc, con, traza>>

Despierta ==
  /\ main = "espera"
  /\ main' = "cerrojo"
  /\ UNCHANGED <<registro, sc, noCopiado, mutex, hilo, loc, con, traza>>

(* The end of the process: every thread and connection goes with it. *)
Fallece ==
  /\ main' = "caido" /\ mutex' = Nadie
  /\ hilo' = [c \in Clients |-> IF hilo[c] \in {"no", "fuera"} THEN hilo[c] ELSE "cortada"]

Muere ==
  /\ "kill" \in Faults /\ main # "caido"
  /\ Fallece
  /\ UNCHANGED <<registro, sc, noCopiado, loc, con, traza>>

ReiniciaConLista ==  \* variant: conectados.txt is not emptied
  /\ main = "caido" /\ main' = "acepta" /\ sc' = Nadie /\ noCopiado' = TRUE
  /\ ultima' = NoRequest
  /\ UNCHANGED <<disco, mutex, hilo, loc, con, traza>>

Reinicia ==
  /\ main = "caido"
  /\ main' = "acepta" /\ sc' = Nadie /\ noCopiado' = TRUE
  /\ Arranca
  /\ UNCHANGED <<mutex, hilo, loc, con, traza>>

-----------------------------------------------------------------------------
(* tratar_mensaje                                                           *)

A(c, lugar) == hilo' = [hilo EXCEPT ![c] = lugar]

(* An early return leaves the lock as it is and signals nobody. *)
Vuelve(c) == A(c, "muerto")

LeeSocket(c) ==
  /\ hilo[c] = "nace" /\ A(c, "arranca")
  /\ loc' = [loc EXCEPT ![c].sk = sc]
  /\ UNCHANGED <<registro, main, sc, noCopiado, mutex, con, traza>>

BloqueaYSuelta(c) ==  \* variant: signal and unlock as soon as sc is copied
  /\ hilo[c] = "arranca" /\ mutex = Nadie /\ A(c, "leeOp")
  /\ noCopiado' = FALSE
  /\ main' = IF main = "espera" THEN "cerrojo" ELSE main
  /\ UNCHANGED <<registro, sc, mutex, loc, con, traza>>

Bloquea(c) ==
  /\ hilo[c] = "arranca" /\ mutex = Nadie
  /\ mutex' = c /\ A(c, "leeOp")
  /\ UNCHANGED <<registro, main, sc, noCopiado, loc, con, traza>>

(* What has arrived can be read before the error a reset leaves behind. *)
LecturaFalla(s) == s = Nadie \/ con[s].peer = "reset"

LeeOperacion(c) ==
  LET s == loc[c].sk
  IN  /\ hilo[c] = "leeOp"
      /\ \/ s # Nadie /\ con[s].enviado >= 1 /\ A(c, "rpcAbre") /\ UNCHANGED mutex
         \/ LecturaFalla(s) /\ Vuelve(c) /\ mutex' = Nadie
      /\ UNCHANGED <<registro, main, sc, noCopiado, loc, con, traza>>

AbreRpc(c) ==
  /\ hilo[c] = "rpcAbre"
  /\ \/ A(c, "leeArgs")
     \/ "rpc" \in Faults /\ Vuelve(c)
  /\ UNCHANGED <<registro, main, sc, noCopiado, mutex, loc, con, traza>>

(* Without an operation there is nothing else to read, and no answer. *)
LeeArgumentos(c) ==
  LET s == loc[c].sk
  IN  /\ hilo[c] = "leeArgs"
      /\ \/ con[s].pet.op = "none" /\ A(c, "fin")
         \/ con[s].pet.op # "none" /\ con[s].enviado = 2 /\ A(c, "comprueba")
         \/ con[s].pet.op # "none" /\ LecturaFalla(s) /\ Vuelve(c)
      /\ UNCHANGED <<registro, main, sc, noCopiado, mutex, loc, con, traza>>

(* The calls of a *_serv that look (access, opendir, the scans) ... *)
Comprueba(c) ==
  /\ hilo[c] = "comprueba" /\ A(c, "actua")
  /\ loc' = [loc EXCEPT ![c].visto = disco]
  /\ UNCHANGED <<registro, main, sc, noCopiado, mutex, con, traza>>

(* ... and the calls that change the tree. *)
Actua(c) ==
  LET s == loc[c].sk
  IN  /\ hilo[c] = "actua"
      /\ Serv(loc[c].visto, con[s].pet)
      /\ \/ ultima'.res = "crash" /\ Fallece /\ UNCHANGED <<loc, hist>>
         \/ /\ ultima'.res # "crash" /\ A(c, "rpc")
            /\ loc' = [loc EXCEPT ![c].res = ultima'.res, ![c].n = ultima'.n]
            /\ hist' = Append(hist, [cl |-> s, res |-> ultima'.res])
            /\ UNCHANGED <<main, mutex>>
      /\ UNCHANGED <<sc, noCopiado, con, log, resp>>

(* The RPC server prints a line for the request and keeps nothing. *)
Impresa(c) == Append(log, loc[c].sk)

(* A failed call may have reached the RPC server, its reply lost. *)
RegistraSinMirar(c) ==  \* variant: the status of the call is not tested
  /\ hilo[c] = "rpc" /\ A(c, "responde")
  /\ \/ log' = Impresa(c)
     \/ "rpc" \in Faults /\ log' = log
  /\ UNCHANGED <<registro, main, sc, noCopiado, mutex, loc, con, hist, resp>>

Registra(c) ==
  /\ hilo[c] = "rpc"
  /\ \/ log' = Impresa(c) /\ A(c, "responde")
     \/ "rpc" \in Faults /\ log' \in {log, Impresa(c)} /\ Vuelve(c)
  /\ UNCHANGED <<registro, main, sc, noCopiado, mutex, loc, con, hist, resp>>

-----------------------------------------------------------------------------
(* Messages to the client                                                   *)

EsConfirmable(c) == TRUE  \* variant: every answer is confirmed and counted
EsListado(c) == con[loc[c].sk].pet.op \in Listings

(* A message to a client that has closed provokes a reset. *)
Manda(s, confirmable) ==
  \/ /\ con[s].peer = "abierto"
     /\ con' = [con EXCEPT ![s].debe = confirmable]
  \/ /\ con[s].peer = "cerrado"
     /\ \E q \in {"cerrado", "roto"} : con' = [con EXCEPT ![s].peer = q]

NoManda(s) == con[s].peer = "reset" /\ con' = [con EXCEPT ![s].peer = "roto"]

(* A message on a connection already reset: SIGPIPE, which nobody handles.  *)
Sigpipe(c) ==
  /\ \/ hilo[c] \in {"cuenta", "lineas"}
     \/ hilo[c] = "archivos" /\ loc[c].env < loc[c].n
  /\ con[loc[c].sk].peer = "roto"
  /\ Fallece
  /\ UNCHANGED <<registro, sc, noCopiado, loc, con, traza>>

Responde(c) ==
  LET s == loc[c].sk
  IN  /\ hilo[c] = "responde"
      /\ \/ /\ Manda(s, EsListado(c))
            /\ A(c, IF EsListado(c) THEN "conf" ELSE "fin")
            /\ resp' = [resp EXCEPT ![s] = loc[c].res]
            /\ UNCHANGED mutex
         \/ NoManda(s) /\ Vuelve(c) /\ mutex' = Nadie /\ UNCHANGED resp
      /\ UNCHANGED <<registro, main, sc, noCopiado, loc, hist, log>>

(* The confirmation, or end of file, which counts as one. *)
Confirmado(s) ==
  /\ con[s].ack \/ con[s].peer \in {"cerrado", "roto"}
  /\ con' = [con EXCEPT ![s].ack = FALSE]

SinConfirmar(s) == con[s].peer \in {"reset", "roto"} /\ UNCHANGED con

EsperaConfirmacion(c) ==
  LET s == loc[c].sk
  IN  /\ hilo[c] = "conf"
      /\ \/ Confirmado(s) /\ A(c, "cuenta")
         \/ SinConfirmar(s) /\ Vuelve(c)
      /\ UNCHANGED <<registro, main, sc, noCopiado, mutex, loc, traza>>

(* LIST_USERS tests the wrong variable: it goes on after an error. *)
MandaCuenta(c) ==
  LET s     == loc[c].sk
      users == con[s].pet.op = "LIST_USERS"
  IN  /\ hilo[c] = "cuenta"
      /\ \/ /\ users
            /\ Manda(s, FALSE) \/ NoManda(s)
            /\ A(c, IF loc[c].res = "0" /\ loc[c].n > 0 THEN "lineas" ELSE "fin")
            /\ UNCHANGED mutex
         \/ ~users /\ Manda(s, FALSE) /\ A(c, "archivos") /\ UNCHANGED mutex
         \/ ~users /\ NoManda(s) /\ Vuelve(c) /\ mutex' = Nadie
      /\ UNCHANGED <<registro, main, sc, noCopiado, loc, traza>>

(* Line env + 1 of conectados.txt, which is opened again for each line. *)
MandaLinea(c) ==
  LET s == loc[c].sk
  IN  /\ hilo[c] = "lineas"
      /\ \/ /\ ListFile \in disco.files /\ loc[c].env < Cardinality(disco.lines)
            /\ Manda(s, TRUE)
            /\ A(c, "confLinea")
            /\ loc' = [loc EXCEPT ![c].env = @ + 1]
         \/ NoManda(s) /\ Vuelve(c) /\ UNCHANGED loc
         \/ "disk" \in Faults /\ Vuelve(c) /\ UNCHANGED <<loc, con>>
      /\ UNCHANGED <<registro, main, sc, noCopiado, mutex, traza>>

EsperaConfLinea(c) ==
  LET s == loc[c].sk
  IN  /\ hilo[c] = "confLinea"
      /\ \/ Confirmado(s) /\ A(c, IF loc[c].env < loc[c].n THEN "lineas" ELSE "fin")
         \/ SinConfirmar(s) /\ Vuelve(c)
      /\ UNCHANGED <<registro, main, sc, noCopiado, mutex, loc, traza>>

(* The directory is the one of res_username, empty when there was an error. *)
Carpeta(c) == IF loc[c].res = "0" THEN con[loc[c].sk].pet.arg ELSE Empty

MandaArchivo(c) ==
  LET s == loc[c].sk
  IN  /\ hilo[c] = "archivos"
      /\ \/ /\ loc[c].env = 0                                   \* opendir
            /\ \/ Carpeta(c) \notin disco.dirs
               \/ "disk" \in Faults
            /\ Vuelve(c) /\ UNCHANGED <<loc, con>>
         \/ /\ Carpeta(c) \in disco.dirs /\ loc[c].env < loc[c].n
            /\ Manda(s, FALSE) /\ UNCHANGED hilo
            /\ loc' = [loc EXCEPT ![c].env = @ + 1]
         \/ /\ Carpeta(c) \in disco.dirs /\ loc[c].env < loc[c].n
            /\ NoManda(s) /\ Vuelve(c) /\ UNCHANGED loc
         \/ /\ Carpeta(c) \in disco.dirs
            /\ loc[c].env >= loc[c].n \/ "disk" \in Faults  \* some files do not open
            /\ A(c, "fin") /\ UNCHANGED <<loc, con>>
      /\ UNCHANGED <<registro, main, sc, noCopiado, mutex, traza>>

TerminaSinAvisar(c) ==  \* variant: no signal
  /\ hilo[c] = "fin" /\ A(c, "cierra")
  /\ noCopiado' = FALSE /\ mutex' = Nadie
  /\ UNCHANGED <<registro, main, sc, loc, con, traza>>

TerminaSinSoltar(c) ==  \* variant: no unlock
  /\ hilo[c] = "fin" /\ A(c, "cierra")
  /\ noCopiado' = FALSE
  /\ main' = IF main = "espera" THEN "cerrojo" ELSE main
  /\ UNCHANGED <<registro, sc, mutex, loc, con, traza>>

Termina(c) ==
  /\ hilo[c] = "fin" /\ A(c, "cierra")
  /\ noCopiado' = FALSE
  /\ main' = IF main = "espera" THEN "cerrojo" ELSE main
  /\ mutex' = Nadie
  /\ UNCHANGED <<registro, sc, loc, con, traza>>

Cierra(c) ==
  /\ hilo[c] = "cierra" /\ A(c, "fuera")
  /\ UNCHANGED <<registro, main, sc, noCopiado, mutex, loc, con, traza>>

-----------------------------------------------------------------------------
Principal == (\E c \in Clients : Acepta(c)) \/ CreaHilo \/ EsperaCopiado

TratarMensaje(c) ==
  \/ LeeSocket(c) \/ Bloquea(c) \/ LeeOperacion(c) \/ AbreRpc(c) \/ LeeArgumentos(c)
  \/ Comprueba(c) \/ Actua(c) \/ Registra(c) \/ Responde(c)
  \/ EsperaConfirmacion(c) \/ MandaCuenta(c) \/ MandaLinea(c) \/ EsperaConfLinea(c)
  \/ MandaArchivo(c) \/ Sigpipe(c) \/ Termina(c) \/ Cierra(c)

Cliente(c) == Envia(c) \/ Confirma(c)

Next == \/ Principal \/ NoAcepta \/ Despierta \/ Muere \/ Reinicia
        \/ \E c \in Clients : \/ TratarMensaje(c) \/ Cliente(c)
                             \/ Llega(c) \/ Abandona(c) \/ Corta(c)

Spec == Init /\ [][Next]_vars

(* The scheduler runs main and every thread that can run, and clients go on *)
(* with their requests.  Nobody owes an arrival, a fault, a spurious wakeup *)
(* or a restart.                                                            *)
Fairness == /\ WF_vars(Principal)
            /\ \A c \in Clients : WF_vars(TratarMensaje(c)) /\ WF_vars(Cliente(c))

FairSpec == Spec /\ Fairness

-----------------------------------------------------------------------------
(***************************************************************************)
(* Properties                                                              *)
(***************************************************************************)
Stack == [sk : Clients \cup {Nadie}, visto : Store, res : Codes, n : Int, env : Nat]
Link  == [peer : {"abierto", "cerrado", "reset", "roto"}, enviado : 0..2,
          pet : Request \cup {NoPet}, ack : BOOLEAN, debe : BOOLEAN]

(* The type invariant. *)
TypeOK ==
  /\ TreeOK
  /\ main \in {"acepta", "crea", "cerrojo", "espera", "caido"}
  /\ sc \in Clients \cup {Nadie} /\ mutex \in Clients \cup {Nadie} /\ noCopiado \in BOOLEAN
  /\ hilo \in [Clients -> Lugares]
  /\ loc \in [Clients -> Stack]
  /\ con \in [Clients -> Link]
  /\ hist \in Seq([cl : Clients \cup {Nadie}, res : Codes])
  /\ log \in Seq(Clients \cup {Nadie})
  /\ resp \in [Clients -> Codes]

(* The threads main has to wait for: from accept to the signal.  One that   *)
(* returned early never signals.                                            *)
Ocupados == {c \in Clients : hilo[c] \in EnSeccion \cup {"aceptada", "nace", "arranca", "muerto"}}

(* The hand-over between main and the threads: main accepts the next        *)
(* connection only when the thread of the last one has signalled.  This is  *)
(* what makes the shared sc and the single flag mensaje_no_copiado enough,  *)
(* spurious wakeups, failed accepts and failed pthread_create included.     *)
Handshake ==
  /\ main = "acepta" => Ocupados = {} /\ noCopiado
  /\ main = "crea" => Ocupados = {sc} /\ hilo[sc] = "aceptada" /\ noCopiado
  /\ main \in {"cerrojo", "espera"} =>
       \/ noCopiado /\ Ocupados = {sc} /\ hilo[sc] # "aceptada"
       \/ ~noCopiado /\ Ocupados = {} /\ main = "cerrojo"
  /\ main = "caido" => Ocupados = {}

(* A thread serves the connection it was created for, although all threads  *)
(* get the address of one variable of main, which main overwrites when it   *)
(* accepts again (tratar_mensaje reads it before it takes the lock).        *)
OwnSocket == \A c \in Clients : hilo[c] \in EnSeccion \cup {"arranca"} => loc[c].sk = c

(* The lock is with the thread that is in the section, or with one that     *)
(* returned from it without unlocking.                                      *)
LockHeld == /\ \A c \in Clients : hilo[c] \in EnSeccion => mutex = c
            /\ mutex # Nadie => hilo[mutex] \in EnSeccion \cup {"muerto"}

(* What a *_serv has looked at is still so when it changes the tree: no     *)
(* check of access() or of conectados.txt is stale when it is acted upon.   *)
NothingStale == \A c \in Clients : hilo[c] = "actua" => loc[c].visto = disco

(* The process does not outlive a fatal request. *)
NoZombie == ultima.res = "crash" => main = "caido"

(* The inductive invariant: what the hand-over, the lock and the private     *)
(* copies of sc need of each other.                                         *)
IInv == TypeOK /\ Handshake /\ OwnSocket /\ LockHeld /\ NothingStale /\ NoZombie

(* All the concurrency of the server is invisible in the registry: each     *)
(* request has its effect in one step, as in module Claves.                 *)
ServesAtomically == Registro

(* No connection is served twice, nor by two threads, and the code a client *)
(* gets is the one its own request was served with.                         *)
ServedOnce ==
  /\ \A i, j \in DOMAIN hist : hist[i].cl = hist[j].cl => i = j
  /\ \A c \in Clients : resp[c] # "none" =>
       \E i \in DOMAIN hist : hist[i] = [cl |-> c, res |-> resp[c]]

(* The RPC server prints operations in the order in which they changed the  *)
(* registry, none twice, and every operation the client saw answered: the   *)
(* call is made inside the critical section and before the answer.          *)
LogIsFaithful ==
  /\ \A i, j \in DOMAIN log : i < j =>
       \E k, l \in DOMAIN hist : k < l /\ hist[k].cl = log[i] /\ hist[l].cl = log[j]
  /\ \A c \in Clients : resp[c] # "none" => \E i \in DOMAIN log : log[i] = c

(* A listing sends as many lines as it announced, and conectados.txt still  *)
(* has them, although it is counted once and opened again for every line    *)
(* and every line waits for the client.                                     *)
ListingMatchesCount ==
  \A c \in Clients :
    /\ hilo[c] = "lineas" => /\ ListFile \in disco.files
                             /\ loc[c].env < loc[c].n
                             /\ loc[c].n = Cardinality(disco.lines)
    /\ hilo[c] = "archivos" /\ loc[c].res = "0" =>
         loc[c].env <= loc[c].n /\ loc[c].n = Cardinality(Own(disco, Carpeta(c)))

(* Without a fault of the machine the process ends for two reasons only: a  *)
(* fatal request, or a listing whose client is gone (SIGPIPE).              *)
DeathHasACause ==
  main = "caido" => \/ ultima.res = "crash"
                    \/ \E c \in Clients : con[c].peer = "roto" /\ con[c].pet.op \in Listings

(* Every connection is served and closed. *)
EveryoneIsServed == \A c \in Clients : hilo[c] = "cola" ~> hilo[c] = "fuera"

(* A request that was served is answered, as long as its client waits: the  *)
(* comment "Envíamos el resultado de la operación".                         *)
ServedIsAnswered ==
  \A c \in Clients : (\E i \in DOMAIN hist : hist[i].cl = c) ~> resp[c] # "none"
=============================================================================
