------------------------------ MODULE Dialogo ------------------------------
(***************************************************************************)
(* The three conversations in which more than one message goes to a        *)
(* client, over a connection that is a stream of bytes:                    *)
(*   "users"    LIST_USERS, servidor.c with listusers of client.py         *)
(*   "content"  LIST_CONTENT, servidor.c with listcontent                  *)
(*   "file"     GET_FILE, handle_server_connection of the owner of a file  *)
(*              with getfile                                               *)
(* from the moment the request is served, or for GET_FILE made.            *)
(*                                                                         *)
(* Lines, files and chunks are cut in two pieces wherever the network may  *)
(* cut them; the messages of two or three bytes are one piece.  A recv     *)
(* returns a beginning of what has arrived: in a "libre" network any that  *)
(* is not empty, in an "amable" one exactly one message.  The client asks  *)
(* for at most 16, 256 or 1024 bytes; a beginning cut to that size has the *)
(* effect of one of those here.                                            *)
(***************************************************************************)
EXTENDS Integers, Sequences

CONSTANTS
  Tipos,    \* the conversations of a run with the networks they run in
  MaxN,     \* bound on the lines, files or chunks
  Caidas    \* which ends may be killed; "disk": the files the server lists may not open

ASSUME DialogoAssumption ==
  /\ Tipos \subseteq {"users", "content", "file"} \X {"amable", "libre"}
  /\ MaxN \in Nat
  /\ Caidas \subseteq {"cli", "srv", "disk"}

VARIABLES
  caso,     \* the conversation, its network, its disk, and how much there is to send
  sube,     \* what the client has sent and the other end has not read
  baja,     \* what the other end has sent and the client has not read
  corte,    \* each end as the other one sees it
  cli,      \* the client
  srv       \* the thread of the server, or of the owner of the file

vars == <<caso, sube, baja, corte, cli, srv>>

DiscosDe == {"bien"} \cup {d \in {"mal"} : "disk" \in Caidas}

(* n items, or -1: the answer is an error. *)
Casos == {[tipo |-> t[1], red |-> t[2], n |-> n, disco |-> d] :
            t \in Tipos, n \in -1..MaxN, d \in DiscosDe}

(* Every file opens that is listed. *)
Abren == caso.disco = "bien"

Listado == caso.tipo # "file"
Error   == caso.n = -1

Largos == {"elem", "FIN", "peticion"}
Mensaje(que, i) ==
  IF que \in Largos THEN <<[que |-> que, i |-> i, parte |-> 1], [que |-> que, i |-> i, parte |-> 2]>>
  ELSE <<[que |-> que, i |-> i, parte |-> 0]>>

Cola(s, k) == SubSeq(s, k + 1, Len(s))

Init == /\ caso \in Casos
        /\ sube = <<>> /\ baja = <<>>
        /\ corte = [e \in {"cli", "srv"} |-> "abierto"]
        /\ cli = [paso |-> IF Listado THEN "codigo" ELSE "pide", i |-> 0,
                  leido |-> <<>>, resp |-> "", recibido |-> <<>>, fin |-> "no"]
        /\ srv = [paso |-> IF Listado THEN "codigo" ELSE "pide", i |-> 0]

-----------------------------------------------------------------------------
(* The connection.  "cerrado": the end has closed; "avisado": something was *)
(* sent to it since, a reset is on its way; "roto": the reset has arrived.  *)

Mismo(a, b) == a.que = b.que /\ a.i = b.i

(* How many pieces a recv may return: in an "amable" network the first     *)
(* message, all of it unless its sender has gone before the rest.          *)
Cortes(s, otro) ==
  IF caso.red = "libre" THEN 1..Len(s)
  ELSE {k \in 1..Len(s) : /\ \A j \in 1..k : Mismo(s[1], s[j])
                          /\ k < Len(s) => ~Mismo(s[1], s[k + 1])
                          /\ s[k].parte # 1 \/ corte[otro] # "abierto"}

(* What recv may return; nothing is the end of the stream. *)
Leibles(s, otro) == {SubSeq(s, 1, k) : k \in Cortes(s, otro)}
                      \cup IF s = <<>> /\ corte[otro] # "abierto" THEN {<<>>} ELSE {}

(* A send leaves the data with the other end, or provokes a reset. *)
Envia(q, m, otro) == IF corte[otro] = "abierto" THEN q \o m ELSE q
Avisa(otro) == IF corte[otro] = "cerrado" THEN [corte EXCEPT ![otro] = "avisado"] ELSE corte

(* Closing with data unread sends a reset instead of an end of stream. *)
Cierra(yo, sinLeer) == [corte EXCEPT ![yo] = IF sinLeer = <<>> THEN "cerrado" ELSE "roto"]

LlegaReset == /\ \E e \in {"cli", "srv"} :
                   corte[e] = "avisado" /\ corte' = [corte EXCEPT ![e] = "roto"]
              /\ UNCHANGED <<caso, sube, baja, cli, srv>>

-----------------------------------------------------------------------------
(* The client *)

Va(paso) == cli' = [cli EXCEPT !.paso = paso]

(* The command prints its last line, or an exception, and closes. *)
Acaba(fin) == /\ cli' = [cli EXCEPT !.paso = "acabado", !.fin = fin]
              /\ corte' = Cierra("cli", baja)

Recv == Leibles(baja, "srv")
Lee(r) == baja' = Cola(baja, Len(r))

SoloCli == UNCHANGED <<caso, sube, srv>>

(* A client that reads when there is nothing left but a reset. *)
RecvFalla == /\ cli.paso \in {"codigo", "cuenta", "elem", "trozo"} /\ baja = <<>>
             /\ corte["srv"] = "roto"
             /\ Acaba("excepcion")
             /\ UNCHANGED baja /\ SoloCli

(* sendall of a message, or the exception of a broken pipe. *)
Manda(m, despues) ==
  \/ /\ corte["srv"] # "roto"
     /\ sube' = Envia(sube, m, "srv") /\ corte' = Avisa("srv")
     /\ despues
  \/ corte["srv"] = "roto" /\ Acaba("excepcion") /\ UNCHANGED sube

(* The request goes in several sends: the operation, then the names. *)
Peticion == Mensaje("peticion", 0)

PideArchivo ==
  /\ \/ cli.paso = "pide" /\ Manda(<<Peticion[1]>>, Va("pideResto"))
     \/ cli.paso = "pideResto" /\ Manda(<<Peticion[2]>>, Va("codigo"))
  /\ UNCHANGED <<caso, baja, srv>>

OK == Mensaje("OK", 0)

(* The code.  A listing confirms whatever came; a transfer goes on with the *)
(* chunks, and what came with the code is not looked at again.              *)
LeeCodigo ==
  /\ cli.paso = "codigo"
  /\ \E r \in Recv :
       LET resp == IF r = <<>> THEN "" ELSE r[1].que
           leido == [cli EXCEPT !.leido = r, !.resp = resp]
       IN  /\ Lee(r)
           /\ \/ Listado /\ cli' = [leido EXCEPT !.paso = "confCodigo"] /\ UNCHANGED corte
              \/ /\ ~Listado /\ resp = "0"
                 /\ cli' = [leido EXCEPT !.paso = "trozo"] /\ UNCHANGED corte
              \/ /\ ~Listado /\ resp # "0"
                 /\ cli' = [leido EXCEPT !.paso = "acabado",
                                         !.fin = IF resp = "" THEN "excepcion" ELSE "fallo"]
                 /\ corte' = Cierra("cli", Cola(baja, Len(r)))
  /\ SoloCli

ConfirmaCodigo == /\ cli.paso = "confCodigo"
                  /\ Manda(OK, Va("cuenta"))
                  /\ UNCHANGED <<caso, baja, srv>>

Cuenta == Mensaje("cuenta", 0)

(* The count.  int() takes a count and nothing else. *)
LeeCuenta ==
  /\ cli.paso = "cuenta"
  /\ \E r \in Recv :
       /\ Lee(r)
       /\ \/ /\ cli.resp = "0" /\ r = Cuenta /\ caso.n > 0
             /\ cli' = [cli EXCEPT !.leido = r, !.paso = "elem"] /\ UNCHANGED corte
          \/ /\ ~(cli.resp = "0" /\ r = Cuenta /\ caso.n > 0)
             /\ cli' = [cli EXCEPT !.leido = r, !.paso = "acabado",
                                   !.fin = IF cli.resp = "error" THEN "fallo"
                                           ELSE IF cli.resp = "0" /\ r = Cuenta THEN "ok"
                                           ELSE "excepcion"]
             /\ corte' = Cierra("cli", Cola(baja, Len(r)))
  /\ SoloCli

(* A recv for each item announced.  LIST_CONTENT prints what it gets, be it *)
(* nothing; LIST_USERS confirms it and then looks for the words of a line.  *)
LeeElemento ==
  /\ cli.paso = "elem"
  /\ \E r \in Recv :
       LET leido == [cli EXCEPT !.leido = r, !.recibido = @ \o r, !.i = @ + 1]
       IN  /\ Lee(r)
           /\ \/ caso.tipo = "users" /\ cli' = [leido EXCEPT !.paso = "confElem"] /\ UNCHANGED corte
              \/ /\ caso.tipo = "content" /\ leido.i < caso.n
                 /\ cli' = leido /\ UNCHANGED corte
              \/ /\ caso.tipo = "content" /\ leido.i = caso.n
                 /\ cli' = [leido EXCEPT !.paso = "acabado", !.fin = "ok"]
                 /\ corte' = Cierra("cli", Cola(baja, Len(r)))
  /\ SoloCli

ConfirmaElementoSinOK ==  \* variant: lines are not confirmed
  cli.paso = "confElem" /\ Va("analiza") /\ UNCHANGED <<caso, sube, baja, corte, srv>>
ConfirmaElemento == /\ cli.paso = "confElem"
                    /\ Manda(OK, Va("analiza"))
                    /\ UNCHANGED <<caso, baja, srv>>

(* A whole line at the beginning gives its entry.  A part of one gives a    *)
(* wrong entry or an exception, nothing at all an exception.                *)
Entera(r) == Len(r) > 1 /\ Mismo(r[1], r[2])

AnalizaLineaUnaMenos ==  \* variant: the client stops one line early
  /\ cli.paso = "analiza"
  /\ \/ cli.i + 1 < caso.n /\ Va("elem") /\ UNCHANGED corte
     \/ cli.i + 1 >= caso.n /\ Acaba("ok")
  /\ UNCHANGED <<caso, sube, baja, srv>>

AnalizaLinea ==
  /\ cli.paso = "analiza"
  /\ \/ /\ cli.leido # <<>> /\ cli.i < caso.n
        /\ Va("elem") /\ UNCHANGED corte
     \/ cli.leido # <<>> /\ cli.i = caso.n /\ Acaba("ok")
     \/ ~Entera(cli.leido) /\ Acaba("excepcion")
  /\ UNCHANGED <<caso, sube, baja, srv>>

LeeTrozoHastaElFin ==  \* variant: the end of the stream ends the file as well
  /\ cli.paso = "trozo"
  /\ \E r \in Recv :
       /\ Lee(r)
       /\ \/ /\ r \in {<<>>, Mensaje("FIN", 0)}
             /\ cli' = [cli EXCEPT !.leido = r, !.paso = "acabado", !.fin = "ok"]
             /\ corte' = Cierra("cli", Cola(baja, Len(r)))
          \/ /\ r \notin {<<>>, Mensaje("FIN", 0)}
             /\ cli' = [cli EXCEPT !.leido = r, !.recibido = @ \o r, !.paso = "confTrozo"]
             /\ UNCHANGED corte
  /\ SoloCli

(* Until a recv returns the final mark and only that, it is the file. *)
LeeTrozo ==
  /\ cli.paso = "trozo"
  /\ \E r \in Recv :
       /\ Lee(r)
       /\ \/ /\ r = Mensaje("FIN", 0)
             /\ cli' = [cli EXCEPT !.leido = r, !.paso = "acabado", !.fin = "ok"]
             /\ corte' = Cierra("cli", Cola(baja, Len(r)))
          \/ /\ r # Mensaje("FIN", 0)
             /\ cli' = [cli EXCEPT !.leido = r, !.recibido = @ \o r, !.paso = "confTrozo"]
             /\ UNCHANGED corte
  /\ SoloCli

ConfirmaTrozo == /\ cli.paso = "confTrozo"
                 /\ Manda(OK, Va("trozo"))
                 /\ UNCHANGED <<caso, baja, srv>>

MataCliente == /\ "cli" \in Caidas /\ cli.fin = "no"
               /\ Acaba("matado")
               /\ UNCHANGED <<caso, sube, baja, srv>>

-----------------------------------------------------------------------------
(* The other end: a thread of the server, or the owner's thread *)

Sigue(paso) == srv' = [srv EXCEPT !.paso = paso]
SoloSrv == UNCHANGED <<caso, sube, cli>>

(* A write on a reset connection: SIGPIPE or an error in servidor.c, which   *)
(* ends the process or the thread, an exception in client.py.               *)
NoPuede == /\ corte["cli"] = "roto"
           /\ \/ Listado /\ Sigue("muerto") /\ corte' = Cierra("srv", sube)
              \/ Listado /\ Sigue("vuelto") /\ UNCHANGED corte
              \/ ~Listado /\ Sigue("excepcion") /\ corte' = Cierra("srv", sube)
           /\ UNCHANGED baja

Emite(m, despues) == \/ /\ corte["cli"] # "roto"
                        /\ baja' = Envia(baja, m, "cli") /\ corte' = Avisa("cli")
                        /\ despues
                     \/ NoPuede

(* The request is expected in one recv: in part of it the name of the file  *)
(* is missing (an exception) or cut, and the rest goes unread.              *)
LeePeticion ==
  /\ srv.paso = "pide"
  /\ \E r \in Leibles(sube, "cli") :
       /\ sube' = Cola(sube, Len(r))
       /\ \/ r = <<>> /\ Sigue("acepta") /\ UNCHANGED corte
          \/ r = Peticion /\ Sigue("codigo") /\ UNCHANGED corte
          \/ Len(r) = 1 /\ Sigue("noEsta") /\ UNCHANGED corte
          \/ Len(r) = 1 /\ Sigue("excepcion") /\ corte' = Cierra("srv", Cola(sube, Len(r)))
  /\ UNCHANGED <<caso, baja, cli>>

Primero == IF caso.n > 0 THEN "elem" ELSE IF Listado THEN "fin" ELSE "FIN"

(* A listing waits for a confirmation of its code, a transfer does not. *)
MandaCodigo ==
  /\ \/ /\ srv.paso = "codigo" /\ ~Error
        /\ Emite(Mensaje("0", 0), Sigue(IF Listado THEN "conf" ELSE Primero))
     \/ /\ \/ srv.paso = "noEsta"
           \/ srv.paso = "codigo" /\ Error
        /\ Emite(Mensaje("error", 0), Sigue(IF Listado THEN "conf" ELSE "acepta"))
  /\ SoloSrv

(* readLine: a confirmation, or the end of the stream, which passes for one. *)
Confirmado == \/ sube # <<>> /\ sube' = Tail(sube)
              \/ sube = <<>> /\ corte["cli"] # "abierto" /\ UNCHANGED sube

SinConfirmar == /\ sube = <<>> /\ corte["cli"] = "roto"
                /\ Sigue("vuelto") /\ UNCHANGED sube

EsperaCodigo == /\ srv.paso = "conf"
                /\ \/ Confirmado /\ Sigue("cuenta")
                   \/ SinConfirmar
                /\ UNCHANGED <<caso, baja, corte, cli>>

(* LIST_CONTENT sends as many bytes of the count as the count says, and one: *)
(* none after an error.  LIST_USERS sends it always, and goes on when it     *)
(* could not.                                                               *)
MandaCuenta ==
  /\ srv.paso = "cuenta"
  /\ \/ caso.tipo = "content" /\ Error /\ Sigue("fin") /\ UNCHANGED <<baja, corte>>
     \/ ~(caso.tipo = "content" /\ Error) /\ Emite(Cuenta, Sigue(Primero))
     \/ /\ caso.tipo = "users" /\ corte["cli"] = "roto"
        /\ Sigue(Primero) /\ UNCHANGED <<baja, corte>>
  /\ SoloSrv

(* Lines and chunks are confirmed one by one, files are sent back to back.   *)
MandaElemento ==
  /\ srv.paso = "elem"
  /\ LET i == srv.i + 1
     IN  Emite(Mensaje("elem", i),
               srv' = [i |-> i, paso |-> IF caso.tipo # "content" THEN "confElem"
                                         ELSE IF i < caso.n THEN "elem" ELSE "fin"])
  /\ SoloSrv

SiguienteUnaMas ==  \* variant: one item more than announced
  IF srv.i <= caso.n THEN "elem" ELSE IF Listado THEN "fin" ELSE "FIN"
Siguiente == IF srv.i < caso.n THEN "elem" ELSE IF Listado THEN "fin" ELSE "FIN"

EsperaElemento ==
  /\ srv.paso = "confElem"
  /\ \/ Listado /\ Confirmado /\ Sigue(Siguiente) /\ UNCHANGED corte
     \/ Listado /\ SinConfirmar /\ UNCHANGED corte
     \/ /\ ~Listado                                  \* recv(256): any number of them
        /\ \E r \in Leibles(sube, "cli") : sube' = Cola(sube, Len(r))
        /\ Sigue(Siguiente) /\ UNCHANGED corte
     \/ /\ ~Listado /\ sube = <<>> /\ corte["cli"] = "roto"
        /\ Sigue("excepcion") /\ corte' = Cierra("srv", sube) /\ UNCHANGED sube
  /\ UNCHANGED <<caso, baja, cli>>

(* The owner goes back to accept and keeps the connection. *)
MandaFin == /\ srv.paso = "FIN"
            /\ Emite(Mensaje("FIN", 0), Sigue("acepta"))
            /\ SoloSrv

(* The list that does not open for a line, the directory, or a file of it.   *)
(* The first two return with the connection open and the lock held; without *)
(* the file the loop ends short of its count.                               *)
NoAbre ==
  /\ ~Abren
  /\ \/ caso.tipo = "users" /\ srv.paso = "elem" /\ Sigue("vuelto")
     \/ /\ caso.tipo = "content" /\ srv.i = 0
        /\ \/ srv.paso = "elem"
           \/ srv.paso = "fin" /\ caso.n <= 0
        /\ Sigue("vuelto")
     \/ caso.tipo = "content" /\ srv.paso = "elem" /\ Sigue("fin")
  /\ UNCHANGED <<caso, sube, baja, corte, cli>>

Termina == /\ srv.paso = "fin"
           /\ Sigue("cerrado") /\ corte' = Cierra("srv", sube)
           /\ UNCHANGED <<caso, sube, baja, cli>>

(* The next accept takes the place of the connection. *)
AceptaOtra == /\ srv.paso = "acepta"
              /\ Sigue("cerrado") /\ corte' = Cierra("srv", sube)
              /\ UNCHANGED <<caso, sube, baja, cli>>

Finales == {"cerrado", "acepta", "muerto", "vuelto", "excepcion", "matado"}

MataServidor == /\ "srv" \in Caidas /\ srv.paso \notin Finales \ {"vuelto"}
                /\ Sigue("matado") /\ corte' = Cierra("srv", sube)
                /\ UNCHANGED <<caso, sube, baja, cli>>

-----------------------------------------------------------------------------
Cliente == \/ PideArchivo \/ LeeCodigo \/ ConfirmaCodigo \/ LeeCuenta \/ LeeElemento
           \/ ConfirmaElemento \/ AnalizaLinea \/ LeeTrozo \/ ConfirmaTrozo \/ RecvFalla

Servidor == \/ LeePeticion \/ MandaCodigo \/ EsperaCodigo \/ MandaCuenta \/ MandaElemento
            \/ EsperaElemento \/ NoAbre \/ MandaFin \/ Termina

Next == Cliente \/ Servidor \/ LlegaReset \/ AceptaOtra \/ MataCliente \/ MataServidor

Spec == Init /\ [][Next]_vars

(* Both ends are processes the scheduler runs, and a reset arrives.  Nobody  *)
(* owes a kill, or the next request to the owner of a file.                 *)
Fairness == WF_vars(Cliente) /\ WF_vars(Servidor) /\ WF_vars(LlegaReset)

FairSpec == Spec /\ Fairness

-----------------------------------------------------------------------------
(***************************************************************************)
(* Properties                                                              *)
(***************************************************************************)
Piezas == [que : {"0", "error", "cuenta", "OK"} \cup Largos, i : 0..MaxN, parte : 0..2]

EstadoCorte == [{"cli", "srv"} -> {"abierto", "cerrado", "avisado", "roto"}]
EstadoCli   == [paso : {"pide", "pideResto", "codigo", "confCodigo", "cuenta", "elem", "confElem",
                        "analiza", "trozo", "confTrozo", "acabado"},
                i : 0..MaxN, leido : Seq(Piezas), resp : {"", "0", "error"},
                recibido : Seq(Piezas), fin : {"no", "ok", "fallo", "excepcion", "matado"}]
EstadoSrv   == [paso : {"pide", "codigo", "noEsta", "conf", "cuenta", "elem", "confElem", "FIN", "fin"}
                         \cup Finales,
                i : 0..MaxN]

(* The type invariant. *)
TypeOK ==
  /\ caso \in Casos
  /\ sube \in Seq(Piezas) /\ baja \in Seq(Piezas)
  /\ corte \in EstadoCorte
  /\ cli \in EstadoCli
  /\ srv \in EstadoSrv

(* The lines, files or chunks the other end has. *)
Todo == [j \in 1..(2 * (IF Error THEN 0 ELSE caso.n)) |->
           [que |-> "elem", i |-> (j + 1) \div 2, parte |-> 2 - (j % 2)]]

(* "OK" can be relied on when every recv gets one message; for LIST_CONTENT, *)
(* which prints the end of the stream as a file, when nobody kills the       *)
(* server and its files open besides.                                       *)
Fiable == /\ caso.red = "amable"
          /\ caso.tipo = "content" => srv.paso # "matado" /\ Abren

Entregado == INSTANCE Entrega WITH
  todo <- Todo, recibido <- cli.recibido, fiable <- Fiable,
  fin <- IF cli.fin \in {"no", "ok"} THEN cli.fin ELSE "mal"

(* The conversation implements the delivery of module Entrega: what a        *)
(* command prints or writes is a beginning of what the other end has, in     *)
(* order and without a gap, and all of it when the command ends well,        *)
(* kills of either end included.                                            *)
Delivers == Entregado!Promesa

(* While the files open neither end waits for ever, whatever the network     *)
(* does with the messages of a listing and whoever is killed: every message  *)
(* somebody waits for is sent, or the connection ends.                      *)
EveryDialogueEnds == Abren => <>(cli.fin # "no" /\ srv.paso \in Finales)

(* A client that goes on to the end costs the server neither its process     *)
(* nor its lock, and the owner of a file not its thread, while the files     *)
(* open: nothing is sent to a client that has closed, and nothing is missing *)
(* from a request.                                                          *)
SurvivesAGoodClient ==
  caso.red = "amable" /\ Abren /\ cli.fin # "matado" =>
    srv.paso \notin {"muerto", "vuelto", "excepcion"}

(* A recv of a listing does not return parts of two messages: client.py      *)
(* says it confirms each one "para no solapar los mensajes".                *)
MessagesApart == \A j, k \in DOMAIN cli.leido : Mismo(cli.leido[j], cli.leido[k])

(* 'GET_FILE OK' means that the local file is the remote one: client.py says *)
(* it receives the file by chunks and writes it to the local file.          *)
CopyIsTheFile == caso.tipo = "file" /\ cli.fin = "ok" => cli.recibido = Todo
=============================================================================
