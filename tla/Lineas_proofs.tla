--------------------------- MODULE Lineas_proofs ---------------------------
(***************************************************************************)
(* What becomes of the lines of the list when their sessions end, through  *)
(* kills, failures of the disk, crashes and restarts.                      *)
(***************************************************************************)
EXTENDS Sistema_proofs

(* A CONNECT in the backlog whose client was killed, and a process that     *)
(* waits for the answer to a CONNECT made after it.                         *)
Rezagada(i)  == cola[i].pet.op = "CONNECT" /\ ~cola[i].espera
Detras(i, d) == \E j \in DOMAIN cola : /\ j > i /\ cola[j].espera
                                       /\ cola[j].cl = d /\ cola[j].pet.op = "CONNECT"

(* The port in such a request is free again, and somebody else may take it; *)
(* but until that process is answered, this request has been served.        *)
RezagadasInv ==
  \A i \in DOMAIN cola : Rezagada(i) =>
    /\ cola[i].pet.arg # Empty
    /\ \A d \in Procs : /\ cola[i].pet.arg \notin sesion[d].hilos
                        /\ cola[i].pet.arg = sesion[d].sock => Detras(i, d)

(* A line that was taken away does not come back before its client knows,   *)
(* as long as the process still has the socket of its address.              *)
FueraInv ==
  \A c \in Procs : /\ curso[c].pet.op = "DISCONNECT" /\ curso[c].cod = "0"
                    /\ sesion[c].addr \in Puertos(c)
                    => Linea(c) \notin Lineas(disco)

(* A process that waits for the answer to a CONNECT reads nothing.          *)
LEMMA BehindIsWaiting ==
  ASSUME OrdenInv, NEW i, NEW d, Detras(i, d)
  PROVE  curso[d].paso = "pedida" /\ curso[d].pet.op = "CONNECT"
BY DEF Detras, OrdenInv, ColaInv, Esperada

(* No request in the backlog brings back the address of a session.          *)
LEMMA NobodyAnnouncesIt ==
  ASSUME TypeOK, OrdenInv, PuertosInv, RezagadasInv, NEW i \in DOMAIN cola,
         cola[i].pet.op = "CONNECT", NEW c \in Procs, sesion[c].addr \in Puertos(c),
         curso[c].pet.op = "DISCONNECT"
  PROVE  cola[i].pet.arg # sesion[c].addr
<1>1. cola[i].cl \in Procs
  BY TypeParts, QueueElements DEF ServidorOK
<1>2. CASE cola[i].espera
  <2>1. curso[cola[i].cl].pet = cola[i].pet /\ cola[i].cl # c
    BY <1>2 DEF OrdenInv, ColaInv, Esperada
  <2>2. cola[i].pet.arg \in Puertos(cola[i].cl)
    BY <1>1, <2>1 DEF OrdenInv, CursoInv, PuertosInv, Puertos
  <2>3. QED
    BY <1>1, <2>1, <2>2 DEF PuertosInv, Puertos
<1>3. CASE ~cola[i].espera
  <2>1. /\ cola[i].pet.arg \notin sesion[c].hilos
        /\ cola[i].pet.arg = sesion[c].sock => Detras(i, c)
    BY <1>3 DEF RezagadasInv, Rezagada
  <2>2. ~Detras(i, c)
    BY BehindIsWaiting
  <2>3. QED
    BY <2>1, <2>2 DEF Puertos
<1>4. QED
  BY <1>2, <1>3

(* What a request does to the list, whatever fails: only CONNECT adds a     *)
(* line, its own, and after a DISCONNECT that says "0" the user has none.   *)
LEMMA LinesAfterServing ==
  ASSUME Tree(disco), NEW p \in Request, Serv(disco, p)
  PROVE  /\ \A a \in Lineas(disco)' : \/ a \in Lineas(disco)
                                      \/ p.op = "CONNECT" /\ a = <<p.user, p.arg>>
         /\ p.op = "DISCONNECT" /\ p.user # Empty /\ ultima'.res = "0" =>
              \A a \in Lineas(disco)' : a[1] # p.user
<1>1. ASSUME disco'.lines \subseteq disco.lines
      PROVE  Lineas(disco)' \subseteq Lineas(disco)
  BY <1>1 DEF Lineas
<1>2. \A g : /\ Drop(disco, g).lines \subseteq disco.lines
             /\ Drop(disco, g) \in Store
  BY DEF Drop, Tree, Store
<1>3. CASE p.op = "CONNECT"
  <2>1. OpenedToAppend(disco).lines = disco.lines /\ OpenedToAppend(disco) \in Store
    BY SpecialFiles DEF OpenedToAppend, Tree, Store, ListFile
  <2>2. \/ disco'.lines \subseteq disco.lines
        \/ \E k \in Copias : disco'.lines = disco.lines \cup {NewLine(p, k)}
    <3>1. \/ disco' = disco \/ disco' = OpenedToAppend(disco)
          \/ \E k \in Copias : disco' = [OpenedToAppend(disco) EXCEPT !.lines = @ \cup {NewLine(p, k)}]
      BY <1>3 DEF Serv, connect_serv, Says
    <3> HIDE DEF OpenedToAppend
    <3>2. \A k \in Copias : [OpenedToAppend(disco) EXCEPT !.lines = @ \cup {NewLine(p, k)}].lines =
                              disco.lines \cup {NewLine(p, k)}
      BY <2>1 DEF Store
    <3>3. QED
      BY <2>1, <3>1, <3>2
  <2>3. \A k \in Copias : NewLine(p, k).user = p.user /\ NewLine(p, k).port = p.arg
    BY DEF NewLine
  <2>4. QED
    BY <1>1, <1>3, <2>2, <2>3 DEF Lineas
<1>4. CASE p.op = "DISCONNECT"
  <2> DEFINE opened == IF Empty \in disco.dirs
                       THEN [disco EXCEPT !.files = @ \cup {TempFile}] ELSE disco
             kept   == Kept(disco, p.user)
  <2>1. opened.lines = disco.lines /\ opened \in Store
    BY SpecialFiles DEF Tree, Store
  <2>2. Drop(opened, {ListFile}).lines = {}
    BY <2>1 DEF Drop, Store
  <2>3. \A some : Renamed(disco, some).lines = some
    BY DEF Renamed, Tree, Store
  <2>4. kept \subseteq disco.lines /\ (p.user # Empty => \A l \in kept : l.user # p.user)
    BY RequestFields, TokenOfItself, ClavesAssumption DEF Kept, Tree, Store, Line
  <2> HIDE DEF opened, kept
  <2>5. /\ disco'.lines \subseteq disco.lines
        /\ ultima'.res = "0" => disco'.lines \subseteq kept
    <3>1. \/ disco' \in {disco, opened} /\ ultima'.res # "0"
          \/ disco' = Drop(opened, {ListFile})
          \/ \E some \in SUBSET kept : disco' = Renamed(disco, some)
      BY <1>4 DEF Serv, disconnect_serv, Result, opened, kept
    <3>2. QED
      BY <2>1, <2>2, <2>3, <2>4, <3>1
  <2>6. QED
    BY <1>1, <1>4, <2>4, <2>5 DEF Lineas
<1>5. CASE p.op = "UNREGISTER"
  <2>1. \/ disco' = disco
        \/ \E g \in SUBSET Swept(disco, p.user) :
             disco' = Drop(disco, g) \/ disco' = [Drop(disco, g) EXCEPT !.dirs = @ \ {p.user}]
    BY <1>5 DEF Serv, unregister_serv, Says
  <2> HIDE DEF Drop
  <2>2. \A g : [Drop(disco, g) EXCEPT !.dirs = @ \ {p.user}].lines = Drop(disco, g).lines
    BY <1>2 DEF Store
  <2>3. QED
    BY <1>1, <1>2, <1>5, <2>1, <2>2
<1>6. CASE p.op \notin {"CONNECT", "DISCONNECT", "UNREGISTER"}
  <2>1. disco'.lines = disco.lines
    BY <1>6 DEF Serv, register_serv, publish_serv, delete_serv, list_users_serv, list_content_serv,
                Says, Tree, Store
  <2>2. QED
    BY <1>1, <1>6, <2>1
<1>7. QED
  BY <1>3, <1>4, <1>5, <1>6

(* Nobody is answered and the list gains nothing: what was out stays out.   *)
LEMMA FueraSame ==
  ASSUME FueraInv, Lineas(disco') \subseteq Lineas(disco),
         \A d \in Procs : curso'[d].pet.op = "DISCONNECT" /\ curso'[d].cod = "0" =>
           /\ curso'[d] = curso[d] /\ (Puertos(d))' \subseteq Puertos(d)
           /\ sesion'[d].user = sesion[d].user /\ sesion'[d].addr = sesion[d].addr
  PROVE  FueraInv'
BY DEF FueraInv, Linea, Lineas

(* The backlog is the same or longer, and nobody comes to listen on the     *)
(* port of a CONNECT that is still under way.                               *)
LEMMA RezagadasSame ==
  ASSUME RezagadasInv, OrdenInv, UNCHANGED cola,
         \A d \in Procs :
           /\ \A q \in sesion'[d].hilos :
                q \in sesion[d].hilos \/ (q = sesion[d].sock /\ curso[d].paso # "pedida")
           /\ sesion'[d].sock \in {sesion[d].sock, Empty}
  PROVE  RezagadasInv'
<1>1. \A i : /\ (Rezagada(i))' <=> Rezagada(i)
             /\ \A d \in Procs : (Detras(i, d))' <=> Detras(i, d)
  BY DEF Rezagada, Detras
<1>2. QED
  BY <1>1, BehindIsWaiting DEF RezagadasInv

LEMMA RezagadasGrow ==
  ASSUME RezagadasInv, OrdenInv, cola \in Seq(EnvioDe), NEW c \in Procs, NEW e \in EnvioDe,
         cola' = Append(cola, e), e.cl = c, e.pet.op = "CONNECT" => e.espera,
         \A d \in Procs :
           /\ \A q \in sesion'[d].hilos :
                q \in sesion[d].hilos \/ (q = sesion[d].sock /\ curso[d].paso # "pedida")
           /\ \/ sesion'[d].sock \in {sesion[d].sock, Empty}
              \/ d = c /\ e.pet.op = "CONNECT"
  PROVE  RezagadasInv'
<1>1. /\ Len(cola) \in Nat /\ DOMAIN cola = 1..Len(cola) /\ Len(cola) + 1 \in DOMAIN cola'
      /\ \A i \in DOMAIN cola : cola'[i] = cola[i] /\ i \in DOMAIN cola'
      /\ cola'[Len(cola) + 1] = e
      /\ \A i \in DOMAIN cola' : i \in DOMAIN cola \/ i = Len(cola) + 1
  BY AppendElements
<1>2. ASSUME NEW i \in DOMAIN cola', (Rezagada(i))'
      PROVE  i \in DOMAIN cola /\ Rezagada(i) /\ cola'[i] = cola[i]
  BY <1>1, <1>2 DEF Rezagada
<1>3. ASSUME NEW i \in DOMAIN cola, NEW d \in Procs, Detras(i, d)
      PROVE  (Detras(i, d))'
  BY <1>1, <1>3 DEF Detras
<1>4. ASSUME NEW i \in DOMAIN cola, e.pet.op = "CONNECT"
      PROVE  (Detras(i, c))'
  <2>1. Len(cola) + 1 > i
    BY <1>1
  <2>2. QED
    BY <1>1, <1>4, <2>1 DEF Detras
<1>5. QED
  BY <1>2, <1>3, <1>4, BehindIsWaiting DEF RezagadasInv

LineasInv == RezagadasInv /\ FueraInv

LEMMA ComandoKeepsL ==
  ASSUME TypeOK, OrdenInv, LineasInv, OrdenInv', NEW c \in Procs, Comando(c)
  PROVE  LineasInv'
<1>1. /\ sesion \in [Procs -> Sesion] /\ curso \in [Procs -> CursoDe] /\ cola \in Seq(EnvioDe)
      /\ curso[c].paso = "libre" /\ UNCHANGED disco
  BY ComandoForms, TypeParts DEF ClientesOK, ServidorOK, delServidor
<1>2. \A d \in Procs : /\ sesion'[d].hilos = sesion[d].hilos
                       /\ sesion'[d].user = sesion[d].user /\ sesion'[d].addr = sesion[d].addr
                       /\ d # c \/ UNCHANGED cola => sesion'[d].sock = sesion[d].sock
  <2>1. ASSUME NEW p \in Request, NEW baja \in BOOLEAN, Pide(c, p, baja), Propia(c, p)
        PROVE  /\ \A d \in Procs : sesion'[d].hilos = sesion[d].hilos /\ sesion'[d].user = sesion[d].user
                                   /\ sesion'[d].addr = sesion[d].addr
               /\ \A d \in Procs \ {c} : sesion'[d].sock = sesion[d].sock
               /\ cola' # cola
    <3>1. Len(cola') # Len(cola)
      BY <1>1, <2>1 DEF Pide, Encola
    <3>2. sesion' = sesion \/ \E p2 \in Ports : sesion' = [sesion EXCEPT ![c].sock = p2]
      BY <2>1 DEF Propia, Libres
    <3>3. QED
      BY <1>1, <3>1, <3>2 DEF Sesion
  <2>2. QED
    BY <2>1, ComandoForms, GetfileForms
<1>3. FueraInv'
  <2>1. curso'[c].paso # "hecha" /\ \A d \in Procs \ {c} : curso'[d] = curso[d]
    <3>1. ASSUME NEW p \in Request, NEW baja \in BOOLEAN, Pide(c, p, baja)
          PROVE  curso'[c].paso # "hecha" /\ \A d \in Procs \ {c} : curso'[d] = curso[d]
      BY <1>1, <3>1 DEF Pide
    <3>2. ASSUME NEW u \in Names, getfile(c, u)
          PROVE  curso'[c].paso # "hecha" /\ \A d \in Procs \ {c} : curso'[d] = curso[d]
      BY <1>1, <3>2, GetfileForms DEF CursoDe
    <3>3. QED
      BY <1>1, <3>1, <3>2, ComandoForms DEF Suelta
  <2>2. QED
    BY <1>1, <1>2, <2>1, FueraSame DEF LineasInv, OrdenInv, CursoInv, Puertos
<1>4. ASSUME NEW p \in Request, NEW esp \in BOOLEAN, p.op = "CONNECT" => esp,
             cola' = Append(cola, [cl |-> c, pet |-> p, espera |-> esp]),
             p.op # "CONNECT" => UNCHANGED sesion
      PROVE  RezagadasInv'
  <2> DEFINE e == [cl |-> c, pet |-> p, espera |-> esp]
  <2>1. e \in EnvioDe /\ e.cl = c /\ e.pet = p /\ e.espera = esp /\ cola' = Append(cola, e)
    BY <1>4 DEF EnvioDe
  <2> HIDE DEF e
  <2>2. \A d \in Procs :
          /\ \A q \in sesion'[d].hilos :
               q \in sesion[d].hilos \/ (q = sesion[d].sock /\ curso[d].paso # "pedida")
          /\ \/ sesion'[d].sock \in {sesion[d].sock, Empty}
             \/ d = c /\ e.pet.op = "CONNECT"
    BY <1>2, <1>4, <2>1
  <2>3. QED
    BY <1>1, <1>4, <2>1, <2>2, RezagadasGrow DEF LineasInv
<1>5. RezagadasInv'
  <2>1. ASSUME NEW p \in Request, NEW baja \in BOOLEAN, Pide(c, p, baja), Propia(c, p)
        PROVE  RezagadasInv'
    BY <1>4, <2>1 DEF Pide, Encola, Propia
  <2>2. ASSUME NEW p \in Request, Suelta(c, p), p.op \notin Nominales, UNCHANGED sesion
        PROVE  RezagadasInv'
    BY <1>4, <2>2 DEF Suelta, Encola, Nominales
  <2>3. ASSUME NEW u \in Names, getfile(c, u)
        PROVE  RezagadasInv'
    <3>1. UNCHANGED cola
      BY <2>3, GetfileForms
    <3>2. \A d \in Procs :
            /\ \A q \in sesion'[d].hilos :
                 q \in sesion[d].hilos \/ (q = sesion[d].sock /\ curso[d].paso # "pedida")
            /\ sesion'[d].sock \in {sesion[d].sock, Empty}
      BY <1>2, <3>1
    <3>3. QED
      BY <3>1, <3>2, RezagadasSame DEF LineasInv
  <2>4. QED
    BY <2>1, <2>2, <2>3, ComandoForms
<1>6. QED
  BY <1>3, <1>5 DEF LineasInv

LEMMA RecibeKeepsL ==
  ASSUME TypeOK, OrdenInv, LineasInv, OrdenInv', NEW c \in Procs,
         RecibeConnect(c) \/ RecibeDisconnect(c) \/ Excepcion(c) \/ Desbloquea(c)
  PROVE  LineasInv'
<1> DEFINE p == Pet("UNREGISTER", curso[c].pet.user, Empty)
           e == [cl |-> c, pet |-> p, espera |-> TRUE]
<1>1. /\ curso \in [Procs -> CursoDe] /\ cola \in Seq(EnvioDe) /\ UNCHANGED disco
      /\ \A d \in Procs \ {c} : sesion'[d] = sesion[d]
      /\ curso[c].paso # "pedida"
      /\ \/ curso' = [curso EXCEPT ![c] = Libre] /\ UNCHANGED cola
         \/ Pide(c, p, TRUE) /\ p \in Request
  BY RecibeForms, TypeParts DEF ClientesOK, ServidorOK, delServidor, OrdenInv
<1>2. sesion'[c] \in {sesion[c], Abierta(c), Terminada(c)}
  BY RecibeForms DEF OrdenInv
<1>3. /\ curso'[c].paso # "hecha" /\ \A d \in Procs \ {c} : curso'[d] = curso[d]
  <2>1. CASE curso' = [curso EXCEPT ![c] = Libre]
    BY <1>1, <2>1 DEF Libre
  <2>2. ASSUME NEW ped \in Request, Pide(c, ped, TRUE)
        PROVE  curso'[c].paso # "hecha" /\ \A d \in Procs \ {c} : curso'[d] = curso[d]
    BY <1>1, <2>2 DEF Pide
  <2> HIDE DEF p
  <2>3. QED
    BY <1>1, <2>1, <2>2
<1>4. FueraInv'
  BY <1>1, <1>3, FueraSame DEF LineasInv, OrdenInv, CursoInv, Puertos
<1>5. \A d \in Procs :
        /\ \A q \in sesion'[d].hilos :
             q \in sesion[d].hilos \/ (q = sesion[d].sock /\ curso[d].paso # "pedida")
        /\ sesion'[d].sock \in {sesion[d].sock, Empty}
  BY <1>1, <1>2 DEF Abierta, Terminada
<1>6. CASE UNCHANGED cola
  BY <1>4, <1>5, <1>6, RezagadasSame DEF LineasInv
<1>7. CASE Pide(c, p, TRUE) /\ p \in Request
  <2>1. e \in EnvioDe /\ e.cl = c /\ e.pet.op # "CONNECT" /\ cola' = Append(cola, e)
    BY <1>7 DEF EnvioDe, Pide, Encola, Pet
  <2> HIDE DEF e
  <2>2. QED
    BY <1>1, <1>4, <1>5, <2>1, RezagadasGrow DEF LineasInv
<1>8. QED
  BY <1>1, <1>6, <1>7

(* The requests of a killed client name the port it gives back.             *)
LEMMA MataKeepsL ==
  ASSUME TypeOK, OrdenInv, PuertosInv, LineasInv, OrdenInv', NEW c \in Procs, Mata(c)
  PROVE  LineasInv'
<1>1. /\ sesion \in [Procs -> Sesion] /\ curso \in [Procs -> CursoDe] /\ cola \in Seq(EnvioDe)
      /\ UNCHANGED disco
  BY TypeParts DEF ClientesOK, ServidorOK, Mata, delServidor
<1>2. /\ \A d \in Procs \ {c} : curso'[d] = curso[d] /\ sesion'[d] = sesion[d]
      /\ sesion'[c].hilos = {} /\ sesion'[c].sock = Empty /\ curso'[c].paso = "fin"
  BY <1>1 DEF Mata, SinSesion, Libre
<1>3. FueraInv'
  BY <1>1, <1>2, FueraSame DEF LineasInv, OrdenInv, CursoInv, Puertos
<1>4. ASSUME NEW i \in DOMAIN cola', (Rezagada(i))'
      PROVE  /\ cola'[i].pet.arg # Empty
             /\ \A d \in Procs : /\ cola'[i].pet.arg \notin sesion'[d].hilos
                                 /\ cola'[i].pet.arg = sesion'[d].sock => (Detras(i, d))'
  <2>1. /\ i \in DOMAIN cola /\ cola[i].pet.op = "CONNECT" /\ cola'[i].pet = cola[i].pet
        /\ cola[i].espera => cola[i].cl = c
    BY <1>1, <1>4, KilledElements DEF Rezagada
  <2>2. CASE cola[i].espera
    <3>1. curso[c].pet = cola[i].pet
      BY <2>1, <2>2 DEF OrdenInv, ColaInv, Esperada
    <3>2. cola[i].pet.arg \in Puertos(c) /\ cola[i].pet.arg # Empty
      BY <2>1, <3>1 DEF OrdenInv, CursoInv, PuertosInv, Puertos
    <3>3. QED
      BY <1>2, <2>1, <3>2 DEF PuertosInv, Puertos
  <2>3. CASE ~cola[i].espera
    <3>1. /\ cola[i].pet.arg # Empty
          /\ \A d \in Procs : /\ cola[i].pet.arg \notin sesion[d].hilos
                              /\ cola[i].pet.arg = sesion[d].sock => Detras(i, d)
      BY <2>1, <2>3 DEF LineasInv, RezagadasInv, Rezagada
    <3>2. ASSUME NEW d \in Procs \ {c}, Detras(i, d)
          PROVE  (Detras(i, d))'
      BY <1>1, <3>2, KilledElements DEF Detras
    <3>3. QED
      BY <1>2, <2>1, <3>1, <3>2
  <2>4. QED
    BY <2>2, <2>3
<1>5. QED
  BY <1>3, <1>4 DEF LineasInv, RezagadasInv

LEMMA QuitKeepsL ==
  ASSUME TypeOK, OrdenInv, LineasInv, OrdenInv', NEW c \in Procs, Quit(c)
  PROVE  LineasInv'
<1>1. /\ sesion \in [Procs -> Sesion] /\ curso \in [Procs -> CursoDe]
      /\ UNCHANGED <<disco, cola>>
  BY TypeParts DEF ClientesOK, Quit, delServidor
<1>2. /\ \A d \in Procs \ {c} : curso'[d] = curso[d] /\ sesion'[d] = sesion[d]
      /\ sesion'[c].hilos \subseteq sesion[c].hilos /\ sesion'[c].sock \in {sesion[c].sock, Empty}
      /\ curso'[c].paso = "fin"
  BY <1>1 DEF Quit, SinSesion, CursoDe
<1>3. FueraInv'
  BY <1>1, <1>2, FueraSame DEF LineasInv, OrdenInv, CursoInv, Puertos
<1>4. RezagadasInv'
  BY <1>1, <1>2, RezagadasSame DEF LineasInv
<1>5. QED
  BY <1>3, <1>4 DEF LineasInv

(* A thread that goes on or ends reads no answer and listens nowhere new.   *)
LEMMA HiloKeepsL ==
  ASSUME TypeOK, OrdenInv, LineasInv, NEW c \in Procs, handle_server_connection(c)
  PROVE  LineasInv'
<1>1. /\ UNCHANGED <<disco, cola, curso>>
      /\ \A d \in Procs \ {c} : sesion'[d] = sesion[d]
      /\ \/ curso[c].paso = "fin" /\ sesion'[c].hilos = {} /\ sesion'[c].sock = Empty
         \/ /\ sesion'[c].user = sesion[c].user /\ sesion'[c].addr = sesion[c].addr
            /\ sesion'[c].sock = sesion[c].sock /\ sesion'[c].hilos \subseteq sesion[c].hilos
  BY HiloForms DEF delServidor, SinSesion
<1>2. \A d \in Procs : curso'[d].cod = "0" => curso[d].paso # "fin"
  BY <1>1 DEF OrdenInv, CursoInv
<1>3. FueraInv'
  BY <1>1, <1>2, FueraSame DEF LineasInv, Puertos
<1>4. RezagadasInv'
  BY <1>1, RezagadasSame DEF LineasInv
<1>5. QED
  BY <1>3, <1>4 DEF LineasInv

LEMMA SirveKeepsL ==
  ASSUME TypeOK, OrdenInv, PuertosInv, LineasInv, OrdenInv', Sirve
  PROVE  LineasInv'
<1> DEFINE p == cola[1].pet
           c == cola[1].cl
<1>1. /\ cola \in Seq(EnvioDe) /\ Tree(disco) /\ UNCHANGED sesion /\ sesion \in [Procs -> Sesion]
      /\ c \in Procs /\ p \in Request /\ 1 \in DOMAIN cola
  BY TypeParts, SirveForms DEF ServidorOK, ClientesOK, TreeOK
<1>2. /\ \A a \in Lineas(disco)' : \/ a \in Lineas(disco)
                                   \/ p.op = "CONNECT" /\ a = <<p.user, p.arg>>
      /\ p.op = "DISCONNECT" /\ p.user # Empty /\ ultima'.res = "0" =>
           \A a \in Lineas(disco)' : a[1] # p.user
  BY <1>1, SirveForms, LinesAfterServing
<1>3. \A d \in Procs : curso'[d].cod = "0" =>
        \/ curso'[d] = curso[d]
        \/ /\ d = c /\ curso[d].pet = p /\ curso'[d].pet = p /\ ultima'.res = "0"
  <2>1. CASE Caida
    BY <2>1, CaidaForms DEF OrdenInv, CursoInv, Libre
  <2>2. CASE ~Caida
    <3>1. cola[1].espera => curso[c].pet = p
      BY <1>1 DEF OrdenInv, ColaInv, Esperada
    <3>2. QED
      BY <2>2, <3>1, SirveForms DEF Libre
  <2>3. QED
    BY <2>1, <2>2
<1>4. FueraInv'
  <2>1. SUFFICES ASSUME NEW d \in Procs, curso'[d].pet.op = "DISCONNECT", curso'[d].cod = "0",
                        sesion[d].addr \in Puertos(d)
                 PROVE  Linea(d) \notin Lineas(disco)'
    BY <1>1 DEF FueraInv, Linea, Puertos
  <2>2. CASE curso'[d] = curso[d]
    <3>1. Linea(d) \notin Lineas(disco) /\ curso[d].pet.op = "DISCONNECT"
      BY <2>1, <2>2 DEF LineasInv, FueraInv
    <3>2. p.op = "CONNECT" => p.arg # sesion[d].addr
      BY <1>1, <2>1, <3>1, NobodyAnnouncesIt DEF LineasInv
    <3>3. p.op = "CONNECT" => Linea(d) # <<p.user, p.arg>>
      BY <3>2 DEF Linea
    <3>4. QED
      BY <1>2, <3>1, <3>3
  <2>3. CASE curso'[d] # curso[d]
    <3>1. curso[d].pet = p /\ p.op = "DISCONNECT" /\ ultima'.res = "0"
      BY <1>3, <2>1, <2>3
    <3>2. sesion[d].user = p.user /\ p.user # Empty
      BY <3>1 DEF OrdenInv, CursoInv, Nominales
    <3>3. Linea(d)[1] = p.user
      BY <3>2 DEF Linea
    <3>4. QED
      BY <1>2, <3>1, <3>2, <3>3
  <2>4. QED
    BY <2>2, <2>3
<1>5. RezagadasInv'
  <2>1. CASE Caida
    <3>1. DOMAIN cola' = {}
      BY <2>1, CaidaForms
    <3>2. QED
      BY <3>1 DEF RezagadasInv
  <2>2. CASE ~Caida
    <3>1. cola' = Tail(cola) /\ cola # <<>>
      BY <2>2, SirveForms
    <3>2. \A i \in DOMAIN cola' : /\ i + 1 \in DOMAIN cola /\ cola'[i] = cola[i + 1]
      BY <1>1, <3>1, TailElements
    <3>3. ASSUME NEW i \in DOMAIN cola', NEW d \in Procs, Detras(i + 1, d)
          PROVE  (Detras(i, d))'
      <4>1. PICK j \in DOMAIN cola : /\ j > i + 1 /\ cola[j].espera
                                     /\ cola[j].cl = d /\ cola[j].pet.op = "CONNECT"
        BY <3>3 DEF Detras
      <4>2. /\ j - 1 \in DOMAIN cola' /\ j - 1 > i /\ cola'[j - 1] = cola[j]
        BY <1>1, <3>1, <3>3, <4>1, TailElements, QueueElements
      <4>3. QED
        BY <4>1, <4>2 DEF Detras
    <3>4. QED
      BY <1>1, <3>2, <3>3 DEF LineasInv, RezagadasInv, Rezagada
  <2>3. QED
    BY <2>1, <2>2
<1>6. QED
  BY <1>4, <1>5 DEF LineasInv

LEMMA CaeKeepsL ==
  ASSUME TypeOK, OrdenInv, LineasInv, Cae \/ ReiniciaServidor
  PROVE  LineasInv'
<1>1. UNCHANGED sesion /\ Lineas(disco') \subseteq Lineas(disco)
  <2>1. Truncate(disco).lines \subseteq disco.lines
    BY TypeParts DEF Truncate, TreeOK, Tree, Store
  <2>2. QED
    BY <2>1, TypeParts, StartTree DEF Cae, ReiniciaServidor, Arranca, Lineas, TreeOK
<1>2. CASE Cae
  <2>1. DOMAIN cola' = {}
    BY <1>2, CaidaForms DEF Cae
  <2>2. \A d \in Procs : curso'[d].cod = "0" => curso'[d] = curso[d]
    BY <1>2, CaidaForms DEF Cae, OrdenInv, CursoInv, Libre
  <2>3. FueraInv'
    BY <1>1, <2>2, FueraSame DEF LineasInv, Puertos
  <2>4. QED
    BY <2>1, <2>3 DEF LineasInv, RezagadasInv
<1>3. CASE ReiniciaServidor
  BY <1>1, <1>3, FueraSame, RezagadasSame DEF ReiniciaServidor, LineasInv, Puertos
<1>4. QED
  BY <1>2, <1>3

LEMMA NextLineas ==
  ASSUME TypeOK, OrdenInv, PuertosInv, LineasInv, [Next]_vars PROVE LineasInv'
<1>1. OrdenInv'
  BY NextOrden
<1>2. CASE UNCHANGED vars
  BY <1>2, FueraSame, RezagadasSame DEF vars, LineasInv, Puertos
<1>3. QED
  BY <1>1, <1>2, ComandoKeepsL, RecibeKeepsL, HiloKeepsL, MataKeepsL, QuitKeepsL, SirveKeepsL, CaeKeepsL
     DEF Next, Cliente

(* A line outlives its session only through a CONNECT that replaced the     *)
(* session or the end of the process, whatever fails, however often the     *)
(* server is started again and however the names are made.                  *)
THEOREM NoLineIsForgotten == Spec => LinesEndWithTheirSession
<1> DEFINE A == \A c \in Procs :
                  /\ Linea(c) \in Lineas(disco) /\ Linea(c)' # Linea(c) /\ Linea(c) \in Lineas(disco')
                  /\ \A d \in Procs \ {c} : sesion[c].addr \notin Puertos(d)
                  => EnCurso(c, "CONNECT") \/ curso'[c].paso = "fin"
<1>1. Init => LineasInv
  <2>1. Init => DOMAIN cola = {} /\ \A c \in Procs : curso[c].pet.op # "DISCONNECT"
    BY DEF Init, Libre, NoPedido
  <2>2. QED
    BY <2>1 DEF LineasInv, RezagadasInv, FueraInv
<1>2. TypeOK /\ OrdenInv /\ PuertosInv /\ LineasInv /\ [Next]_vars => LineasInv'
  BY NextLineas
<1>3. TypeOK /\ OrdenInv /\ LineasInv /\ [Next]_vars => A
  <2>1. SUFFICES ASSUME TypeOK, OrdenInv, LineasInv, [Next]_vars, NEW c \in Procs,
                        Linea(c) \in Lineas(disco), Linea(c)' # Linea(c),
                        \A d \in Procs \ {c} : sesion[c].addr \notin Puertos(d)
                 PROVE  EnCurso(c, "CONNECT") \/ curso'[c].paso = "fin"
    OBVIOUS
  <2>2. sesion \in [Procs -> Sesion] /\ curso \in [Procs -> CursoDe]
    BY <2>1, TypeParts DEF ClientesOK
  <2>3. sesion'[c].user # sesion[c].user \/ sesion'[c].addr # sesion[c].addr
    BY <2>1 DEF Linea
  <2>4. ASSUME NEW d \in Procs, Comando(d)
        PROVE  FALSE
    <3>1. CASE \E u \in Names : getfile(d, u)
      BY <2>1, <2>2, <2>3, <2>4, <3>1, GetfileForms DEF Sesion
    <3>2. CASE sesion' = sesion \/ \E q \in Ports : sesion' = [sesion EXCEPT ![d].sock = q]
      BY <2>1, <2>2, <2>3, <3>2 DEF Sesion
    <3>3. QED
      BY <2>1, <2>4, <3>1, <3>2, ComandoForms DEF Propia, Libres
  <2>5. ASSUME NEW d \in Procs,
               RecibeConnect(d) \/ RecibeDisconnect(d) \/ Excepcion(d) \/ Desbloquea(d)
        PROVE  EnCurso(c, "CONNECT")
    <3>1. d = c /\ sesion'[c] # sesion[c]
      BY <2>1, <2>3, <2>5, RecibeForms DEF OrdenInv
    <3>2. ~(curso[c].pet.op = "DISCONNECT" /\ curso[c].cod = "0" /\ sesion[c].addr \in EnUso)
      <4>1. sesion[c].addr \in EnUso => sesion[c].addr \in Puertos(c)
        BY <2>1 DEF EnUso
      <4>2. QED
        BY <2>1, <4>1 DEF LineasInv, FueraInv
    <3>3. QED
      BY <2>1, <2>5, <3>1, <3>2, RecibeForms DEF OrdenInv, EnCurso
  <2>6. ASSUME NEW d \in Procs, Quit(d) \/ Mata(d)
        PROVE  curso'[c].paso = "fin"
    BY <2>1, <2>2, <2>3, <2>6 DEF Quit, Mata, CursoDe, Libre
  <2>7. ASSUME NEW d \in Procs, handle_server_connection(d)
        PROVE  curso'[c].paso = "fin"
    BY <2>1, <2>3, <2>7, HiloForms DEF delServidor
  <2>8. QED
    BY <2>1, <2>3, <2>4, <2>5, <2>6, <2>7 DEF Next, Cliente, vars, Sirve, Cae, ReiniciaServidor
<1>4. Spec => [][A]_vars
  BY <1>1, <1>2, <1>3, TypesCorrect, OrdenAlways, PuertosAlways, PTL DEF Spec
<1>5. QED
  BY <1>4 DEF LinesEndWithTheirSession
=============================================================================
