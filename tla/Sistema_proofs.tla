--------------------------- MODULE Sistema_proofs ---------------------------
(***************************************************************************)
(* What holds of the whole system for any number of client processes,      *)
(* ports, users, commands, failures and restarts.                          *)
(***************************************************************************)
EXTENDS Sistema, Registro_proofs

Pasos   == {"libre", "pedida", "hecha", "rota", "bloqueada", "fin"}
Sesion  == [user : Names \cup {Ninguno}, addr : Ports, sock : Ports, hilos : SUBSET Ports]
EnvioDe == [cl : Procs, pet : Request, espera : BOOLEAN]
CursoDe == [paso : Pasos, pet : Request \cup {NoPedido}, cod : Codes, baja : BOOLEAN]

(* TypeOK in named parts. *)
ClientesOK == /\ sesion \in [Procs -> Sesion]
              /\ lista \in [Procs -> SUBSET (Names \X Ports)]
              /\ curso \in [Procs -> CursoDe]
ServidorOK == /\ servidor \in {"activo", "colgado", "caido"} /\ era \in 0..MaxEra
              /\ cola \in Seq(EnvioDe)
LlamadasOK == llamadas \in SUBSET Llamada /\ aMedias \in SUBSET Names

LEMMA TypeParts ==
  /\ TypeOK <=> TreeOK /\ ClientesOK /\ ServidorOK /\ LlamadasOK
  /\ TypeOK' <=> TreeOK' /\ ClientesOK' /\ ServidorOK' /\ LlamadasOK'
BY DEF TypeOK, ClientesOK, ServidorOK, LlamadasOK, Sesion, EnvioDe, CursoDe, Pasos

(* Calls, and calls that end with their sockets. *)
LEMMA CallType ==
  ASSUME NEW c \in Procs, NEW d \in Procs, NEW p \in Ports, NEW b \in BOOLEAN
  PROVE  [cl |-> c, en |-> d, puerto |-> p, pide |-> b] \in Llamada
BY DEF Llamada

LEMMA FewerCalls ==
  ASSUME NEW ll, ll \in SUBSET Llamada PROVE Abiertas(ll) \in SUBSET Llamada /\ Abiertas(ll) \subseteq ll
BY DEF Abiertas

(* What the constants of a client look like. *)
LEMMA InitialTypes ==
  /\ SinSesion \in Sesion /\ Libre \in CursoDe /\ Libre.pet.op = "none" /\ Libre.paso = "libre"
  /\ [Libre EXCEPT !.paso = "fin"] \in CursoDe
  /\ [Libre EXCEPT !.paso = "fin"].pet.op = "none"
BY ClavesAssumption DEF SinSesion, Sesion, Libre, CursoDe, Pasos, NoPedido, Codes

(* A step of a command that is under way. *)
LEMMA PasoType ==
  ASSUME NEW k \in CursoDe, NEW p \in Pasos
  PROVE  /\ [k EXCEPT !.paso = p] \in CursoDe
         /\ [k EXCEPT !.paso = p].pet = k.pet
         /\ [k EXCEPT !.paso = p].paso = p
BY DEF CursoDe

(* Sending a request that is one keeps the types. *)
LEMMA PideType ==
  ASSUME TypeOK, NEW c \in Procs, NEW p \in Request, NEW baja \in BOOLEAN, Pide(c, p, baja)
  PROVE  curso' \in [Procs -> CursoDe] /\ cola' \in Seq(EnvioDe)
<1>1. [cl |-> c, pet |-> p, espera |-> TRUE] \in EnvioDe
  BY DEF EnvioDe
<1>2. cola' \in Seq(EnvioDe)
  BY <1>1, TypeParts DEF Pide, Encola, ServidorOK
<1>3. [paso |-> "pedida", pet |-> p, cod |-> "none", baja |-> baja] \in CursoDe
  BY DEF CursoDe, Pasos, Codes
<1>4. curso' \in [Procs -> CursoDe]
  BY <1>3, TypeParts DEF Pide, ClientesOK
<1>5. QED
  BY <1>2, <1>4

LEMMA SueltaType ==
  ASSUME TypeOK, NEW c \in Procs, NEW p \in Request, Suelta(c, p)
  PROVE  curso' \in [Procs -> CursoDe] /\ cola' \in Seq(EnvioDe)
<1>1. [cl |-> c, pet |-> p, espera |-> FALSE] \in EnvioDe
  BY DEF EnvioDe
<1>2. cola' \in Seq(EnvioDe)
  BY <1>1, TypeParts DEF Suelta, Encola, ServidorOK
<1>3. QED
  BY <1>2, TypeParts DEF Suelta, ClientesOK

(* The requests of the commands are requests. *)
LEMMA PetType ==
  ASSUME NEW u \in Names
  PROVE  /\ \A op \in Simples : Pet(op, u, Empty) \in Request
         /\ \A p \in Ports : Pet("CONNECT", u, p) \in Request
         /\ \A f \in Files \ {Lista, Temp}, op \in {"PUBLISH", "DELETE"} : Pet(op, u, f) \in Request
         /\ \A v \in Names : Pet("LIST_CONTENT", u, v) \in Request
BY ClavesAssumption DEF Pet, Request

(* Sending keeps the types: only connect changes the client besides. *)
LEMMA ComandoType ==
  ASSUME TypeOK, NEW c \in Procs, Comando(c)
  PROVE  TypeOK'
<1>1. /\ sesion \in [Procs -> Sesion] /\ curso \in [Procs -> CursoDe]
      /\ lista \in [Procs -> SUBSET (Names \X Ports)]
  BY TypeParts DEF ClientesOK
<1>2. /\ sesion[c].user # Ninguno => sesion[c].user \in Names
      /\ Empty \in Names /\ Empty \in Files \ {Lista, Temp} /\ NotFound \in Files \ {Lista, Temp}
  <2>1. sesion[c].user # Ninguno => sesion[c].user \in Names
    BY <1>1 DEF Sesion
  <2>2. Empty \in Names /\ Empty \in Files \ {Lista, Temp} /\ NotFound \in Files \ {Lista, Temp}
    BY ClavesAssumption
  <2>3. QED
    BY <2>1, <2>2
<1> DEFINE Enviada == curso' \in [Procs -> CursoDe] /\ cola' \in Seq(EnvioDe)
<1>3. ASSUME Enviada, sesion' \in [Procs -> Sesion], UNCHANGED <<delServidor, lista, aMedias>>,
             llamadas' \in SUBSET Llamada
      PROVE  TypeOK'
  <2>1. TreeOK'
    BY <1>3, TypeParts DEF TreeOK, Tree, delServidor
  <2>2. QED
    BY <1>1, <1>3, <2>1, TypeParts DEF ClientesOK, ServidorOK, LlamadasOK, delServidor
<1>10. llamadas \in SUBSET Llamada /\ (SoloPide => llamadas' = llamadas /\ aMedias' = aMedias)
  BY TypeParts DEF LlamadasOK, SoloPide, entreClientes
<1>4. ASSUME NEW u \in Names, register(c, u) \/ disconnect(c, u) \/ unregister(c, u)
      PROVE  TypeOK'
  <2>1. Enviada
    BY <1>4, PetType, PideType DEF register, disconnect, unregister, Simples
  <2>2. QED
    BY <1>1, <1>3, <1>4, <1>10, <2>1 DEF register, disconnect, unregister, SoloPide
<1>5. ASSUME NEW u \in Names, connect(c, u)
      PROVE  TypeOK'
  <2>1. PICK p \in Libres : /\ sesion' = [sesion EXCEPT ![c].sock = p]
                            /\ Pide(c, Pet("CONNECT", u, p), FALSE)
    BY <1>5 DEF connect
  <2>2. p \in Ports
    BY DEF Libres
  <2>3. Enviada
    BY <2>1, <2>2, PetType, PideType
  <2>4. sesion' \in [Procs -> Sesion]
    BY <1>1, <2>1, <2>2 DEF Sesion
  <2>5. QED
    BY <1>3, <1>5, <1>10, <2>3, <2>4, FewerCalls DEF connect
<1>6. ASSUME NEW f \in Files \ {Lista, Temp}, publish(c, f) \/ delete(c, f)
      PROVE  TypeOK'
  <2>1. Enviada
    BY <1>2, <1>6, PetType, PideType, SueltaType DEF publish, delete, Conectado
  <2>2. QED
    BY <1>1, <1>3, <1>6, <1>10, <2>1 DEF publish, delete, SoloPide
<1>7. ASSUME NEW u \in Names, listusers(c) \/ listcontent(c, u)
      PROVE  TypeOK'
  <2>1. Enviada
    BY <1>2, <1>7, PetType, PideType, SueltaType DEF listusers, listcontent, Conectado, Simples
  <2>2. QED
    BY <1>1, <1>3, <1>7, <1>10, <2>1 DEF listusers, listcontent, SoloPide
<1>8. ASSUME NEW u \in Names, getfile(c, u)
      PROVE  TypeOK'
  <2>1. PICK e \in lista[c], d \in Procs :
          llamadas' = llamadas \cup {[cl |-> c, en |-> d, puerto |-> e[2], pide |-> TRUE]}
    BY <1>8 DEF getfile
  <2>2. llamadas' \in SUBSET Llamada
    <3>1. e[2] \in Ports
      BY <1>1
    <3>2. [cl |-> c, en |-> d, puerto |-> e[2], pide |-> TRUE] \in Llamada
      BY <3>1, CallType
    <3>3. QED
      BY <1>10, <2>1, <3>2
  <2>3. [curso[c] EXCEPT !.paso = "bloqueada"] \in CursoDe
    BY <1>1, PasoType DEF Pasos
  <2>4. curso' = [curso EXCEPT ![c] = [curso[c] EXCEPT !.paso = "bloqueada"]]
    BY <1>8 DEF getfile
  <2>5. curso' \in [Procs -> CursoDe]
    BY <1>1, <2>3, <2>4
  <2>6. QED
    BY <1>1, <1>3, <1>8, <2>2, <2>5, TypeParts DEF getfile, ServidorOK
<1>9. QED
  BY <1>4, <1>5, <1>6, <1>7, <1>8, ClavesAssumption DEF Comando

(* The lines of a tree are names with ports. *)
LEMMA LineasType == ASSUME NEW d, Tree(d) PROVE Lineas(d) \in SUBSET (Names \X Ports)
BY DEF Tree, Store, Line, Lineas

(* The end of the server leaves every command somewhere. *)
LEMMA CaidaType ==
  ASSUME TypeOK, Caida
  PROVE  curso' \in [Procs -> CursoDe] /\ cola' \in Seq(EnvioDe) /\ servidor' = "caido"
<1>1. curso \in [Procs -> CursoDe]
  BY TypeParts DEF ClientesOK
<1>2. \A c \in Procs : [curso[c] EXCEPT !.paso = "rota"] \in CursoDe
  BY <1>1, PasoType DEF Pasos
<1>3. QED
  BY <1>1, <1>2, InitialTypes DEF Caida

(* An answer leaves the client with a command and a list. *)
LEMMA ContestaType ==
  ASSUME TypeOK, NEW e \in EnvioDe, ultima' \in Reply, Contesta(e)
  PROVE  curso' \in [Procs -> CursoDe] /\ lista' \in [Procs -> SUBSET (Names \X Ports)]
<1>1. /\ curso \in [Procs -> CursoDe] /\ lista \in [Procs -> SUBSET (Names \X Ports)]
      /\ e.cl \in Procs /\ ultima'.res \in Codes /\ Lineas(disco) \in SUBSET (Names \X Ports)
  BY TypeParts, LineasType DEF ClientesOK, TreeOK, EnvioDe, Reply
<1> DEFINE hecha == [curso[e.cl] EXCEPT !.paso = "hecha", !.cod = ultima'.res]
<1>2. hecha \in CursoDe
  BY <1>1 DEF CursoDe, Pasos
<1>3. /\ \/ curso' = curso \/ curso' = [curso EXCEPT ![e.cl] = hecha]
         \/ curso' = [curso EXCEPT ![e.cl] = Libre]
      /\ lista' = lista \/ lista' = [lista EXCEPT ![e.cl] = Lineas(disco)]
  BY DEF Contesta
<1> HIDE DEF hecha
<1>4. curso' \in [Procs -> CursoDe]
  BY <1>1, <1>2, <1>3, InitialTypes
<1>5. lista' \in [Procs -> SUBSET (Names \X Ports)]
  BY <1>1, <1>3
<1>6. QED
  BY <1>4, <1>5

LEMMA SirveType ==
  ASSUME TypeOK, Sirve
  PROVE  TypeOK'
<1> DEFINE e == Head(cola)
<1>1. /\ e \in EnvioDe /\ Tail(cola) \in Seq(EnvioDe) /\ Tree(disco)
      /\ lista \in [Procs -> SUBSET (Names \X Ports)] /\ curso \in [Procs -> CursoDe]
  BY TypeParts DEF Sirve, ServidorOK, TreeOK, ClientesOK
<1>2. Tree(disco') /\ ultima' \in Reply
  BY <1>1, ServType DEF Sirve, Atiende, EnvioDe
<1>3. /\ curso' \in [Procs -> CursoDe] /\ lista' \in [Procs -> SUBSET (Names \X Ports)]
      /\ cola' \in Seq(EnvioDe) /\ servidor' \in {"activo", "colgado", "caido"}
  <2>1. CASE cola' = Tail(cola) /\ Contesta(e) /\ UNCHANGED servidor
    BY <1>1, <1>2, <2>1, ContestaType, TypeParts DEF ServidorOK
  <2>2. CASE cola' = Tail(cola) /\ servidor' = "colgado" /\ UNCHANGED <<curso, lista>>
    BY <1>1, <2>2
  <2>3. CASE Caida /\ UNCHANGED lista
    BY <1>1, <2>3, CaidaType
  <2>4. CASE Caida /\ \E some \in SUBSET Lineas(disco) : lista' = [lista EXCEPT ![e.cl] = some]
    BY <1>1, <2>4, CaidaType, LineasType
  <2>5. QED
    BY <2>1, <2>2, <2>3, <2>4 DEF Sirve
<1>4. UNCHANGED <<era, sesion, llamadas, aMedias>>
  BY DEF Sirve, entreClientes
<1>5. QED
  BY <1>2, <1>3, <1>4, TypeParts DEF TreeOK, ClientesOK, ServidorOK, LlamadasOK

LEMMA CaeType ==
  ASSUME TypeOK, Cae \/ ReiniciaServidor
  PROVE  TypeOK'
<1>1. CASE Cae
  <2>1. TreeOK'
    BY <1>1, TypeParts DEF Cae, TreeOK, Tree
  <2>2. QED
    BY <1>1, <2>1, CaidaType, TypeParts DEF Cae, ClientesOK, ServidorOK, LlamadasOK, entreClientes
<1>2. CASE ReiniciaServidor
  <2>1. TreeOK'
    BY <1>2, TypeParts, StartType DEF ReiniciaServidor
  <2>2. era' \in 0..MaxEra
    BY <1>2, TypeParts, SistemaAssumption DEF ReiniciaServidor, ServidorOK
  <2>3. QED
    BY <1>2, <2>1, <2>2, TypeParts DEF ReiniciaServidor, ClientesOK, ServidorOK, LlamadasOK,
                                       entreClientes
<1>3. QED
  BY <1>1, <1>2

(* The end of a command, and the request of unregister that may follow. *)
LEMMA AcabaType ==
  ASSUME TypeOK, NEW c \in Procs, Acaba(c)
  PROVE  curso' \in [Procs -> CursoDe] /\ cola' \in Seq(EnvioDe)
<1>1. curso \in [Procs -> CursoDe] /\ cola \in Seq(EnvioDe)
  BY TypeParts DEF ClientesOK, ServidorOK
<1>2. CASE Sigue(c) /\ Pide(c, Pet("UNREGISTER", curso[c].pet.user, Empty), TRUE)
  <2>1. curso[c].pet.user \in Names
    BY <1>1, <1>2, RequestFields DEF Sigue, CursoDe, NoPedido
  <2>2. QED
    BY <1>2, <2>1, PetType, PideType DEF Simples
<1>3. CASE curso' = [curso EXCEPT ![c] = Libre] /\ UNCHANGED cola
  BY <1>1, <1>3, InitialTypes
<1>4. QED
  BY <1>2, <1>3 DEF Acaba

(* What connect makes of a client when the answer is "0". *)
Abierta(c)  == [user |-> curso[c].pet.user, addr |-> sesion[c].sock, sock |-> sesion[c].sock,
                hilos |-> sesion[c].hilos \cup {sesion[c].sock}]
LEMMA RecibeType ==
  ASSUME TypeOK, NEW c \in Procs,
         \/ RecibeConnect(c) \/ RecibeDisconnect(c) \/ Excepcion(c) \/ Desbloquea(c)
         \/ handle_server_connection(c)
  PROVE  TypeOK'
<1>1. curso \in [Procs -> CursoDe] /\ sesion \in [Procs -> Sesion] /\ cola \in Seq(EnvioDe)
  BY TypeParts DEF ClientesOK, ServidorOK
<1>2. sesion' \in [Procs -> Sesion]
  <2>1. CASE RecibeConnect(c)
    <3>1. curso[c].pet.user \in Names
      BY <1>1, <2>1, RequestFields DEF RecibeConnect, CursoDe, NoPedido
    <3>2. Abierta(c) \in Sesion
      BY <1>1, <3>1 DEF Abierta, Sesion
    <3>3. sesion' = sesion \/ sesion' = [sesion EXCEPT ![c] = Abierta(c)]
      BY <1>1, <2>1 DEF RecibeConnect, Abierta
    <3>4. QED
      BY <1>1, <3>2, <3>3
  <2>2. CASE RecibeDisconnect(c)
    <3>1. Terminada(c) \in Sesion
      BY <1>1, ClavesAssumption DEF Terminada, Sesion
    <3>2. sesion' = sesion \/ sesion' = [sesion EXCEPT ![c] = Terminada(c)]
      BY <1>1, <2>2 DEF RecibeDisconnect, Terminada
    <3>3. QED
      BY <1>1, <3>1, <3>2
  <2>3. CASE handle_server_connection(c)
    <3>1. PICK l \in llamadas :
            \/ UNCHANGED sesion
            \/ sesion' = [sesion EXCEPT ![c] =
                 IF curso[c].paso = "fin" /\ sesion[c].hilos = {l.puerto} THEN SinSesion
                 ELSE [sesion[c] EXCEPT !.hilos = @ \ {l.puerto}]]
      BY <2>3 DEF handle_server_connection
    <3>2. [sesion[c] EXCEPT !.hilos = @ \ {l.puerto}] \in Sesion
      BY <1>1 DEF Sesion
    <3>3. QED
      BY <1>1, <3>1, <3>2, InitialTypes
  <2>4. QED
    BY <1>1, <2>1, <2>2, <2>3 DEF Excepcion, Desbloquea
<1>3. curso' \in [Procs -> CursoDe] /\ cola' \in Seq(EnvioDe)
  BY <1>1, AcabaType, InitialTypes DEF RecibeConnect, RecibeDisconnect, Excepcion, Desbloquea,
                                       handle_server_connection
<1>4. UNCHANGED <<delServidor, lista>>
  BY DEF RecibeConnect, RecibeDisconnect, Excepcion, Desbloquea, handle_server_connection
<1>5. TreeOK'
  BY <1>4, TypeParts DEF TreeOK, Tree, delServidor
<1>6. LlamadasOK'
  <2>1. llamadas \in SUBSET Llamada /\ aMedias \in SUBSET Names
    BY TypeParts DEF LlamadasOK
  <2>2. CASE RecibeDisconnect(c)
    <3>1. /\ \/ llamadas' = llamadas
             \/ \E otros \in SUBSET Procs :
                  llamadas' = Abiertas(llamadas) \cup
                    {[cl |-> c, en |-> d, puerto |-> sesion[c].addr, pide |-> FALSE] : d \in otros}
          /\ aMedias' = aMedias \/ aMedias' = aMedias \cup {curso[c].pet.user}
      BY <2>2 DEF RecibeDisconnect, entreClientes
    <3>2. sesion[c].addr \in Ports /\ curso[c].pet.user \in Names
      BY <1>1, <2>2, RequestFields DEF RecibeDisconnect, CursoDe, NoPedido, Sesion
    <3>3. \A d \in Procs : [cl |-> c, en |-> d, puerto |-> sesion[c].addr, pide |-> FALSE] \in Llamada
      BY <3>2, CallType
    <3>4. llamadas' \in SUBSET Llamada
      BY <2>1, <3>1, <3>3, FewerCalls
    <3>5. QED
      BY <2>1, <3>1, <3>2, <3>4 DEF LlamadasOK
  <2>3. CASE handle_server_connection(c)
    BY <2>1, <2>3, FewerCalls DEF handle_server_connection, LlamadasOK
  <2>4. QED
    BY <2>1, <2>2, <2>3 DEF RecibeConnect, Excepcion, Desbloquea, entreClientes, LlamadasOK
<1>7. QED
  BY <1>2, <1>3, <1>4, <1>5, <1>6, TypeParts DEF ClientesOK, ServidorOK, delServidor

LEMMA FinType ==
  ASSUME TypeOK, NEW c \in Procs, Quit(c) \/ Mata(c)
  PROVE  TypeOK'
<1>1. curso \in [Procs -> CursoDe] /\ sesion \in [Procs -> Sesion] /\ cola \in Seq(EnvioDe)
  BY TypeParts DEF ClientesOK, ServidorOK
<1>2. sesion' \in [Procs -> Sesion]
  BY <1>1, InitialTypes DEF Quit, Mata
<1>3. curso' \in [Procs -> CursoDe]
  <2>1. [curso[c] EXCEPT !.paso = "fin"] \in CursoDe
    BY <1>1, PasoType DEF Pasos
  <2>2. CASE Quit(c)
    <3>1. curso' = [curso EXCEPT ![c] = [curso[c] EXCEPT !.paso = "fin"]]
      BY <2>2 DEF Quit
    <3>2. QED
      BY <1>1, <2>1, <3>1
  <2>3. CASE Mata(c)
    BY <1>1, <2>3, InitialTypes DEF Mata
  <2>4. QED
    BY <2>2, <2>3
<1>4. cola' \in Seq(EnvioDe)
  <2>1. \A k \in EnvioDe : [k EXCEPT !.espera = FALSE] \in EnvioDe
    BY DEF EnvioDe
  <2>2. CASE Mata(c)
    <3>1. DOMAIN cola = 1..Len(cola) /\ Len(cola) \in Nat /\ \A i \in DOMAIN cola : cola[i] \in EnvioDe
      BY <1>1
    <3>2. cola' \in [1..Len(cola) -> EnvioDe]
      BY <2>1, <2>2, <3>1 DEF Mata
    <3>3. QED
      BY <3>1, <3>2
  <2>3. QED
    BY <1>1, <2>2 DEF Quit
<1>5. UNCHANGED <<delServidor, lista>>
  BY DEF Quit, Mata
<1>6. TreeOK' /\ LlamadasOK'
  BY <1>5, TypeParts, FewerCalls DEF TreeOK, Tree, delServidor, LlamadasOK, Quit, Mata
<1>7. QED
  BY <1>2, <1>3, <1>4, <1>5, <1>6, TypeParts DEF ClientesOK, ServidorOK, delServidor

(* The types of the system. *)
THEOREM TypesCorrect == Spec => []TypeOK
<1>1. Init => TypeOK
  <2> SUFFICES ASSUME Init PROVE TypeOK
    OBVIOUS
  <2>1. TreeOK
    BY InitTree DEF Init
  <2>2. QED
    BY <2>1, InitialTypes, TypeParts, SistemaAssumption DEF Init, ClientesOK, ServidorOK, LlamadasOK
<1>2. TypeOK /\ [Next]_vars => TypeOK'
  <2> SUFFICES ASSUME TypeOK, [Next]_vars PROVE TypeOK'
    OBVIOUS
  <2>1. CASE UNCHANGED vars
    BY <2>1 DEF TypeOK, TreeOK, Tree, vars, Llamada
  <2>2. QED
    BY <2>1, ComandoType, SirveType, CaeType, RecibeType, FinType DEF Next, Cliente
<1>3. QED
  BY <1>1, <1>2, PTL DEF Spec

-----------------------------------------------------------------------------
(* Sockets and threads.  The ports a process is bound to are nobody else's, *)
(* and a client that waits for the answer of connect has a socket.          *)
PuertosInv ==
  /\ \A c \in Procs : Empty \notin sesion[c].hilos
  /\ \A c \in Procs : curso[c].pet.op = "CONNECT" =>
                       sesion[c].sock # Empty /\ curso[c].paso \notin {"libre", "fin"}
  /\ \A c, d \in Procs : c # d => Puertos(c) \cap Puertos(d) = {}

(* A step in which nobody comes to be bound to another port. *)
Mengua ==
  /\ \A c \in Procs : /\ sesion'[c].hilos \subseteq Puertos(c)
                      /\ sesion'[c].sock \in Puertos(c) \cup {Empty}
                      /\ curso'[c].pet.op = "CONNECT" =>
                           sesion'[c].sock # Empty /\ curso'[c].paso \notin {"libre", "fin"}

LEMMA MenguaKeeps == ASSUME PuertosInv, Mengua PROVE PuertosInv'
<1>1. \A c \in Procs : (Puertos(c))' \subseteq Puertos(c)
  BY DEF Mengua, Puertos
<1>2. QED
  BY <1>1 DEF Mengua, PuertosInv, Puertos

(* The sessions stay, and no command becomes a connect. *)
LEMMA QuietKeeps ==
  ASSUME PuertosInv, sesion' = sesion,
         \A d \in Procs : /\ curso'[d].pet.op = "CONNECT" => curso[d].pet.op = "CONNECT"
                          /\ curso'[d].pet.op = "CONNECT" => curso'[d].paso \notin {"libre", "fin"}
  PROVE  PuertosInv'
BY DEF PuertosInv, Puertos

LEMMA SirveKeepsP ==
  ASSUME TypeOK, PuertosInv, Sirve \/ Cae \/ ReiniciaServidor
  PROVE  PuertosInv'
<1>1. curso \in [Procs -> CursoDe]
  BY TypeParts DEF ClientesOK
<1>2. sesion' = sesion
  BY DEF Sirve, Cae, ReiniciaServidor
<1> DEFINE Quieto == \A d \in Procs :
             /\ curso'[d].pet.op = "CONNECT" => curso[d].pet.op = "CONNECT"
             /\ curso'[d].pet.op = "CONNECT" => curso'[d].paso \notin {"libre", "fin"}
<1>3. CASE UNCHANGED curso
  BY <1>2, <1>3, QuietKeeps DEF PuertosInv
<1>4. CASE Caida
  <2>1. \A d \in Procs : \/ curso'[d] = curso[d] \/ curso'[d] = Libre
                         \/ curso'[d] = [curso[d] EXCEPT !.paso = "rota"]
    BY <1>4 DEF Caida
  <2>2. \A d \in Procs : /\ [curso[d] EXCEPT !.paso = "rota"].pet = curso[d].pet
                         /\ [curso[d] EXCEPT !.paso = "rota"].paso \notin {"libre", "fin"}
    BY <1>1, PasoType DEF Pasos
  <2>3. Quieto
    BY <2>1, <2>2, InitialTypes DEF PuertosInv
  <2>4. QED
    BY <1>2, <2>3, QuietKeeps
<1>5. ASSUME NEW e \in EnvioDe, Contesta(e), ultima' \in Reply
      PROVE  PuertosInv'
  <2> DEFINE hecha == [curso[e.cl] EXCEPT !.paso = "hecha", !.cod = ultima'.res]
  <2>1. e.cl \in Procs
    BY DEF EnvioDe
  <2>2. hecha.pet = curso[e.cl].pet /\ hecha.paso = "hecha"
    BY <1>1, <2>1 DEF CursoDe
  <2>3. \/ curso' = curso \/ curso' = [curso EXCEPT ![e.cl] = hecha]
        \/ curso' = [curso EXCEPT ![e.cl] = Libre]
    BY <1>5 DEF Contesta
  <2> HIDE DEF hecha
  <2>4. Quieto
    BY <1>1, <2>1, <2>2, <2>3, InitialTypes DEF PuertosInv
  <2>5. QED
    BY <1>2, <2>4, QuietKeeps
<1>6. CASE Sirve
  <2>1. Head(cola) \in EnvioDe /\ Tree(disco)
    BY <1>6, TypeParts DEF Sirve, ServidorOK, TreeOK
  <2>2. ultima' \in Reply
    BY <1>6, <2>1, ServType DEF Sirve, Atiende, EnvioDe
  <2>3. QED
    BY <1>3, <1>4, <1>5, <1>6, <2>1, <2>2 DEF Sirve
<1>7. QED
  BY <1>3, <1>4, <1>6 DEF Cae, ReiniciaServidor

(* What Pide makes of the commands. *)
LEMMA PideKeepsP ==
  ASSUME TypeOK, PuertosInv, NEW c \in Procs, NEW op, NEW u, NEW a, NEW baja, op # "CONNECT",
         Pide(c, Pet(op, u, a), baja) \/ Suelta(c, Pet(op, u, a)), sesion' = sesion
  PROVE  PuertosInv'
<1>1. curso \in [Procs -> CursoDe]
  BY TypeParts DEF ClientesOK
<1>2. \A d \in Procs : curso'[d] = curso[d] \/ curso'[d].pet.op # "CONNECT"
  <2>1. CASE Pide(c, Pet(op, u, a), baja)
    <3>1. curso'[c].pet.op = op /\ \A d \in Procs \ {c} : curso'[d] = curso[d]
      BY <1>1, <2>1 DEF Pide, Pet
    <3>2. QED
      BY <3>1
  <2>2. CASE Suelta(c, Pet(op, u, a))
    BY <2>2 DEF Suelta
  <2>3. QED
    BY <2>1, <2>2
<1>3. \A d \in Procs : /\ curso'[d].pet.op = "CONNECT" => curso[d].pet.op = "CONNECT"
                       /\ curso'[d].pet.op = "CONNECT" => curso'[d].paso \notin {"libre", "fin"}
  BY <1>2 DEF PuertosInv
<1>4. QED
  BY <1>3, QuietKeeps

LEMMA ComandoKeepsP ==
  ASSUME TypeOK, PuertosInv, NEW c \in Procs, Comando(c)
  PROVE  PuertosInv'
<1>1. sesion \in [Procs -> Sesion] /\ curso \in [Procs -> CursoDe]
  BY TypeParts DEF ClientesOK
<1>2. ASSUME NEW u, \/ register(c, u) \/ disconnect(c, u) \/ unregister(c, u)
                    \/ listusers(c) \/ listcontent(c, u)
      PROVE  PuertosInv'
  BY <1>2, PideKeepsP DEF register, disconnect, unregister, listusers, listcontent, SoloPide
<1>3. ASSUME NEW f, publish(c, f) \/ delete(c, f)
      PROVE  PuertosInv'
  BY <1>3, PideKeepsP DEF publish, delete, SoloPide
<1>4. ASSUME NEW u, connect(c, u)
      PROVE  PuertosInv'
  <2>1. PICK p \in Libres : /\ sesion' = [sesion EXCEPT ![c].sock = p]
                            /\ Pide(c, Pet("CONNECT", u, p), FALSE)
    BY <1>4 DEF connect
  <2>2. p # Empty /\ \A d \in Procs : p \notin Puertos(d)
    BY DEF Libres, EnUso, Puertos
  <2>3. /\ \A d \in Procs \ {c} : sesion'[d] = sesion[d] /\ curso'[d] = curso[d]
        /\ sesion'[c].user = sesion[c].user /\ sesion'[c].addr = sesion[c].addr
        /\ sesion'[c].hilos = sesion[c].hilos /\ sesion'[c].sock = p
        /\ curso'[c].paso = "pedida"
    BY <1>1, <2>1 DEF Sesion, Pide
  <2>4. /\ (Puertos(c))' \subseteq Puertos(c) \cup {p}
        /\ \A d \in Procs \ {c} : (Puertos(d))' = Puertos(d)
    BY <2>3 DEF Puertos
  <2>5. QED
    BY <2>2, <2>3, <2>4 DEF PuertosInv, Conectado
<1>5. ASSUME NEW u, getfile(c, u)
      PROVE  PuertosInv'
  <2>1. /\ curso' = [curso EXCEPT ![c] = [curso[c] EXCEPT !.paso = "bloqueada"]]
        /\ sesion' = sesion
    BY <1>5 DEF getfile
  <2>2. /\ [curso[c] EXCEPT !.paso = "bloqueada"].pet = curso[c].pet
        /\ [curso[c] EXCEPT !.paso = "bloqueada"].paso = "bloqueada"
    BY <1>1, PasoType DEF Pasos
  <2>3. \A d \in Procs : /\ curso'[d].pet.op = "CONNECT" => curso[d].pet.op = "CONNECT"
                         /\ curso'[d].pet.op = "CONNECT" => curso'[d].paso \notin {"libre", "fin"}
    BY <1>1, <2>1, <2>2 DEF PuertosInv
  <2>4. QED
    BY <2>1, <2>3, QuietKeeps
<1>6. QED
  BY <1>2, <1>3, <1>4, <1>5 DEF Comando

LEMMA RecibeKeepsP ==
  ASSUME TypeOK, PuertosInv, NEW c \in Procs,
         \/ RecibeConnect(c) \/ RecibeDisconnect(c) \/ Excepcion(c) \/ Desbloquea(c)
  PROVE  PuertosInv'
<1>1. sesion \in [Procs -> Sesion] /\ curso \in [Procs -> CursoDe]
  BY TypeParts DEF ClientesOK
<1>2. ASSUME curso' = [curso EXCEPT ![c] = Libre]
      PROVE  curso'[c].pet.op = "none" /\ \A d \in Procs \ {c} : curso'[d] = curso[d]
  BY <1>1, <1>2, InitialTypes
<1>3. ASSUME Acaba(c)
      PROVE  curso'[c].pet.op # "CONNECT" /\ \A d \in Procs \ {c} : curso'[d] = curso[d]
  <2>1. CASE Pide(c, Pet("UNREGISTER", curso[c].pet.user, Empty), TRUE)
    BY <1>1, <2>1 DEF Pide, Pet
  <2>2. QED
    BY <1>2, <1>3, <2>1 DEF Acaba
<1>4. curso'[c].pet.op # "CONNECT" /\ \A d \in Procs \ {c} : curso'[d] = curso[d]
  BY <1>2, <1>3 DEF RecibeConnect, RecibeDisconnect, Excepcion, Desbloquea
<1>5. CASE sesion' = sesion
  <2>1. \A d \in Procs : /\ curso'[d].pet.op = "CONNECT" => curso[d].pet.op = "CONNECT"
                         /\ curso'[d].pet.op = "CONNECT" => curso'[d].paso \notin {"libre", "fin"}
    BY <1>4 DEF PuertosInv
  <2>2. QED
    BY <1>5, <2>1, QuietKeeps
<1>6. CASE sesion' = [sesion EXCEPT ![c] = Abierta(c)] /\ curso[c].pet.op = "CONNECT"
  <2>1. \A d \in Procs \ {c} : sesion'[d] = sesion[d]
    BY <1>6
  <2>2. /\ sesion'[c].hilos = sesion[c].hilos \cup {sesion[c].sock}
        /\ sesion'[c].sock = sesion[c].sock /\ sesion'[c].addr = sesion[c].sock
    BY <1>1, <1>6 DEF Abierta
  <2>3. sesion[c].sock # Empty
    BY <1>6 DEF PuertosInv
  <2>4. Mengua
    BY <1>4, <2>1, <2>2, <2>3 DEF Mengua, PuertosInv, Puertos
  <2>5. QED
    BY <2>4, MenguaKeeps
<1>7. CASE sesion' = [sesion EXCEPT ![c] = Terminada(c)]
  <2>1. \A d \in Procs \ {c} : sesion'[d] = sesion[d]
    BY <1>7
  <2>2. /\ sesion'[c].hilos \subseteq sesion[c].hilos
        /\ sesion'[c].sock = Empty /\ sesion'[c].user = Ninguno
    BY <1>1, <1>7 DEF Terminada
  <2>3. Mengua
    BY <1>4, <2>1, <2>2 DEF Mengua, PuertosInv, Puertos
  <2>4. QED
    BY <2>3, MenguaKeeps
<1>8. QED
  BY <1>1, <1>5, <1>6, <1>7 DEF RecibeConnect, RecibeDisconnect, Excepcion, Desbloquea,
                                Abierta, Terminada

(* What the end of a call does to the process of the thread. *)
LEMMA HiloForms ==
  ASSUME TypeOK, NEW c \in Procs, handle_server_connection(c)
  PROVE  /\ UNCHANGED <<delServidor, cola, lista, curso, aMedias>>
         /\ \A d \in Procs \ {c} : sesion'[d] = sesion[d]
         /\ \/ /\ curso[c].paso = "fin" /\ sesion'[c] = SinSesion
            \/ /\ sesion'[c].user = sesion[c].user /\ sesion'[c].addr = sesion[c].addr
               /\ sesion'[c].sock = sesion[c].sock /\ sesion'[c].hilos \subseteq sesion[c].hilos
<1>1. sesion \in [Procs -> Sesion]
  BY TypeParts DEF ClientesOK
<1>2. PICK l \in llamadas :
        /\ \/ UNCHANGED sesion
           \/ sesion' = [sesion EXCEPT ![c] =
                IF curso[c].paso = "fin" /\ sesion[c].hilos = {l.puerto} THEN SinSesion
                ELSE [sesion[c] EXCEPT !.hilos = @ \ {l.puerto}]]
        /\ UNCHANGED <<delServidor, cola, lista, curso, aMedias>>
  BY DEF handle_server_connection
<1>3. LET s == [sesion[c] EXCEPT !.hilos = @ \ {l.puerto}]
      IN  /\ s.user = sesion[c].user /\ s.addr = sesion[c].addr /\ s.sock = sesion[c].sock
          /\ s.hilos = sesion[c].hilos \ {l.puerto}
  BY <1>1 DEF Sesion
<1>4. QED
  BY <1>1, <1>2, <1>3

LEMMA HiloKeepsP ==
  ASSUME TypeOK, PuertosInv, NEW c \in Procs, handle_server_connection(c)
  PROVE  PuertosInv'
<1>1. /\ SinSesion.hilos = {} /\ SinSesion.sock = Empty /\ curso' = curso
      /\ \A d \in Procs \ {c} : sesion'[d] = sesion[d]
  BY HiloForms DEF SinSesion
<1>2. /\ sesion'[c].hilos \subseteq sesion[c].hilos
      /\ \/ sesion'[c].sock = sesion[c].sock
         \/ sesion'[c].sock = Empty /\ curso[c].paso = "fin"
  BY <1>1, HiloForms
<1>3. Mengua
  BY <1>1, <1>2 DEF Mengua, PuertosInv, Puertos
<1>4. QED
  BY <1>3, MenguaKeeps

LEMMA FinKeepsP ==
  ASSUME TypeOK, PuertosInv, NEW c \in Procs, Quit(c) \/ Mata(c)
  PROVE  PuertosInv'
<1>1. sesion \in [Procs -> Sesion] /\ curso \in [Procs -> CursoDe]
  BY TypeParts DEF ClientesOK
<1>2. curso'[c].pet.op # "CONNECT" /\ \A d \in Procs \ {c} : curso'[d] = curso[d]
  <2>1. CASE Quit(c)
    <3>1. curso[c].pet.op # "CONNECT"
      BY <2>1 DEF Quit, Puede, PuertosInv
    <3>2. [curso[c] EXCEPT !.paso = "fin"].pet = curso[c].pet
      BY <1>1, PasoType DEF Pasos
    <3>3. curso' = [curso EXCEPT ![c] = [curso[c] EXCEPT !.paso = "fin"]]
      BY <2>1 DEF Quit
    <3>4. QED
      BY <1>1, <3>1, <3>2, <3>3
  <2>2. CASE Mata(c)
    BY <1>1, <2>2, InitialTypes DEF Mata
  <2>3. QED
    BY <2>1, <2>2
<1>3. CASE sesion' = sesion
  <2>1. \A d \in Procs : /\ curso'[d].pet.op = "CONNECT" => curso[d].pet.op = "CONNECT"
                         /\ curso'[d].pet.op = "CONNECT" => curso'[d].paso \notin {"libre", "fin"}
    BY <1>2 DEF PuertosInv
  <2>2. QED
    BY <1>3, <2>1, QuietKeeps
<1>4. CASE sesion' = [sesion EXCEPT ![c] = SinSesion]
  <2>1. /\ \A d \in Procs \ {c} : sesion'[d] = sesion[d]
        /\ sesion'[c].hilos = {} /\ sesion'[c].sock = Empty /\ sesion'[c].user = Ninguno
    BY <1>1, <1>4 DEF SinSesion
  <2>2. Mengua
    BY <1>2, <2>1 DEF Mengua, PuertosInv, Puertos
  <2>3. QED
    BY <2>2, MenguaKeeps
<1>5. QED
  BY <1>3, <1>4 DEF Quit, Mata

LEMMA PuertosAlways == Spec => []PuertosInv
<1>1. Init => PuertosInv
  BY DEF Init, PuertosInv, Puertos, SinSesion, Libre, NoPedido
<1>2. TypeOK /\ PuertosInv /\ [Next]_vars => PuertosInv'
  <2> SUFFICES ASSUME TypeOK, PuertosInv, [Next]_vars PROVE PuertosInv'
    OBVIOUS
  <2>1. CASE UNCHANGED vars
    BY <2>1, QuietKeeps DEF vars, PuertosInv
  <2>2. QED
    BY <2>1, ComandoKeepsP, SirveKeepsP, RecibeKeepsP, HiloKeepsP, FinKeepsP DEF Next, Cliente
<1>3. QED
  BY <1>1, <1>2, TypesCorrect, PTL DEF Spec

(* A session that goes on loses the thread behind its address only at the   *)
(* end of a request for a file made to that thread, for any number of       *)
(* processes, threads left behind, refused connects, failures and restarts. *)
THEOREM AddressesAreServed == Spec => AnnouncedIsServed
<1> DEFINE A == \A c \in Procs :
       /\ Conectado(c) /\ Linea(c)' = Linea(c)
       /\ sesion[c].addr \in sesion[c].hilos /\ sesion'[c].addr \notin sesion'[c].hilos
       => \E l \in llamadas \ llamadas' : l.en = c /\ l.puerto = sesion[c].addr /\ l.pide
<1>1. TypeOK /\ [Next]_vars => A
  <2>1. SUFFICES ASSUME TypeOK, [Next]_vars, NEW c \in Procs, sesion[c].user # Ninguno,
                        sesion'[c].user = sesion[c].user, sesion'[c].addr = sesion[c].addr,
                        sesion[c].addr \in sesion[c].hilos, sesion[c].addr \notin sesion'[c].hilos
                 PROVE  \E l \in llamadas \ llamadas' : l.en = c /\ l.puerto = sesion[c].addr /\ l.pide
    BY DEF Linea, Conectado
  <2>2. sesion \in [Procs -> Sesion]
    BY <2>1, TypeParts DEF ClientesOK
  <2>3. ASSUME NEW d \in Procs, Comando(d)
        PROVE  FALSE
    <3>1. sesion' = sesion \/ \E p : sesion' = [sesion EXCEPT ![d].sock = p]
      BY <2>3 DEF Comando, register, connect, disconnect, unregister, listcontent, getfile, publish,
                  delete, listusers, SoloPide
    <3>2. QED
      BY <2>1, <2>2, <3>1 DEF Sesion
  <2>4. ASSUME NEW d \in Procs, RecibeConnect(d)
        PROVE  FALSE
    <3>1. sesion' = sesion \/ sesion' = [sesion EXCEPT ![d] = Abierta(d)]
      BY <2>2, <2>4 DEF RecibeConnect, Abierta
    <3>2. QED
      BY <2>1, <2>2, <3>1 DEF Abierta
  <2>5. ASSUME NEW d \in Procs, RecibeDisconnect(d)
        PROVE  FALSE
    <3>1. sesion' = sesion \/ sesion' = [sesion EXCEPT ![d] = Terminada(d)]
      BY <2>5 DEF RecibeDisconnect
    <3>2. QED
      BY <2>1, <2>2, <3>1 DEF Terminada
  <2>6. ASSUME NEW d \in Procs, Quit(d) \/ Mata(d)
        PROVE  FALSE
    BY <2>1, <2>2, <2>6 DEF Quit, Mata, SinSesion
  <2>7. ASSUME NEW d \in Procs, handle_server_connection(d)
        PROVE  \E l \in llamadas \ llamadas' : l.en = c /\ l.puerto = sesion[c].addr /\ l.pide
    <3>1. SUFFICES ASSUME NEW l \in llamadas, l.en = d, l.puerto \in sesion[d].hilos,
                          llamadas' \subseteq llamadas \ {l}, ~Conectado(d) \/ l.pide,
                          sesion' = [sesion EXCEPT ![d] =
                            IF curso[d].paso = "fin" /\ sesion[d].hilos = {l.puerto} THEN SinSesion
                            ELSE [sesion[d] EXCEPT !.hilos = @ \ {l.puerto}]]
                   PROVE  l.en = c /\ l.puerto = sesion[c].addr /\ l.pide
      <4>1. CASE UNCHANGED sesion
        BY <2>1, <4>1
      <4>2. QED
        BY <2>7, <3>1, <4>1, Zenon DEF handle_server_connection, Abiertas
    <3>2. d = c
      BY <2>1, <2>2, <3>1
    <3>3. sesion'[c] # SinSesion /\ Conectado(d)
      BY <2>1, <3>2 DEF SinSesion, Conectado
    <3>4. sesion'[c] = [sesion[c] EXCEPT !.hilos = @ \ {l.puerto}]
      BY <2>2, <3>1, <3>2, <3>3
    <3>5. sesion'[c].hilos = sesion[c].hilos \ {l.puerto}
      BY <2>2, <3>4 DEF Sesion
    <3>6. l.puerto = sesion[c].addr
      BY <2>1, <3>5
    <3>7. l.pide
      BY <3>1, <3>3, Zenon
    <3>8. QED
      BY <3>1, <3>2, <3>6, <3>7, Zenon
  <2>8. QED
    BY <2>1, <2>3, <2>4, <2>5, <2>6, <2>7
       DEF Next, Cliente, Excepcion, Desbloquea, vars, Sirve, Cae, ReiniciaServidor
<1>2. Spec => [][A]_vars
  BY <1>1, TypesCorrect, PTL DEF Spec
<1>3. QED
  BY <1>2 DEF AnnouncedIsServed
-----------------------------------------------------------------------------
(* Commands and the backlog, through any failures and restarts.             *)

(* A command that is over left no request; the request of connect and the   *)
(* one of disconnect are about this session; only the server answers.       *)
CursoInv ==
  \A c \in Procs :
    /\ curso[c].paso \in {"libre", "bloqueada", "fin"} => curso[c].pet.op = "none"
    /\ curso[c].paso # "hecha" => curso[c].cod # "0"
    /\ curso[c].pet.op \in Nominales => curso[c].pet.user # Empty
    /\ curso[c].pet.op = "CONNECT" => curso[c].pet.arg = sesion[c].sock
    /\ curso[c].pet.op = "DISCONNECT" => sesion[c].user = curso[c].pet.user
    /\ sesion[c].user # Empty

(* The requests somebody waits for are those of the commands under way.     *)
Esperada(e) == e.espera => curso[e.cl].paso = "pedida" /\ curso[e.cl].pet = e.pet
ColaInv ==
  /\ \A i \in DOMAIN cola : Esperada(cola[i])
  /\ \A i, j \in DOMAIN cola : i # j /\ cola[i].espera /\ cola[j].espera => cola[i].cl # cola[j].cl
  /\ \A i \in DOMAIN cola : cola[i].pet.op \in Nominales => cola[i].pet.user # Empty

OrdenInv == CursoInv /\ ColaInv

(* What a backlog is made of. *)
LEMMA QueueElements ==
  ASSUME NEW q \in Seq(EnvioDe)
  PROVE  /\ Len(q) \in Nat /\ DOMAIN q = 1..Len(q)
         /\ \A i \in DOMAIN q : q[i] \in EnvioDe /\ q[i].cl \in Procs /\ q[i].pet \in Request
<1>1. Len(q) \in Nat /\ DOMAIN q = 1..Len(q) /\ \A i \in DOMAIN q : q[i] \in EnvioDe
  OBVIOUS
<1>2. \A k \in EnvioDe : k.cl \in Procs /\ k.pet \in Request
  BY DEF EnvioDe
<1>3. QED
  BY <1>1, <1>2

(* The request a command at the prompt sends: connect has taken a port. *)
Propia(c, p) ==
  /\ p.op \in Nominales => p.user # Empty
  /\ p.op = "DISCONNECT" => sesion[c].user = p.user
  /\ p.op = "CONNECT" => p.arg \in Libres /\ sesion' = [sesion EXCEPT ![c].sock = p.arg]
  /\ p.op # "CONNECT" => UNCHANGED sesion

(* The three things a command can be: a request whose answer it waits for,  *)
(* a request it does not wait for, a transfer.                              *)
LEMMA ComandoForms ==
  ASSUME TypeOK, NEW c \in Procs, Comando(c)
  PROVE  /\ curso[c].paso = "libre" /\ UNCHANGED <<delServidor, aMedias>>
         /\ \/ \E p \in Request, baja \in BOOLEAN : Pide(c, p, baja) /\ Propia(c, p)
            \/ \E p \in Request : Suelta(c, p) /\ p.op \notin Nominales /\ UNCHANGED sesion
            \/ \E u \in Names : getfile(c, u)
<1> DEFINE Envia   == \E p \in Request, baja \in BOOLEAN : Pide(c, p, baja) /\ Propia(c, p)
           Desecha == \E p \in Request : Suelta(c, p) /\ p.op \notin Nominales /\ UNCHANGED sesion
<1>1. \A op, u, a : Pet(op, u, a).op = op /\ Pet(op, u, a).user = u /\ Pet(op, u, a).arg = a
  BY DEF Pet
<1>2. /\ sesion[c].user # Ninguno => sesion[c].user \in Names
      /\ Empty \in Names /\ Empty \in Files \ {Lista, Temp} /\ NotFound \in Files \ {Lista, Temp}
  <2>1. sesion[c].user # Ninguno => sesion[c].user \in Names
    BY TypeParts DEF ClientesOK, Sesion
  <2>2. Empty \in Names /\ Empty \in Files \ {Lista, Temp} /\ NotFound \in Files \ {Lista, Temp}
    BY ClavesAssumption
  <2>3. QED
    BY <2>1, <2>2
<1>3. ASSUME NEW u \in Names \ {Empty}, register(c, u) \/ disconnect(c, u) \/ unregister(c, u)
      PROVE  Envia
  <2>1. PICK op \in Simples, baja \in BOOLEAN :
          /\ Pide(c, Pet(op, u, Empty), baja) /\ op # "CONNECT" /\ UNCHANGED sesion
          /\ op = "DISCONNECT" => sesion[c].user = u
    BY <1>3 DEF register, disconnect, unregister, Simples, SoloPide
  <2>2. Pet(op, u, Empty) \in Request
    BY PetType
  <2>3. Propia(c, Pet(op, u, Empty))
    BY <1>1, <2>1 DEF Propia
  <2>4. QED
    BY <2>1, <2>2, <2>3
<1>4. ASSUME NEW u \in Names \ {Empty}, connect(c, u)
      PROVE  Envia
  <2>1. PICK p \in Libres : /\ sesion' = [sesion EXCEPT ![c].sock = p]
                            /\ Pide(c, Pet("CONNECT", u, p), FALSE)
    BY <1>4 DEF connect
  <2>2. Pet("CONNECT", u, p) \in Request
    BY PetType DEF Libres
  <2> DEFINE q == Pet("CONNECT", u, p)
  <2>3. q.op = "CONNECT" /\ q.user = u /\ q.arg = p
    BY <1>1
  <2>4. Pide(c, q, FALSE) /\ q \in Request
    BY <2>1, <2>2
  <2> HIDE DEF q
  <2>5. Propia(c, q)
    BY <2>1, <2>3 DEF Propia
  <2>6. QED
    BY <2>4, <2>5
<1>5. ASSUME NEW op \in Ops \ Nominales, NEW u, NEW a, Pet(op, u, a) \in Request, UNCHANGED sesion,
             Pide(c, Pet(op, u, a), FALSE) \/ Suelta(c, Pet(op, u, a))
      PROVE  Envia \/ Desecha
  <2> DEFINE p == Pet(op, u, a)
  <2>1. p \in Request /\ p.op \notin Nominales /\ (Pide(c, p, FALSE) \/ Suelta(c, p))
    BY <1>1, <1>5
  <2> HIDE DEF p
  <2>2. Propia(c, p)
    BY <1>5, <2>1 DEF Propia, Nominales
  <2>3. QED
    BY <1>5, <2>1, <2>2
<1>6. ASSUME NEW f \in Files \ {Lista, Temp}, publish(c, f) \/ delete(c, f)
      PROVE  Envia \/ Desecha
  <2>1. PICK op \in {"PUBLISH", "DELETE"}, u \in Names, g \in Files \ {Lista, Temp} :
          Pide(c, Pet(op, u, g), FALSE) \/ Suelta(c, Pet(op, u, g))
    BY <1>2, <1>6 DEF publish, delete, Conectado
  <2>2. Pet(op, u, g) \in Request /\ op \in Ops \ Nominales
    BY PetType DEF Ops, Nominales
  <2>3. QED
    BY <1>5, <1>6, <2>1, <2>2 DEF publish, delete, SoloPide
<1>7. ASSUME NEW v \in Names, listusers(c) \/ listcontent(c, v)
      PROVE  Envia \/ Desecha
  <2>1. \/ \E u \in Names : Pide(c, Pet("LIST_USERS", u, Empty), FALSE)
        \/ \E u \in Names : Pide(c, Pet("LIST_CONTENT", u, v), FALSE)
        \/ Suelta(c, Pet("LIST_CONTENT", Empty, Empty))
    BY <1>2, <1>7 DEF listusers, listcontent, Conectado
  <2>2. /\ \A u \in Names : /\ Pet("LIST_USERS", u, Empty) \in Request
                            /\ Pet("LIST_CONTENT", u, v) \in Request
        /\ Pet("LIST_CONTENT", Empty, Empty) \in Request
        /\ {"LIST_USERS", "LIST_CONTENT"} \subseteq Ops \ Nominales
    BY <1>2, PetType DEF Simples, Ops, Nominales
  <2>3. QED
    BY <1>5, <1>7, <2>1, <2>2 DEF listusers, listcontent, SoloPide
<1>8. curso[c].paso = "libre" /\ UNCHANGED <<delServidor, aMedias>>
  BY DEF Comando, register, connect, disconnect, unregister, listcontent, getfile, publish, delete,
         listusers, Puede, SoloPide, entreClientes
<1>9. QED
  BY <1>3, <1>4, <1>6, <1>7, <1>8, ClavesAssumption DEF Comando

(* A transfer blocks the command. *)
LEMMA GetfileForms ==
  ASSUME TypeOK, NEW c \in Procs, NEW u, getfile(c, u)
  PROVE  /\ curso[c].paso = "libre" /\ UNCHANGED <<delServidor, cola, sesion>>
         /\ curso' = [curso EXCEPT ![c] = [curso[c] EXCEPT !.paso = "bloqueada"]]
BY DEF getfile, Puede

(* A step that leaves the backlog alone. *)
LEMMA ColaSame ==
  ASSUME ColaInv, cola \in Seq(EnvioDe), UNCHANGED cola,
         \A d \in Procs : curso[d].paso = "pedida" => curso'[d] = curso[d]
  PROVE  ColaInv'
<1>1. \A i \in DOMAIN cola : cola[i].cl \in Procs
  BY QueueElements
<1>2. QED
  BY <1>1 DEF ColaInv, Esperada

(* A longer backlog. *)
LEMMA AppendElements ==
  ASSUME NEW q \in Seq(EnvioDe), NEW e \in EnvioDe
  PROVE  /\ Len(q) \in Nat /\ DOMAIN q = 1..Len(q) /\ DOMAIN Append(q, e) = 1..(Len(q) + 1)
         /\ \A i \in DOMAIN q : Append(q, e)[i] = q[i] /\ q[i].cl \in Procs /\ i \in DOMAIN Append(q, e)
         /\ Append(q, e)[Len(q) + 1] = e /\ Len(q) + 1 \in DOMAIN Append(q, e)
         /\ \A i \in DOMAIN Append(q, e) : i \in DOMAIN q \/ i = Len(q) + 1
<1>1. Len(q) \in Nat /\ DOMAIN q = 1..Len(q) /\ \A i \in DOMAIN q : q[i].cl \in Procs
  BY QueueElements
<1>2. /\ DOMAIN Append(q, e) = 1..(Len(q) + 1) /\ Append(q, e)[Len(q) + 1] = e
      /\ \A i \in 1..Len(q) : Append(q, e)[i] = q[i]
  OBVIOUS
<1>3. QED
  BY <1>1, <1>2

(* A step that sends a request. *)
LEMMA ColaGrows ==
  ASSUME ColaInv, cola \in Seq(EnvioDe), NEW c \in Procs, NEW e \in EnvioDe,
         cola' = Append(cola, e), e.cl = c,
         curso[c].paso # "pedida", \A d \in Procs \ {c} : curso'[d] = curso[d],
         e.espera => curso'[c].paso = "pedida" /\ curso'[c].pet = e.pet,
         e.pet.op \in Nominales => e.pet.user # Empty
  PROVE  ColaInv'
<1>1. /\ \A i \in DOMAIN cola : cola'[i] = cola[i] /\ cola[i].cl \in Procs
      /\ cola'[Len(cola) + 1] = e
      /\ \A i \in DOMAIN cola' : i \in DOMAIN cola \/ i = Len(cola) + 1
  BY AppendElements
<1>2. \A i \in DOMAIN cola : cola[i].espera => cola[i].cl # c
  BY DEF ColaInv, Esperada
<1>3. \A i \in DOMAIN cola' : (Esperada(cola[i]))'
  BY <1>1, <1>2 DEF ColaInv, Esperada
<1>4. QED
  BY <1>1, <1>2, <1>3 DEF ColaInv

(* A command sends its request and waits. *)
LEMMA PideKeepsO ==
  ASSUME TypeOK, OrdenInv, NEW c \in Procs, NEW p \in Request, NEW baja \in BOOLEAN,
         Pide(c, p, baja), curso[c].paso # "pedida",
         \A d \in Procs \ {c} : sesion'[d].user = sesion[d].user /\ sesion'[d].sock = sesion[d].sock,
         sesion'[c].user # Empty,
         p.op = "CONNECT" => sesion'[c].sock = p.arg,
         p.op = "DISCONNECT" => sesion'[c].user = p.user,
         p.op \in Nominales => p.user # Empty
  PROVE  OrdenInv'
<1> DEFINE e == [cl |-> c, pet |-> p, espera |-> TRUE]
<1>1. curso \in [Procs -> CursoDe] /\ cola \in Seq(EnvioDe)
  BY TypeParts DEF ClientesOK, ServidorOK
<1>2. /\ \A d \in Procs \ {c} : curso'[d] = curso[d]
      /\ curso'[c].paso = "pedida" /\ curso'[c].pet = p /\ curso'[c].cod = "none"
  BY <1>1 DEF Pide
<1>3. CursoInv'
  BY <1>2 DEF CursoInv, OrdenInv
<1>4. e \in EnvioDe /\ e.cl = c /\ e.pet = p /\ cola' = Append(cola, e)
  BY DEF EnvioDe, Pide, Encola
<1> HIDE DEF e
<1>5. ColaInv'
  BY <1>1, <1>2, <1>4, ColaGrows DEF OrdenInv
<1>6. QED
  BY <1>3, <1>5 DEF OrdenInv

(* A command without a request, or one whose request is over. *)
LEMMA PasoKeepsO ==
  ASSUME TypeOK, OrdenInv, NEW c \in Procs, NEW k \in CursoDe, k.pet.op = "none", k.cod # "0",
         curso' = [curso EXCEPT ![c] = k], UNCHANGED cola, curso[c].paso # "pedida",
         \A d \in Procs \ {c} : sesion'[d].user = sesion[d].user /\ sesion'[d].sock = sesion[d].sock,
         sesion'[c].user # Empty
  PROVE  OrdenInv'
<1>1. curso \in [Procs -> CursoDe] /\ cola \in Seq(EnvioDe)
  BY TypeParts DEF ClientesOK, ServidorOK
<1>2. curso'[c] = k /\ \A d \in Procs \ {c} : curso'[d] = curso[d]
  BY <1>1
<1>3. CursoInv'
  BY <1>2 DEF CursoInv, OrdenInv, Nominales
<1>4. ColaInv'
  BY <1>1, <1>2, ColaSame DEF OrdenInv
<1>5. QED
  BY <1>3, <1>4 DEF OrdenInv

LEMMA ComandoKeepsO ==
  ASSUME TypeOK, OrdenInv, NEW c \in Procs, Comando(c)
  PROVE  OrdenInv'
<1>1. /\ sesion \in [Procs -> Sesion] /\ curso \in [Procs -> CursoDe] /\ cola \in Seq(EnvioDe)
      /\ curso[c].paso = "libre" /\ curso[c].pet.op = "none" /\ curso[c].cod # "0"
      /\ \A d \in Procs : sesion[d].user # Empty
  BY ComandoForms, TypeParts DEF ClientesOK, ServidorOK, OrdenInv, CursoInv
<1>2. ASSUME NEW p \in Request, NEW baja \in BOOLEAN, Pide(c, p, baja), Propia(c, p)
      PROVE  OrdenInv'
  <2>1. /\ \A d \in Procs : sesion'[d].user = sesion[d].user
        /\ \A d \in Procs \ {c} : sesion'[d].sock = sesion[d].sock
        /\ p.op = "CONNECT" => sesion'[c].sock = p.arg
    BY <1>1, <1>2 DEF Propia, Sesion
  <2>2. QED
    BY <1>1, <1>2, <2>1, PideKeepsO DEF Propia
<1>3. ASSUME NEW p \in Request, Suelta(c, p), p.op \notin Nominales, UNCHANGED sesion
      PROVE  OrdenInv'
  <2> DEFINE e == [cl |-> c, pet |-> p, espera |-> FALSE]
  <2>1. e \in EnvioDe /\ e.cl = c /\ e.pet = p /\ ~e.espera /\ cola' = Append(cola, e)
    BY <1>3 DEF EnvioDe, Suelta, Encola
  <2> HIDE DEF e
  <2>2. curso' = curso
    BY <1>3 DEF Suelta
  <2>3. ColaInv'
    BY <1>1, <1>3, <2>1, <2>2, ColaGrows DEF OrdenInv
  <2>4. QED
    BY <1>3, <2>2, <2>3 DEF OrdenInv, CursoInv
<1>4. ASSUME NEW u \in Names, getfile(c, u)
      PROVE  OrdenInv'
  <2>1. /\ [curso[c] EXCEPT !.paso = "bloqueada"] \in CursoDe
        /\ [curso[c] EXCEPT !.paso = "bloqueada"].pet = curso[c].pet
        /\ [curso[c] EXCEPT !.paso = "bloqueada"].cod = curso[c].cod
    BY <1>1 DEF CursoDe, Pasos
  <2>2. QED
    BY <1>1, <1>4, <2>1, GetfileForms, PasoKeepsO
<1>5. QED
  BY <1>2, <1>3, <1>4, ComandoForms

(* What a client makes of an answer, an exception or the end of a wait.     *)
LEMMA RecibeForms ==
  ASSUME TypeOK, CursoInv, NEW c \in Procs,
         RecibeConnect(c) \/ RecibeDisconnect(c) \/ Excepcion(c) \/ Desbloquea(c)
  PROVE  /\ UNCHANGED delServidor /\ curso[c].paso \in {"hecha", "rota", "bloqueada"}
         /\ \/ curso' = [curso EXCEPT ![c] = Libre] /\ UNCHANGED cola
            \/ /\ Pide(c, Pet("UNREGISTER", curso[c].pet.user, Empty), TRUE)
               /\ Pet("UNREGISTER", curso[c].pet.user, Empty) \in Request
               /\ curso[c].pet.user # Empty
         /\ \A d \in Procs \ {c} : sesion'[d] = sesion[d]
         /\ \/ /\ sesion'[c] = sesion[c] /\ ~(curso[c].pet.op = "DISCONNECT" /\ curso[c].cod = "0")
               /\ aMedias' = aMedias
            \/ /\ curso[c].pet.op = "DISCONNECT" /\ curso[c].cod = "0" /\ curso[c].paso = "hecha"
               /\ sesion'[c] = sesion[c] /\ aMedias' = aMedias \cup {curso[c].pet.user}
            \/ /\ curso[c].pet.op = "CONNECT" /\ curso[c].cod = "0" /\ curso[c].paso = "hecha"
               /\ sesion'[c] = Abierta(c) /\ curso[c].pet.user # Empty /\ aMedias' = aMedias
            \/ /\ curso[c].pet.op = "DISCONNECT" /\ curso[c].cod = "0" /\ curso[c].paso = "hecha"
               /\ sesion[c].addr \in EnUso /\ sesion'[c] = Terminada(c) /\ aMedias' = aMedias
<1>1. sesion \in [Procs -> Sesion] /\ curso \in [Procs -> CursoDe]
  BY TypeParts DEF ClientesOK
<1>2. UNCHANGED delServidor /\ curso[c].paso \in {"hecha", "rota", "bloqueada"}
  BY DEF RecibeConnect, RecibeDisconnect, Excepcion, Desbloquea
<1>3. \/ curso' = [curso EXCEPT ![c] = Libre] /\ UNCHANGED cola
      \/ Sigue(c) /\ Pide(c, Pet("UNREGISTER", curso[c].pet.user, Empty), TRUE)
  BY DEF RecibeConnect, RecibeDisconnect, Excepcion, Desbloquea, Acaba
<1>4. Sigue(c) => /\ Pet("UNREGISTER", curso[c].pet.user, Empty) \in Request
                  /\ curso[c].pet.user # Empty
  <2>1. SUFFICES ASSUME Sigue(c) PROVE curso[c].pet.user \in Names /\ curso[c].pet.user # Empty
    BY PetType DEF Simples
  <2>2. curso[c].pet.op = "DISCONNECT" /\ curso[c].pet.op # "none"
    BY <2>1 DEF Sigue
  <2>3. QED
    BY <1>1, <2>2, RequestFields DEF CursoDe, NoPedido, CursoInv, Nominales
<1> DEFINE Queda == /\ sesion' = sesion /\ ~(curso[c].pet.op = "DISCONNECT" /\ curso[c].cod = "0")
                    /\ aMedias' = aMedias
           Rompe == /\ curso[c].pet.op = "DISCONNECT" /\ curso[c].cod = "0" /\ curso[c].paso = "hecha"
                    /\ sesion' = sesion /\ aMedias' = aMedias \cup {curso[c].pet.user}
           Abre  == /\ curso[c].pet.op = "CONNECT" /\ curso[c].cod = "0" /\ curso[c].paso = "hecha"
                    /\ sesion' = [sesion EXCEPT ![c] = Abierta(c)] /\ aMedias' = aMedias
           Cierra == /\ curso[c].pet.op = "DISCONNECT" /\ curso[c].cod = "0" /\ curso[c].paso = "hecha"
                     /\ sesion[c].addr \in EnUso /\ sesion' = [sesion EXCEPT ![c] = Terminada(c)]
                     /\ aMedias' = aMedias
<1>5. Queda \/ Rompe \/ Abre \/ Cierra
  <2>1. CASE RecibeConnect(c)
    BY <1>1, <2>1 DEF RecibeConnect, Abierta, entreClientes
  <2>2. CASE RecibeDisconnect(c)
    BY <2>2 DEF RecibeDisconnect, entreClientes
  <2>3. CASE Excepcion(c) \/ Desbloquea(c)
    BY <2>3 DEF Excepcion, Desbloquea, entreClientes, CursoInv
  <2>4. QED
    BY <2>1, <2>2, <2>3
<1>6. curso[c].pet.op = "CONNECT" => curso[c].pet.user # Empty
  BY DEF CursoInv, Nominales
<1>7. QED
  BY <1>1, <1>2, <1>3, <1>4, <1>5, <1>6

LEMMA RecibeKeepsO ==
  ASSUME TypeOK, OrdenInv, NEW c \in Procs,
         RecibeConnect(c) \/ RecibeDisconnect(c) \/ Excepcion(c) \/ Desbloquea(c)
  PROVE  OrdenInv'
<1> DEFINE p == Pet("UNREGISTER", curso[c].pet.user, Empty)
<1>1. sesion \in [Procs -> Sesion] /\ Ninguno # Empty
  BY TypeParts, ClavesAssumption, SistemaAssumption DEF ClientesOK
<1>2. /\ \A d \in Procs \ {c} : sesion'[d].user = sesion[d].user /\ sesion'[d].sock = sesion[d].sock
      /\ sesion'[c].user # Empty /\ curso[c].paso # "pedida"
  <2>1. Abierta(c).user = curso[c].pet.user /\ Terminada(c).user = Ninguno
    BY DEF Abierta, Terminada
  <2>2. /\ \A d \in Procs \ {c} : sesion'[d] = sesion[d]
        /\ curso[c].paso \in {"hecha", "rota", "bloqueada"}
        /\ \/ sesion'[c] = sesion[c] \/ sesion'[c] = Terminada(c)
           \/ sesion'[c] = Abierta(c) /\ curso[c].pet.user # Empty
    BY RecibeForms DEF OrdenInv
  <2>3. QED
    BY <1>1, <2>1, <2>2 DEF OrdenInv, CursoInv
<1>3. CASE curso' = [curso EXCEPT ![c] = Libre] /\ UNCHANGED cola
  <2>1. Libre \in CursoDe /\ Libre.pet.op = "none" /\ Libre.cod # "0"
    BY InitialTypes DEF Libre
  <2>2. QED
    BY <1>2, <1>3, <2>1, PasoKeepsO
<1>4. CASE Pide(c, p, TRUE) /\ p \in Request /\ curso[c].pet.user # Empty
  <2>1. p.op = "UNREGISTER" /\ p.user = curso[c].pet.user
    BY DEF Pet
  <2> HIDE DEF p
  <2>2. QED
    BY <1>2, <1>4, <2>1, PideKeepsO
<1>5. QED
  BY <1>3, <1>4, RecibeForms DEF OrdenInv

(* After a kill the requests of the client are served for nobody. *)
LEMMA KilledElements ==
  ASSUME NEW c \in Procs, Mata(c), cola \in Seq(EnvioDe)
  PROVE  /\ DOMAIN cola' = DOMAIN cola
         /\ \A i \in DOMAIN cola : /\ cola[i].cl \in Procs /\ cola[i].pet \in Request
                                   /\ cola'[i].cl = cola[i].cl /\ cola'[i].pet = cola[i].pet
                                   /\ cola'[i].espera <=> cola[i].espera /\ cola[i].cl # c
<1>1. \A i \in DOMAIN cola : cola[i] \in EnvioDe /\ cola[i].cl \in Procs /\ cola[i].pet \in Request
  BY QueueElements
<1>2. \A k \in EnvioDe : /\ [k EXCEPT !.espera = FALSE].cl = k.cl
                         /\ [k EXCEPT !.espera = FALSE].pet = k.pet
                         /\ ~[k EXCEPT !.espera = FALSE].espera
  BY DEF EnvioDe
<1>3. DOMAIN cola' = DOMAIN cola
  BY DEF Mata
<1>4. \A i \in DOMAIN cola : cola'[i] = IF cola[i].cl = c THEN [cola[i] EXCEPT !.espera = FALSE]
                                        ELSE cola[i]
  BY DEF Mata
<1>5. ASSUME NEW i \in DOMAIN cola
      PROVE  /\ cola'[i].cl = cola[i].cl /\ cola'[i].pet = cola[i].pet
             /\ cola'[i].espera <=> cola[i].espera /\ cola[i].cl # c
  <2>1. CASE cola[i].cl = c
    BY <1>1, <1>2, <1>4, <2>1
  <2>2. CASE cola[i].cl # c
    BY <1>4, <2>2
  <2>3. QED
    BY <2>1, <2>2
<1>6. QED
  BY <1>1, <1>3, <1>5

LEMMA FinKeepsO ==
  ASSUME TypeOK, OrdenInv, NEW c \in Procs, Quit(c) \/ Mata(c)
  PROVE  OrdenInv'
<1>1. /\ sesion \in [Procs -> Sesion] /\ curso \in [Procs -> CursoDe] /\ cola \in Seq(EnvioDe)
      /\ Ninguno # Empty
  BY TypeParts, ClavesAssumption, SistemaAssumption DEF ClientesOK, ServidorOK
<1>2. CASE Quit(c)
  <2>1. /\ \A d \in Procs \ {c} : sesion'[d] = sesion[d]
        /\ sesion'[c].user # Empty
    BY <1>1, <1>2 DEF Quit, SinSesion, OrdenInv, CursoInv
  <2>2. curso[c].pet.op = "none" /\ curso[c].cod # "0" /\ curso[c].paso # "pedida"
    BY <1>2 DEF Quit, Puede, OrdenInv, CursoInv
  <2> DEFINE k == [curso[c] EXCEPT !.paso = "fin"]
  <2>3. k \in CursoDe /\ k.pet = curso[c].pet /\ k.cod = curso[c].cod
    BY <1>1 DEF CursoDe, Pasos
  <2>4. curso' = [curso EXCEPT ![c] = k] /\ UNCHANGED cola
    BY <1>2 DEF Quit
  <2> HIDE DEF k
  <2>5. QED
    BY <2>1, <2>2, <2>3, <2>4, PasoKeepsO
<1>3. CASE Mata(c)
  <2>1. /\ \A d \in Procs \ {c} : curso'[d] = curso[d] /\ sesion'[d] = sesion[d]
        /\ sesion'[c].user = Ninguno /\ curso'[c].pet.op = "none" /\ curso'[c].cod # "0"
    BY <1>1, <1>3 DEF Mata, SinSesion, Libre, NoPedido
  <2>2. CursoInv'
    BY <1>1, <2>1 DEF OrdenInv, CursoInv, Nominales
  <2>3. ColaInv'
    BY <1>1, <1>3, <2>1, KilledElements DEF OrdenInv, ColaInv, Esperada
  <2>4. QED
    BY <2>2, <2>3 DEF OrdenInv
<1>4. QED
  BY <1>2, <1>3

(* The end of a thread is no business of the command line. *)
LEMMA HiloKeepsO ==
  ASSUME TypeOK, OrdenInv, NEW c \in Procs, handle_server_connection(c)
  PROVE  OrdenInv'
<1>1. Ninguno # Empty /\ cola \in Seq(EnvioDe) /\ UNCHANGED <<curso, cola>>
  BY TypeParts, HiloForms, ClavesAssumption, SistemaAssumption DEF ServidorOK
<1>2. /\ \A d \in Procs \ {c} : sesion'[d] = sesion[d]
      /\ \/ sesion'[c].user = sesion[c].user /\ sesion'[c].sock = sesion[c].sock
         \/ sesion'[c].user = Ninguno /\ curso[c].paso = "fin"
  BY HiloForms DEF SinSesion
<1>3. CursoInv'
  BY <1>1, <1>2 DEF OrdenInv, CursoInv
<1>4. ColaInv'
  BY <1>1, ColaSame DEF OrdenInv
<1>5. QED
  BY <1>3, <1>4 DEF OrdenInv

(* The end of the server: whoever was waiting is at the prompt, or about to *)
(* carry on with unregister.                                                *)
LEMMA CaidaForms ==
  ASSUME TypeOK, Caida
  PROVE  /\ servidor' = "caido" /\ cola' = <<>>
         /\ \A d \in Procs :
              \/ curso'[d] = curso[d]
              \/ curso[d].paso = "pedida" /\ curso'[d] = Libre
              \/ /\ curso[d].paso = "pedida" /\ curso'[d].pet = curso[d].pet
                 /\ curso'[d].paso = "rota" /\ curso'[d].cod = curso[d].cod
<1>1. curso \in [Procs -> CursoDe]
  BY TypeParts DEF ClientesOK
<1>2. \A d \in Procs : /\ [curso[d] EXCEPT !.paso = "rota"].pet = curso[d].pet
                       /\ [curso[d] EXCEPT !.paso = "rota"].paso = "rota"
                       /\ [curso[d] EXCEPT !.paso = "rota"].cod = curso[d].cod
  BY <1>1 DEF CursoDe
<1>3. QED
  BY <1>2 DEF Caida

LEMMA CaidaKeepsO ==
  ASSUME TypeOK, OrdenInv, Caida, UNCHANGED sesion
  PROVE  OrdenInv'
<1>1. Libre.pet.op = "none" /\ Libre.cod = "none" /\ Libre.paso = "libre"
  BY DEF Libre, NoPedido
<1>2. CursoInv'
  BY <1>1, CaidaForms DEF OrdenInv, CursoInv, Nominales
<1>3. DOMAIN cola' = {}
  BY CaidaForms
<1>4. QED
  BY <1>2, <1>3 DEF OrdenInv, ColaInv

(* What is left of a backlog when its oldest connection has been served. *)
LEMMA TailElements ==
  ASSUME NEW q \in Seq(EnvioDe), q # <<>>
  PROVE  /\ 1 \in DOMAIN q /\ Head(q) = q[1] /\ q[1] \in EnvioDe
         /\ DOMAIN Tail(q) = 1..(Len(q) - 1) /\ Len(q) \in Nat
         /\ \A i \in DOMAIN Tail(q) : /\ i + 1 \in DOMAIN q /\ i + 1 # 1 /\ Tail(q)[i] = q[i + 1]
                                      /\ q[i + 1].cl \in Procs
<1>1. 1 \in DOMAIN q /\ Head(q) = q[1] /\ Len(q) \in Nat /\ DOMAIN q = 1..Len(q)
  OBVIOUS
<1>2. DOMAIN Tail(q) = 1..(Len(q) - 1) /\ \A i \in DOMAIN Tail(q) : Tail(q)[i] = q[i + 1]
  BY <1>1
<1>3. \A i \in DOMAIN Tail(q) : i + 1 \in DOMAIN q /\ i + 1 # 1
  BY <1>1, <1>2
<1>4. QED
  BY <1>1, <1>2, <1>3, QueueElements

(* The oldest request is served: the server ends, or its client has the     *)
(* answer, or nobody gets one.                                              *)
LEMMA SirveForms ==
  ASSUME TypeOK, Sirve
  PROVE  /\ servidor = "activo" /\ UNCHANGED <<era, sesion>> /\ cola # <<>>
         /\ Head(cola) = cola[1] /\ 1 \in DOMAIN cola
         /\ cola[1].cl \in Procs /\ cola[1].pet \in Request /\ Serv(disco, cola[1].pet)
         /\ \/ Caida
            \/ /\ ultima'.res # "crash" /\ cola' = Tail(cola) /\ servidor' \in {"activo", "colgado"}
               /\ \A d \in Procs \ {cola[1].cl} : curso'[d] = curso[d]
               /\ \/ /\ curso'[cola[1].cl] = curso[cola[1].cl]
                     /\ servidor' = "activo" => ~cola[1].espera
                  \/ /\ cola[1].espera /\ servidor' = "activo"
                     /\ cola[1].pet.op \in {"CONNECT", "DISCONNECT"}
                     /\ curso'[cola[1].cl].paso = "hecha"
                     /\ curso'[cola[1].cl].pet = curso[cola[1].cl].pet
                     /\ curso'[cola[1].cl].cod = ultima'.res
                  \/ /\ cola[1].espera /\ servidor' = "activo"
                     /\ cola[1].pet.op \notin {"CONNECT", "DISCONNECT"}
                     /\ curso'[cola[1].cl] = Libre
<1>1. cola \in Seq(EnvioDe) /\ cola # <<>> /\ curso \in [Procs -> CursoDe]
  BY TypeParts DEF ServidorOK, ClientesOK, Sirve
<1>2. PICK e \in EnvioDe : e = Head(cola) /\ e = cola[1] /\ e.cl \in Procs /\ e.pet \in Request
  <2>1. cola[1] \in EnvioDe /\ Head(cola) = cola[1] /\ 1 \in DOMAIN cola
    BY <1>1, TailElements
  <2>2. QED
    BY <1>1, <2>1, QueueElements
<1>3. /\ servidor = "activo" /\ UNCHANGED <<era, sesion>> /\ 1 \in DOMAIN cola
      /\ Serv(disco, e.pet)
  BY <1>1, <1>2, TailElements DEF Sirve, Atiende
<1> DEFINE h == [curso[e.cl] EXCEPT !.paso = "hecha", !.cod = ultima'.res]
<1>4. h.paso = "hecha" /\ h.pet = curso[e.cl].pet /\ h.cod = ultima'.res
  BY <1>1, <1>2 DEF CursoDe
<1>5. \/ Caida
      \/ /\ ultima'.res # "crash" /\ cola' = Tail(cola) /\ servidor' \in {"activo", "colgado"}
         /\ \/ UNCHANGED curso /\ (servidor' = "activo" => ~e.espera)
            \/ /\ e.espera /\ servidor' = "activo" /\ e.pet.op \in {"CONNECT", "DISCONNECT"}
               /\ curso' = [curso EXCEPT ![e.cl] = h]
            \/ /\ e.espera /\ servidor' = "activo" /\ e.pet.op \notin {"CONNECT", "DISCONNECT"}
               /\ curso' = [curso EXCEPT ![e.cl] = Libre]
  BY <1>2 DEF Sirve, Contesta
<1> HIDE DEF h
<1>6. \/ Caida
      \/ /\ ultima'.res # "crash" /\ cola' = Tail(cola) /\ servidor' \in {"activo", "colgado"}
         /\ \A d \in Procs \ {e.cl} : curso'[d] = curso[d]
         /\ \/ curso'[e.cl] = curso[e.cl] /\ (servidor' = "activo" => ~e.espera)
            \/ /\ e.espera /\ servidor' = "activo" /\ e.pet.op \in {"CONNECT", "DISCONNECT"}
               /\ curso'[e.cl].paso = "hecha" /\ curso'[e.cl].pet = curso[e.cl].pet
               /\ curso'[e.cl].cod = ultima'.res
            \/ /\ e.espera /\ servidor' = "activo" /\ e.pet.op \notin {"CONNECT", "DISCONNECT"}
               /\ curso'[e.cl] = Libre
  BY <1>1, <1>2, <1>4, <1>5
<1>7. QED
  BY <1>1, <1>2, <1>3, <1>6

LEMMA SirveKeepsO ==
  ASSUME TypeOK, OrdenInv, Sirve
  PROVE  OrdenInv'
<1>1. cola \in Seq(EnvioDe) /\ UNCHANGED sesion
  BY TypeParts, SirveForms DEF ServidorOK
<1>2. CASE Caida
  BY <1>1, <1>2, CaidaKeepsO
<1>3. CASE ~Caida
  <2>1. Libre.pet.op = "none" /\ Libre.cod = "none"
    BY DEF Libre, NoPedido
  <2>2. CursoInv'
    BY <1>1, <1>3, <2>1, SirveForms DEF OrdenInv, CursoInv, Nominales
  <2>3. \A i \in DOMAIN cola' : /\ i + 1 \in DOMAIN cola /\ i + 1 # 1 /\ cola'[i] = cola[i + 1]
                                /\ cola[i + 1].cl \in Procs /\ i \in Nat
    BY <1>1, <1>3, SirveForms, TailElements
  <2>4. ASSUME NEW i \in DOMAIN cola' PROVE (Esperada(cola[i]))'
    <3>1. cola[i + 1].espera /\ cola[1].espera => cola[i + 1].cl # cola[1].cl
      BY <1>1, <2>3, <2>4, SirveForms DEF OrdenInv, ColaInv
    <3>2. cola[i + 1].espera => curso'[cola[i + 1].cl] = curso[cola[i + 1].cl]
      BY <1>3, <2>3, <2>4, <3>1, SirveForms
    <3>3. QED
      BY <2>3, <2>4, <3>2 DEF OrdenInv, ColaInv, Esperada
  <2>5. \A i, j \in DOMAIN cola' : i # j => i + 1 # j + 1
    BY <2>3
  <2>6. ColaInv'
    BY <2>3, <2>4, <2>5 DEF OrdenInv, ColaInv
  <2>7. QED
    BY <2>2, <2>6 DEF OrdenInv
<1>4. QED
  BY <1>2, <1>3

LEMMA NextOrden == ASSUME TypeOK, OrdenInv, [Next]_vars PROVE OrdenInv'
<1>1. CASE Cae
  BY <1>1, CaidaKeepsO DEF Cae
<1>2. CASE ReiniciaServidor \/ UNCHANGED vars
  <2>1. cola \in Seq(EnvioDe) /\ UNCHANGED <<cola, curso, sesion>>
    BY <1>2, TypeParts DEF ServidorOK, ReiniciaServidor, vars
  <2>2. QED
    BY <2>1, ColaSame DEF OrdenInv, CursoInv
<1>3. QED
  BY <1>1, <1>2, SirveKeepsO, ComandoKeepsO, RecibeKeepsO, HiloKeepsO, FinKeepsO DEF Next, Cliente

LEMMA InitOrden == Init => OrdenInv
<1> SUFFICES ASSUME Init PROVE OrdenInv
  OBVIOUS
<1>1. \A c \in Procs : /\ sesion[c].user = Ninguno /\ curso[c].paso = "libre"
                       /\ curso[c].pet.op = "none" /\ curso[c].cod = "none"
  BY DEF Init, SinSesion, Libre, NoPedido
<1>2. CursoInv
  BY <1>1, ClavesAssumption, SistemaAssumption DEF CursoInv, Nominales
<1>3. DOMAIN cola = {}
  BY DEF Init
<1>4. QED
  BY <1>2, <1>3 DEF OrdenInv, ColaInv

LEMMA OrdenAlways == Spec => []OrdenInv
<1>1. TypeOK /\ OrdenInv /\ [Next]_vars => OrdenInv'
  BY NextOrden
<1>2. QED
  BY <1>1, InitOrden, TypesCorrect, PTL DEF Spec
-----------------------------------------------------------------------------
(* Sessions and the list of the server.                                     *)

(* The lines c holds: the one of its session until its DISCONNECT succeeds, *)
(* and the one of a CONNECT whose answer it has not read.                   *)
Tiene(c) ==
  (IF Conectado(c) /\ ~(curso[c].pet.op = "DISCONNECT" /\ curso[c].cod = "0")
   THEN {<<sesion[c].user, sesion[c].addr>>} ELSE {})
  \cup (IF curso[c].pet.op = "CONNECT" /\ curso[c].cod = "0"
        THEN {<<curso[c].pet.user, sesion[c].sock>>} ELSE {})

(* All of this is about the users no DISCONNECT of whom was broken off.     *)
(* Nobody else is in possession of the user of a line somebody holds.       *)
SinRival ==
  \A c, d \in Procs : c # d =>
    \A a \in Tiene(c), b \in Tiene(d) : a[1] # b[1] \/ a[1] \in aMedias

(* What is held is in the list, but for a DISCONNECT the server served and  *)
(* will not answer.                                                         *)
EnLista ==
  \A c \in Procs : \A a \in Tiene(c) :
    \/ a \in Lineas(disco)
    \/ /\ servidor = "colgado"
       /\ curso[c].paso = "pedida" /\ curso[c].pet.op = "DISCONNECT"
    \/ a[1] \in aMedias

(* The DISCONNECT of a client that was killed: its line is still there,     *)
(* nobody holds it, and nobody else asks to take it away.                   *)
Huerfana(i) == /\ cola[i].pet.op = "DISCONNECT" /\ ~cola[i].espera
               /\ cola[i].pet.user \notin aMedias
HuerfanasInv ==
  \A i \in DOMAIN cola : Huerfana(i) =>
    /\ \A c \in Procs : \A a \in Tiene(c) : a[1] # cola[i].pet.user
    /\ \E a \in Lineas(disco) : a[1] = cola[i].pet.user
    /\ \A j \in DOMAIN cola : j # i /\ cola[j].pet.op = "DISCONNECT" =>
                              cola[j].pet.user # cola[i].pet.user

SesionInv ==
  /\ OrdenInv
  /\ era = 0 => SinRival
  /\ era = 0 /\ servidor # "caido" => EnLista
  /\ era = 0 /\ servidor = "activo" => HuerfanasInv

(* What a request does to the list when the disk does not fail. *)
LEMMA LinesOfConnect ==
  ASSUME Tree(disco), NEW p \in Request, connect_serv(disco, p), "disk" \notin Faults,
         p.user # Empty
  PROVE  /\ ultima'.res # "0" => disco'.lines = disco.lines
         /\ ultima'.res = "0" => /\ Lineas(disco)' = Lineas(disco) \cup {<<p.user, p.arg>>}
                                 /\ \A a \in Lineas(disco) : a[1] # p.user
<1>1. p.user \in Names
  BY RequestFields
<1>2. CASE UNCHANGED disco /\ ultima'.res # "0"
  BY <1>2
<1>3. CASE disco' = OpenedToAppend(disco) /\ ultima'.res # "0"
  BY <1>3 DEF OpenedToAppend, Tree, Store
<1>4. ASSUME NEW k \in Copias, ~AlreadyListed(disco, p.user), ultima'.res = "0",
             disco' = [OpenedToAppend(disco) EXCEPT !.lines = @ \cup {NewLine(p, k)}]
      PROVE  /\ Lineas(disco)' = Lineas(disco) \cup {<<p.user, p.arg>>}
             /\ \A a \in Lineas(disco) : a[1] # p.user
  <2>1. disco'.lines = disco.lines \cup {NewLine(p, k)}
    BY <1>4 DEF OpenedToAppend, Tree, Store
  <2>2. Lineas(disco)' = Lineas(disco) \cup {<<p.user, p.arg>>}
    <3>1. NewLine(p, k).user = p.user /\ NewLine(p, k).port = p.arg
      BY DEF NewLine
    <3>2. \A a : a \in Lineas(disco)' <=> a \in Lineas(disco) \/ a = <<p.user, p.arg>>
      BY <2>1, <3>1 DEF Lineas
    <3>3. QED
      BY <3>2
  <2>3. <<p.user, p.user>> \in Tokens
    BY <1>1, ClavesAssumption
  <2>4. \A a \in Lineas(disco) : a[1] # p.user
    <3>1. ASSUME NEW l \in disco.lines PROVE <<l.user, l.port>>[1] # p.user
      BY <1>4, <2>3 DEF AlreadyListed
    <3>2. QED
      BY <3>1 DEF Lineas
  <2>5. QED
    BY <2>2, <2>4
<1>5. QED
  BY <1>2, <1>3, <1>4 DEF connect_serv, Says, Result, Fails

LEMMA LinesOfDisconnect ==
  ASSUME Tree(disco), NEW p \in Request, disconnect_serv(disco, p), "disk" \notin Faults,
         NombresAparte, p.user # Empty, ultima'.res # "crash"
  PROVE  /\ Lineas(disco)' \subseteq Lineas(disco)
         /\ ultima'.res # "0" => Lineas(disco)' = Lineas(disco)
         /\ \A a \in Lineas(disco) : a[1] \notin {p.user, Empty} => a \in Lineas(disco)'
<1> DEFINE opened == IF Empty \in disco.dirs
                     THEN [disco EXCEPT !.files = @ \cup {TempFile}] ELSE disco
           kept   == Kept(disco, p.user)
<1>1. p.user \in Names /\ \A l \in disco.lines : l.user \in Names
  BY RequestFields DEF Tree, Store, Line
<1>2. CASE disco' = opened
  <2>1. disco'.lines = disco.lines
    BY <1>2 DEF Tree, Store
  <2>2. QED
    BY <2>1 DEF Lineas
<1>3. CASE disco' = Renamed(disco, kept) /\ ultima'.res = IF kept = disco.lines THEN "2" ELSE "0"
  <2>1. disco'.lines = kept
    BY <1>3 DEF Renamed, Tree, Store
  <2>2. kept \subseteq disco.lines
    BY DEF Kept
  <2>3. \A l \in disco.lines : l.user \notin {p.user, Empty} => l \in kept
    BY <1>1 DEF Kept, NombresAparte
  <2>4. QED
    BY <1>3, <2>1, <2>2, <2>3 DEF Lineas
<1>4. QED
  BY <1>2, <1>3 DEF disconnect_serv, Result, Fails

LEMMA LinesOfOthers ==
  ASSUME Tree(disco), NEW p \in Request, Serv(disco, p), "disk" \notin Faults,
         p.op \notin {"CONNECT", "DISCONNECT"}, p.op = "UNREGISTER" => p.user # Empty
  PROVE  disco'.lines = disco.lines
<1>1. CASE p.op = "UNREGISTER"
  <2>1. ListFile \notin Own(disco, p.user)
    BY <1>1 DEF ListFile, Own
  <2>2. \A gone \in SUBSET Own(disco, p.user) : Drop(disco, gone).lines = disco.lines
    BY <2>1 DEF Drop, Tree, Store
  <2>3. Drop(disco, Own(disco, p.user)) \in Store
    BY DEF Drop, Tree, Store
  <2>4. [Drop(disco, Own(disco, p.user)) EXCEPT !.dirs = @ \ {p.user}].lines = disco.lines
    BY <2>2, <2>3 DEF Store
  <2>5. QED
    BY <1>1, <2>2, <2>4 DEF Serv, unregister_serv, Swept, Says
<1>2. CASE p.op # "UNREGISTER"
  BY <1>2 DEF Serv, register_serv, publish_serv, delete_serv, list_users_serv, list_content_serv,
              Says, Tree, Store
<1>3. QED
  BY <1>1, <1>2

(* A step that serves nobody, and after which nobody holds more lines. *)
SinServir == /\ UNCHANGED <<disco, servidor, era>> /\ aMedias \subseteq aMedias'
             /\ \A d \in Procs : /\ \A a \in (Tiene(d))' : a \in Tiene(d) \/ a[1] \in aMedias'
                                 /\ curso[d].paso = "pedida" => curso'[d] = curso[d] \/ (Tiene(d))' = {}

LEMMA LessIsHeld ==
  ASSUME SesionInv, SinServir
  PROVE  (era' = 0 => SinRival') /\ (era' = 0 /\ servidor' # "caido" => EnLista')
BY DEF SesionInv, SinServir, SinRival, EnLista, Lineas

(* A step that leaves the backlog alone. *)
LEMMA HuerfanasSame ==
  ASSUME HuerfanasInv, SinServir, UNCHANGED cola
  PROVE  HuerfanasInv'
BY DEF HuerfanasInv, Huerfana, SinServir, Lineas

(* A step that sends a request: only who holds the line asks to take it out. *)
LEMMA HuerfanasGrow ==
  ASSUME HuerfanasInv, cola \in Seq(EnvioDe), SinServir,
         NEW c \in Procs, NEW e \in EnvioDe, cola' = Append(cola, e),
         e.pet.op = "DISCONNECT" => e.espera /\ \E a \in Tiene(c) : a[1] = e.pet.user
  PROVE  HuerfanasInv'
<1>1. /\ \A i \in DOMAIN cola : cola'[i] = cola[i] /\ cola'[Len(cola) + 1] = e
      /\ \A i \in DOMAIN cola' : i \in DOMAIN cola \/ cola'[i] = e
  BY AppendElements
<1>2. ASSUME NEW i \in DOMAIN cola', (Huerfana(i))'
      PROVE  /\ \A d \in Procs : \A a \in (Tiene(d))' : a[1] # cola'[i].pet.user
             /\ \E a \in Lineas(disco') : a[1] = cola'[i].pet.user
             /\ \A j \in DOMAIN cola' : j # i /\ cola'[j].pet.op = "DISCONNECT" =>
                                        cola'[j].pet.user # cola'[i].pet.user
  <2>1. /\ i \in DOMAIN cola /\ Huerfana(i) /\ cola'[i] = cola[i]
        /\ cola[i].pet.user \notin aMedias'
    BY <1>1, <1>2 DEF Huerfana, SinServir
  <2>2. /\ \A d \in Procs : \A a \in Tiene(d) : a[1] # cola[i].pet.user
        /\ \E a \in Lineas(disco) : a[1] = cola[i].pet.user
        /\ \A j \in DOMAIN cola : j # i /\ cola[j].pet.op = "DISCONNECT" =>
                                  cola[j].pet.user # cola[i].pet.user
    BY <2>1 DEF HuerfanasInv
  <2>3. e.pet.op = "DISCONNECT" => e.pet.user # cola[i].pet.user
    BY <2>2
  <2>4. \A j \in DOMAIN cola' : j # i /\ cola'[j].pet.op = "DISCONNECT" =>
                                cola'[j].pet.user # cola'[i].pet.user
    BY <1>1, <2>1, <2>2, <2>3
  <2>5. QED
    BY <2>1, <2>2, <2>4 DEF SinServir
<1>3. QED
  BY <1>2 DEF HuerfanasInv

LEMMA StepEnds ==
  ASSUME SesionInv, SinServir, OrdenInv', HuerfanasInv => HuerfanasInv'
  PROVE  SesionInv'
BY LessIsHeld DEF SesionInv, SinServir

(* A command holds what it held: the request of connect has no answer yet. *)
LEMMA ComandoKeepsS ==
  ASSUME TypeOK, SesionInv, OrdenInv', NEW c \in Procs, Comando(c)
  PROVE  SesionInv'
<1>1. /\ sesion \in [Procs -> Sesion] /\ curso \in [Procs -> CursoDe] /\ cola \in Seq(EnvioDe)
      /\ curso[c].paso = "libre" /\ UNCHANGED <<delServidor, aMedias>>
      /\ curso[c].pet.op = "none" /\ curso[c].cod # "0"
  BY ComandoForms, TypeParts DEF ClientesOK, ServidorOK, SesionInv, OrdenInv, CursoInv
<1>2. ASSUME \A d \in Procs \ {c} : curso'[d] = curso[d] /\ sesion'[d].sock = sesion[d].sock,
             curso'[c].cod # "0",
             \A d \in Procs : sesion'[d].user = sesion[d].user /\ sesion'[d].addr = sesion[d].addr
      PROVE  SinServir
  <2>1. \A d \in Procs \ {c} : (Tiene(d))' = Tiene(d)
    BY <1>2 DEF Tiene, Conectado
  <2>2. (Tiene(c))' = Tiene(c)
    BY <1>1, <1>2 DEF Tiene, Conectado
  <2>3. QED
    BY <1>1, <1>2, <2>1, <2>2 DEF SinServir, delServidor
<1>3. ASSUME NEW p \in Request, NEW baja \in BOOLEAN, Pide(c, p, baja), Propia(c, p)
      PROVE  SesionInv'
  <2> DEFINE e == [cl |-> c, pet |-> p, espera |-> TRUE]
  <2>1. e \in EnvioDe /\ e.pet = p /\ e.espera /\ cola' = Append(cola, e)
    BY <1>3 DEF EnvioDe, Pide, Encola
  <2> HIDE DEF e
  <2>2. \A d \in Procs : /\ sesion'[d].user = sesion[d].user /\ sesion'[d].addr = sesion[d].addr
                         /\ d # c => sesion'[d].sock = sesion[d].sock
    BY <1>1, <1>3 DEF Propia, Sesion
  <2>3. \A d \in Procs \ {c} : curso'[d] = curso[d] /\ curso'[c].cod = "none"
    BY <1>1, <1>3 DEF Pide
  <2>4. curso'[c].cod # "0"
    BY <1>1, <1>3 DEF Pide
  <2>5. SinServir
    BY <1>2, <2>2, <2>3, <2>4
  <2>6. ASSUME p.op = "DISCONNECT" PROVE \E a \in Tiene(c) : a[1] = p.user
    <3>1. Conectado(c) /\ sesion[c].user = p.user
      BY <1>3, <2>6, RequestFields, SistemaAssumption DEF Propia, Conectado
    <3>2. <<sesion[c].user, sesion[c].addr>> \in Tiene(c)
      BY <1>1, <3>1 DEF Tiene
    <3>3. QED
      BY <3>1, <3>2
  <2>7. HuerfanasInv => HuerfanasInv'
    BY <1>1, <2>1, <2>5, <2>6, HuerfanasGrow
  <2>8. QED
    BY <2>5, <2>7, StepEnds
<1>4. ASSUME NEW p \in Request, Suelta(c, p), p.op \notin Nominales, UNCHANGED sesion
      PROVE  SesionInv'
  <2> DEFINE e == [cl |-> c, pet |-> p, espera |-> FALSE]
  <2>1. e \in EnvioDe /\ e.pet = p /\ cola' = Append(cola, e)
    BY <1>4 DEF EnvioDe, Suelta, Encola
  <2> HIDE DEF e
  <2>2. SinServir
    BY <1>1, <1>2, <1>4 DEF Suelta
  <2>3. HuerfanasInv => HuerfanasInv'
    BY <1>1, <1>4, <2>1, <2>2, HuerfanasGrow DEF Nominales
  <2>4. QED
    BY <2>2, <2>3, StepEnds
<1>5. ASSUME NEW u \in Names, getfile(c, u)
      PROVE  SesionInv'
  <2>1. \A d \in Procs : /\ sesion'[d].user = sesion[d].user /\ sesion'[d].addr = sesion[d].addr
                         /\ sesion'[d].sock = sesion[d].sock
    BY <1>5, GetfileForms
  <2>2. /\ \A d \in Procs \ {c} : curso'[d] = curso[d]
        /\ curso'[c].cod = curso[c].cod /\ UNCHANGED cola
    BY <1>1, <1>5, GetfileForms DEF CursoDe
  <2>3. SinServir
    BY <1>1, <1>2, <2>1, <2>2
  <2>4. QED
    BY <2>2, <2>3, HuerfanasSame, StepEnds
<1>6. QED
  BY <1>3, <1>4, <1>5, ComandoForms

(* The answer of connect or disconnect, an exception, the end of a wait. *)
LEMMA RecibeKeepsS ==
  ASSUME TypeOK, SesionInv, OrdenInv', NEW c \in Procs,
         RecibeConnect(c) \/ RecibeDisconnect(c) \/ Excepcion(c) \/ Desbloquea(c)
  PROVE  SesionInv'
<1> DEFINE p == Pet("UNREGISTER", curso[c].pet.user, Empty)
           e == [cl |-> c, pet |-> p, espera |-> TRUE]
<1>1. /\ sesion \in [Procs -> Sesion] /\ curso \in [Procs -> CursoDe] /\ cola \in Seq(EnvioDe)
      /\ CursoInv /\ UNCHANGED delServidor /\ curso[c].paso # "pedida"
  BY RecibeForms, TypeParts DEF ClientesOK, ServidorOK, SesionInv, OrdenInv
<1>2. /\ \A d \in Procs \ {c} : curso'[d] = curso[d] /\ sesion'[d] = sesion[d]
      /\ curso'[c].cod = "none" /\ curso'[c].pet.op \in {"none", "UNREGISTER"}
  <2>1. CASE curso' = [curso EXCEPT ![c] = Libre]
    BY <1>1, <2>1, RecibeForms DEF Libre, NoPedido
  <2>2. CASE Pide(c, p, TRUE)
    <3>1. p.op = "UNREGISTER"
      BY DEF Pet
    <3> HIDE DEF p
    <3>2. curso'[c].cod = "none" /\ curso'[c].pet = p /\ \A d \in Procs \ {c} : curso'[d] = curso[d]
      BY <1>1, <2>2 DEF Pide
    <3>3. QED
      BY <1>1, <3>1, <3>2, RecibeForms
  <2>3. QED
    BY <1>1, <2>1, <2>2, RecibeForms
<1> HIDE DEF p
<1>3. /\ aMedias \subseteq aMedias'
      /\ \/ sesion'[c] = sesion[c] /\ ~(curso[c].pet.op = "DISCONNECT" /\ curso[c].cod = "0")
         \/ /\ sesion'[c] = sesion[c] /\ curso[c].pet.user \in aMedias'
            /\ sesion[c].user = curso[c].pet.user
         \/ /\ curso[c].pet.op = "CONNECT" /\ curso[c].cod = "0"
            /\ sesion'[c].user = curso[c].pet.user /\ sesion'[c].addr = sesion[c].sock
         \/ sesion'[c].user = Ninguno
  <2>1. /\ Abierta(c).user = curso[c].pet.user /\ Abierta(c).addr = sesion[c].sock
        /\ Terminada(c).user = Ninguno
    BY <1>1 DEF Abierta, Terminada
  <2>2. QED
    BY <1>1, <2>1, RecibeForms DEF CursoInv
<1>4. SinServir
  <2>1. \A a \in (Tiene(c))' : a \in Tiene(c) \/ a[1] \in aMedias'
    BY <1>2, <1>3 DEF Tiene, Conectado
  <2>2. \A d \in Procs \ {c} : (Tiene(d))' = Tiene(d)
    BY <1>2 DEF Tiene, Conectado
  <2>3. QED
    BY <1>1, <1>2, <1>3, <2>1, <2>2 DEF SinServir, delServidor
<1>5. HuerfanasInv => HuerfanasInv'
  <2>1. CASE UNCHANGED cola
    BY <1>4, <2>1, HuerfanasSame
  <2>2. CASE Pide(c, p, TRUE) /\ p \in Request
    <3>1. e \in EnvioDe /\ e.pet.op # "DISCONNECT" /\ cola' = Append(cola, e)
      BY <2>2 DEF EnvioDe, Pide, Encola, p, Pet
    <3> HIDE DEF e
    <3>2. QED
      BY <1>1, <1>4, <3>1, HuerfanasGrow
  <2>3. QED
    BY <1>1, <2>1, <2>2, RecibeForms DEF p
<1>6. QED
  BY <1>4, <1>5, StepEnds

(* The end of a thread, with its process or without. *)
LEMMA HiloKeepsS ==
  ASSUME TypeOK, SesionInv, OrdenInv', NEW c \in Procs, handle_server_connection(c)
  PROVE  SesionInv'
<1>1. /\ UNCHANGED <<disco, servidor, era, cola, curso, aMedias>>
      /\ \A d \in Procs \ {c} : sesion'[d] = sesion[d]
      /\ \/ sesion'[c].user = Ninguno /\ curso[c].pet.op = "none"
         \/ /\ sesion'[c].user = sesion[c].user /\ sesion'[c].addr = sesion[c].addr
            /\ sesion'[c].sock = sesion[c].sock
  BY HiloForms DEF SinSesion, delServidor, SesionInv, OrdenInv, CursoInv
<1>2. \A d \in Procs : (Tiene(d))' \subseteq Tiene(d)
  <2>1. \A d \in Procs \ {c} : (Tiene(d))' = Tiene(d)
    BY <1>1 DEF Tiene, Conectado
  <2>2. (Tiene(c))' \subseteq Tiene(c)
    BY <1>1 DEF Tiene, Conectado
  <2>3. QED
    BY <2>1, <2>2
<1>3. SinServir
  BY <1>1, <1>2 DEF SinServir
<1>4. QED
  BY <1>1, <1>3, HuerfanasSame, StepEnds

(* Nobody but the killed client asked to take its line out. *)
LEMMA HuerfanasOfTheKilled ==
  ASSUME TypeOK, SesionInv, NEW c \in Procs, Mata(c), SinServir, (Tiene(c))' = {},
         \A d \in Procs : (Tiene(d))' \subseteq Tiene(d),
         era = 0, servidor = "activo"
  PROVE  HuerfanasInv'
<1>1. cola \in Seq(EnvioDe) /\ CursoInv /\ ColaInv /\ HuerfanasInv /\ SinRival /\ EnLista
  BY TypeParts DEF SesionInv, OrdenInv, ServidorOK
<1>2. /\ DOMAIN cola' = DOMAIN cola
      /\ \A i \in DOMAIN cola : /\ cola[i].cl \in Procs /\ cola[i].pet \in Request
                                /\ cola'[i].cl = cola[i].cl /\ cola'[i].pet = cola[i].pet
                                /\ cola'[i].espera <=> cola[i].espera /\ cola[i].cl # c
  BY <1>1, KilledElements
<1>3. ASSUME NEW i \in DOMAIN cola, cola[i].pet.op = "DISCONNECT", cola[i].espera, cola[i].cl = c,
             cola[i].pet.user \notin aMedias
      PROVE  /\ \E a \in Tiene(c) : a[1] = cola[i].pet.user /\ a \in Lineas(disco)
             /\ \A j \in DOMAIN cola : j # i /\ cola[j].pet.op = "DISCONNECT" =>
                                       cola[j].pet.user # cola[i].pet.user
  <2>1. ASSUME NEW j \in DOMAIN cola, cola[j].pet.op = "DISCONNECT", cola[j].espera
        PROVE  <<cola[j].pet.user, sesion[cola[j].cl].addr>> \in Tiene(cola[j].cl)
    <3>1. /\ curso[cola[j].cl].paso = "pedida" /\ curso[cola[j].cl].pet = cola[j].pet
          /\ cola[j].cl \in Procs /\ cola[j].pet.user \in Names
      BY <1>1, <1>2, <2>1, RequestFields DEF ColaInv, Esperada
    <3>2. sesion[cola[j].cl].user = cola[j].pet.user /\ curso[cola[j].cl].cod # "0"
      BY <1>1, <2>1, <3>1 DEF CursoInv
    <3>3. QED
      BY <3>1, <3>2, SistemaAssumption DEF Tiene, Conectado
  <2> DEFINE a == <<cola[i].pet.user, sesion[c].addr>>
  <2>2. a \in Tiene(c) /\ a[1] = cola[i].pet.user
    BY <1>3, <2>1
  <2>3. a \in Lineas(disco)
    BY <1>1, <1>3, <2>2 DEF EnLista
  <2>4. ASSUME NEW j \in DOMAIN cola, j # i, cola[j].pet.op = "DISCONNECT"
        PROVE  cola[j].pet.user # cola[i].pet.user
    <3>1. CASE cola[j].espera
      <4>1. cola[j].cl # c /\ cola[j].cl \in Procs
        BY <1>1, <1>2, <1>3, <2>4, <3>1 DEF ColaInv
      <4>2. <<cola[j].pet.user, sesion[cola[j].cl].addr>> \in Tiene(cola[j].cl)
        BY <2>1, <2>4, <3>1
      <4>3. <<cola[j].pet.user, sesion[cola[j].cl].addr>>[1] # a[1]
        BY <1>1, <1>3, <2>2, <4>1, <4>2 DEF SinRival
      <4>4. QED
        BY <2>2, <4>3
    <3>2. CASE ~cola[j].espera
      <4>1. ASSUME cola[j].pet.user = cola[i].pet.user
            PROVE  FALSE
        BY <1>1, <1>3, <2>2, <2>4, <3>2, <4>1 DEF HuerfanasInv, Huerfana
      <4>2. QED
        BY <4>1
    <3>3. QED
      BY <3>1, <3>2
  <2>5. QED
    BY <2>2, <2>3, <2>4
<1>4. ASSUME NEW i \in DOMAIN cola', (Huerfana(i))'
      PROVE  /\ \A d \in Procs : \A a \in (Tiene(d))' : a[1] # cola'[i].pet.user
             /\ \E a \in Lineas(disco') : a[1] = cola'[i].pet.user
             /\ \A j \in DOMAIN cola' : j # i /\ cola'[j].pet.op = "DISCONNECT" =>
                                        cola'[j].pet.user # cola'[i].pet.user
  <2>1. /\ i \in DOMAIN cola /\ cola[i].pet.op = "DISCONNECT" /\ (cola[i].espera => cola[i].cl = c)
        /\ cola[i].pet.user \notin aMedias
    BY <1>2, <1>4 DEF Huerfana, SinServir
  <2>2. CASE Huerfana(i)
    BY <1>1, <1>2, <2>1, <2>2 DEF HuerfanasInv, SinServir
  <2>3. CASE cola[i].espera
    <3>1. PICK a \in Tiene(c) : a[1] = cola[i].pet.user /\ a \in Lineas(disco)
      BY <1>3, <2>1, <2>3
    <3>2. \A d \in Procs : \A b \in (Tiene(d))' : b[1] # cola[i].pet.user
      BY <1>1, <2>1, <3>1 DEF SinRival, Mata
    <3>3. QED
      BY <1>2, <1>3, <2>1, <2>3, <3>1, <3>2 DEF SinServir
  <2>4. QED
    BY <2>1, <2>2, <2>3 DEF Huerfana
<1>5. QED
  BY <1>4 DEF HuerfanasInv

LEMMA FinKeepsS ==
  ASSUME TypeOK, SesionInv, OrdenInv', NEW c \in Procs, Quit(c) \/ Mata(c)
  PROVE  SesionInv'
<1>1. /\ sesion \in [Procs -> Sesion] /\ curso \in [Procs -> CursoDe]
      /\ \A d \in Procs \ {c} : curso'[d] = curso[d] /\ sesion'[d] = sesion[d]
      /\ UNCHANGED <<disco, servidor, era, aMedias>>
  BY TypeParts DEF ClientesOK, Quit, Mata, delServidor
<1>2. \A d \in Procs \ {c} : (Tiene(d))' = Tiene(d)
  BY <1>1 DEF Tiene, Conectado
<1>3. CASE Quit(c)
  <2>1. curso[c].paso = "libre" /\ curso[c].pet.op = "none" /\ UNCHANGED cola
    BY <1>3 DEF Quit, Puede, SesionInv, OrdenInv, CursoInv
  <2>2. sesion'[c] = sesion[c] \/ sesion'[c].user = Ninguno
    BY <1>1, <1>3 DEF Quit, SinSesion
  <2>3. curso'[c].pet = curso[c].pet
    BY <1>1, <1>3 DEF Quit, CursoDe
  <2>4. (Tiene(c))' \subseteq Tiene(c)
    BY <2>1, <2>2, <2>3 DEF Tiene, Conectado
  <2>5. SinServir
    BY <1>1, <1>2, <2>1, <2>4 DEF SinServir
  <2>6. QED
    BY <2>1, <2>5, HuerfanasSame, StepEnds
<1>4. CASE Mata(c)
  <2>1. sesion'[c].user = Ninguno /\ curso'[c].pet.op = "none"
    BY <1>1, <1>4 DEF Mata, SinSesion, Libre, NoPedido
  <2>2. (Tiene(c))' = {}
    BY <2>1 DEF Tiene, Conectado
  <2>3. SinServir
    BY <1>1, <1>2, <2>2 DEF SinServir
  <2>4. era = 0 /\ servidor = "activo" => HuerfanasInv'
    BY <1>2, <1>4, <2>2, <2>3, HuerfanasOfTheKilled
  <2>5. QED
    BY <2>3, <2>4, LessIsHeld DEF SesionInv, SinServir
<1>5. QED
  BY <1>3, <1>4

(* The end of the server gives nobody another line. *)
LEMMA CaidaKeepsS ==
  ASSUME TypeOK, SesionInv, OrdenInv', Caida, UNCHANGED <<sesion, era, aMedias>>
  PROVE  SesionInv'
<1>1. \A d \in Procs : (Tiene(d))' \subseteq Tiene(d)
  <2>1. SUFFICES ASSUME NEW d \in Procs PROVE (Tiene(d))' \subseteq Tiene(d)
    OBVIOUS
  <2>2. curso[d].paso = "pedida" => curso[d].cod # "0"
    BY DEF SesionInv, OrdenInv, CursoInv
  <2>3. Libre.pet.op = "none"
    BY DEF Libre, NoPedido
  <2>4. QED
    BY <2>2, <2>3, CaidaForms DEF Tiene, Conectado
<1>2. QED
  BY <1>1, CaidaForms DEF SesionInv, SinRival

(* What serving a request does to a line somebody holds, and to the orphans *)
(* behind it.                                                               *)
LEMMA SirveLines ==
  ASSUME Tree(disco), NEW p \in Request, Serv(disco, p), "disk" \notin Faults, NombresAparte,
         p.op \in Nominales => p.user # Empty, ultima'.res # "crash"
  PROVE  /\ \A a \in Lineas(disco) : \/ a \in Lineas(disco)'
                                     \/ p.op = "DISCONNECT" /\ a[1] \in {p.user, Empty}
         /\ p.op # "CONNECT" => Lineas(disco)' \subseteq Lineas(disco)
         /\ p.op = "DISCONNECT" /\ ultima'.res # "0" => Lineas(disco)' = Lineas(disco)
         /\ p.op = "CONNECT" /\ ultima'.res = "0" =>
              /\ <<p.user, p.arg>> \in Lineas(disco)'
              /\ \A a \in Lineas(disco) : a[1] # p.user
<1>1. CASE p.op = "CONNECT"
  <2>1. connect_serv(disco, p) /\ p.user # Empty
    BY <1>1 DEF Serv, Nominales
  <2>2. QED
    BY <1>1, <2>1, LinesOfConnect DEF Lineas
<1>2. CASE p.op = "DISCONNECT"
  <2>1. disconnect_serv(disco, p) /\ p.user # Empty
    BY <1>2 DEF Serv, Nominales
  <2>2. QED
    BY <1>2, <2>1, LinesOfDisconnect
<1>3. CASE p.op \notin {"CONNECT", "DISCONNECT"}
  <2>1. disco'.lines = disco.lines
    BY <1>3, LinesOfOthers DEF Nominales
  <2>2. QED
    BY <1>3, <2>1 DEF Lineas
<1>4. QED
  BY <1>1, <1>2, <1>3

(* A request is served while the server lives on. *)
LEMMA SirveKeepsS ==
  ASSUME TypeOK, SesionInv, OrdenInv', Sirve, "disk" \notin Faults, NombresAparte,
         servidor' # "caido", era = 0
  PROVE  SesionInv'
<1>16. aMedias' = aMedias
  BY DEF Sirve, entreClientes
<1>1. PICK e \in EnvioDe : e = cola[1] /\ 1 \in DOMAIN cola /\ e.cl \in Procs /\ e.pet \in Request
  BY TypeParts, SirveForms, QueueElements DEF ServidorOK
<1> DEFINE p == e.pet
           c == e.cl
<1>2. /\ cola \in Seq(EnvioDe) /\ CursoInv /\ ColaInv /\ HuerfanasInv /\ SinRival /\ EnLista
      /\ Tree(disco) /\ cola # <<>> /\ UNCHANGED <<era, sesion>> /\ servidor = "activo"
  BY TypeParts, SirveForms DEF SesionInv, OrdenInv, ServidorOK, TreeOK
<1>3. /\ 1 \in DOMAIN cola /\ e = cola[1] /\ c \in Procs /\ p \in Request /\ ~Caida
      /\ \A i \in DOMAIN cola' : /\ i + 1 \in DOMAIN cola /\ i + 1 # 1 /\ cola'[i] = cola[i + 1]
                                 /\ i \in Nat
  <2>1. ~Caida /\ cola' = Tail(cola)
    BY SirveForms, CaidaForms
  <2>2. QED
    BY <1>1, <1>2, <2>1, TailElements
<1>4. Serv(disco, p) /\ ultima'.res # "crash" /\ (p.op \in Nominales => p.user # Empty)
  BY <1>2, <1>3, SirveForms DEF ColaInv
<1>5. /\ \A a \in Lineas(disco) : \/ a \in Lineas(disco)'
                                  \/ p.op = "DISCONNECT" /\ a[1] \in {p.user, Empty}
      /\ p.op # "CONNECT" => Lineas(disco)' \subseteq Lineas(disco)
      /\ p.op = "DISCONNECT" /\ ultima'.res # "0" => Lineas(disco)' = Lineas(disco)
      /\ p.op = "CONNECT" /\ ultima'.res = "0" =>
           /\ <<p.user, p.arg>> \in Lineas(disco)'
           /\ \A a \in Lineas(disco) : a[1] # p.user
  BY <1>2, <1>3, <1>4, SirveLines
<1>6. e.espera => curso[c].paso = "pedida" /\ curso[c].pet = p /\ curso[c].cod # "0"
  BY <1>2, <1>3 DEF ColaInv, Esperada, CursoInv
<1>7. servidor' \in {"activo", "colgado"}
  BY <1>3, SirveForms
<1>8. \A d \in Procs \ {c} : curso'[d] = curso[d]
  BY <1>3, SirveForms
<1>9. \/ curso'[c] = curso[c] /\ (servidor' = "activo" => ~e.espera)
      \/ /\ e.espera /\ servidor' = "activo" /\ p.op \in {"CONNECT", "DISCONNECT"}
         /\ curso'[c].paso = "hecha" /\ curso'[c].cod = ultima'.res /\ curso'[c].pet = p
      \/ /\ e.espera /\ servidor' = "activo" /\ p.op \notin {"CONNECT", "DISCONNECT"}
         /\ curso'[c] = Libre
  BY <1>3, <1>6, SirveForms
<1> HIDE DEF p, c
<1>10. /\ \A d \in Procs \ {c} : (Tiene(d))' = Tiene(d)
       /\ \A a \in (Tiene(c))' : \/ a \in Tiene(c)
                                 \/ p.op = "CONNECT" /\ ultima'.res = "0" /\ a = <<p.user, p.arg>>
       /\ e.espera /\ servidor' = "activo" /\ p.op = "DISCONNECT" /\ ultima'.res = "0" =>
            (Tiene(c))' = {}
  <2>1. sesion' = sesion
    BY <1>2
  <2>2. \A d \in Procs \ {c} : (Tiene(d))' = Tiene(d)
    BY <1>8, <2>1 DEF Tiene, Conectado
  <2>3. CASE curso'[c] = curso[c] /\ (servidor' = "activo" => ~e.espera)
    BY <2>1, <2>2, <2>3 DEF Tiene, Conectado
  <2>4. CASE /\ e.espera /\ servidor' = "activo" /\ p.op \in {"CONNECT", "DISCONNECT"}
             /\ curso'[c].paso = "hecha" /\ curso'[c].cod = ultima'.res /\ curso'[c].pet = p
    <3>1. curso[c].pet = p /\ curso[c].cod # "0" /\ (p.op = "CONNECT" => sesion[c].sock = p.arg)
      BY <1>2, <1>3, <1>6, <2>4 DEF CursoInv
    <3>2. QED
      BY <2>1, <2>2, <2>4, <3>1 DEF Tiene, Conectado
  <2>5. CASE /\ e.espera /\ servidor' = "activo" /\ p.op \notin {"CONNECT", "DISCONNECT"}
             /\ curso'[c] = Libre
    <3>1. curso[c].pet = p /\ curso'[c].pet.op = "none"
      BY <1>6, <2>5 DEF Libre, NoPedido
    <3>2. QED
      BY <2>1, <2>2, <2>5, <3>1 DEF Tiene, Conectado
  <2>6. QED
    BY <1>9, <2>3, <2>4, <2>5
<1>11. \A d \in Procs : \A a \in Tiene(d) : /\ a[1] # Empty
                                            /\ a \in Lineas(disco) \/ a[1] \in aMedias
  BY <1>2 DEF EnLista, Tiene, CursoInv, Nominales
<1>12. SinRival'
  <2>1. SUFFICES ASSUME NEW d \in Procs, NEW f \in Procs, d # f,
                        NEW a \in (Tiene(d))', NEW b \in (Tiene(f))', a[1] \notin aMedias
                 PROVE  a[1] # b[1]
    BY <1>16 DEF SinRival
  <2>2. CASE a \in Tiene(d) /\ b \in Tiene(f)
    BY <1>2, <2>1, <2>2 DEF SinRival
  <2>3. CASE a \notin Tiene(d)
    <3>1. d = c /\ p.op = "CONNECT" /\ ultima'.res = "0" /\ a = <<p.user, p.arg>> /\ b \in Tiene(f)
      BY <1>10, <2>1, <2>3
    <3>2. b[1] # p.user
      BY <1>5, <1>11, <2>1, <3>1
    <3>3. QED
      BY <3>1, <3>2
  <2>4. CASE b \notin Tiene(f)
    <3>1. f = c /\ p.op = "CONNECT" /\ ultima'.res = "0" /\ b = <<p.user, p.arg>> /\ a \in Tiene(d)
      BY <1>10, <2>1, <2>4
    <3>2. a[1] # p.user
      BY <1>5, <1>11, <2>1, <3>1
    <3>3. QED
      BY <3>1, <3>2
  <2>5. QED
    BY <2>2, <2>3, <2>4
<1>13. EnLista'
  <2>1. SUFFICES ASSUME NEW d \in Procs, NEW a \in (Tiene(d))', a \notin Lineas(disco)',
                        a[1] \notin aMedias
                 PROVE  /\ servidor' = "colgado"
                        /\ curso'[d].paso = "pedida" /\ curso'[d].pet.op = "DISCONNECT"
    BY <1>16 DEF EnLista
  <2>2. a \in Tiene(d) /\ p.op = "DISCONNECT" /\ a[1] = p.user /\ p.user # Empty
    BY <1>4, <1>5, <1>10, <1>11, <2>1 DEF Nominales
  <2>3. e.espera
    BY <1>2, <1>3, <2>1, <2>2 DEF HuerfanasInv, Huerfana, p
  <2>4. d = c
    <3>1. curso[c].pet = p /\ curso[c].cod # "0" /\ sesion[c].user = p.user /\ p.user \in Names
      BY <1>2, <1>3, <1>6, <2>2, <2>3, RequestFields DEF CursoInv
    <3>2. <<p.user, sesion[c].addr>> \in Tiene(c)
      BY <2>2, <3>1, SistemaAssumption DEF Tiene, Conectado
    <3>3. <<p.user, sesion[c].addr>>[1] = a[1]
      BY <2>2
    <3>4. QED
      BY <1>2, <1>3, <2>1, <2>2, <3>2, <3>3 DEF SinRival
  <2>5. servidor' # "activo"
    BY <1>5, <1>10, <1>11, <2>1, <2>2, <2>3, <2>4
  <2>6. QED
    BY <1>7, <1>6, <1>9, <2>2, <2>3, <2>4, <2>5
<1>14. HuerfanasInv'
  <2>1. SUFFICES ASSUME NEW i \in DOMAIN cola', (Huerfana(i))'
        PROVE  /\ \A d \in Procs : \A a \in (Tiene(d))' : a[1] # cola'[i].pet.user
               /\ \E a \in Lineas(disco') : a[1] = cola'[i].pet.user
               /\ \A j \in DOMAIN cola' : j # i /\ cola'[j].pet.op = "DISCONNECT" =>
                                          cola'[j].pet.user # cola'[i].pet.user
    BY DEF HuerfanasInv
  <2> DEFINE q == cola[i + 1]
  <2>2. /\ cola'[i] = q /\ i + 1 \in DOMAIN cola /\ i + 1 # 1 /\ Huerfana(i + 1)
        /\ q.pet.op = "DISCONNECT" /\ q.pet.user # Empty
    BY <1>2, <1>3, <1>16, <2>1 DEF Huerfana, ColaInv, Nominales
  <2>3. /\ \A d \in Procs : \A a \in Tiene(d) : a[1] # q.pet.user
        /\ \E a \in Lineas(disco) : a[1] = q.pet.user
        /\ \A j \in DOMAIN cola : j # i + 1 /\ cola[j].pet.op = "DISCONNECT" =>
                                  cola[j].pet.user # q.pet.user
    BY <1>2, <2>2 DEF HuerfanasInv
  <2>4. p.op = "DISCONNECT" => p.user # q.pet.user
    BY <1>3, <2>2, <2>3 DEF p
  <2> HIDE DEF q
  <2>5. \E a \in Lineas(disco') : a[1] = q.pet.user
    <3>1. PICK a \in Lineas(disco) : a[1] = q.pet.user
      BY <2>3
    <3>2. a \in Lineas(disco)'
      BY <1>5, <2>2, <2>4, <3>1
    <3>3. QED
      BY <3>1, <3>2
  <2>6. \A d \in Procs : \A a \in (Tiene(d))' : a[1] # q.pet.user
    <3>1. p.op = "CONNECT" /\ ultima'.res = "0" => p.user # q.pet.user
      BY <1>5, <2>3
    <3>2. QED
      BY <1>10, <2>3, <3>1
  <2>7. \A j \in DOMAIN cola' : j # i /\ cola'[j].pet.op = "DISCONNECT" =>
                                cola'[j].pet.user # q.pet.user
    <3>1. \A j \in DOMAIN cola' : j # i => j + 1 # i + 1
      BY <1>3, <2>1
    <3>2. QED
      BY <1>3, <2>3, <3>1
  <2>8. QED
    BY <2>2, <2>5, <2>6, <2>7
<1>15. QED
  BY <1>2, <1>7, <1>12, <1>13, <1>14 DEF SesionInv

LEMMA InitSesion == Init => SesionInv
<1> SUFFICES ASSUME Init PROVE SesionInv
  OBVIOUS
<1>1. \A c \in Procs : Tiene(c) = {}
  BY DEF Init, SinSesion, Libre, NoPedido, Tiene, Conectado
<1>2. DOMAIN cola = {}
  BY DEF Init
<1>3. SinRival /\ EnLista /\ HuerfanasInv
  BY <1>1, <1>2 DEF SinRival, EnLista, HuerfanasInv
<1>4. QED
  BY <1>3, InitOrden DEF SesionInv

LEMMA NextSesion ==
  ASSUME TypeOK, SesionInv, [Next]_vars, "disk" \notin Faults, NombresAparte
  PROVE  SesionInv'
<1>1. OrdenInv'
  BY NextOrden DEF SesionInv
<1>2. CASE Sirve
  <2>1. CASE era = 0 /\ servidor' # "caido"
    BY <1>1, <1>2, <2>1, SirveKeepsS
  <2>2. CASE servidor' = "caido"
    <3>1. Caida /\ UNCHANGED <<sesion, era, aMedias>>
      BY <1>2, <2>2 DEF Sirve, entreClientes
    <3>2. QED
      BY <1>1, <3>1, CaidaKeepsS
  <2>3. CASE era # 0
    BY <1>1, <1>2, <2>3 DEF SesionInv, Sirve
  <2>4. QED
    BY <2>1, <2>2, <2>3
<1>3. CASE Cae
  BY <1>1, <1>3, CaidaKeepsS DEF Cae, entreClientes
<1>4. CASE ReiniciaServidor
  <2>1. era' # 0
    BY <1>4, TypeParts, SistemaAssumption DEF ReiniciaServidor, ServidorOK
  <2>2. QED
    BY <1>1, <2>1 DEF SesionInv
<1>5. CASE UNCHANGED vars
  BY <1>1, <1>5 DEF vars, SesionInv, SinRival, EnLista, HuerfanasInv, Huerfana, Tiene, Conectado,
                    Lineas
<1>6. QED
  BY <1>1, <1>2, <1>3, <1>4, <1>5, ComandoKeepsS, RecibeKeepsS, HiloKeepsS, FinKeepsS
     DEF Next, Cliente

LEMMA SesionAlways ==
  ASSUME "disk" \notin Faults, NombresAparte PROVE Spec => []SesionInv
<1>1. TypeOK /\ SesionInv /\ [Next]_vars => SesionInv'
  BY NextSesion
<1>2. QED
  BY <1>1, InitSesion, TypesCorrect, PTL DEF Spec

(* When no name is part of another and the disk does not fail, until the    *)
(* server is started again or a DISCONNECT of that user is broken off, what *)
(* a client believes is true, however many they are and whoever is killed,  *)
(* refused, loses the account or loses a thread.                            *)
THEOREM BeliefsAreTrue ==
  ASSUME "disk" \notin Faults, NombresAparte PROVE Spec => []BeliefIsTrue
<1>1. SesionInv => BeliefIsTrue
  <2>1. SUFFICES ASSUME SesionInv, era = 0, servidor # "caido", NEW c \in Procs,
                        Conectado(c), ~EnCurso(c, "DISCONNECT"), sesion[c].user \notin aMedias
                 PROVE  Linea(c) \in Lineas(disco)
    BY DEF BeliefIsTrue
  <2>2. curso[c].pet.op # "DISCONNECT"
    BY <2>1 DEF SesionInv, OrdenInv, CursoInv, EnCurso
  <2>3. Linea(c) \in Tiene(c)
    BY <2>1, <2>2 DEF Tiene, Linea
  <2>4. Linea(c)[1] = sesion[c].user
    BY DEF Linea
  <2>5. QED
    BY <2>1, <2>2, <2>3, <2>4 DEF SesionInv, EnLista
<1>2. QED
  BY <1>1, SesionAlways, PTL

(* Under the same conditions a user has one session at a time. *)
THEOREM OneSessionEach ==
  ASSUME "disk" \notin Faults, NombresAparte PROVE Spec => []OneSessionPerUser
<1>1. SesionInv => OneSessionPerUser
  <2>1. SUFFICES ASSUME SesionInv, era = 0, NEW c \in Procs, NEW d \in Procs, c # d,
                        Conectado(c), sesion[c].user = sesion[d].user, sesion[c].user \notin aMedias
                 PROVE  \E x \in {c, d} : EnCurso(x, "DISCONNECT") /\ curso[x].paso = "hecha"
                                          /\ curso[x].cod = "0"
    BY DEF OneSessionPerUser
  <2>2. Linea(c)[1] = Linea(d)[1] /\ Linea(c)[1] \notin aMedias /\ Conectado(d)
    BY <2>1 DEF Linea, Conectado
  <2>3. ~(Linea(c) \in Tiene(c) /\ Linea(d) \in Tiene(d))
    BY <2>1, <2>2 DEF SesionInv, SinRival
  <2>4. PICK x \in {c, d} : curso[x].pet.op = "DISCONNECT" /\ curso[x].cod = "0"
    BY <2>1, <2>2, <2>3 DEF Tiene, Linea
  <2>5. x \in Procs
    BY <2>4
  <2>6. curso[x].paso = "hecha"
    BY <2>1, <2>4, <2>5 DEF SesionInv, OrdenInv, CursoInv
  <2>7. QED
    BY <2>4, <2>6 DEF EnCurso
<1>2. QED
  BY <1>1, SesionAlways, PTL
-----------------------------------------------------------------------------
(***************************************************************************)
(* The registry of the system.  Sistema implements the registry of Claves: *)
(* behind the backlog, whoever connects, is killed or is served twice, its *)
(* directories see the requests of whole commands, one after another, and  *)
(* every step that is not one of these, or a start of the server, leaves   *)
(* them alone.  What was proved of the registry holds of the system.       *)
(***************************************************************************)

(* A request on its way is one that names its user. *)
LEMMA SirveServes ==
  ASSUME TypeOK, OrdenInv, Sirve
  PROVE  \E p \in Request : Nombrada(p) /\ Atiende(p)
<1>1. cola \in Seq(EnvioDe) /\ cola # <<>> /\ Atiende(Head(cola).pet)
  BY TypeParts DEF Sirve, ServidorOK
<1>2. 1 \in DOMAIN cola /\ Head(cola) = cola[1]
  BY <1>1
<1>3. cola[1].pet \in Request /\ Nombrada(cola[1].pet)
  BY <1>1, <1>2, QueueElements DEF OrdenInv, ColaInv, Nombrada
<1>4. QED
  BY <1>1, <1>2, <1>3

(* Clients reach the registry through the backlog and in no other way. *)
LEMMA ClienteLeaves ==
  ASSUME TypeOK, OrdenInv, NEW c \in Procs, Cliente(c)
  PROVE  UNCHANGED registro
<1>1. CASE Comando(c)
  BY <1>1, ComandoForms DEF delServidor, registro
<1>2. CASE \/ RecibeConnect(c) \/ RecibeDisconnect(c) \/ Excepcion(c) \/ Desbloquea(c)
           \/ handle_server_connection(c)
  BY <1>2 DEF RecibeConnect, RecibeDisconnect, Excepcion, Desbloquea, handle_server_connection,
              delServidor, registro
<1>3. CASE Quit(c) \/ Mata(c)
  BY <1>3 DEF Quit, Mata, delServidor, registro
<1>4. QED
  BY <1>1, <1>2, <1>3 DEF Cliente

(* The refinement: a step of the system is a step of the registry or leaves *)
(* it as it was, and a request of the registry names the user it acts for.  *)
THEOREM SystemServesTheRegistry == Spec => RegistroNombrado
<1>1. Init => InitRegistro
  BY DEF Init
<1>2. TypeOK /\ OrdenInv /\ [Next]_vars => [NextNombrado]_registro
  <2> SUFFICES ASSUME TypeOK, OrdenInv, [Next]_vars PROVE [NextNombrado]_registro
    OBVIOUS
  <2>1. CASE Sirve
    BY <2>1, SirveServes DEF NextNombrado
  <2>2. CASE Cae
    BY <2>2 DEF Cae, registro
  <2>3. CASE ReiniciaServidor
    BY <2>3 DEF ReiniciaServidor, NextNombrado
  <2>4. CASE \E c \in Procs : Cliente(c)
    BY <2>4, ClienteLeaves
  <2>5. CASE UNCHANGED vars
    BY <2>5 DEF vars, registro
  <2>6. QED
    BY <2>1, <2>2, <2>3, <2>4, <2>5 DEF Next
<1>3. QED
  BY <1>1, <1>2, TypesCorrect, OrdenAlways, PTL DEF Spec, RegistroNombrado

(* Under any failures a user has one line in the list and a file has a user *)
(* in the system too.                                                       *)
THEOREM SystemKeepsTheRegistry == Spec => [](UniqueLines /\ NoOrphans)
<1>1. RInv => UniqueLines /\ NoOrphans
  BY DEF RInv
<1>2. QED
  BY <1>1, SystemServesTheRegistry, NombradoCorrect, PTL

(* Nothing a client did or became loses an account, a file or a connection  *)
(* of anybody: these go with the requests meant to remove them.             *)
THEOREM SystemLosesNothing == Spec => NothingLost
BY SystemServesTheRegistry, NamedLosesNothing, PTL

(* While the server of the system runs the list is there.                   *)
THEOREM SystemKeepsTheList ==
  ASSUME "disk" \notin Faults PROVE Spec => []ListReady
<1>1. RegistroNombrado => []ListReady
  BY NamedListReady
<1>2. QED
  BY <1>1, SystemServesTheRegistry, PTL

(* A request touches what belongs to the user it names, a failure that is   *)
(* printed left no trace, and what is printed is so: with any number of     *)
(* clients, sessions left behind, clients killed and requests nobody waits  *)
(* for, if no name is part of another one and no file operation fails.      *)
THEOREM SystemTellsTheTruth ==
  ASSUME NombresAparte, SinFallos
  PROVE  Spec => Isolation /\ ErrorHasNoEffect /\ CodesMeanWhatTheClientPrints
<1>1. RegistroNombrado => Isolation /\ ErrorHasNoEffect /\ CodesMeanWhatTheClientPrints
  BY NamedIsolated, NamedRefused, NamedCodes
<1>2. QED
  BY <1>1, SystemServesTheRegistry, PTL
=============================================================================
