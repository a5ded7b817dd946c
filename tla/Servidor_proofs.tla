-------------------------- MODULE Servidor_proofs ---------------------------
(***************************************************************************)
(* What holds of the server for any number of connections.                 *)
(***************************************************************************)
EXTENDS Servidor, Registro_proofs, SequenceTheorems

(* A connection starts well-typed, whatever its client is to ask. *)
LEMMA LlegadaType == ASSUME NEW p \in Request \cup {NoPet} PROVE Nueva(p) \in Link
BY DEF Nueva, Link

(* The server starts with nobody at work. *)
LEMMA InitIInv == Init => IInv
<1> SUFFICES ASSUME Init PROVE IInv
  OBVIOUS
<1>1. TreeOK
  BY InitTree DEF Init
<1>2. NoTree \in Store
  BY DEF NoTree, Store
<1>3. Pila \in Stack /\ Nueva(NoPet) \in Link /\ "no" \in Lugares
  BY <1>2, LlegadaType DEF Pila, Stack, Codes, Lugares, Fuera
<1>4. TypeOK
  BY <1>1, <1>3 DEF Init, TypeOK, Codes
<1>5. Handshake /\ OwnSocket /\ LockHeld /\ NothingStale
  BY ServidorAssumption
     DEF Init, Handshake, Ocupados, OwnSocket, LockHeld, NothingStale, EnSeccion
<1>6. NoZombie
  BY DEF Init, InitRegistro, NoRequest, NoZombie
<1>7. QED
  BY <1>4, <1>5, <1>6 DEF IInv

(* The steps of a thread from lock to unlock, but for those that end the    *)
(* process: nothing main looks at changes, and a thread that stops here     *)
(* leaves the lock locked or free.                                          *)
Interior(c) ==
  /\ hilo[c] \in EnSeccion
  /\ \E lugar \in (EnSeccion \ {"actua"}) \cup {"muerto"} :
       /\ hilo' = [hilo EXCEPT ![c] = lugar]
       /\ mutex' = mutex \/ (lugar = "muerto" /\ mutex' = Nadie)
  /\ UNCHANGED <<main, sc, noCopiado>>
  /\ \A t \in Clients : loc'[t].sk = loc[t].sk
  /\ ultima'.res = "crash" => ultima.res = "crash"

Order == Handshake /\ OwnSocket /\ LockHeld /\ NothingStale /\ NoZombie

(* An interior step keeps the hand-over, the lock and the views. *)
LEMMA InteriorKeeps ==
  ASSUME IInv, NEW c \in Clients, Interior(c)
  PROVE  Order'
<1> USE ServidorAssumption
<1>1. hilo \in [Clients -> Lugares]
  BY DEF IInv, TypeOK
<1>2. PICK lugar \in (EnSeccion \ {"actua"}) \cup {"muerto"} :
        /\ hilo' = [hilo EXCEPT ![c] = lugar]
        /\ mutex' = mutex \/ (lugar = "muerto" /\ mutex' = Nadie)
  BY DEF Interior
<1>3. hilo'[c] = lugar /\ \A t \in Clients \ {c} : hilo'[t] = hilo[t]
  BY <1>1, <1>2
<1>4. mutex = c /\ \A t \in Clients \ {c} : hilo[t] \notin EnSeccion
  BY DEF IInv, LockHeld, Interior
<1>5. Ocupados' = Ocupados /\ c \in Ocupados
  BY <1>2, <1>3 DEF Ocupados, Interior
<1>6. Handshake'
  <2>1. main \in {"cerrojo", "espera"} /\ noCopiado /\ Ocupados = {sc}
    BY <1>5 DEF Handshake, IInv, TypeOK, Interior, EnSeccion
  <2>2. sc = c /\ hilo'[c] # "aceptada"
    BY <1>3, <1>5, <2>1 DEF EnSeccion
  <2>3. main' = main /\ sc' = c
    BY <2>2 DEF Interior
  <2>4. noCopiado'
    BY <2>1, Zenon DEF Interior
  <2>5. Ocupados' = {sc'} /\ hilo'[sc'] # "aceptada"
    BY <1>5, <2>1, <2>2, <2>3
  <2>6. QED
    BY <2>1, <2>3, <2>4, <2>5 DEF Handshake
<1>7. OwnSocket'
  BY <1>3 DEF OwnSocket, IInv, Interior
<1>8. LockHeld'
  BY <1>2, <1>3, <1>4 DEF LockHeld, EnSeccion
<1>9. NothingStale'
  BY <1>2, <1>3, <1>4 DEF NothingStale, EnSeccion
<1>10. NoZombie'
  BY DEF NoZombie, IInv, Interior
<1>11. QED
  BY <1>6, <1>7, <1>8, <1>9, <1>10 DEF Order

(* Nothing sent, or less than everything: what is read is still a request,  *)
(* or nothing.                                                              *)
LEMMA TruncadaType ==
  ASSUME NEW p \in Request \cup {NoPet}
  PROVE  Truncada(p) \subseteq Request \cup {NoPet}
<1>1. CASE p \in Request
  BY <1>1, ClavesAssumption DEF Truncada, Request, Simples
<1>2. CASE p = NoPet
  BY <1>2 DEF Truncada, NoPet
<1>3. QED
  BY <1>1, <1>2

(* A connection whose client has closed is still a connection. *)
LEMMA AbandonoType ==
  ASSUME TypeOK, NEW c \in Clients, NEW p \in Request \cup {NoPet}
  PROVE  [con EXCEPT ![c] = [peer |-> "cerrado", enviado |-> 2, pet |-> p,
                             ack |-> @.ack, debe |-> @.debe]] \in [Clients -> Link]
BY DEF TypeOK, Link

(* What does not touch the registry leaves it well-typed. *)
LEMMA TreeSame == ASSUME TreeOK, UNCHANGED registro PROVE TreeOK'
BY DEF TreeOK, Tree, registro

(* The stack of a thread, with another count of what was sent. *)
LEMMA EnvType ==
  ASSUME TypeOK, NEW c \in Clients, NEW n \in Nat
  PROVE  [loc EXCEPT ![c].env = n] \in [Clients -> Stack]
BY DEF TypeOK, Stack

(* A connection, with another state of its peer. *)
LEMMA PeerType ==
  ASSUME TypeOK, NEW c \in Clients, NEW q \in {"abierto", "cerrado", "reset", "roto"}
  PROVE  [con EXCEPT ![c].peer = q] \in [Clients -> Link]
BY DEF TypeOK, Link

(* A connection, with other flags. *)
LEMMA FlagType ==
  ASSUME TypeOK, NEW c \in Clients, NEW b \in BOOLEAN
  PROVE  /\ [con EXCEPT ![c].debe = b] \in [Clients -> Link]
         /\ [con EXCEPT ![c].ack = b] \in [Clients -> Link]
BY DEF TypeOK, Link

(* A connection after a message to it. *)
LEMMA MandaType ==
  ASSUME TypeOK, NEW c \in Clients, NEW b \in BOOLEAN, Manda(c, b) \/ NoManda(c)
  PROVE  con' \in [Clients -> Link]
<1>1. CASE con' = [con EXCEPT ![c].debe = b]
  BY <1>1, FlagType
<1>2. ASSUME NEW q \in {"cerrado", "roto"}, con' = [con EXCEPT ![c].peer = q]
      PROVE  con' \in [Clients -> Link]
  BY <1>2, PeerType
<1>3. QED
  BY <1>1, <1>2 DEF Manda, NoManda

(* Every step of a thread that stays inside the section, but Comprueba and  *)
(* the crash of Actua, is an interior one.                                  *)
LEMMA InteriorSteps ==
  ASSUME IInv, NEW c \in Clients,
         \/ LeeOperacion(c) \/ AbreRpc(c) \/ LeeArgumentos(c) \/ Registra(c)
         \/ Responde(c) \/ EsperaConfirmacion(c) \/ MandaCuenta(c) \/ MandaLinea(c)
         \/ EsperaConfLinea(c) \/ MandaArchivo(c)
  PROVE  Interior(c) /\ TypeOK'
<1> USE DEF A, Vuelve, traza, registro
<1>1. TypeOK /\ TreeOK
  BY DEF IInv, TypeOK
<1>2. loc[c].sk = c \/ hilo[c] \notin EnSeccion
  BY DEF IInv, OwnSocket
<1>3. hilo \in [Clients -> Lugares] /\ loc \in [Clients -> Stack]
  BY <1>1 DEF TypeOK
<1>4. CASE LeeOperacion(c)
  <2>1. Interior(c)
    BY <1>4 DEF LeeOperacion, Interior, EnSeccion
  <2>2. TypeOK'
    BY <1>1, <1>4, TreeSame DEF LeeOperacion, TypeOK, Lugares, EnSeccion
  <2>3. QED
    BY <2>1, <2>2
<1>5. CASE AbreRpc(c)
  <2>1. Interior(c)
    BY <1>5 DEF AbreRpc, Interior, EnSeccion
  <2>2. TypeOK'
    BY <1>1, <1>5, TreeSame DEF AbreRpc, TypeOK, Lugares, EnSeccion
  <2>3. QED
    BY <2>1, <2>2
<1>6. CASE LeeArgumentos(c)
  <2>1. Interior(c)
    BY <1>6 DEF LeeArgumentos, Interior, EnSeccion
  <2>2. TypeOK'
    BY <1>1, <1>6, TreeSame DEF LeeArgumentos, TypeOK, Lugares, EnSeccion
  <2>3. QED
    BY <2>1, <2>2
<1>7. CASE Registra(c)
  <2>1. Interior(c)
    BY <1>7 DEF Registra, Interior, EnSeccion
  <2>2. loc[c].sk \in Clients \cup {Nadie}
    BY <1>3 DEF Stack
  <2>3. log' \in Seq(Clients \cup {Nadie})
    <3>1. log \in Seq(Clients \cup {Nadie})
      BY <1>1 DEF TypeOK
    <3>2. Impresa(c) \in Seq(Clients \cup {Nadie})
      BY <2>2, <3>1, AppendProperties DEF Impresa
    <3>3. log' \in {log, Impresa(c)}
      BY <1>7 DEF Registra
    <3>4. QED
      BY <3>1, <3>2, <3>3
  <2>4. TypeOK'
    BY <1>1, <1>7, <2>3, TreeSame DEF Registra, TypeOK, Lugares, EnSeccion
  <2>5. QED
    BY <2>1, <2>4
<1>8. CASE Responde(c)
  <2>1. Interior(c)
    BY <1>8 DEF Responde, Interior, EnSeccion
  <2>2. loc[c].sk = c /\ loc[c].res \in Codes
    BY <1>2, <1>3, <1>8 DEF Responde, EnSeccion, Stack
  <2>3. con' \in [Clients -> Link]
    <3>1. EsListado(c) \in BOOLEAN
      BY DEF EsListado
    <3>2. Manda(c, EsListado(c)) \/ NoManda(c)
      BY <1>8, <2>2 DEF Responde
    <3>3. QED
      BY <1>1, <3>1, <3>2, MandaType
  <2>4. TypeOK'
    BY <1>1, <1>8, <2>2, <2>3, TreeSame DEF Responde, TypeOK, Lugares, EnSeccion
  <2>5. QED
    BY <2>1, <2>4
<1>9. CASE EsperaConfirmacion(c) \/ EsperaConfLinea(c)
  <2>1. Interior(c)
    BY <1>9 DEF EsperaConfirmacion, EsperaConfLinea, Interior, EnSeccion
  <2>2. loc[c].sk = c
    BY <1>2, <1>9 DEF EsperaConfirmacion, EsperaConfLinea, EnSeccion
  <2>3. con' \in [Clients -> Link]
    <3>1. con' = con \/ con' = [con EXCEPT ![c].ack = FALSE]
      BY <1>9, <2>2 DEF EsperaConfirmacion, EsperaConfLinea, Confirmado, SinConfirmar
    <3>2. QED
      BY <1>1, <3>1, FlagType DEF TypeOK
  <2>4. TypeOK'
    BY <1>1, <1>9, <2>3, TreeSame
       DEF EsperaConfirmacion, EsperaConfLinea, TypeOK, Lugares, EnSeccion
  <2>5. QED
    BY <2>1, <2>4
<1>10. CASE MandaCuenta(c)
  <2>1. Interior(c)
    BY <1>10 DEF MandaCuenta, Interior, EnSeccion
  <2>2. loc[c].sk = c
    BY <1>2, <1>10 DEF MandaCuenta, EnSeccion
  <2>3. con' \in [Clients -> Link]
    BY <1>1, <1>10, <2>2, MandaType DEF MandaCuenta
  <2>4. TypeOK'
    BY <1>1, <1>10, <2>3, TreeSame DEF MandaCuenta, TypeOK, Lugares, EnSeccion
  <2>5. QED
    BY <2>1, <2>4
<1>11. CASE MandaLinea(c) \/ MandaArchivo(c)
  <2>1. loc' = loc \/ loc' = [loc EXCEPT ![c].env = @ + 1]
    BY <1>11 DEF MandaLinea, MandaArchivo
  <2>2. loc[c].env + 1 \in Nat
    BY <1>3 DEF Stack
  <2>3. loc' \in [Clients -> Stack] /\ \A t \in Clients : loc'[t].sk = loc[t].sk
    BY <1>1, <1>3, <2>1, <2>2, EnvType DEF Stack
  <2>4. /\ hilo[c] \in EnSeccion
        /\ \/ UNCHANGED hilo /\ hilo[c] = "archivos"
           \/ \E lugar \in {"confLinea", "fin", "muerto"} : A(c, lugar)
        /\ UNCHANGED <<disco, ultima, main, sc, noCopiado, mutex, hist, log, resp>>
    BY <1>11 DEF MandaLinea, MandaArchivo, EnSeccion
  <2>5. \E lugar \in {"confLinea", "fin", "muerto", "archivos"} : A(c, lugar)
    BY <1>3, <2>4
  <2>6. Interior(c)
    BY <2>3, <2>4, <2>5 DEF Interior, EnSeccion
  <2>7. loc[c].sk = c
    BY <1>2, <2>4
  <2>8. con' \in [Clients -> Link]
    BY <1>1, <1>11, <2>7, MandaType DEF MandaLinea, MandaArchivo, TypeOK
  <2>9. TypeOK'
    BY <1>1, <2>3, <2>4, <2>5, <2>8, TreeSame DEF TypeOK, Lugares, EnSeccion
  <2>10. QED
    BY <2>6, <2>9
<1>12. QED
  BY <1>4, <1>5, <1>6, <1>7, <1>8, <1>9, <1>10, <1>11

(* The last look of a *_serv: from here on visto is the tree. *)
LEMMA CompruebaKeeps ==
  ASSUME IInv, NEW c \in Clients, Comprueba(c)
  PROVE  IInv'
<1> USE DEF A, traza, registro
<1>1. hilo \in [Clients -> Lugares] /\ loc \in [Clients -> Stack] /\ disco \in Store
  BY DEF IInv, TypeOK, TreeOK, Tree
<1>2. hilo' = [hilo EXCEPT ![c] = "actua"] /\ hilo[c] = "comprueba"
  BY DEF Comprueba
<1>3. /\ loc' = [loc EXCEPT ![c].visto = disco] /\ loc' \in [Clients -> Stack]
      /\ \A t \in Clients : loc'[t].sk = loc[t].sk
  BY <1>1 DEF Comprueba, Stack
<1>4. Ocupados' = Ocupados
  BY <1>1, <1>2 DEF Ocupados, EnSeccion
<1>5. TypeOK'
  BY <1>1, <1>2, <1>3, TreeSame DEF Comprueba, IInv, TypeOK, Lugares, EnSeccion
<1>6. Handshake'
  <2>1. main' = main /\ sc' = sc /\ disco' = disco /\ ultima' = ultima /\ mutex' = mutex
    BY DEF Comprueba
  <2>2. noCopiado' <=> noCopiado
    BY Zenon DEF Comprueba
  <2>3. main \in {"cerrojo", "espera"} /\ noCopiado /\ Ocupados = {sc}
    BY <1>2 DEF Handshake, IInv, TypeOK, Ocupados, EnSeccion
  <2>4. hilo'[sc] # "aceptada"
    BY <1>1, <1>2, <2>3 DEF Handshake, IInv
  <2>5. QED
    BY <1>4, <2>1, <2>2, <2>3, <2>4 DEF Handshake
<1>7. OwnSocket'
  BY <1>1, <1>2, <1>3 DEF OwnSocket, IInv, EnSeccion
<1>8. LockHeld'
  BY <1>1, <1>2 DEF Comprueba, LockHeld, IInv, EnSeccion
<1>9. \A t \in Clients \ {c} : hilo[t] # "actua"
  BY <1>2 DEF IInv, LockHeld, EnSeccion
<1>10. NothingStale'
  BY <1>1, <1>2, <1>3, <1>9 DEF Comprueba, NothingStale, Stack
<1>11. NoZombie'
  BY DEF Comprueba, NoZombie, IInv
<1>12. QED
  BY <1>5, <1>6, <1>7, <1>8, <1>10, <1>11 DEF IInv

(* The end of the process, however it comes. *)
LEMMA FalleceKeeps ==
  ASSUME IInv, Fallece, UNCHANGED <<sc, noCopiado, loc>>
  PROVE  Order' /\ hilo' \in [Clients -> Lugares]
<1>1. \A t \in Clients : hilo'[t] \in {"no", "fuera", "cortada"}
  BY DEF Fallece
<1>2. hilo' \in [Clients -> Lugares]
  BY DEF Fallece, Lugares, Fuera
<1>3. Ocupados' = {}
  BY <1>1 DEF Ocupados, EnSeccion
<1>4. Handshake'
  BY <1>3 DEF Fallece, Handshake
<1>5. OwnSocket' /\ LockHeld' /\ NothingStale' /\ NoZombie'
  BY <1>1 DEF Fallece, OwnSocket, LockHeld, NothingStale, NoZombie, EnSeccion
<1>6. QED
  BY <1>2, <1>4, <1>5 DEF Order

(* The writes of a *_serv: an interior step, or the end of the process. *)
LEMMA ActuaKeeps ==
  ASSUME IInv, NEW c \in Clients, Actua(c)
  PROVE  IInv'
<1> USE DEF A
<1>1. /\ hilo \in [Clients -> Lugares] /\ loc \in [Clients -> Stack]
      /\ con \in [Clients -> Link] /\ Tree(disco) /\ TypeOK
  BY DEF IInv, TypeOK, TreeOK
<1>2. loc[c].sk = c /\ loc[c].visto = disco
  BY DEF IInv, OwnSocket, NothingStale, Actua, EnSeccion
<1>3. Serv(disco, con[c].pet)
  BY <1>2 DEF Actua
<1>4. con[c].pet \in Request
  BY <1>1, <1>3 DEF Serv, Link, NoPet
<1>5. TreeOK'
  BY <1>1, <1>3, <1>4, ServType DEF TreeOK
<1>6. ultima'.res \in Codes /\ ultima'.n \in Int
  BY <1>5 DEF TreeOK, Reply
<1>7. CASE Fallece /\ UNCHANGED <<loc, hist>>
  <2>1. Order' /\ hilo' \in [Clients -> Lugares]
    BY <1>7, FalleceKeeps DEF Actua
  <2>2. TypeOK'
    BY <1>1, <1>5, <1>7, <2>1 DEF Actua, Fallece, TypeOK
  <2>3. QED
    BY <2>1, <2>2 DEF IInv, Order
<1>8. CASE /\ ultima'.res # "crash" /\ A(c, "rpc")
           /\ loc' = [loc EXCEPT ![c].res = ultima'.res, ![c].n = ultima'.n]
           /\ hist' = Append(hist, [cl |-> c, res |-> ultima'.res])
           /\ UNCHANGED <<main, mutex>>
  <2>1. loc' \in [Clients -> Stack] /\ \A t \in Clients : loc'[t].sk = loc[t].sk
    BY <1>1, <1>6, <1>8 DEF Stack
  <2>2. Interior(c)
    BY <1>8, <2>1 DEF Actua, Interior, EnSeccion
  <2>3. hist' \in Seq([cl : Clients \cup {Nadie}, res : Codes])
    BY <1>1, <1>6, <1>8, AppendProperties DEF TypeOK
  <2>4. TypeOK'
    BY <1>1, <1>5, <1>8, <2>1, <2>3 DEF Actua, TypeOK, Lugares, EnSeccion
  <2>5. QED
    BY <2>2, <2>4, InteriorKeeps DEF IInv, Order
<1>9. QED
  BY <1>2, <1>7, <1>8 DEF Actua

(* What clients and the network do is invisible to the hand-over. *)
LEMMA ClientesKeep ==
  ASSUME IInv, NEW c \in Clients,
         Llega(c) \/ Envia(c) \/ Confirma(c) \/ Abandona(c) \/ Corta(c)
  PROVE  IInv'
<1> USE DEF traza, registro, ClienteSolo
<1>1. /\ UNCHANGED <<disco, ultima, main, sc, noCopiado, mutex, loc, hist, log, resp>>
      /\ hilo' = hilo \/ (hilo[c] = "no" /\ hilo' = [hilo EXCEPT ![c] = "cola"])
  BY DEF Llega, Envia, Confirma, Abandona, Corta
<1>2. hilo \in [Clients -> Lugares] /\ con \in [Clients -> Link] /\ TypeOK
  BY DEF IInv, TypeOK
<1>3. \A t \in Clients : hilo'[t] = hilo[t] \/ (hilo[t] = "no" /\ hilo'[t] = "cola")
  BY <1>1, <1>2
<1>4. con' \in [Clients -> Link]
  <2>1. CASE Llega(c)
    <3>1. PICK p \in Peticiones : con' = [con EXCEPT ![c] = Nueva(p)]
      BY <2>1 DEF Llega
    <3>2. Nueva(p) \in Link
      BY ClavesAssumption, LlegadaType
    <3>3. QED
      BY <1>2, <3>1, <3>2
  <2>2. CASE Envia(c)
    BY <1>2, <2>2 DEF Envia, Link
  <2>3. CASE Confirma(c)
    BY <1>2, <2>3 DEF Confirma, Link
  <2>4. CASE Abandona(c)
    <3>1. con[c].pet \in Request \cup {NoPet} /\ con[c].enviado \in {0, 1, 2}
      BY <1>2 DEF Link
    <3>2. PICK p \in {NoPet, con[c].pet} \cup Truncada(con[c].pet) :
            con' = [con EXCEPT ![c] = [peer |-> "cerrado", enviado |-> 2, pet |-> p,
                                       ack |-> @.ack, debe |-> @.debe]]
      BY <2>4, <3>1 DEF Abandona
    <3>3. p \in Request \cup {NoPet}
      BY <3>1, <3>2, TruncadaType
    <3>4. QED
      BY <1>2, <3>2, <3>3, AbandonoType
  <2>5. CASE Corta(c)
    BY <1>2, <2>5 DEF Corta, Link
  <2>6. QED
    BY <2>1, <2>2, <2>3, <2>4, <2>5
<1>5. TypeOK'
  BY <1>1, <1>2, <1>4, TreeSame DEF TypeOK, Lugares
<1>6. Ocupados' = Ocupados
  BY <1>3 DEF Ocupados, EnSeccion
<1>7. Handshake'
  <2>1. Ocupados \subseteq Clients
    BY DEF Ocupados
  <2>2. sc \in Clients => (hilo[sc] = "aceptada" <=> hilo'[sc] = "aceptada")
    BY <1>3
  <2>3. main' = main /\ sc' = sc
    BY <1>1
  <2>4. noCopiado' <=> noCopiado
    BY <1>1, Zenon
  <2>5. QED
    BY <1>6, <2>1, <2>2, <2>3, <2>4 DEF Handshake, IInv
<1>8. OwnSocket' /\ NothingStale' /\ NoZombie'
  BY <1>1, <1>3 DEF OwnSocket, NothingStale, NoZombie, IInv, EnSeccion
<1>9. LockHeld'
  BY <1>1, <1>2, <1>3, ServidorAssumption DEF LockHeld, IInv, TypeOK, EnSeccion
<1>10. QED
  BY <1>5, <1>7, <1>8, <1>9 DEF IInv

(* main: it accepts only when no thread is at work. *)
LEMMA MainKeeps ==
  ASSUME IInv, (\E c \in Clients : Acepta(c)) \/ NoAcepta \/ CreaHilo \/ EsperaCopiado \/ Despierta
  PROVE  IInv'
<1> USE DEF traza, registro
<1>1. hilo \in [Clients -> Lugares] /\ TypeOK
  BY DEF IInv, TypeOK
<1>2. ASSUME NEW c \in Clients, Acepta(c) PROVE IInv'
  <2>1. /\ main = "acepta" /\ hilo[c] = "cola" /\ sc' = c /\ main' = "crea"
        /\ hilo' = [hilo EXCEPT ![c] = "aceptada"]
        /\ UNCHANGED <<disco, ultima, mutex, loc, con, hist, log, resp>>
    BY <1>2 DEF Acepta
  <2>2. TypeOK'
    BY <1>1, <1>2, TreeSame DEF Acepta, TypeOK, Lugares
  <2>3. Ocupados = {} /\ noCopiado
    BY <2>1 DEF IInv, Handshake
  <2>4. noCopiado'
    BY <1>2, <2>3, Zenon DEF Acepta
  <2>5. Ocupados' = {c}
    BY <1>1, <2>1, <2>3 DEF Ocupados
  <2>6. Handshake'
    BY <1>1, <2>1, <2>4, <2>5 DEF Handshake
  <2>7. OwnSocket' /\ LockHeld' /\ NothingStale' /\ NoZombie'
    BY <1>1, <2>1, ServidorAssumption
       DEF IInv, OwnSocket, LockHeld, NothingStale, NoZombie, EnSeccion, TypeOK
  <2>8. QED
    BY <2>2, <2>6, <2>7 DEF IInv
<1>3. CASE NoAcepta
  <2>1. TypeOK'
    BY <1>1, <1>3, TreeSame DEF NoAcepta, TypeOK
  <2>2. main' = "acepta" /\ main = "acepta" /\ hilo' = hilo /\ mutex' = mutex /\ loc' = loc
        /\ disco' = disco /\ ultima' = ultima
    BY <1>3 DEF NoAcepta
  <2>3. noCopiado'
    BY <1>3, Zenon DEF NoAcepta, IInv, Handshake
  <2>4. Handshake'
    BY <2>2, <2>3 DEF Handshake, IInv, Ocupados
  <2>5. OwnSocket' /\ LockHeld' /\ NothingStale' /\ NoZombie'
    BY <2>2 DEF IInv, OwnSocket, LockHeld, NothingStale, NoZombie
  <2>6. QED
    BY <2>1, <2>4, <2>5 DEF IInv
<1>4. CASE CreaHilo
  <2>1. main = "crea" /\ Ocupados = {sc} /\ sc \in Clients /\ hilo[sc] = "aceptada" /\ noCopiado
    BY <1>4 DEF CreaHilo, IInv, Handshake, Ocupados
  <2>2. /\ sc' = sc /\ mutex' = mutex /\ loc' = loc /\ disco' = disco /\ ultima' = ultima
        /\ \/ main' = "cerrojo" /\ hilo' = [hilo EXCEPT ![sc] = "nace"]
           \/ main' = "acepta" /\ hilo' = [hilo EXCEPT ![sc] = "huerfana"]
    BY <1>4 DEF CreaHilo
  <2>3. noCopiado'
    BY <1>4, <2>1, Zenon DEF CreaHilo
  <2>4. TypeOK'
    BY <1>1, <1>4, TreeSame DEF CreaHilo, TypeOK, Lugares, Fuera
  <2>5. Handshake'
    <3>1. CASE main' = "cerrojo" /\ hilo' = [hilo EXCEPT ![sc] = "nace"]
      <4>1. Ocupados' = {sc} /\ hilo'[sc] = "nace"
        BY <1>1, <2>1, <3>1 DEF Ocupados
      <4>2. QED
        BY <2>2, <2>3, <3>1, <4>1 DEF Handshake
    <3>2. CASE main' = "acepta" /\ hilo' = [hilo EXCEPT ![sc] = "huerfana"]
      <4>1. Ocupados' = {}
        BY <1>1, <2>1, <3>2 DEF Ocupados, EnSeccion
      <4>2. QED
        BY <2>3, <3>2, <4>1 DEF Handshake
    <3>3. QED
      BY <2>2, <3>1, <3>2
  <2>6. OwnSocket' /\ LockHeld' /\ NothingStale' /\ NoZombie'
    BY <1>1, <2>1, <2>2, ServidorAssumption
       DEF IInv, OwnSocket, LockHeld, NothingStale, NoZombie, EnSeccion, TypeOK
  <2>7. QED
    BY <2>4, <2>5, <2>6 DEF IInv
<1>5. CASE EsperaCopiado \/ Despierta
  <2>1. /\ UNCHANGED <<disco, ultima, sc, mutex, hilo, loc, con, hist, log, resp>>
        /\ main \in {"cerrojo", "espera"} /\ main' \in {"acepta", "cerrojo", "espera"}
    BY <1>5 DEF EsperaCopiado, Despierta
  <2>2. TypeOK'
    BY <1>1, <1>5, <2>1, TreeSame DEF EsperaCopiado, Despierta, TypeOK
  <2>3. Ocupados' = Ocupados
    BY <2>1 DEF Ocupados
  <2>4. noCopiado'
    <3>1. CASE EsperaCopiado
      BY <3>1 DEF EsperaCopiado
    <3>2. CASE Despierta
      <4>1. noCopiado
        BY <3>2 DEF Despierta, IInv, Handshake
      <4>2. QED
        BY <3>2, <4>1, Zenon DEF Despierta
    <3>3. QED
      BY <1>5, <3>1, <3>2
  <2>5. Handshake'
    <3>1. CASE noCopiado /\ Ocupados = {sc} /\ hilo[sc] # "aceptada"
      <4>1. main' \in {"cerrojo", "espera"}
        BY <1>5, <3>1 DEF EsperaCopiado, Despierta
      <4>2. QED
        BY <2>1, <2>3, <2>4, <3>1, <4>1 DEF Handshake
    <3>2. CASE ~noCopiado /\ Ocupados = {} /\ main = "cerrojo"
      <4>1. main' = "acepta"
        BY <1>5, <3>2 DEF EsperaCopiado, Despierta
      <4>2. QED
        BY <2>3, <2>4, <3>2, <4>1 DEF Handshake
    <3>3. QED
      BY <2>1, <3>1, <3>2 DEF IInv, Handshake
  <2>6. OwnSocket' /\ LockHeld' /\ NothingStale' /\ NoZombie'
    BY <2>1 DEF IInv, OwnSocket, LockHeld, NothingStale, NoZombie
  <2>7. QED
    BY <2>2, <2>5, <2>6 DEF IInv
<1>6. QED
  BY <1>2, <1>3, <1>4, <1>5

(* The copy of sc: the thread that starts is the one main waits for, and sc *)
(* is still its connection.                                                 *)
LEMMA LeeSocketKeeps ==
  ASSUME IInv, NEW c \in Clients, LeeSocket(c)
  PROVE  IInv'
<1> USE DEF A, traza, registro
<1>1. /\ hilo \in [Clients -> Lugares] /\ loc \in [Clients -> Stack] /\ TypeOK
      /\ sc \in Clients \cup {Nadie}
  BY DEF IInv, TypeOK
<1>2. /\ hilo[c] = "nace" /\ hilo' = [hilo EXCEPT ![c] = "arranca"]
      /\ loc' = [loc EXCEPT ![c].sk = sc]
      /\ UNCHANGED <<disco, ultima, main, sc, mutex, con, hist, log, resp>>
  BY DEF LeeSocket
<1>3. sc = c /\ main \in {"cerrojo", "espera"} /\ noCopiado /\ Ocupados = {sc}
  BY <1>1, <1>2 DEF IInv, TypeOK, Handshake, Ocupados
<1>4. noCopiado'
  BY <1>3, Zenon DEF LeeSocket
<1>5. Ocupados' = Ocupados /\ hilo'[sc'] = "arranca"
  BY <1>1, <1>2, <1>3 DEF Ocupados
<1>6. Handshake'
  BY <1>2, <1>3, <1>4, <1>5 DEF Handshake
<1>7. loc' \in [Clients -> Stack]
  BY <1>1, <1>2 DEF Stack
<1>8. TypeOK'
  BY <1>1, <1>2, <1>4, <1>7, TreeSame DEF TypeOK, Lugares
<1>9. OwnSocket'
  BY <1>1, <1>2, <1>3 DEF IInv, OwnSocket, EnSeccion, Stack
<1>10. LockHeld' /\ NothingStale' /\ NoZombie'
  BY <1>1, <1>2, ServidorAssumption
     DEF IInv, LockHeld, NothingStale, NoZombie, EnSeccion, TypeOK, Stack
<1>11. QED
  BY <1>6, <1>8, <1>9, <1>10 DEF IInv

(* The lock is free, so nobody is in the section. *)
LEMMA BloqueaKeeps ==
  ASSUME IInv, NEW c \in Clients, Bloquea(c)
  PROVE  IInv'
<1> USE DEF A, traza, registro
<1>1. hilo \in [Clients -> Lugares] /\ TypeOK
  BY DEF IInv, TypeOK
<1>2. /\ hilo[c] = "arranca" /\ hilo' = [hilo EXCEPT ![c] = "leeOp"]
      /\ mutex = Nadie /\ mutex' = c
      /\ UNCHANGED <<disco, ultima, main, sc, loc, con, hist, log, resp>>
  BY DEF Bloquea
<1>3. main \in {"cerrojo", "espera"} /\ noCopiado /\ Ocupados = {sc}
  BY <1>1, <1>2 DEF IInv, TypeOK, Handshake, Ocupados
<1>4. noCopiado'
  BY <1>3, Zenon DEF Bloquea
<1>5. Ocupados' = Ocupados /\ sc = c
  BY <1>1, <1>2, <1>3 DEF Ocupados, EnSeccion
<1>6. Handshake'
  BY <1>1, <1>2, <1>3, <1>4, <1>5 DEF Handshake
<1>7. TypeOK'
  BY <1>1, <1>2, <1>4, TreeSame DEF TypeOK, Lugares, EnSeccion
<1>8. LockHeld'
  BY <1>1, <1>2, ServidorAssumption DEF IInv, LockHeld, EnSeccion
<1>9. OwnSocket' /\ NothingStale' /\ NoZombie'
  BY <1>1, <1>2 DEF IInv, OwnSocket, NothingStale, NoZombie, EnSeccion
<1>10. QED
  BY <1>6, <1>7, <1>8, <1>9 DEF IInv

(* The signal: from here on nobody is at work, and main may accept. *)
LEMMA TerminaKeeps ==
  ASSUME IInv, NEW c \in Clients, Termina(c)
  PROVE  IInv'
<1> USE DEF A, traza, registro
<1>1. hilo \in [Clients -> Lugares] /\ TypeOK
  BY DEF IInv, TypeOK
<1>2. /\ hilo[c] = "fin" /\ hilo' = [hilo EXCEPT ![c] = "cierra"]
      /\ mutex' = Nadie /\ noCopiado' = FALSE
      /\ main' = IF main = "espera" THEN "cerrojo" ELSE main
      /\ UNCHANGED <<disco, ultima, sc, loc, con, hist, log, resp>>
  BY DEF Termina
<1>3. main \in {"cerrojo", "espera"} /\ Ocupados = {sc} /\ c \in Ocupados
  BY <1>2 DEF IInv, TypeOK, Handshake, Ocupados, EnSeccion
<1>4. Ocupados' = {} /\ main' = "cerrojo"
  <2>1. \A t \in Clients \ {c} : t \notin Ocupados /\ hilo'[t] = hilo[t]
    BY <1>1, <1>2, <1>3
  <2>2. hilo'[c] = "cierra"
    BY <1>1, <1>2
  <2>3. QED
    BY <1>2, <1>3, <2>1, <2>2 DEF Ocupados, EnSeccion
<1>5. Handshake'
  BY <1>2, <1>4 DEF Handshake
<1>6. TypeOK'
  BY <1>1, <1>2, <1>4, TreeSame DEF TypeOK, Lugares
<1>7. \A t \in Clients : hilo'[t] \notin EnSeccion
  BY <1>4 DEF Ocupados
<1>8. LockHeld'
  BY <1>2, <1>7 DEF LockHeld
<1>9. OwnSocket' /\ NothingStale' /\ NoZombie'
  <2>1. OwnSocket'
    BY <1>1, <1>2, <1>7 DEF IInv, OwnSocket, EnSeccion
  <2>2. NothingStale'
    BY <1>7 DEF NothingStale, EnSeccion
  <2>3. NoZombie'
    BY <1>2, <1>3 DEF IInv, NoZombie
  <2>4. QED
    BY <2>1, <2>2, <2>3
<1>10. QED
  BY <1>5, <1>6, <1>8, <1>9 DEF IInv

(* The close after the signal: main does not wait for it. *)
LEMMA CierraKeeps ==
  ASSUME IInv, NEW c \in Clients, Cierra(c)
  PROVE  IInv'
<1> USE DEF A, traza, registro
<1>1. hilo \in [Clients -> Lugares] /\ TypeOK
  BY DEF IInv, TypeOK
<1>2. /\ hilo[c] = "cierra" /\ hilo' = [hilo EXCEPT ![c] = "fuera"]
      /\ UNCHANGED <<disco, ultima, main, sc, mutex, loc, con, hist, log, resp>>
  BY DEF Cierra
<1>3. noCopiado' <=> noCopiado
  BY Zenon DEF Cierra
<1>4. Ocupados' = Ocupados /\ Ocupados \subseteq Clients /\ c \notin Ocupados
  BY <1>1, <1>2 DEF Ocupados, EnSeccion
<1>5. \A t \in Ocupados : hilo'[t] = hilo[t]
  BY <1>1, <1>2, <1>4
<1>6. Handshake'
  BY <1>2, <1>3, <1>4, <1>5 DEF IInv, Handshake
<1>7. noCopiado' \in BOOLEAN
  BY <1>1, Zenon DEF Cierra, TypeOK
<1>8. TypeOK'
  BY <1>1, <1>2, <1>7, TreeSame DEF TypeOK, Lugares, Fuera
<1>9. OwnSocket' /\ LockHeld' /\ NothingStale' /\ NoZombie'
  BY <1>1, <1>2 DEF IInv, OwnSocket, LockHeld, NothingStale, NoZombie, EnSeccion, TypeOK
<1>10. QED
  BY <1>6, <1>8, <1>9 DEF IInv

(* The process ends by a signal, or by one of its own. *)
LEMMA MuerteKeeps ==
  ASSUME IInv, Muere \/ (\E c \in Clients : Sigpipe(c))
  PROVE  IInv'
<1>1. /\ Fallece /\ UNCHANGED <<sc, noCopiado, loc>>
      /\ UNCHANGED <<disco, ultima, con, hist, log, resp>>
  BY DEF Muere, Sigpipe, traza, registro
<1>2. Order' /\ hilo' \in [Clients -> Lugares]
  BY <1>1, FalleceKeeps
<1>3. TypeOK'
  <2>1. noCopiado' \in BOOLEAN
    BY <1>1, Zenon DEF IInv, TypeOK
  <2>2. QED
    BY <1>1, <1>2, <2>1, TreeSame DEF Fallece, IInv, TypeOK, registro
<1>4. QED
  BY <1>2, <1>3 DEF IInv, Order

(* main starts with nobody at work: the process before left no thread. *)
LEMMA ReiniciaKeeps ==
  ASSUME IInv, Reinicia
  PROVE  IInv'
<1> USE DEF traza
<1>1. /\ main = "caido" /\ main' = "acepta" /\ sc' = Nadie /\ noCopiado' = TRUE
      /\ Arranca /\ ultima' = NoRequest
      /\ UNCHANGED <<mutex, hilo, loc, con, hist, log, resp>>
  BY DEF Reinicia, Arranca
<1>2. TreeOK'
  BY <1>1, StartType DEF IInv, TypeOK
<1>3. TypeOK'
  BY <1>1, <1>2 DEF IInv, TypeOK
<1>4. Ocupados' = {} /\ Ocupados = {}
  BY <1>1 DEF IInv, Handshake, Ocupados
<1>5. Handshake'
  BY <1>1, <1>4 DEF Handshake
<1>6. OwnSocket' /\ LockHeld'
  BY <1>1 DEF IInv, OwnSocket, LockHeld
<1>7. NothingStale'
  BY <1>1, <1>4 DEF NothingStale, Ocupados, EnSeccion
<1>8. NoZombie'
  BY <1>1 DEF NoZombie, NoRequest
<1>9. QED
  BY <1>3, <1>5, <1>6, <1>7, <1>8 DEF IInv

(* A step that changes nothing. *)
LEMMA StutterKeeps == ASSUME IInv, UNCHANGED vars PROVE IInv'
<1>1. UNCHANGED <<disco, ultima, main, sc, mutex, hilo, loc, con, hist, log, resp>>
  BY DEF vars
<1>2. noCopiado' <=> noCopiado
  BY Zenon DEF vars
<1>3. noCopiado' \in BOOLEAN
  BY Zenon DEF vars, IInv, TypeOK
<1>4. TypeOK'
  BY <1>1, <1>3, TreeSame DEF IInv, TypeOK, registro
<1>5. Handshake'
  BY <1>1, <1>2 DEF IInv, Handshake, Ocupados
<1>6. OwnSocket' /\ LockHeld' /\ NothingStale' /\ NoZombie'
  BY <1>1 DEF IInv, OwnSocket, LockHeld, NothingStale, NoZombie
<1>7. QED
  BY <1>4, <1>5, <1>6 DEF IInv

(* Every step of every thread preserves the invariant. *)
LEMMA HiloKeeps ==
  ASSUME IInv, NEW c \in Clients, TratarMensaje(c)
  PROVE  IInv'
<1>1. CASE LeeSocket(c)
  BY <1>1, LeeSocketKeeps
<1>2. CASE Bloquea(c)
  BY <1>2, BloqueaKeeps
<1>3. CASE \/ LeeOperacion(c) \/ AbreRpc(c) \/ LeeArgumentos(c) \/ Registra(c)
           \/ Responde(c) \/ EsperaConfirmacion(c) \/ MandaCuenta(c) \/ MandaLinea(c)
           \/ EsperaConfLinea(c) \/ MandaArchivo(c)
  <2>1. Interior(c) /\ TypeOK'
    BY <1>3, InteriorSteps
  <2>2. QED
    BY <2>1, InteriorKeeps DEF IInv, Order
<1>4. CASE Comprueba(c)
  BY <1>4, CompruebaKeeps
<1>5. CASE Actua(c)
  BY <1>5, ActuaKeeps
<1>6. CASE Sigpipe(c)
  BY <1>6, MuerteKeeps
<1>7. CASE Termina(c)
  BY <1>7, TerminaKeeps
<1>8. CASE Cierra(c)
  BY <1>8, CierraKeeps
<1>9. QED
  BY <1>1, <1>2, <1>3, <1>4, <1>5, <1>6, <1>7, <1>8 DEF TratarMensaje

(* The inductive step. *)
LEMMA StepKeeps == IInv /\ [Next]_vars => IInv'
<1> SUFFICES ASSUME IInv, [Next]_vars PROVE IInv'
  OBVIOUS
<1>1. CASE Principal \/ NoAcepta \/ Despierta
  BY <1>1, MainKeeps DEF Principal
<1>2. CASE Muere
  BY <1>2, MuerteKeeps
<1>3. CASE Reinicia
  BY <1>3, ReiniciaKeeps
<1>4. ASSUME NEW c \in Clients, TratarMensaje(c) PROVE IInv'
  BY <1>4, HiloKeeps
<1>5. ASSUME NEW c \in Clients,
             Cliente(c) \/ Llega(c) \/ Abandona(c) \/ Corta(c)
      PROVE  IInv'
  BY <1>5, ClientesKeep DEF Cliente
<1>6. CASE UNCHANGED vars
  BY <1>6, StutterKeeps
<1>7. QED
  BY <1>1, <1>2, <1>3, <1>4, <1>5, <1>6 DEF Next

(* The hand-over, the lock and the private copies of sc hold together, for  *)
(* any number of connections, any requests and any of the faults: the       *)
(* inductive invariant of the server.                                       *)
THEOREM HandOverCorrect == Spec => []IInv
BY InitIInv, StepKeeps, PTL DEF Spec

(* Each thread serves the connection it was created for.                    *)
THEOREM ThreadsApart == Spec => []OwnSocket
<1>1. IInv => OwnSocket
  BY DEF IInv
<1>2. QED
  BY <1>1, HandOverCorrect, PTL

(* What a *_serv function has looked at is still so when it acts upon it.   *)
THEOREM ChecksHold == Spec => []NothingStale
<1>1. IInv => NothingStale
  BY DEF IInv
<1>2. QED
  BY <1>1, HandOverCorrect, PTL

(* main accepts a connection only when the thread of the one before has     *)
(* signalled, spurious wakeups and failures of accept and pthread_create    *)
(* included.                                                                *)
THEOREM HandShakeCorrect == Spec => []Handshake
<1>1. IInv => Handshake
  BY DEF IInv
<1>2. QED
  BY <1>1, HandOverCorrect, PTL

(* The lock is with the thread in the section, or with one that returned    *)
(* from it without unlocking.                                               *)
THEOREM LockCorrect == Spec => []LockHeld
<1>1. IInv => LockHeld
  BY DEF IInv
<1>2. QED
  BY <1>1, HandOverCorrect, PTL

-----------------------------------------------------------------------------
(* The steps that touch the tree, the requests served or the log. *)
LEMMA StandStill ==
  ASSUME [Next]_vars, ~Reinicia, \A c \in Clients : ~Actua(c) /\ ~Registra(c)
  PROVE  UNCHANGED <<disco, ultima, hist, log>>
<1> USE DEF registro, traza, ClienteSolo
<1>1. CASE Principal \/ NoAcepta \/ Despierta \/ Muere
  BY <1>1 DEF Principal, Acepta, CreaHilo, EsperaCopiado, NoAcepta, Despierta, Muere
<1>2. ASSUME NEW c \in Clients,
             Cliente(c) \/ Llega(c) \/ Abandona(c) \/ Corta(c)
      PROVE  UNCHANGED <<disco, ultima, hist, log>>
  BY <1>2 DEF Cliente, Llega, Envia, Confirma, Abandona, Corta
<1>3. ASSUME NEW c \in Clients, TratarMensaje(c)
      PROVE  UNCHANGED <<disco, ultima, hist, log>>
  <2>1. CASE \/ LeeSocket(c) \/ Bloquea(c) \/ LeeOperacion(c) \/ AbreRpc(c)
             \/ LeeArgumentos(c) \/ Comprueba(c) \/ Sigpipe(c) \/ Termina(c) \/ Cierra(c)
    BY <2>1 DEF LeeSocket, Bloquea, LeeOperacion, AbreRpc, LeeArgumentos, Comprueba,
                Sigpipe, Termina, Cierra
  <2>2. CASE \/ Responde(c) \/ EsperaConfirmacion(c) \/ MandaCuenta(c) \/ MandaLinea(c)
             \/ EsperaConfLinea(c) \/ MandaArchivo(c)
    BY <2>2 DEF Responde, EsperaConfirmacion, MandaCuenta, MandaLinea, EsperaConfLinea,
                MandaArchivo
  <2>3. QED
    BY <1>3, <2>1, <2>2 DEF TratarMensaje
<1>4. CASE UNCHANGED vars
  BY <1>4 DEF vars
<1>5. QED
  BY <1>1, <1>2, <1>3, <1>4 DEF Next

(* What a handler reads is a request of its client, or what is left of one  *)
(* when the client closes early, or nothing.                                *)
Heard(k) == /\ k.pet \in Recibibles \cup {NoPet}
            /\ k.peer = "abierto" => k.pet \in Peticiones \cup {NoPet}

AllHeard == \A c \in Clients : Heard(con[c])

(* A request that arrives whole is one a handler reads. *)
LEMMA PeticionesAreRead == Peticiones \subseteq Recibibles
BY DEF Recibibles, Truncada

(* So is what is left of a request whose client closed. *)
LEMMA TruncadaIsRead ==
  ASSUME NEW p \in Peticiones \cup {NoPet}, "close" \in Faults
  PROVE  Truncada(p) \subseteq Recibibles \cup {NoPet}
<1>1. CASE p \in Peticiones
  BY <1>1 DEF Recibibles
<1>2. CASE p = NoPet
  BY <1>2 DEF Truncada, NoPet
<1>3. QED
  BY <1>1, <1>2

(* No step makes a connection that is no longer open read anything new. *)
LEMMA HeardKeeps == IInv /\ AllHeard /\ [Next]_vars => AllHeard'
<1> SUFFICES ASSUME IInv, AllHeard, [Next]_vars PROVE AllHeard'
  OBVIOUS
<1> USE DEF traza, registro, ClienteSolo
<1>1. con \in [Clients -> Link]
  BY DEF IInv, TypeOK
<1> DEFINE Same ==
      \A t \in Clients : /\ con'[t].pet = con[t].pet
                         /\ con'[t].peer = "abierto" => con[t].peer = "abierto"
<1>2. Same => AllHeard'
  BY DEF AllHeard, Heard
<1>3. CASE Principal \/ NoAcepta \/ Despierta \/ Muere \/ Reinicia \/ UNCHANGED vars
  <2>1. con' = con
    BY <1>3 DEF Principal, Acepta, CreaHilo, EsperaCopiado, NoAcepta, Despierta, Muere,
                Reinicia, vars
  <2>2. QED
    BY <1>2, <2>1
<1>4. ASSUME NEW c \in Clients, Llega(c) PROVE AllHeard'
  <2>1. PICK p \in Peticiones : con' = [con EXCEPT ![c] = Nueva(p)]
    BY <1>4 DEF Llega
  <2>2. Heard(Nueva(p))
    BY PeticionesAreRead DEF Heard, Nueva
  <2>3. QED
    BY <1>1, <2>1, <2>2 DEF AllHeard
<1>5. ASSUME NEW c \in Clients, Abandona(c) PROVE AllHeard'
  <2>1. con[c].pet \in Peticiones \cup {NoPet} /\ "close" \in Faults
    BY <1>5 DEF Abandona, Vivo, AllHeard, Heard
  <2>2. con[c].enviado \in {0, 1, 2}
    BY <1>1 DEF Link
  <2>3. PICK p \in {NoPet, con[c].pet} \cup Truncada(con[c].pet) :
          con' = [con EXCEPT ![c] = [peer |-> "cerrado", enviado |-> 2, pet |-> p,
                                     ack |-> @.ack, debe |-> @.debe]]
    BY <1>5, <2>2 DEF Abandona
  <2>4. p \in Recibibles \cup {NoPet}
    BY <2>1, <2>3, TruncadaIsRead, PeticionesAreRead
  <2>5. Heard(con'[c]) /\ \A t \in Clients \ {c} : con'[t] = con[t]
    BY <1>1, <2>3, <2>4 DEF Heard
  <2>6. QED
    BY <2>5 DEF AllHeard
<1>6. ASSUME NEW c \in Clients, Cliente(c) \/ Corta(c) PROVE AllHeard'
  <2>1. Same
    BY <1>1, <1>6 DEF Cliente, Envia, Confirma, Corta, Link
  <2>2. QED
    BY <1>2, <2>1
<1>7. ASSUME NEW c \in Clients, TratarMensaje(c) PROVE AllHeard'
  <2>1. ASSUME NEW t, Manda(t, TRUE) \/ Manda(t, FALSE) \/ Manda(t, EsListado(c)) \/ NoManda(t)
                      \/ Confirmado(t) \/ SinConfirmar(t)
        PROVE  Same
    BY <1>1, <2>1 DEF Manda, NoManda, Confirmado, SinConfirmar, Link
  <2>2. CASE con' = con
    BY <1>2, <2>2
  <2>3. CASE \/ Responde(c) \/ EsperaConfirmacion(c) \/ MandaCuenta(c) \/ MandaLinea(c)
             \/ EsperaConfLinea(c) \/ MandaArchivo(c)
    BY <1>2, <2>1, <2>2, <2>3 DEF Responde, EsperaConfirmacion, MandaCuenta, MandaLinea,
                                  EsperaConfLinea, MandaArchivo
  <2>4. CASE \/ LeeSocket(c) \/ Bloquea(c) \/ LeeOperacion(c) \/ AbreRpc(c)
             \/ LeeArgumentos(c) \/ Comprueba(c) \/ Actua(c) \/ Registra(c)
             \/ Sigpipe(c) \/ Termina(c) \/ Cierra(c)
    BY <2>2, <2>4 DEF LeeSocket, Bloquea, LeeOperacion, AbreRpc, LeeArgumentos, Comprueba,
                      Actua, Registra, Sigpipe, Termina, Cierra
  <2>5. QED
    BY <1>7, <2>3, <2>4 DEF TratarMensaje
<1>8. QED
  BY <1>3, <1>4, <1>5, <1>6, <1>7 DEF Next

(* All the concurrency of the server is invisible in the registry: whatever *)
(* the interleaving and the faults, each request has its effect in one step *)
(* of module Claves, at the moment its *_serv function writes.              *)
THEOREM Linearizable == Spec => ServesAtomically
<1>1. Init => InitRegistro /\ AllHeard
  BY DEF Init, AllHeard, Heard, Nueva, NoPet
<1>2. IInv /\ AllHeard /\ [Next]_vars => [NextRegistro]_registro
  <2> SUFFICES ASSUME IInv, AllHeard, [Next]_vars
               PROVE  NextRegistro \/ UNCHANGED registro
    OBVIOUS
  <2>1. CASE Reinicia
    BY <2>1 DEF Reinicia, NextRegistro
  <2>2. ASSUME NEW c \in Clients, Actua(c) PROVE NextRegistro
    <3>1. loc[c].sk = c /\ loc[c].visto = disco /\ hilo[c] = "actua"
      BY <2>2 DEF IInv, OwnSocket, NothingStale, Actua, EnSeccion
    <3>2. Serv(disco, con[c].pet)
      BY <2>2, <3>1 DEF Actua
    <3>3. con[c].pet \in Recibibles
      BY <3>2 DEF AllHeard, Heard, Serv, NoPet
    <3>4. main # "caido"
      BY <3>1 DEF IInv, Handshake, Ocupados, EnSeccion
    <3>5. ultima.res # "crash"
      BY <3>4 DEF IInv, NoZombie
    <3>6. QED
      BY <3>2, <3>3, <3>5 DEF NextRegistro, Atiende
  <2>3. ASSUME NEW c \in Clients, Registra(c) PROVE UNCHANGED registro
    BY <2>3 DEF Registra
  <2>4. CASE ~Reinicia /\ \A c \in Clients : ~Actua(c) /\ ~Registra(c)
    BY <2>4, StandStill DEF registro
  <2>5. QED
    BY <2>1, <2>2, <2>3, <2>4
<1>3. QED
  BY <1>1, <1>2, HandOverCorrect, HeardKeeps, PTL DEF Spec, Registro, ServesAtomically

(* So what holds of the registry holds of the server: one line per user at  *)
(* most, and no file or line without what it lies in.                       *)
THEOREM ServerKeepsTheRegistry == Spec => [](UniqueLines /\ NoOrphans)
BY Linearizable, RegistryCorrect, PTL DEF ServesAtomically

(* Nor does the concurrent server lose what nobody asked it to remove, or    *)
(* stand without its list, when requests arrive with the name of a user.     *)
THEOREM ServerLosesNothing ==
  ASSUME ConNombre PROVE /\ Spec => NothingLost
                         /\ "disk" \notin Faults => (Spec => []ListReady)
<1>1. Spec => NothingLost
  BY Linearizable, LosesNothing, PTL DEF ServesAtomically
<1>2. ASSUME "disk" \notin Faults PROVE Spec => []ListReady
  BY <1>2, Linearizable, ListIsReady, PTL DEF ServesAtomically
<1>3. QED
  BY <1>1, <1>2

(* And what a client is told by it is so, and is about its own user only,    *)
(* when names are no part of one another and nothing fails.                  *)
THEOREM ServerTellsTheTruth ==
  ASSUME ConNombre, NombresAparte, SinFallos
  PROVE  Spec => Isolation /\ ErrorHasNoEffect /\ CodesMeanWhatTheClientPrints
BY Linearizable, UsersAreIsolated, RefusedMeansUntouched, CodesAreTrue, PTL DEF ServesAtomically
=============================================================================
