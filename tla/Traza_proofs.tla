---------------------------- MODULE Traza_proofs ----------------------------
(***************************************************************************)
(* What the clients and the RPC server get to see of the server: codes,    *)
(* the order of the log, and why the process may end.                      *)
(***************************************************************************)
EXTENDS Servidor_proofs

(* The points of a thread before its request has been served, the point     *)
(* after that and before the RPC call, and the one before the answer.       *)
Antes == {"no", "cola", "aceptada", "nace", "arranca", "leeOp", "rpcAbre", "leeArgs",
          "comprueba", "actua"}

Servida(c, code) == \E i \in DOMAIN hist : hist[i] = [cl |-> c, res |-> code]
Anotada(c) == \E i \in DOMAIN log : log[i] = c

(* A connection is in hist once, and only after it has been served; a code   *)
(* sent is the one in hist.                                                 *)
HistInv ==
  /\ \A i, j \in DOMAIN hist : hist[i].cl = hist[j].cl => i = j
  /\ \A c \in Clients : hilo[c] \in Antes => \A i \in DOMAIN hist : hist[i].cl # c
  /\ \A c \in Clients : hilo[c] \in {"rpc", "responde"} => Servida(c, loc[c].res)
  /\ \A c \in Clients : resp[c] # "none" => Servida(c, resp[c])

(* The log follows hist; only the last request served may be missing from   *)
(* it and still come.                                                       *)
LogInv ==
  /\ \A i \in DOMAIN log : \E k \in DOMAIN hist : hist[k].cl = log[i]
  /\ \A i, j \in DOMAIN log : i < j =>
       \E k, l \in DOMAIN hist : k < l /\ hist[k].cl = log[i] /\ hist[l].cl = log[j]
  /\ \A c \in Clients : hilo[c] = "rpc" =>
       /\ Len(hist) \in DOMAIN hist /\ hist[Len(hist)].cl = c
       /\ ~Anotada(c)
  /\ \A c \in Clients : hilo[c] = "responde" => Anotada(c)
  /\ \A c \in Clients : resp[c] # "none" => Anotada(c)

TInv == HistInv /\ LogInv

(* A step that shows nothing and serves nobody. *)
Callada ==
  /\ UNCHANGED traza
  /\ \A c \in Clients :
       /\ hilo'[c] \in Antes => hilo[c] \in Antes
       /\ hilo'[c] \in {"rpc", "responde"} =>
            hilo'[c] = hilo[c] /\ loc'[c].res = loc[c].res

LEMMA CalladaKeeps == TInv /\ Callada => TInv'
BY DEF TInv, HistInv, LogInv, Callada, traza, Servida, Anotada

(* The clients, the network, main, and the end of the process. *)
LEMMA OthersAreQuiet ==
  ASSUME IInv,
         \/ Principal \/ NoAcepta \/ Despierta \/ Muere \/ Reinicia \/ UNCHANGED vars
         \/ \E c \in Clients : Cliente(c) \/ Llega(c) \/ Abandona(c) \/ Corta(c) \/ Sigpipe(c)
  PROVE  Callada
<1> USE DEF traza, Antes
<1>1. hilo \in [Clients -> Lugares]
  BY DEF IInv, TypeOK
<1>2. CASE UNCHANGED <<hilo, loc, traza>>
  BY <1>2 DEF Callada
<1>3. CASE NoAcepta \/ Despierta \/ Reinicia \/ EsperaCopiado \/ UNCHANGED vars
  BY <1>2, <1>3 DEF NoAcepta, Despierta, Reinicia, EsperaCopiado, vars
<1>4. ASSUME NEW c \in Clients, Cliente(c) \/ Abandona(c) \/ Corta(c) PROVE Callada
  BY <1>2, <1>4 DEF Cliente, Envia, Confirma, Abandona, Corta, ClienteSolo
<1>5. ASSUME NEW c \in Clients, Llega(c) PROVE Callada
  BY <1>1, <1>5 DEF Llega, Callada
<1>6. ASSUME NEW c \in Clients, Acepta(c) PROVE Callada
  BY <1>1, <1>6 DEF Acepta, Callada
<1>7. CASE CreaHilo
  <2>1. hilo[sc] = "aceptada"
    BY <1>7 DEF CreaHilo, IInv, Handshake
  <2>2. QED
    BY <1>1, <1>7, <2>1 DEF CreaHilo, Callada
<1>8. ASSUME NEW c \in Clients, Muere \/ Sigpipe(c) PROVE Callada
  BY <1>1, <1>8 DEF Muere, Sigpipe, Fallece, Callada
<1>9. CASE Muere
  BY <1>1, <1>9 DEF Muere, Fallece, Callada
<1>10. QED
  BY <1>3, <1>4, <1>5, <1>6, <1>7, <1>8, <1>9 DEF Principal

(* The steps of a thread other than serving, calling the RPC server and     *)
(* answering.                                                               *)
LEMMA ThreadIsQuiet ==
  ASSUME IInv, NEW c \in Clients,
         \/ LeeSocket(c) \/ Bloquea(c) \/ LeeOperacion(c) \/ AbreRpc(c) \/ LeeArgumentos(c)
         \/ Comprueba(c) \/ EsperaConfirmacion(c) \/ MandaCuenta(c) \/ MandaLinea(c)
         \/ EsperaConfLinea(c) \/ MandaArchivo(c) \/ Termina(c) \/ Cierra(c)
  PROVE  Callada
<1> USE DEF traza, Antes
<1>1. hilo \in [Clients -> Lugares] /\ loc \in [Clients -> Stack]
  BY DEF IInv, TypeOK
<1>2. CASE LeeSocket(c)
  BY <1>1, <1>2 DEF LeeSocket, A, Callada, Stack
<1>3. CASE \/ Bloquea(c) \/ LeeOperacion(c) \/ AbreRpc(c) \/ LeeArgumentos(c)
  BY <1>1, <1>3 DEF Bloquea, LeeOperacion, AbreRpc, LeeArgumentos, A, Vuelve, Callada
<1>4. CASE Comprueba(c)
  BY <1>1, <1>4 DEF Comprueba, A, Callada, Stack
<1>5. CASE EsperaConfirmacion(c) \/ MandaCuenta(c) \/ EsperaConfLinea(c)
  BY <1>1, <1>5 DEF EsperaConfirmacion, MandaCuenta, EsperaConfLinea, A, Vuelve, Callada
<1>6. CASE MandaLinea(c)
  BY <1>1, <1>6 DEF MandaLinea, A, Vuelve, Callada, Stack
<1>7. CASE MandaArchivo(c)
  BY <1>1, <1>7 DEF MandaArchivo, A, Vuelve, Callada, Stack
<1>8. CASE Termina(c) \/ Cierra(c)
  BY <1>1, <1>8 DEF Termina, Cierra, A, Callada
<1>9. QED
  BY <1>2, <1>3, <1>4, <1>5, <1>6, <1>7, <1>8

(* Only one thread at a time serves, calls and answers. *)
LEMMA Alone ==
  ASSUME IInv, NEW c \in Clients, hilo[c] \in {"actua", "rpc", "responde"}
  PROVE  /\ loc[c].sk = c
         /\ \A t \in Clients \ {c} : hilo[t] \notin {"rpc", "responde"}
BY DEF IInv, OwnSocket, LockHeld, EnSeccion

(* What an appended sequence holds. *)
LEMMA AppendHolds ==
  ASSUME NEW S, NEW s \in Seq(S), NEW e \in S
  PROVE  /\ Append(s, e) \in Seq(S)
         /\ Len(Append(s, e)) = Len(s) + 1
         /\ DOMAIN s = 1..Len(s) /\ Len(s) \in Nat
         /\ DOMAIN Append(s, e) = 1..(Len(s) + 1)
         /\ \A i \in DOMAIN s : i \in DOMAIN Append(s, e) /\ Append(s, e)[i] = s[i]
         /\ Append(s, e)[Len(s) + 1] = e
         /\ \A i \in DOMAIN Append(s, e) : i \in DOMAIN s \/ i = Len(s) + 1
BY AppendProperties

(* Serving adds the request of a connection that was not in hist. *)
LEMMA ActuaKeepsT ==
  ASSUME IInv, TInv, NEW c \in Clients, Actua(c), IInv'
  PROVE  TInv'
<1> USE DEF Antes
<1>1. hilo \in [Clients -> Lugares] /\ loc \in [Clients -> Stack] /\ hilo[c] = "actua"
  BY DEF IInv, TypeOK, Actua
<1>2. /\ loc[c].sk = c
      /\ \A t \in Clients \ {c} : hilo[t] \notin {"rpc", "responde"}
  BY <1>1, Alone
<1>3. CASE ultima'.res = "crash"
  <2>1. UNCHANGED <<hist, log, resp, loc>> /\ Fallece
    BY <1>3 DEF Actua
  <2>2. Callada
    BY <1>1, <2>1 DEF Callada, Fallece, traza
  <2>3. QED
    BY <2>2, CalladaKeeps
<1>4. CASE ultima'.res # "crash"
  <2> DEFINE e == [cl |-> c, res |-> ultima'.res]
             S == [cl : Clients \cup {Nadie}, res : Codes]
  <2>1. /\ hist' = Append(hist, e)
        /\ UNCHANGED <<log, resp>>
        /\ hilo' = [hilo EXCEPT ![c] = "rpc"]
        /\ loc' = [loc EXCEPT ![c].res = ultima'.res, ![c].n = ultima'.n]
    BY <1>2, <1>4 DEF Actua, A
  <2>2. hist \in Seq(S) /\ e \in S
    BY DEF IInv, TypeOK, TreeOK, Reply
  <2> HIDE DEF e, S
  <2>3. /\ Len(hist') = Len(hist) + 1 /\ Len(hist) \in Nat
        /\ DOMAIN hist = 1..Len(hist) /\ DOMAIN hist' = 1..(Len(hist) + 1)
        /\ \A i \in DOMAIN hist : i \in DOMAIN hist' /\ hist'[i] = hist[i]
        /\ hist'[Len(hist) + 1] = e
        /\ \A i \in DOMAIN hist' : i \in DOMAIN hist \/ i = Len(hist) + 1
    BY <2>1, <2>2, AppendHolds
  <2>4. e.cl = c /\ e = [cl |-> c, res |-> ultima'.res]
    BY DEF e
  <2>5. \A i \in DOMAIN hist : hist[i].cl # c
    BY <1>1 DEF TInv, HistInv
  <2>6. loc'[c].res = ultima'.res
    BY <1>1, <2>1 DEF Stack
  <2>7. \A t \in Clients \ {c} : hilo'[t] = hilo[t] /\ loc'[t] = loc[t]
    BY <1>1, <2>1
  <2>8. HistInv'
    <3>1. \A i, j \in DOMAIN hist' : hist'[i].cl = hist'[j].cl => i = j
      BY <2>3, <2>4, <2>5 DEF TInv, HistInv
    <3>2. \A t \in Clients : hilo'[t] \in Antes => \A i \in DOMAIN hist' : hist'[i].cl # t
      BY <1>1, <2>1, <2>3, <2>4, <2>7 DEF TInv, HistInv
    <3>3. \A t \in Clients : hilo'[t] \in {"rpc", "responde"} => Servida(t, loc[t].res)'
      BY <1>2, <2>3, <2>4, <2>6, <2>7 DEF Servida
    <3>4. \A t \in Clients : resp'[t] # "none" => Servida(t, resp[t])'
      BY <2>1, <2>3 DEF Servida, TInv, HistInv
    <3>5. QED
      BY <3>1, <3>2, <3>3, <3>4 DEF HistInv
  <2>9. LogInv'
    <3>1. \A i \in DOMAIN log' : \E k \in DOMAIN hist' : hist'[k].cl = log'[i]
      BY <2>1, <2>3 DEF TInv, LogInv
    <3>2. \A i, j \in DOMAIN log' : i < j =>
            \E k, l \in DOMAIN hist' : k < l /\ hist'[k].cl = log'[i] /\ hist'[l].cl = log'[j]
      <4>1. SUFFICES ASSUME NEW i \in DOMAIN log, NEW j \in DOMAIN log, i < j
                     PROVE  \E k, l \in DOMAIN hist' :
                              k < l /\ hist'[k].cl = log[i] /\ hist'[l].cl = log[j]
        BY <2>1
      <4>2. PICK k, l \in DOMAIN hist : k < l /\ hist[k].cl = log[i] /\ hist[l].cl = log[j]
        BY <4>1 DEF TInv, LogInv
      <4>3. QED
        BY <2>3, <4>2
    <3>3. ~Anotada(c)'
      BY <2>1, <2>5 DEF Anotada, TInv, LogInv
    <3>4. Len(hist') \in DOMAIN hist' /\ hist'[Len(hist')].cl = c
      BY <2>3, <2>4
    <3>5. \A t \in Clients : resp'[t] # "none" => Anotada(t)'
      BY <2>1 DEF Anotada, TInv, LogInv
    <3>6. QED
      BY <1>1, <1>2, <2>1, <2>7, <3>1, <3>2, <3>3, <3>4, <3>5 DEF LogInv
  <2>10. QED
    BY <2>8, <2>9 DEF TInv
<1>5. QED
  BY <1>3, <1>4

(* The call of the RPC server adds the last request served to the log, or   *)
(* the thread returns early.                                                *)
LEMMA RegistraKeepsT ==
  ASSUME IInv, TInv, NEW c \in Clients, Registra(c)
  PROVE  TInv'
<1> USE DEF Antes
<1>1. hilo \in [Clients -> Lugares] /\ hilo[c] = "rpc" /\ UNCHANGED <<loc, hist, resp>>
  BY DEF IInv, TypeOK, Registra
<1>2. /\ loc[c].sk = c
      /\ \A t \in Clients \ {c} : hilo[t] \notin {"rpc", "responde"}
  BY <1>1, Alone
<1>3. hilo' \in {[hilo EXCEPT ![c] = "responde"], [hilo EXCEPT ![c] = "muerto"]}
  BY DEF Registra, A, Vuelve
<1>4. HistInv'
  BY <1>1, <1>3 DEF TInv, HistInv, Servida
<1>5. CASE log' = log /\ hilo' = [hilo EXCEPT ![c] = "muerto"]
  BY <1>1, <1>4, <1>5 DEF TInv, LogInv, Anotada
<1>6. CASE log' = Impresa(c)
  <2>1. log \in Seq(Clients \cup {Nadie}) /\ log' = Append(log, c)
    BY <1>2, <1>6 DEF IInv, TypeOK, Impresa
  <2>2. /\ Len(log) \in Nat /\ DOMAIN log = 1..Len(log) /\ DOMAIN log' = 1..(Len(log) + 1)
        /\ \A i \in DOMAIN log : i \in DOMAIN log' /\ log'[i] = log[i]
        /\ log'[Len(log) + 1] = c
        /\ \A i \in DOMAIN log' : i \in DOMAIN log \/ i = Len(log) + 1
    <3> c \in Clients \cup {Nadie}
      OBVIOUS
    <3> QED
      BY <2>1, AppendHolds
  <2>3. Len(hist) \in DOMAIN hist /\ hist[Len(hist)].cl = c /\ ~Anotada(c)
    BY <1>1 DEF TInv, LogInv
  <2>4. hist \in Seq([cl : Clients \cup {Nadie}, res : Codes])
    BY DEF IInv, TypeOK
  <2>5. \A i \in DOMAIN log' : \E k \in DOMAIN hist' : hist'[k].cl = log'[i]
    BY <1>1, <2>2, <2>3 DEF TInv, LogInv
  <2>6. ASSUME NEW i \in DOMAIN log', NEW j \in DOMAIN log', i < j
        PROVE  \E k, l \in DOMAIN hist' : k < l /\ hist'[k].cl = log'[i] /\ hist'[l].cl = log'[j]
    <3>1. i \in DOMAIN log /\ log'[i] = log[i]
      BY <2>2, <2>6
    <3>2. CASE j \in DOMAIN log
      BY <1>1, <2>2, <2>6, <3>1, <3>2 DEF TInv, LogInv
    <3>3. CASE j = Len(log) + 1
      <4>1. PICK k \in DOMAIN hist : hist[k].cl = log[i]
        BY <3>1 DEF TInv, LogInv
      <4>2. log[i] # c
        BY <2>3, <3>1 DEF Anotada
      <4>3. k # Len(hist) /\ k \in 1..Len(hist)
        BY <2>3, <2>4, <4>1, <4>2
      <4>4. k < Len(hist)
        BY <2>4, <4>3
      <4>5. QED
        BY <1>1, <2>2, <2>3, <3>1, <3>3, <4>1, <4>4
    <3>4. QED
      BY <2>2, <3>2, <3>3
  <2>7. Anotada(c)'
    BY <2>2 DEF Anotada
  <2>8. \A t \in Clients : Anotada(t) => Anotada(t)'
    BY <2>2 DEF Anotada
  <2>9. \A t \in Clients : hilo'[t] # "rpc" /\ (hilo'[t] = "responde" => t = c)
    BY <1>1, <1>2, <1>3
  <2>10. LogInv'
    BY <1>1, <2>5, <2>6, <2>7, <2>8, <2>9 DEF TInv, LogInv
  <2>11. QED
    BY <1>4, <2>10 DEF TInv
<1>7. QED
  BY <1>5, <1>6 DEF Registra, A, Vuelve

(* The answer carries the code the request was served with. *)
LEMMA RespondeKeepsT ==
  ASSUME IInv, TInv, NEW c \in Clients, Responde(c)
  PROVE  TInv'
<1> USE DEF Antes
<1>1. /\ hilo \in [Clients -> Lugares] /\ resp \in [Clients -> Codes]
      /\ hilo[c] = "responde" /\ UNCHANGED <<loc, hist, log>>
  BY DEF IInv, TypeOK, Responde
<1>2. /\ loc[c].sk = c
      /\ \A t \in Clients \ {c} : hilo[t] \notin {"rpc", "responde"}
  BY <1>1, Alone
<1>3. \E l \in {"conf", "fin", "muerto"} : hilo' = [hilo EXCEPT ![c] = l]
  BY DEF Responde, A, Vuelve
<1>4. resp' \in {resp, [resp EXCEPT ![c] = loc[c].res]}
  BY <1>2 DEF Responde
<1>5. Servida(c, loc[c].res) /\ Anotada(c)
  BY <1>1 DEF TInv, HistInv, LogInv
<1>6. \A t, r : (Servida(t, r) <=> Servida(t, r)') /\ (Anotada(t) <=> Anotada(t)')
  BY <1>1 DEF Servida, Anotada
<1>7. \A t \in Clients : resp'[t] # "none" => Servida(t, resp[t])' /\ Anotada(t)'
  BY <1>1, <1>4, <1>5 DEF Servida, Anotada, TInv, HistInv, LogInv
<1>8. \A t \in Clients : /\ hilo'[t] \notin {"rpc", "responde"}
                         /\ hilo'[t] \in Antes => hilo[t] \in Antes
  BY <1>1, <1>2, <1>3
<1>9. QED
  BY <1>1, <1>7, <1>8 DEF TInv, HistInv, LogInv

LEMMA TStepKeeps == IInv /\ IInv' /\ TInv /\ [Next]_vars => TInv'
<1> SUFFICES ASSUME IInv, IInv', TInv, [Next]_vars PROVE TInv'
  OBVIOUS
<1>1. CASE \/ Principal \/ NoAcepta \/ Despierta \/ Muere \/ Reinicia \/ UNCHANGED vars
           \/ \E c \in Clients : Cliente(c) \/ Llega(c) \/ Abandona(c) \/ Corta(c) \/ Sigpipe(c)
  BY <1>1, OthersAreQuiet, CalladaKeeps
<1>2. ASSUME NEW c \in Clients, TratarMensaje(c) PROVE TInv'
  <2>1. CASE Actua(c)
    BY <2>1, ActuaKeepsT
  <2>2. CASE Registra(c)
    BY <2>2, RegistraKeepsT
  <2>3. CASE Responde(c)
    BY <2>3, RespondeKeepsT
  <2>4. CASE \/ LeeSocket(c) \/ Bloquea(c) \/ LeeOperacion(c) \/ AbreRpc(c) \/ LeeArgumentos(c)
             \/ Comprueba(c) \/ EsperaConfirmacion(c) \/ MandaCuenta(c) \/ MandaLinea(c)
             \/ EsperaConfLinea(c) \/ MandaArchivo(c) \/ Termina(c) \/ Cierra(c)
    BY <2>4, ThreadIsQuiet, CalladaKeeps
  <2>5. CASE Sigpipe(c)
    BY <1>1, <2>5
  <2>6. QED
    BY <1>2, <2>1, <2>2, <2>3, <2>4, <2>5 DEF TratarMensaje
<1>3. QED
  BY <1>1, <1>2 DEF Next

LEMMA TraceCorrect == Spec => []TInv
<1>1. Init => TInv
  BY DEF Init, TInv, HistInv, LogInv
<1>2. QED
  BY <1>1, HandOverCorrect, TStepKeeps, PTL DEF Spec

(* No connection is served twice, and the code sent on it is the one its    *)
(* own request was served with, for any number of connections and faults.   *)
THEOREM ServedOnceEach == Spec => []ServedOnce
<1>1. TInv => ServedOnce
  BY DEF TInv, HistInv, ServedOnce, Servida
<1>2. QED
  BY <1>1, TraceCorrect, PTL

(* The RPC server prints requests in the order in which they changed the    *)
(* registry, none twice, and all of those that were answered.               *)
THEOREM LogCorrect == Spec => []LogIsFaithful
<1>1. TInv => LogIsFaithful
  BY DEF TInv, LogInv, LogIsFaithful, Anotada
<1>2. QED
  BY <1>1, TraceCorrect, PTL

-----------------------------------------------------------------------------
(* Where a thread lists, and where it has read a whole request. *)
EnListado == {"conf", "cuenta", "lineas", "confLinea", "archivos"}
Leidas    == EnListado \cup {"comprueba", "actua", "rpc", "responde"}

(* After the end of the process nothing moves; only listings are made in     *)
(* several messages, and a request that was read does not change.           *)
MuerteInv ==
  /\ DeathHasACause
  /\ main = "caido" => \A c \in Clients : hilo[c] \in {"no", "fuera", "cortada"}
  /\ \A c \in Clients : hilo[c] \in Leidas => con[c].enviado = 2
  /\ \A c \in Clients : hilo[c] \in EnListado => con[c].pet.op \in Listings

(* A step of a living process in which no request changes. *)
Igual ==
  /\ main # "caido" /\ main' # "caido"
  /\ \A c \in Clients : /\ con'[c].pet = con[c].pet /\ con'[c].enviado = con[c].enviado
                        /\ hilo'[c] \in Leidas => hilo[c] \in Leidas
                        /\ hilo'[c] \in EnListado => hilo[c] \in EnListado

LEMMA IgualKeeps == MuerteInv /\ Igual => MuerteInv'
BY DEF MuerteInv, Igual, DeathHasACause

(* A thread works in a living process only. *)
LEMMA ThreadsLive ==
  ASSUME IInv, NEW c \in Clients, hilo[c] \in EnSeccion \cup {"aceptada", "nace", "arranca"}
  PROVE  main # "caido"
BY DEF IInv, Handshake, Ocupados

(* What a message does to its connection. *)
LEMMA SendsKeep ==
  ASSUME con \in [Clients -> Link], NEW s \in Clients, NEW b,
         Manda(s, b) \/ NoManda(s) \/ Confirmado(s) \/ SinConfirmar(s)
  PROVE  \A t \in Clients : con'[t].pet = con[t].pet /\ con'[t].enviado = con[t].enviado
BY DEF Manda, NoManda, Confirmado, SinConfirmar, Link

LEMMA ClientsKeepM ==
  ASSUME IInv, MuerteInv, NEW c \in Clients,
         Cliente(c) \/ Llega(c) \/ Abandona(c) \/ Corta(c)
  PROVE  MuerteInv'
<1> USE DEF ClienteSolo
<1>1. con \in [Clients -> Link] /\ hilo \in [Clients -> Lugares]
  BY DEF IInv, TypeOK
<1>2. CASE Llega(c)
  <2>1. /\ main # "caido" /\ main' = main /\ hilo[c] = "no"
        /\ hilo' = [hilo EXCEPT ![c] = "cola"]
        /\ \A t \in Clients \ {c} : con'[t] = con[t]
    BY <1>1, <1>2 DEF Llega
  <2>2. QED
    BY <1>1, <2>1 DEF MuerteInv, DeathHasACause, Leidas, EnListado
<1>3. CASE Cliente(c) \/ Abandona(c) \/ Corta(c)
  <2>1. Vivo(c) /\ UNCHANGED <<main, hilo, ultima>>
    BY <1>3 DEF Cliente, Envia, Confirma, Abandona, Corta, registro
  <2>2. main # "caido"
    BY <2>1 DEF Vivo, Fuera, MuerteInv
  <2>3. \A t \in Clients \ {c} : con'[t] = con[t]
    BY <1>1, <1>3 DEF Cliente, Envia, Confirma, Abandona, Corta
  <2>4. con[c].enviado = 2 => con'[c].enviado = 2 /\ con'[c].pet = con[c].pet
    <3>1. CASE Cliente(c) \/ Corta(c)
      BY <1>1, <3>1 DEF Cliente, Envia, Confirma, Corta, Link
    <3>2. CASE Abandona(c)
      BY <1>1, <3>2 DEF Abandona, Link
    <3>3. QED
      BY <1>3, <3>1, <3>2
  <2>5. QED
    BY <2>1, <2>2, <2>3, <2>4 DEF MuerteInv, DeathHasACause, Leidas
<1>4. QED
  BY <1>2, <1>3

LEMMA MainKeepsM ==
  ASSUME IInv, MuerteInv, "kill" \notin Faults,
         Principal \/ NoAcepta \/ Despierta \/ Muere \/ Reinicia \/ UNCHANGED vars
  PROVE  MuerteInv'
<1>1. hilo \in [Clients -> Lugares]
  BY DEF IInv, TypeOK
<1>2. CASE Principal \/ NoAcepta \/ Despierta
  <2>1. UNCHANGED con /\ main # "caido" /\ main' # "caido"
    BY <1>2 DEF Principal, Acepta, CreaHilo, EsperaCopiado, NoAcepta, Despierta
  <2>2. \A c \in Clients : hilo'[c] = hilo[c] \/ hilo'[c] \in {"aceptada", "nace", "huerfana"}
    BY <1>1, <1>2 DEF Principal, Acepta, CreaHilo, EsperaCopiado, NoAcepta, Despierta
  <2>3. QED
    BY <2>1, <2>2, IgualKeeps DEF Igual, Leidas, EnListado
<1>3. CASE Reinicia
  BY <1>3 DEF Reinicia, MuerteInv, DeathHasACause
<1>4. CASE UNCHANGED vars
  BY <1>4 DEF vars, registro, MuerteInv, DeathHasACause
<1>5. ~Muere
  BY DEF Muere
<1>6. QED
  BY <1>2, <1>3, <1>4, <1>5

LEMMA ThreadsKeepM ==
  ASSUME IInv, MuerteInv, NEW c \in Clients, TratarMensaje(c)
  PROVE  MuerteInv'
<1> USE DEF A, Vuelve
<1>1. con \in [Clients -> Link] /\ hilo \in [Clients -> Lugares]
  BY DEF IInv, TypeOK
<1>2. hilo[c] \in EnSeccion \cup {"arranca"} => loc[c].sk = c
  BY DEF IInv, OwnSocket
<1>3. CASE \/ LeeSocket(c) \/ Bloquea(c) \/ LeeOperacion(c) \/ AbreRpc(c) \/ Comprueba(c)
           \/ Registra(c) \/ Termina(c)
  <2>1. UNCHANGED con /\ main # "caido" /\ main' # "caido"
    BY <1>3, ThreadsLive DEF LeeSocket, Bloquea, LeeOperacion, AbreRpc, Comprueba, Registra,
                             Termina, EnSeccion
  <2>2. \A t \in Clients : /\ hilo'[t] \in EnListado => hilo[t] \in EnListado
                           /\ hilo'[t] \in Leidas => hilo[t] \in Leidas
    BY <1>1, <1>3 DEF LeeSocket, Bloquea, LeeOperacion, AbreRpc, Comprueba, Registra, Termina,
                      Leidas, EnListado
  <2>3. QED
    BY <2>1, <2>2, IgualKeeps DEF Igual
<1>4. CASE LeeArgumentos(c)
  <2>1. loc[c].sk = c /\ main # "caido" /\ UNCHANGED <<con, main, ultima>>
    BY <1>2, <1>4, ThreadsLive DEF LeeArgumentos, EnSeccion, registro
  <2>2. \/ hilo' = [hilo EXCEPT ![c] = "comprueba"] /\ con[c].enviado = 2
        \/ \E l \in {"fin", "muerto"} : hilo' = [hilo EXCEPT ![c] = l]
    BY <1>4, <2>1 DEF LeeArgumentos
  <2>3. QED
    BY <1>1, <2>1, <2>2 DEF MuerteInv, DeathHasACause, Leidas, EnListado
<1>5. CASE Actua(c)
  <2>1. UNCHANGED con /\ hilo[c] = "actua"
    BY <1>5 DEF Actua
  <2>2. CASE ultima'.res = "crash"
    <3>1. main' = "caido"
          /\ \A t \in Clients : hilo'[t] = IF hilo[t] \in {"no", "fuera"} THEN hilo[t] ELSE "cortada"
      BY <1>5, <2>2 DEF Actua, Fallece
    <3>2. QED
      BY <2>1, <2>2, <3>1 DEF MuerteInv, DeathHasACause, Leidas, EnListado
  <2>3. CASE ultima'.res # "crash"
    <3>1. UNCHANGED main /\ main # "caido" /\ hilo' = [hilo EXCEPT ![c] = "rpc"]
      BY <1>5, <2>1, <2>3, ThreadsLive DEF Actua, EnSeccion
    <3>2. QED
      BY <1>1, <2>1, <3>1, IgualKeeps DEF Igual, Leidas, EnListado
  <2>4. QED
    BY <2>2, <2>3
<1>6. CASE Responde(c)
  <2>1. loc[c].sk = c /\ hilo[c] = "responde" /\ UNCHANGED main
    BY <1>2, <1>6 DEF Responde, EnSeccion
  <2>2. main # "caido"
    BY <2>1, ThreadsLive DEF EnSeccion
  <2>3. Manda(c, EsListado(c)) \/ NoManda(c)
    BY <1>6, <2>1 DEF Responde
  <2>4. \A t \in Clients : con'[t].pet = con[t].pet /\ con'[t].enviado = con[t].enviado
    BY <1>1, <2>3, SendsKeep
  <2>5. /\ hilo' \in {[hilo EXCEPT ![c] = "conf"], [hilo EXCEPT ![c] = "fin"],
                      [hilo EXCEPT ![c] = "muerto"]}
        /\ hilo' = [hilo EXCEPT ![c] = "conf"] => EsListado(c)
    BY <1>1, <1>6 DEF Responde
  <2>6. EsListado(c) => con[c].pet.op \in Listings
    BY <2>1 DEF EsListado
  <2>7. QED
    BY <1>1, <2>1, <2>2, <2>4, <2>5, <2>6 DEF MuerteInv, DeathHasACause, Leidas, EnListado
<1>7. CASE \/ EsperaConfirmacion(c) \/ MandaCuenta(c) \/ MandaLinea(c) \/ EsperaConfLinea(c)
           \/ MandaArchivo(c)
  <2>1. hilo[c] \in EnListado /\ loc[c].sk = c /\ UNCHANGED main /\ main # "caido"
    BY <1>2, <1>7, ThreadsLive DEF EsperaConfirmacion, MandaCuenta, MandaLinea, EsperaConfLinea,
                                   MandaArchivo, EnListado, EnSeccion
  <2>2. \/ UNCHANGED con
        \/ Manda(c, TRUE) \/ Manda(c, FALSE) \/ NoManda(c) \/ Confirmado(c) \/ SinConfirmar(c)
    BY <1>7, <2>1 DEF EsperaConfirmacion, MandaCuenta, MandaLinea, EsperaConfLinea, MandaArchivo
  <2>3. \A t \in Clients : con'[t].pet = con[t].pet /\ con'[t].enviado = con[t].enviado
    BY <1>1, <2>2, SendsKeep
  <2>4. \A t \in Clients \ {c} : hilo'[t] = hilo[t]
    BY <1>1, <1>7 DEF EsperaConfirmacion, MandaCuenta, MandaLinea, EsperaConfLinea, MandaArchivo
  <2>5. QED
    BY <2>1, <2>3, <2>4, IgualKeeps DEF Igual, Leidas
<1>8. CASE Sigpipe(c)
  <2>1. /\ hilo[c] \in EnListado /\ con[c].peer = "roto" /\ UNCHANGED <<con, ultima>>
        /\ main' = "caido"
        /\ \A t \in Clients : hilo'[t] = IF hilo[t] \in {"no", "fuera"} THEN hilo[t] ELSE "cortada"
    BY <1>2, <1>8 DEF Sigpipe, Fallece, EnListado, EnSeccion, registro
  <2>2. QED
    BY <2>1 DEF MuerteInv, DeathHasACause, Leidas, EnListado
<1>9. CASE Cierra(c)
  <2>1. hilo[c] = "cierra" /\ hilo' = [hilo EXCEPT ![c] = "fuera"] /\ UNCHANGED <<con, main, ultima>>
    BY <1>9 DEF Cierra, registro
  <2>2. QED
    BY <1>1, <2>1 DEF MuerteInv, DeathHasACause, Leidas, EnListado
<1>10. QED
  BY <1>3, <1>4, <1>5, <1>6, <1>7, <1>8, <1>9 DEF TratarMensaje

(* When nobody kills it the server ends for two reasons only: a request in  *)
(* whose course the process crashes, or a listing whose client has gone and *)
(* whose connection was reset.                                              *)
THEOREM DeathsHaveACause ==
  ASSUME "kill" \notin Faults PROVE Spec => []DeathHasACause
<1>1. Init => MuerteInv
  BY DEF Init, MuerteInv, DeathHasACause, Leidas, EnListado
<1>2. IInv /\ MuerteInv /\ [Next]_vars => MuerteInv'
  BY ClientsKeepM, MainKeepsM, ThreadsKeepM DEF Next
<1>3. MuerteInv => DeathHasACause
  BY DEF MuerteInv
<1>4. QED
  BY <1>1, <1>2, <1>3, HandOverCorrect, PTL DEF Spec
=============================================================================
