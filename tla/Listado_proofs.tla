--------------------------- MODULE Listado_proofs ---------------------------
(***************************************************************************)
(* A listing of the server is of the registry as it was counted: nothing   *)
(* changes between the count and the last line, whatever the client does.  *)
(***************************************************************************)
EXTENDS Traza_proofs

(* What was counted for c is still so. *)
Anunciada(c) ==
  /\ con[c].pet.op = "LIST_USERS" =>
       ListFile \in disco.files /\ loc[c].n = Cardinality(disco.lines)
  /\ con[c].pet.op = "LIST_CONTENT" => loc[c].n = Cardinality(Own(disco, con[c].pet.arg))

Contada(c) ==
  /\ hilo[c] \in Leidas => con[c].enviado = 2
  /\ hilo[c] \in EnListado => con[c].pet.op \in Listings
  /\ hilo[c] \in Antes \cup {"rpc", "responde", "conf", "cuenta"} => loc[c].env = 0
  /\ hilo[c] \in {"rpc", "responde"} \cup EnListado /\ loc[c].res = "0" => Anunciada(c)
  /\ hilo[c] \in {"lineas", "confLinea"} => con[c].pet.op = "LIST_USERS" /\ loc[c].res = "0"
  /\ hilo[c] = "lineas" => loc[c].env < loc[c].n
  /\ hilo[c] = "archivos" =>
       con[c].pet.op = "LIST_CONTENT" /\ (loc[c].res = "0" => loc[c].env <= loc[c].n)

ListadoInv == \A c \in Clients : Contada(c)

(* A thread that stays where it is, in a tree that stays what it is. *)
Quieta(c) ==
  /\ hilo'[c] = hilo[c] /\ loc'[c] = loc[c]
  /\ con[c].enviado = 2 => con'[c].enviado = 2 /\ con'[c].pet = con[c].pet
  /\ disco' = disco \/ hilo[c] \notin Leidas

LEMMA QuietaKeeps ==
  ASSUME NEW c \in Clients, Contada(c), Quieta(c) PROVE Contada(c)'
<1>1. CASE hilo[c] \in Leidas
  <2>1. con'[c].enviado = 2 /\ con'[c].pet = con[c].pet /\ disco' = disco
    BY <1>1 DEF Contada, Quieta
  <2>2. Anunciada(c) => Anunciada(c)'
    BY <2>1 DEF Anunciada, Quieta
  <2>3. QED
    BY <2>1, <2>2 DEF Contada, Quieta
<1>2. CASE hilo[c] \notin Leidas
  BY <1>2 DEF Contada, Quieta, Leidas, EnListado
<1>3. QED
  BY <1>1, <1>2

(* A thread that goes to where no request has been read. *)
LEMMA SinLeerKeeps ==
  ASSUME NEW c \in Clients, Contada(c), hilo'[c] \notin Leidas, loc'[c].env = loc[c].env,
         hilo'[c] \in Antes => hilo[c] \in Antes
  PROVE  Contada(c)'
BY DEF Contada, Leidas, EnListado

-----------------------------------------------------------------------------
LEMMA ClientsKeepL ==
  ASSUME IInv, ListadoInv, NEW c \in Clients,
         Cliente(c) \/ Llega(c) \/ Abandona(c) \/ Corta(c)
  PROVE  ListadoInv'
<1> USE DEF ClienteSolo, registro
<1>1. con \in [Clients -> Link] /\ hilo \in [Clients -> Lugares]
  BY DEF IInv, TypeOK
<1>2. CASE Llega(c)
  <2>1. /\ hilo[c] = "no" /\ hilo' = [hilo EXCEPT ![c] = "cola"] /\ UNCHANGED <<disco, loc>>
        /\ \A t \in Clients \ {c} : con'[t] = con[t]
    BY <1>1, <1>2 DEF Llega
  <2>2. Contada(c)'
    BY <1>1, <2>1, SinLeerKeeps DEF ListadoInv, Leidas, EnListado, Antes
  <2>3. \A t \in Clients \ {c} : Contada(t)'
    BY <1>1, <2>1, QuietaKeeps DEF ListadoInv, Quieta
  <2>4. QED
    BY <2>2, <2>3 DEF ListadoInv
<1>3. CASE Cliente(c) \/ Abandona(c) \/ Corta(c)
  <2>1. UNCHANGED <<disco, hilo, loc>>
    BY <1>3 DEF Cliente, Envia, Confirma, Abandona, Corta
  <2>2. \A t \in Clients \ {c} : con'[t] = con[t]
    BY <1>1, <1>3 DEF Cliente, Envia, Confirma, Abandona, Corta
  <2>3. con[c].enviado = 2 => con'[c].enviado = 2 /\ con'[c].pet = con[c].pet
    <3>1. CASE Cliente(c) \/ Corta(c)
      BY <1>1, <3>1 DEF Cliente, Envia, Confirma, Corta, Link
    <3>2. CASE Abandona(c)
      BY <1>1, <3>2 DEF Abandona, Link
    <3>3. QED
      BY <1>3, <3>1, <3>2
  <2>4. \A t \in Clients : Quieta(t)
    BY <2>1, <2>2, <2>3 DEF Quieta
  <2>5. QED
    BY <2>4, QuietaKeeps DEF ListadoInv
<1>4. QED
  BY <1>2, <1>3

LEMMA MainKeepsL ==
  ASSUME IInv, ListadoInv,
         Principal \/ NoAcepta \/ Despierta \/ Muere \/ Reinicia \/ UNCHANGED vars
  PROVE  ListadoInv'
<1> USE DEF registro
<1>1. hilo \in [Clients -> Lugares]
  BY DEF IInv, TypeOK
<1>2. UNCHANGED <<loc, con>>
  BY DEF Principal, Acepta, CreaHilo, EsperaCopiado, NoAcepta, Despierta, Muere, Reinicia, vars
<1>3. CASE \/ (\E c \in Clients : Acepta(c)) \/ CreaHilo \/ Muere
  <2>1. UNCHANGED disco
    BY <1>3 DEF Acepta, CreaHilo, Muere
  <2>2. CASE CreaHilo
    <3>1. hilo[sc] = "aceptada"
      BY <2>2 DEF CreaHilo, IInv, Handshake
    <3>2. \A t \in Clients : \/ hilo'[t] = hilo[t]
                             \/ hilo[t] = "aceptada" /\ hilo'[t] \in {"nace", "huerfana"}
      BY <1>1, <2>2, <3>1 DEF CreaHilo
    <3>3. QED
      BY <1>2, <2>1, <3>2, QuietaKeeps, SinLeerKeeps
         DEF Quieta, ListadoInv, Leidas, EnListado, Antes
  <2>3. CASE Muere \/ \E c \in Clients : Acepta(c)
    <3>1. \A t \in Clients : \/ hilo'[t] = hilo[t]
                             \/ hilo'[t] = "cortada"
                             \/ hilo[t] = "cola" /\ hilo'[t] = "aceptada"
      BY <1>1, <2>3 DEF Muere, Fallece, Acepta
    <3>2. QED
      BY <1>2, <2>1, <3>1, QuietaKeeps, SinLeerKeeps
         DEF Quieta, ListadoInv, Leidas, EnListado, Antes
  <2>4. QED
    BY <1>3, <2>2, <2>3
<1>4. CASE EsperaCopiado \/ NoAcepta \/ Despierta \/ UNCHANGED vars
  <2>1. UNCHANGED <<disco, hilo>>
    BY <1>4 DEF EsperaCopiado, NoAcepta, Despierta, vars
  <2>2. QED
    BY <1>2, <2>1, QuietaKeeps DEF Quieta, ListadoInv
<1>5. CASE Reinicia
  <2>1. UNCHANGED hilo /\ \A t \in Clients : hilo[t] \notin EnSeccion
    BY <1>5 DEF Reinicia, IInv, Handshake, Ocupados
  <2>2. \A t \in Clients : hilo[t] \notin Leidas
    BY <2>1 DEF Leidas, EnListado, EnSeccion
  <2>3. QED
    BY <1>2, <2>1, <2>2, QuietaKeeps DEF Quieta, ListadoInv
<1>6. QED
  BY <1>3, <1>4, <1>5 DEF Principal

-----------------------------------------------------------------------------
(* The threads but c, when c makes a step. *)
LEMMA TheRestKeep ==
  ASSUME IInv, ListadoInv, NEW c \in Clients,
         hilo[c] \in EnSeccion \/ UNCHANGED disco,
         \A t \in Clients \ {c} : /\ hilo'[t] = hilo[t] /\ loc'[t] = loc[t]
                                  /\ con'[t].pet = con[t].pet /\ con'[t].enviado = con[t].enviado,
         Contada(c)'
  PROVE  ListadoInv'
<1>1. hilo[c] \in EnSeccion => \A t \in Clients \ {c} : hilo[t] \notin Leidas
  BY DEF IInv, LockHeld, EnSeccion, Leidas, EnListado
<1>2. \A t \in Clients \ {c} : Quieta(t)
  BY <1>1 DEF Quieta
<1>3. QED
  BY <1>2, QuietaKeeps DEF ListadoInv

(* What the two listings count. *)
LEMMA ListingsCount ==
  ASSUME NEW s, NEW p, Serv(s, p), ultima'.res = "0"
  PROVE  /\ p.op = "LIST_USERS" =>
              UNCHANGED disco /\ ListFile \in s.files /\ ultima'.n = Cardinality(s.lines)
         /\ p.op = "LIST_CONTENT" => UNCHANGED disco /\ ultima'.n = Cardinality(Own(s, p.arg))
<1>1. ASSUME NEW code, NEW count, Result(p, code, count)
      PROVE  ultima'.res = code /\ ultima'.n = count
  BY <1>1 DEF Result
<1>2. CASE p.op = "LIST_USERS"
  <2>1. list_users_serv(s, p)
    BY <1>2 DEF Serv
  <2>2. \/ \E code \in {"1", "2"} : Result(p, code, 0)
        \/ ListFile \in s.files /\ Result(p, "0", Cardinality(s.lines))
    BY <2>1 DEF list_users_serv
  <2>3. ListFile \in s.files /\ ultima'.n = Cardinality(s.lines)
    BY <1>1, <2>2
  <2>4. QED
    BY <1>2, <2>1, <2>3 DEF list_users_serv
<1>3. CASE p.op = "LIST_CONTENT"
  <2>1. list_content_serv(s, p)
    BY <1>3 DEF Serv
  <2>2. \/ Result(p, "Usuario no registrado", -1)
        \/ Result(p, "0", Cardinality(Own(s, p.arg)))
    BY <2>1 DEF list_content_serv
  <2>3. ultima'.res = "Usuario no registrado" \/ ultima'.n = Cardinality(Own(s, p.arg))
    BY <1>1, <2>2
  <2>4. QED
    BY <1>3, <2>1, <2>3 DEF list_content_serv
<1>4. QED
  BY <1>2, <1>3

LEMMA ThreadsKeepL ==
  ASSUME IInv, ListadoInv, NEW c \in Clients, TratarMensaje(c)
  PROVE  ListadoInv'
<1> USE DEF A, Vuelve, registro
<1>1. /\ con \in [Clients -> Link] /\ hilo \in [Clients -> Lugares] /\ loc \in [Clients -> Stack]
      /\ Tree(disco)
  BY DEF IInv, TypeOK, TreeOK
<1>2. hilo[c] \in EnSeccion \cup {"arranca"} => loc[c].sk = c
  BY DEF IInv, OwnSocket
<1>3. Contada(c)
  BY DEF ListadoInv
<1>4. CASE LeeSocket(c)
  <2>1. /\ UNCHANGED <<disco, con>> /\ hilo[c] = "nace" /\ hilo'[c] = "arranca"
        /\ loc'[c].env = loc[c].env
        /\ \A t \in Clients \ {c} : hilo'[t] = hilo[t] /\ loc'[t] = loc[t]
    BY <1>1, <1>4 DEF LeeSocket, Stack
  <2>2. Contada(c)'
    BY <1>3, <2>1, SinLeerKeeps DEF Leidas, EnListado, Antes
  <2>3. QED
    BY <2>1, <2>2, TheRestKeep
<1>5. CASE Bloquea(c) \/ LeeOperacion(c) \/ AbreRpc(c) \/ Termina(c) \/ Cierra(c)
  <2>1. /\ UNCHANGED <<disco, con, loc>>
        /\ \A t \in Clients \ {c} : hilo'[t] = hilo[t]
        /\ hilo'[c] \in {"leeOp", "rpcAbre", "leeArgs", "muerto", "cierra", "fuera"}
        /\ hilo'[c] \in Antes => hilo[c] \in Antes
    BY <1>1, <1>5 DEF Bloquea, LeeOperacion, AbreRpc, Termina, Cierra, Antes
  <2>2. Contada(c)'
    BY <1>3, <2>1, SinLeerKeeps DEF Leidas, EnListado
  <2>3. QED
    BY <2>1, <2>2, TheRestKeep
<1>6. CASE LeeArgumentos(c)
  <2>1. loc[c].sk = c /\ UNCHANGED <<con, disco, loc>> /\ hilo[c] = "leeArgs"
    BY <1>2, <1>6 DEF LeeArgumentos, EnSeccion
  <2>2. \/ hilo' = [hilo EXCEPT ![c] = "comprueba"] /\ con[c].enviado = 2
        \/ \E l \in {"fin", "muerto"} : hilo' = [hilo EXCEPT ![c] = l]
    BY <1>6, <2>1 DEF LeeArgumentos
  <2>3. Contada(c)'
    BY <1>1, <1>3, <2>1, <2>2 DEF Contada, Leidas, EnListado, Antes
  <2>4. QED
    BY <1>1, <2>1, <2>2, <2>3, TheRestKeep
<1>7. CASE Comprueba(c)
  <2>1. /\ UNCHANGED <<disco, con>> /\ hilo[c] = "comprueba" /\ hilo'[c] = "actua"
        /\ loc'[c].env = loc[c].env
        /\ \A t \in Clients \ {c} : hilo'[t] = hilo[t] /\ loc'[t] = loc[t]
    BY <1>1, <1>7 DEF Comprueba, Stack
  <2>2. Contada(c)'
    BY <1>3, <2>1 DEF Contada, Leidas, EnListado, Antes
  <2>3. QED
    BY <2>1, <2>2, TheRestKeep
<1>8. CASE Actua(c)
  <2>1. /\ UNCHANGED con /\ hilo[c] = "actua" /\ loc[c].sk = c /\ loc[c].visto = disco
        /\ hilo[c] \in EnSeccion
    BY <1>2, <1>8 DEF Actua, EnSeccion, IInv, NothingStale
  <2>2. Serv(disco, con[c].pet)
    BY <1>8, <2>1 DEF Actua
  <2>3. CASE ultima'.res = "crash"
    <3>1. /\ UNCHANGED loc
          /\ \A t \in Clients : hilo'[t] = hilo[t] \/ hilo'[t] = "cortada"
          /\ hilo'[c] = "cortada"
      BY <1>1, <1>8, <2>1, <2>3 DEF Actua, Fallece
    <3>2. \A t \in Clients \ {c} : hilo[t] \notin Leidas
      BY <2>1 DEF IInv, LockHeld, EnSeccion, Leidas, EnListado
    <3>3. ASSUME NEW t \in Clients PROVE Contada(t)'
      <4>1. CASE hilo'[t] = "cortada"
        BY <3>1, <4>1, SinLeerKeeps DEF ListadoInv, Leidas, EnListado, Antes
      <4>2. CASE t # c /\ hilo'[t] = hilo[t]
        BY <2>1, <3>1, <3>2, <4>2, QuietaKeeps DEF ListadoInv, Quieta
      <4>3. QED
        BY <3>1, <4>1, <4>2
    <3>4. QED
      BY <3>3 DEF ListadoInv
  <2>4. CASE ultima'.res # "crash"
    <3>1. /\ hilo'[c] = "rpc" /\ loc'[c].env = loc[c].env
          /\ loc'[c].res = ultima'.res /\ loc'[c].n = ultima'.n
          /\ \A t \in Clients \ {c} : hilo'[t] = hilo[t] /\ loc'[t] = loc[t]
      BY <1>1, <1>8, <2>1, <2>4 DEF Actua, Stack
    <3>2. loc'[c].res = "0" => Anunciada(c)'
      BY <2>1, <2>2, <3>1, ListingsCount DEF Anunciada
    <3>3. Contada(c)'
      BY <1>3, <2>1, <3>1, <3>2 DEF Contada, Leidas, EnListado, Antes
    <3>4. QED
      BY <2>1, <3>1, <3>3, TheRestKeep
  <2>5. QED
    BY <2>3, <2>4
<1>9. CASE Registra(c)
  <2>1. /\ UNCHANGED <<disco, con, loc>> /\ hilo[c] = "rpc" /\ hilo'[c] \in {"responde", "muerto"}
        /\ \A t \in Clients \ {c} : hilo'[t] = hilo[t]
    BY <1>1, <1>9 DEF Registra
  <2>2. Contada(c)'
    BY <1>3, <2>1 DEF Contada, Anunciada, Leidas, EnListado, Antes
  <2>3. QED
    BY <2>1, <2>2, TheRestKeep
<1>10. CASE Responde(c) \/ EsperaConfirmacion(c) \/ MandaCuenta(c) \/ EsperaConfLinea(c)
  <2>1. hilo[c] \in {"responde", "conf", "cuenta", "confLinea"} /\ loc[c].sk = c /\ UNCHANGED <<disco, loc>>
    BY <1>2, <1>10 DEF Responde, EsperaConfirmacion, MandaCuenta, EsperaConfLinea, EnSeccion
  <2>2. \/ Manda(c, EsListado(c)) \/ Manda(c, FALSE) \/ NoManda(c) \/ Confirmado(c) \/ SinConfirmar(c)
    BY <1>10, <2>1 DEF Responde, EsperaConfirmacion, MandaCuenta, EsperaConfLinea
  <2>3. \A t \in Clients : con'[t].pet = con[t].pet /\ con'[t].enviado = con[t].enviado
    BY <1>1, <2>2, SendsKeep
  <2>4. Anunciada(c) => Anunciada(c)'
    BY <2>1, <2>3 DEF Anunciada
  <2>5. \/ hilo[c] = "responde" /\ hilo'[c] = "conf" /\ con[c].pet.op \in Listings
        \/ hilo[c] = "conf" /\ hilo'[c] = "cuenta"
        \/ hilo[c] = "cuenta" /\ hilo'[c] = "lineas" /\ con[c].pet.op = "LIST_USERS"
           /\ loc[c].res = "0" /\ loc[c].n > 0
        \/ hilo[c] = "cuenta" /\ hilo'[c] = "archivos" /\ con[c].pet.op # "LIST_USERS"
        \/ hilo[c] = "confLinea" /\ hilo'[c] = "lineas" /\ loc[c].env < loc[c].n
        \/ hilo'[c] \in {"fin", "muerto"}
    BY <1>1, <1>10, <2>1 DEF Responde, EsperaConfirmacion, MandaCuenta, EsperaConfLinea, EsListado
  <2>6. \A t \in Clients \ {c} : hilo'[t] = hilo[t]
    BY <1>1, <1>10 DEF Responde, EsperaConfirmacion, MandaCuenta, EsperaConfLinea
  <2>7. Cardinality(Own(disco, con[c].pet.arg)) >= 0
    BY <1>1, FS_Subset, FS_CardinalityType DEF Tree, Own
  <2>8. Contada(c)'
    <3>1. CASE hilo'[c] \in {"fin", "muerto"}
      BY <1>3, <2>1, <3>1, SinLeerKeeps DEF Leidas, EnListado, Antes
    <3>2. CASE hilo'[c] \in {"conf", "cuenta", "lineas"}
      BY <1>3, <2>1, <2>3, <2>4, <2>5, <3>2 DEF Contada, Leidas, EnListado, Antes
    <3>3. CASE hilo'[c] = "archivos"
      <4>1. con[c].pet.op = "LIST_CONTENT" /\ loc[c].env = 0
        BY <1>3, <2>1, <2>5, <3>3 DEF Contada, EnListado, Listings
      <4>2. loc[c].res = "0" => Anunciada(c)
        BY <1>3, <2>1, <2>5, <3>3 DEF Contada, EnListado
      <4>3. loc[c].res = "0" => 0 <= loc[c].n
        BY <2>7, <4>1, <4>2 DEF Anunciada
      <4>4. QED
        BY <1>3, <2>1, <2>3, <2>4, <3>3, <4>1, <4>2, <4>3, <2>5 DEF Contada, Leidas, EnListado, Antes
    <3>4. QED
      BY <2>5, <3>1, <3>2, <3>3
  <2>9. QED
    BY <2>1, <2>3, <2>6, <2>8, TheRestKeep
<1>11. CASE MandaLinea(c)
  <2>1. hilo[c] = "lineas" /\ loc[c].sk = c /\ UNCHANGED disco
    BY <1>2, <1>11 DEF MandaLinea, EnSeccion
  <2>2. UNCHANGED con \/ Manda(c, TRUE) \/ NoManda(c)
    BY <1>11, <2>1 DEF MandaLinea
  <2>3. \A t \in Clients : con'[t].pet = con[t].pet /\ con'[t].enviado = con[t].enviado
    BY <1>1, <2>2, SendsKeep
  <2>4. /\ \/ hilo'[c] = "confLinea" /\ loc'[c].n = loc[c].n /\ loc'[c].res = loc[c].res
           \/ hilo'[c] = "muerto" /\ loc' = loc
        /\ \A t \in Clients \ {c} : hilo'[t] = hilo[t] /\ loc'[t] = loc[t]
    BY <1>1, <1>11 DEF MandaLinea, Stack
  <2>5. Contada(c)'
    BY <1>3, <2>1, <2>3, <2>4 DEF Contada, Anunciada, Leidas, EnListado, Antes
  <2>6. QED
    BY <2>1, <2>3, <2>4, <2>5, TheRestKeep
<1>12. CASE MandaArchivo(c)
  <2>1. hilo[c] = "archivos" /\ loc[c].sk = c /\ UNCHANGED disco
    BY <1>2, <1>12 DEF MandaArchivo, EnSeccion
  <2>2. UNCHANGED con \/ Manda(c, FALSE) \/ NoManda(c)
    BY <1>12, <2>1 DEF MandaArchivo
  <2>3. \A t \in Clients : con'[t].pet = con[t].pet /\ con'[t].enviado = con[t].enviado
    BY <1>1, <2>2, SendsKeep
  <2>4. /\ \/ hilo'[c] = "archivos" /\ loc'[c].n = loc[c].n /\ loc'[c].res = loc[c].res
              /\ loc[c].env < loc[c].n /\ loc'[c].env = loc[c].env + 1
           \/ hilo'[c] \in {"muerto", "fin"} /\ loc' = loc
        /\ \A t \in Clients \ {c} : hilo'[t] = hilo[t] /\ loc'[t] = loc[t]
    BY <1>1, <1>12 DEF MandaArchivo, Stack
  <2>5. loc[c].env \in Nat /\ loc[c].n \in Int
    BY <1>1 DEF Stack
  <2>6. Contada(c)'
    BY <1>3, <2>1, <2>3, <2>4, <2>5 DEF Contada, Anunciada, Leidas, EnListado, Antes
  <2>7. QED
    BY <2>1, <2>3, <2>4, <2>6, TheRestKeep
<1>13. CASE Sigpipe(c)
  <2>1. /\ UNCHANGED <<disco, con, loc>>
        /\ \A t \in Clients : hilo'[t] = hilo[t] \/ hilo'[t] = "cortada"
    BY <1>1, <1>13 DEF Sigpipe, Fallece
  <2>2. ASSUME NEW t \in Clients PROVE Contada(t)'
    BY <2>1, QuietaKeeps, SinLeerKeeps DEF ListadoInv, Quieta, Leidas, EnListado, Antes
  <2>3. QED
    BY <2>2 DEF ListadoInv
<1>14. QED
  BY <1>4, <1>5, <1>6, <1>7, <1>8, <1>9, <1>10, <1>11, <1>12, <1>13 DEF TratarMensaje

(* A listing sends as many lines as it announced, and the list still has      *)
(* them, whatever is asked, cut, killed or failing meanwhile.                 *)
THEOREM ListingsAreWhole == Spec => []ListingMatchesCount
<1>1. Init => ListadoInv
  BY DEF Init, ListadoInv, Contada, Leidas, EnListado, Antes, Pila
<1>2. IInv /\ ListadoInv /\ [Next]_vars => ListadoInv'
  BY ClientsKeepL, MainKeepsL, ThreadsKeepL DEF Next
<1>3. IInv /\ ListadoInv => ListingMatchesCount
  <2>1. ASSUME IInv, ListadoInv, NEW c \in Clients, hilo[c] = "lineas"
        PROVE  /\ ListFile \in disco.files /\ loc[c].env < loc[c].n
               /\ loc[c].n = Cardinality(disco.lines)
    BY <2>1 DEF ListadoInv, Contada, Anunciada, EnListado
  <2>2. ASSUME IInv, ListadoInv, NEW c \in Clients, hilo[c] = "archivos", loc[c].res = "0"
        PROVE  loc[c].env <= loc[c].n /\ loc[c].n = Cardinality(Own(disco, Carpeta(c)))
    <3>1. loc[c].sk = c
      BY <2>2 DEF IInv, OwnSocket, EnSeccion
    <3>2. Carpeta(c) = con[c].pet.arg
      BY <2>2, <3>1 DEF Carpeta
    <3>3. QED
      BY <2>2, <3>2 DEF ListadoInv, Contada, Anunciada, EnListado
  <2>3. QED
    BY <2>1, <2>2 DEF ListingMatchesCount
<1>4. QED
  BY <1>1, <1>2, <1>3, HandOverCorrect, PTL DEF Spec
=============================================================================
