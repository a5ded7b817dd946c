-------------------------- MODULE Registro_proofs ---------------------------
(***************************************************************************)
(* What a step of the registry may do to others and to what it refuses,    *)
(* for all users, files and requests.                                      *)
(***************************************************************************)
EXTENDS Claves_proofs

(* The conditions the theorems choose from: the requests that open and end  *)
(* a session or an account name the user; a name is no part of another one; *)
(* no file operation fails; no kill.                                        *)
Nominales     == {"REGISTER", "UNREGISTER", "CONNECT", "DISCONNECT"}
Nombrada(p)   == p.op \in Nominales => p.user # Empty
ConNombre     == \A p \in Recibibles : Nombrada(p)
NombresAparte == \A u, v \in Names \ {Empty} : <<u, v>> \in Inside => u = v
SinFallos     == "disk" \notin Faults /\ "kill" \notin Faults

(* The registry under the first condition, whoever sends the requests. *)
NextNombrado     == (\E p \in Request : Nombrada(p) /\ Atiende(p)) \/ Arranca
RegistroNombrado == InitRegistro /\ [][NextNombrado]_registro

LEMMA NombradoIsTotal == RegistroNombrado => RegistroTotal
<1>1. [NextNombrado]_registro => [NextTotal]_registro
  BY DEF NextNombrado, NextTotal
<1>2. QED
  BY <1>1, PTL DEF RegistroNombrado, RegistroTotal

LEMMA NombradoCorrect == RegistroNombrado => []RInv
BY NombradoIsTotal, TotalTypes, TotalCorrect, PTL DEF RInv

LEMMA RegistroIsNombrado == ASSUME ConNombre PROVE Registro => RegistroNombrado
<1>1. [NextRegistro]_registro => [NextNombrado]_registro
  BY RecibiblesType DEF NextRegistro, NextNombrado, ConNombre
<1>2. QED
  BY <1>1, PTL DEF Registro, RegistroNombrado

(* The tree after a step, part by part. *)
LEMMA FieldsEqual ==
  ASSUME NEW d, Tree(d), NEW e, Tree(e), d.dirs = e.dirs, d.lines = e.lines,
         d.files \ {TempFile, ListFile} = e.files \ {TempFile, ListFile}
  PROVE  Content(d) = Content(e)
BY DEF Content, Tree, Store

(* main creates the list, so it is there when the server begins to serve. *)
LEMMA TruncateParts ==
  ASSUME NEW d, Tree(d)
  PROVE  /\ Truncate(d).dirs = d.dirs /\ d.files \subseteq Truncate(d).files
         /\ Truncate(d).lines \subseteq d.lines /\ (Empty \in d.dirs => Truncate(d).lines = {})
BY DEF Truncate, Tree, Store

LEMMA TruncateHasList ==
  ASSUME NEW d, Tree(d), Empty \in d.dirs
  PROVE  ListFile \in Truncate(d).files /\ Truncate(d).dirs = d.dirs
BY DEF Truncate, Tree, Store

-----------------------------------------------------------------------------
(* The list survives what the server does. *)
ListInv == Empty \in disco.dirs /\ (ultima.res # "crash" => ListFile \in disco.files)

LEMMA ServKeepsList ==
  ASSUME TreeOK, ListInv, ultima.res # "crash", "disk" \notin Faults,
         NEW p \in Request, Nombrada(p), Serv(disco, p)
  PROVE  ListInv'
<1>1. ListFile \in disco.files /\ ListFile[1] = Empty /\ Tree(disco)
  BY DEF ListInv, ListFile, TreeOK
<1>2. CASE UNCHANGED disco
  BY <1>1, <1>2 DEF ListInv
<1>3. CASE register_serv(disco, p)
  BY <1>1, <1>3 DEF register_serv, Says, ListInv, Tree, Store
<1>4. CASE p.op = "UNREGISTER" /\ unregister_serv(disco, p)
  <2> p.user # Empty
    BY <1>4 DEF Nombrada, Nominales
  <2>1. ASSUME NEW gone, gone \subseteq Own(disco, p.user)
        PROVE  /\ Drop(disco, gone).dirs = disco.dirs
               /\ ListFile \in Drop(disco, gone).files
    BY <1>1, <2>1 DEF Drop, Own, Tree, Store
  <2>2. CASE \E gone \in SUBSET Own(disco, p.user) : disco' = Drop(disco, gone)
    BY <2>1, <2>2 DEF ListInv
  <2>3. CASE LET left == Drop(disco, Own(disco, p.user))
             IN  disco' = [left EXCEPT !.dirs = @ \ {p.user}]
    <3>1. Tree(Drop(disco, Own(disco, p.user)))
      BY <1>1, DropTree
    <3>2. QED
      BY <2>1, <2>3, <3>1 DEF ListInv, Tree, Store
  <2>4. QED
    BY <1>2, <1>4, <2>2, <2>3 DEF unregister_serv, Swept, Says
<1>5. CASE connect_serv(disco, p)
  BY <1>1, <1>5 DEF connect_serv, OpenedToAppend, Says, ListInv, Tree, Store
<1>6. CASE disconnect_serv(disco, p)
  <2> DEFINE opened == IF Empty \in disco.dirs
                       THEN [disco EXCEPT !.files = @ \cup {TempFile}] ELSE disco
  <2>1. opened.dirs = disco.dirs /\ ListFile \in opened.files /\ Tree(opened)
    BY <1>1, AddFileTree, SpecialFiles DEF Tree, Store
  <2>2. CASE disco' = opened
    BY <2>1, <2>2 DEF ListInv
  <2>3. ASSUME NEW some, disco' = Renamed(disco, some) PROVE ListInv'
    BY <1>1, <2>3 DEF Renamed, ListInv, Tree, Store
  <2>4. CASE disco' = Drop(opened, {ListFile}) /\ Result(p, "crash", 0)
    <3>1. Drop(opened, {ListFile}).dirs = disco.dirs
      BY <2>1, DropTree
    <3>2. QED
      BY <2>4, <3>1 DEF ListInv, Result
  <2>5. QED
    BY <1>6, <2>2, <2>3, <2>4 DEF disconnect_serv, Fails
<1>7. CASE publish_serv(disco, p)
  BY <1>1, <1>7 DEF publish_serv, Says, ListInv, Tree, Store
<1>8. CASE p.op = "DELETE" /\ delete_serv(disco, p)
  <2>1. p.arg # Lista
    BY <1>8 DEF Request, Simples
  <2>2. <<p.user, p.arg>> # ListFile
    BY <2>1 DEF ListFile
  <2>3. QED
    BY <1>1, <1>8, <2>2 DEF delete_serv, Says, ListInv, Tree, Store
<1>9. QED
  BY <1>2, <1>3, <1>4, <1>5, <1>6, <1>7, <1>8 DEF Serv, list_users_serv, list_content_serv

LEMMA ListAlways ==
  ASSUME "disk" \notin Faults PROVE RegistroNombrado => []ListInv
<1>1. InitRegistro => ListInv
  BY ClavesAssumption, StartTree, TruncateHasList DEF InitRegistro, ListInv
<1>2. TreeOK /\ ListInv /\ [NextNombrado]_registro => ListInv'
  <2> SUFFICES ASSUME TreeOK, ListInv, [NextNombrado]_registro PROVE ListInv'
    OBVIOUS
  <2>1. ASSUME NEW p \in Request, Nombrada(p), Atiende(p) PROVE ListInv'
    BY <2>1, ServKeepsList DEF Atiende
  <2>2. CASE Arranca
    BY <2>2, StartTree, TruncateHasList DEF Arranca, ListInv, TreeOK
  <2>3. CASE UNCHANGED registro
    BY <2>3 DEF registro, ListInv
  <2>4. QED
    BY <2>1, <2>2, <2>3 DEF NextNombrado
<1>3. QED
  BY <1>1, <1>2, NombradoIsTotal, TotalTypes, PTL DEF RegistroNombrado

LEMMA NamedListReady ==
  ASSUME "disk" \notin Faults PROVE RegistroNombrado => []ListReady
<1>1. ListInv => ListReady
  BY DEF ListInv, ListReady
<1>2. QED
  BY <1>1, ListAlways, PTL

(* While the server runs the list is there, whatever the names, and also     *)
(* when it is killed between the remove and the rename of disconnect_serv    *)
(* and started again.                                                        *)
THEOREM ListIsReady ==
  ASSUME ConNombre, "disk" \notin Faults PROVE Registro => []ListReady
BY RegistroIsNombrado, NamedListReady, PTL

-----------------------------------------------------------------------------
(* What is lost, and to whom. *)
Perdido(p) ==
  /\ p.op # "UNREGISTER" => disco.dirs \subseteq disco'.dirs
  /\ p.op \notin {"UNREGISTER", "DELETE"} => Content(disco).files \subseteq disco'.files
  /\ p.op # "DISCONNECT" => disco.lines \subseteq disco'.lines

LEMMA ServLosesLittle ==
  ASSUME TreeOK, NEW p \in Request, Nombrada(p), Serv(disco, p)
  PROVE  Perdido(p)
<1>1. Tree(disco) /\ Content(disco).files = disco.files \ {TempFile, ListFile}
  BY DEF TreeOK, Tree, Store, Content
<1>2. CASE UNCHANGED disco
  BY <1>1, <1>2 DEF Perdido
<1>3. CASE register_serv(disco, p)
  BY <1>1, <1>3 DEF register_serv, Says, Perdido, Tree, Store
<1>4. CASE p.op = "UNREGISTER" /\ unregister_serv(disco, p)
  <2> p.user # Empty
    BY <1>4 DEF Nombrada, Nominales
  <2>1. ASSUME NEW gone, gone \subseteq Own(disco, p.user)
        PROVE  Drop(disco, gone).lines = disco.lines
    <3>1. ListFile \notin gone
      BY <2>1 DEF Own, ListFile
    <3>2. QED
      BY <1>1, <3>1 DEF Drop, Tree, Store
  <2>2. CASE \E gone \in SUBSET Own(disco, p.user) : disco' = Drop(disco, gone)
    BY <1>4, <2>1, <2>2 DEF Perdido
  <2>3. CASE LET left == Drop(disco, Own(disco, p.user))
             IN  disco' = [left EXCEPT !.dirs = @ \ {p.user}]
    <3>1. Tree(Drop(disco, Own(disco, p.user)))
      BY <1>1, DropTree
    <3>2. QED
      BY <1>4, <2>1, <2>3, <3>1 DEF Perdido, Tree, Store
  <2>4. QED
    BY <1>2, <1>4, <2>2, <2>3 DEF unregister_serv, Swept, Says
<1>5. CASE connect_serv(disco, p)
  BY <1>1, <1>5 DEF connect_serv, OpenedToAppend, Says, Perdido, Tree, Store
<1>6. CASE p.op = "DISCONNECT" /\ disconnect_serv(disco, p)
  <2> DEFINE opened == IF Empty \in disco.dirs
                       THEN [disco EXCEPT !.files = @ \cup {TempFile}] ELSE disco
  <2>1. opened.dirs = disco.dirs /\ disco.files \subseteq opened.files /\ Tree(opened)
    BY <1>1, AddFileTree, SpecialFiles DEF Tree, Store
  <2>2. CASE disco' = opened
    BY <1>1, <1>6, <2>1, <2>2 DEF Perdido
  <2>3. ASSUME NEW some, disco' = Renamed(disco, some) PROVE Perdido(p)
    BY <1>1, <1>6, <2>3 DEF Renamed, Perdido, Tree, Store
  <2>4. CASE disco' = Drop(opened, {ListFile})
    BY <1>1, <1>6, <2>1, <2>4 DEF Drop, Perdido, Tree, Store
  <2>5. QED
    BY <1>2, <1>6, <2>2, <2>3, <2>4 DEF disconnect_serv
<1>7. CASE publish_serv(disco, p)
  BY <1>1, <1>7 DEF publish_serv, Says, Perdido, Tree, Store
<1>8. CASE p.op = "DELETE" /\ delete_serv(disco, p)
  BY <1>1, <1>8 DEF delete_serv, Says, Perdido, Tree, Store
<1>9. QED
  BY <1>2, <1>3, <1>4, <1>5, <1>6, <1>7, <1>8 DEF Serv, list_users_serv, list_content_serv

(* The reply names the request. *)
LEMMA ReplyNamesRequest ==
  ASSUME NEW p, NEW s, Serv(s, p)
  PROVE  ultima'.op = p.op /\ ultima'.user = p.user /\ ultima'.arg = p.arg
<1>1. CASE register_serv(s, p)
  BY <1>1 DEF register_serv, Says, Result
<1>2. CASE unregister_serv(s, p)
  BY <1>2 DEF unregister_serv, Says, Result
<1>3. CASE connect_serv(s, p)
  BY <1>3 DEF connect_serv, Says, Result
<1>4. CASE disconnect_serv(s, p)
  BY <1>4 DEF disconnect_serv, Says, Result
<1>5. CASE publish_serv(s, p)
  BY <1>5 DEF publish_serv, Says, Result
<1>6. CASE delete_serv(s, p)
  BY <1>6 DEF delete_serv, Says, Result
<1>7. CASE list_users_serv(s, p) \/ list_content_serv(s, p)
  <2>1. ASSUME NEW code, NEW count, Result(p, code, count)
        PROVE  ultima'.op = p.op /\ ultima'.user = p.user /\ ultima'.arg = p.arg
    BY <2>1 DEF Result
  <2>2. \E code \in Codes, count \in {Cardinality(s.lines), Cardinality(Own(s, p.arg)), 0, -1} :
          Result(p, code, count)
    BY <1>7 DEF list_users_serv, list_content_serv, Codes
  <2>3. QED
    BY <2>1, <2>2
<1>8. QED
  BY <1>1, <1>2, <1>3, <1>4, <1>5, <1>6, <1>7 DEF Serv

LEMMA NamedLosesNothing == RegistroNombrado => NothingLost
<1>1. TreeOK /\ [NextNombrado]_registro =>
        [/\ ultima'.op # "UNREGISTER" => disco.dirs \subseteq disco'.dirs
         /\ ultima'.op \notin {"UNREGISTER", "DELETE"} =>
              Content(disco).files \subseteq disco'.files
         /\ Served /\ ultima'.op # "DISCONNECT" => disco.lines \subseteq disco'.lines]_registro
  <2> SUFFICES ASSUME TreeOK, [NextNombrado]_registro, ~UNCHANGED registro
               PROVE  /\ ultima'.op # "UNREGISTER" => disco.dirs \subseteq disco'.dirs
                      /\ ultima'.op \notin {"UNREGISTER", "DELETE"} =>
                           Content(disco).files \subseteq disco'.files
                      /\ Served /\ ultima'.op # "DISCONNECT" => disco.lines \subseteq disco'.lines
    OBVIOUS
  <2>1. CASE \E p \in Request : Nombrada(p) /\ Atiende(p)
    BY <2>1, ServLosesLittle, ReplyNamesRequest DEF Atiende, Perdido
  <2>2. CASE Arranca
    <3>1. /\ disco'.dirs = disco.dirs /\ disco.files \subseteq disco'.files
          /\ Content(disco).files \subseteq disco.files
      BY <2>2, StartTree, TruncateParts DEF Arranca, TreeOK, Tree, Store, Content
    <3>2. ~Served
      BY <2>2 DEF Arranca, Served
    <3>3. QED
      BY <3>1, <3>2
  <2>3. QED
    BY <2>1, <2>2 DEF NextNombrado
<1>2. QED
  BY <1>1, NombradoIsTotal, TotalTypes, PTL DEF RegistroNombrado, NothingLost

(* Accounts, files and connections are lost by the requests meant to remove  *)
(* them and by no other, whatever fails and whoever is killed.               *)
THEOREM LosesNothing ==
  ASSUME ConNombre PROVE Registro => NothingLost
BY RegistroIsNombrado, NamedLosesNothing, PTL

-----------------------------------------------------------------------------
(* What a request does to the users it does not name: the parts of the tree *)
(* that belong to v, compared one by one.                                   *)
Ajeno(v) ==
  /\ v \in disco'.dirs <=> v \in disco.dirs
  /\ \A q \in Names \X Files : q[1] = v => (q \in disco'.files <=> q \in disco.files)
  /\ \A l \in Line : l.user = v => (l \in disco'.lines <=> l \in disco.lines)

LEMMA OfUnchanged ==
  ASSUME Tree(disco), Tree(disco'), NEW v \in Names, Ajeno(v)
  PROVE  Of(disco', v) = Of(disco, v)
<1>1. Own(disco', v) = Own(disco, v)
  BY DEF Ajeno, Own, Tree, Store
<1>2. {l \in disco'.lines : l.user = v} = {l \in disco.lines : l.user = v}
  BY DEF Ajeno, Tree, Store
<1>3. (v \in disco'.dirs) = (v \in disco.dirs)
  BY DEF Ajeno
<1>4. QED
  BY <1>1, <1>2, <1>3 DEF Of

LEMMA ServIsolates ==
  ASSUME TreeOK, SinFallos, NombresAparte, NEW p \in Request, Nombrada(p), Serv(disco, p),
         NEW v \in Names \ {Empty, p.user}
  PROVE  Ajeno(v)
<1>1. Tree(disco) /\ ListFile[1] # v /\ TempFile[1] # v
  BY DEF TreeOK, ListFile, TempFile
<1>2. CASE UNCHANGED disco
  BY <1>2 DEF Ajeno
<1>3. CASE register_serv(disco, p)
  BY <1>1, <1>3 DEF register_serv, Says, Ajeno, Tree, Store
<1>4. CASE p.op = "UNREGISTER" /\ unregister_serv(disco, p)
  <2> DEFINE left == Drop(disco, Own(disco, p.user))
  <2> p.user # Empty
    BY <1>4 DEF Nombrada, Nominales
  <2>1. /\ left.dirs = disco.dirs /\ left.lines = disco.lines
        /\ left.files = disco.files \ Own(disco, p.user)
    <3>1. ListFile \notin Own(disco, p.user)
      BY DEF Own, ListFile
    <3>2. QED
      BY <1>1, <3>1 DEF Drop, Tree, Store
  <2>2. \A q : q[1] = v => q \notin Own(disco, p.user)
    BY DEF Own
  <2>3. Tree(left)
    BY <1>1, DropTree
  <2>4. CASE disco' = left \/ disco' = [left EXCEPT !.dirs = @ \ {p.user}]
    <3>1. /\ disco'.lines = disco.lines
          /\ disco'.files = disco.files \ Own(disco, p.user)
          /\ disco'.dirs = disco.dirs \/ disco'.dirs = disco.dirs \ {p.user}
      BY <2>1, <2>3, <2>4 DEF Tree, Store
    <3>2. QED
      BY <2>2, <3>1 DEF Ajeno
  <2>5. QED
    BY <1>2, <1>4, <2>4 DEF unregister_serv, Swept, Says, Fails, SinFallos
<1>5. CASE connect_serv(disco, p)
  <2>1. CASE disco' = OpenedToAppend(disco)
    BY <1>1, <2>1 DEF OpenedToAppend, Ajeno, Tree, Store
  <2>2. CASE \E k \in Copias : disco' = [OpenedToAppend(disco) EXCEPT !.lines = @ \cup {NewLine(p, k)}]
    BY <1>1, <2>2 DEF OpenedToAppend, NewLine, Ajeno, Tree, Store
  <2>3. QED
    BY <1>2, <1>5, <2>1, <2>2 DEF connect_serv, Says
<1>6. CASE p.op = "DISCONNECT" /\ disconnect_serv(disco, p)
  <2> p.user # Empty
    BY <1>6 DEF Nombrada, Nominales
  <2> DEFINE opened == IF Empty \in disco.dirs
                       THEN [disco EXCEPT !.files = @ \cup {TempFile}] ELSE disco
  <2>1. CASE disco' = opened
    BY <1>1, <2>1 DEF Ajeno, Tree, Store
  <2>2. CASE disco' = Renamed(disco, Kept(disco, p.user))
    <3>1. \A l \in disco.lines : l.user = v => <<p.user, l.user>> \notin Inside
      BY RequestFields DEF NombresAparte
    <3>2. QED
      BY <1>1, <2>2, <3>1 DEF Renamed, Kept, Ajeno, Tree, Store
  <2>3. QED
    BY <1>6, <2>1, <2>2 DEF disconnect_serv, Fails, SinFallos
<1>7. CASE publish_serv(disco, p)
  BY <1>1, <1>7 DEF publish_serv, Says, Ajeno, Tree, Store
<1>8. CASE p.op = "DELETE" /\ delete_serv(disco, p)
  BY <1>1, <1>8 DEF delete_serv, Says, Ajeno, Tree, Store
<1>9. QED
  BY <1>2, <1>3, <1>4, <1>5, <1>6, <1>7, <1>8 DEF Serv, list_users_serv, list_content_serv

LEMMA NamedIsolated ==
  ASSUME NombresAparte, SinFallos PROVE RegistroNombrado => Isolation
<1>1. TreeOK /\ TreeOK' /\ [NextNombrado]_registro =>
        [Served => \A v \in Names \ {Empty, ultima'.user} : Of(disco', v) = Of(disco, v)]_registro
  <2> SUFFICES ASSUME TreeOK, TreeOK', [NextNombrado]_registro, ~UNCHANGED registro, Served,
                      NEW v \in Names \ {Empty, ultima'.user}
               PROVE  Of(disco', v) = Of(disco, v)
    OBVIOUS
  <2>1. PICK p \in Request : Nombrada(p) /\ Atiende(p)
    BY DEF NextNombrado, Arranca, Served
  <2>2. Ajeno(v)
    BY <2>1, ServIsolates, ReplyNamesRequest DEF Atiende
  <2>3. QED
    BY <2>2, OfUnchanged DEF TreeOK
<1>2. QED
  BY <1>1, NombradoIsTotal, TotalTypes, PTL DEF RegistroNombrado, Isolation

(* A request reaches the directory, the files and the line of the user it    *)
(* names, and nobody else's, when no name is part of another one and nothing *)
(* fails; the run desconecta_a_otro shows that it needs the first.           *)
THEOREM UsersAreIsolated ==
  ASSUME ConNombre, NombresAparte, SinFallos PROVE Registro => Isolation
BY RegistroIsNombrado, NamedIsolated, PTL

-----------------------------------------------------------------------------
(* What is refused leaves no trace but the scratch file and an empty list.  *)
Intacto ==
  /\ disco'.dirs = disco.dirs /\ disco'.lines = disco.lines
  /\ disco'.files \ {TempFile, ListFile} = disco.files \ {TempFile, ListFile}

LEMMA ServRefuses ==
  ASSUME RInv, SinFallos, NEW p \in Request, Nombrada(p), Serv(disco, p),
         ultima'.res # "0"
  PROVE  Intacto
<1>1. Tree(disco)
  BY DEF RInv, TreeOK
<1>2. CASE UNCHANGED disco
  BY <1>2 DEF Intacto
<1>3. CASE register_serv(disco, p)
  BY <1>2, <1>3 DEF register_serv, Says, Result
<1>4. CASE p.op = "UNREGISTER" /\ unregister_serv(disco, p)
  <2> p.user # Empty
    BY <1>4 DEF Nombrada, Nominales
  <2> DEFINE left == Drop(disco, Own(disco, p.user))
  <2>1. left.dirs = disco.dirs /\ left.files = disco.files \ Own(disco, p.user)
    BY <1>1 DEF Drop, Tree, Store
  <2>2. p.user \in disco.dirs => Removable(left, p.user)
    BY <2>1 DEF Removable, Own
  <2>3. QED
    BY <1>2, <1>4, <2>2 DEF unregister_serv, Swept, Says, Result, Fails, SinFallos
<1>5. CASE connect_serv(disco, p)
  <2>1. CASE disco' = OpenedToAppend(disco)
    BY <1>1, <2>1 DEF OpenedToAppend, Intacto, Tree, Store
  <2>2. QED
    BY <1>2, <1>5, <2>1 DEF connect_serv, Says, Result, Fails, SinFallos
<1>6. CASE disconnect_serv(disco, p)
  <2> DEFINE opened == IF Empty \in disco.dirs
                       THEN [disco EXCEPT !.files = @ \cup {TempFile}] ELSE disco
  <2>1. CASE disco' = opened
    BY <1>1, <2>1 DEF Intacto, Tree, Store
  <2>2. CASE disco' = Renamed(disco, disco.lines)
    BY <1>1, <2>2 DEF Renamed, Intacto, Tree, Store
  <2>3. QED
    BY <1>6, <2>1, <2>2 DEF disconnect_serv, Result, Fails, SinFallos
<1>7. CASE publish_serv(disco, p)
  BY <1>2, <1>7 DEF publish_serv, Says, Result
<1>8. CASE delete_serv(disco, p)
  BY <1>2, <1>8 DEF delete_serv, Says, Result
<1>9. QED
  BY <1>2, <1>3, <1>4, <1>5, <1>6, <1>7, <1>8 DEF Serv, list_users_serv, list_content_serv

LEMMA NamedRefused == ASSUME SinFallos PROVE RegistroNombrado => ErrorHasNoEffect
<1>1. RInv /\ RInv' /\ [NextNombrado]_registro =>
        [Served /\ ultima'.res # "0" => Content(disco') = Content(disco)]_registro
  <2> SUFFICES ASSUME RInv, RInv', [NextNombrado]_registro, ~UNCHANGED registro, Served,
                      ultima'.res # "0"
               PROVE  Content(disco') = Content(disco)
    OBVIOUS
  <2>1. PICK p \in Request : Nombrada(p) /\ Atiende(p)
    BY DEF NextNombrado, Arranca, Served
  <2>2. Intacto
    BY <2>1, ServRefuses DEF Atiende
  <2>3. Tree(disco) /\ Tree(disco')
    BY DEF RInv, TreeOK
  <2>4. QED
    BY <2>2, <2>3, FieldsEqual DEF Intacto
<1>2. QED
  BY <1>1, NombradoCorrect, PTL DEF RegistroNombrado, ErrorHasNoEffect

(* A client that prints a failure has changed nothing, when no file          *)
(* operation fails.                                                          *)
THEOREM RefusedMeansUntouched ==
  ASSUME ConNombre, SinFallos PROVE Registro => ErrorHasNoEffect
BY RegistroIsNombrado, NamedRefused, PTL

-----------------------------------------------------------------------------
(* What the codes of each function mean, as CodesMeanWhatTheClientPrints     *)
(* says it.  Lines have a user, as CONNECT is never sent without one.        *)
LineasConNombre == \A l \in disco.lines : l.user # Empty
CodInv == RInv /\ ListInv /\ LineasConNombre

LEMMA RegisterCodes ==
  ASSUME CodInv, NEW p \in Request, p.user # Empty, register_serv(disco, p)
  PROVE  /\ ultima'.res = "0" <=> p.user \notin disco.dirs /\ p.user \in disco'.dirs
         /\ ultima'.res = "1" <=> p.user \in disco.dirs
BY DEF register_serv, Says, Result, CodInv, RInv, TreeOK, Tree, Store

LEMMA UnregisterCodes ==
  ASSUME CodInv, SinFallos, NEW p \in Request, p.user # Empty, unregister_serv(disco, p)
  PROVE  /\ ultima'.res = "0" <=> p.user \in disco.dirs /\ p.user \notin disco'.dirs
         /\ ultima'.res = "1" <=> p.user \notin disco.dirs
<1> DEFINE left == Drop(disco, Own(disco, p.user))
<1>1. Tree(disco) /\ Tree(left) /\ left.dirs = disco.dirs
  BY DropTree DEF CodInv, RInv, TreeOK
<1>2. p.user \in disco.dirs => Removable(left, p.user)
  BY <1>1 DEF Removable, Own, Drop, Tree, Store
<1>3. CASE p.user \notin disco.dirs
  BY <1>3 DEF unregister_serv, Says, Result
<1>4. CASE p.user \in disco.dirs
  <2>1. disco' = [left EXCEPT !.dirs = @ \ {p.user}] /\ ultima'.res = "0"
    BY <1>2, <1>4 DEF unregister_serv, Swept, Fails, SinFallos, Result
  <2>2. p.user \notin disco'.dirs
    BY <1>1, <2>1 DEF Tree, Store
  <2>3. QED
    BY <1>4, <2>1, <2>2
<1>5. QED
  BY <1>3, <1>4

(* A line that has the name as a word is the line of that user. *)
LEMMA ListedIsListed ==
  ASSUME CodInv, NombresAparte, NEW u \in Names \ {Empty}
  PROVE  /\ AlreadyListed(disco, u) <=> Listed(disco, u)
         /\ Kept(disco, u) = {l \in disco.lines : l.user # u}
<1>1. \A l \in disco.lines : l.user \in Names \ {Empty}
  BY DEF CodInv, LineasConNombre, RInv, TreeOK, Tree, Store, Line
<1>2. \A l \in disco.lines : (<<u, l.user>> \in Tokens <=> l.user = u)
                          /\ (<<u, l.user>> \in Inside <=> l.user = u)
  BY <1>1, ClavesAssumption DEF NombresAparte
<1>3. QED
  BY <1>2 DEF AlreadyListed, Listed, Kept

LEMMA ConnectCodes ==
  ASSUME CodInv, SinFallos, NombresAparte, NEW p \in Request, p.user # Empty,
         connect_serv(disco, p)
  PROVE  /\ ultima'.res = "0" <=> ~Listed(disco, p.user) /\ Listed(disco', p.user)
         /\ ultima'.res = "1" <=> p.user \notin disco.dirs
         /\ ultima'.res = "2" => Listed(disco, p.user)
<1>1. Tree(disco) /\ p.user \in Names \ {Empty}
  BY RequestFields DEF CodInv, RInv, TreeOK
<1>2. AlreadyListed(disco, p.user) <=> Listed(disco, p.user)
  BY <1>1, ListedIsListed
<1>3. CASE p.user \notin disco.dirs
  BY <1>3 DEF connect_serv, Says, Result, Listed
<1>4. CASE p.user \in disco.dirs /\ AlreadyListed(disco, p.user)
  BY <1>2, <1>4 DEF connect_serv, Says, Result, Fails, SinFallos
<1>5. CASE p.user \in disco.dirs /\ ~AlreadyListed(disco, p.user)
  <2>1. PICK k \in Copias : disco' = [OpenedToAppend(disco) EXCEPT !.lines = @ \cup {NewLine(p, k)}]
    BY <1>5 DEF connect_serv, Fails, SinFallos, Says
  <2>2. NewLine(p, k) \in disco'.lines /\ NewLine(p, k).user = p.user
    BY <1>1, <2>1 DEF OpenedToAppend, NewLine, Tree, Store
  <2>3. ultima'.res = "0"
    BY <1>5 DEF connect_serv, Fails, SinFallos, Says, Result
  <2>4. QED
    BY <1>2, <1>5, <2>2, <2>3 DEF Listed
<1>6. QED
  BY <1>3, <1>4, <1>5

LEMMA DisconnectCodes ==
  ASSUME CodInv, SinFallos, NombresAparte, ultima.res # "crash",
         NEW p \in Request, p.user # Empty, disconnect_serv(disco, p)
  PROVE  /\ ultima'.res = "0" <=> Listed(disco, p.user) /\ ~Listed(disco', p.user)
         /\ ultima'.res = "1" <=> p.user \notin disco.dirs
         /\ ultima'.res = "2" => ~Listed(disco, p.user)
<1> DEFINE opened == IF Empty \in disco.dirs
                     THEN [disco EXCEPT !.files = @ \cup {TempFile}] ELSE disco
           kept   == Kept(disco, p.user)
<1>1. Tree(disco) /\ p.user \in Names \ {Empty} /\ ListFile \in disco.files
  BY RequestFields DEF CodInv, RInv, TreeOK, ListInv
<1>2. kept = {l \in disco.lines : l.user # p.user}
  BY <1>1, ListedIsListed
<1>3. CASE p.user \notin disco.dirs
  <2>1. disco' = opened /\ ultima'.res = "1"
    BY <1>1, <1>3 DEF disconnect_serv, Fails, SinFallos, Result
  <2>2. disco'.lines = disco.lines
    BY <1>1, <2>1 DEF Tree, Store
  <2>3. QED
    BY <1>3, <2>1, <2>2 DEF Listed
<1>4. CASE p.user \in disco.dirs
  <2>1. disco' = Renamed(disco, kept) /\ ultima'.res = IF kept = disco.lines THEN "2" ELSE "0"
    BY <1>1, <1>4 DEF disconnect_serv, Fails, SinFallos, Result
  <2>2. disco'.lines = kept
    BY <1>1, <2>1 DEF Renamed, Tree, Store
  <2>3. kept = disco.lines <=> ~Listed(disco, p.user)
    BY <1>2 DEF Listed
  <2>4. ~Listed(disco', p.user)
    BY <1>2, <2>2 DEF Listed
  <2>5. QED
    BY <1>4, <2>1, <2>3, <2>4
<1>5. QED
  BY <1>3, <1>4

LEMMA PublishCodes ==
  ASSUME CodInv, NEW p \in Request, p.op = "PUBLISH", publish_serv(disco, p)
  PROVE  LET f == <<p.user, p.arg>>
         IN  /\ ultima'.res = "0" <=> f \notin disco.files /\ f \in disco'.files
             /\ ultima'.res = "1" <=> p.user \notin disco.dirs
             /\ ultima'.res = "3" <=> f \in disco.files
<1>1. <<p.user, p.arg>> \in disco.files => p.user \in disco.dirs
  BY DEF CodInv, RInv, NoOrphans
<1>2. QED
  BY <1>1 DEF publish_serv, Says, Result, CodInv, RInv, TreeOK, Tree, Store

LEMMA DeleteCodes ==
  ASSUME CodInv, SinFallos, NEW p \in Request, p.op = "DELETE", delete_serv(disco, p)
  PROVE  LET f == <<p.user, p.arg>>
         IN  /\ ultima'.res = "0" <=> f \in disco.files /\ f \notin disco'.files
             /\ ultima'.res = "1" <=> p.user \notin disco.dirs /\ p.arg # Empty
             /\ ultima'.res = "3" => f \notin disco.files
BY DEF delete_serv, Says, Result, Fails, SinFallos, CodInv, RInv, TreeOK, Tree, Store

(* One line per user, so as many lines as users. *)
LEMMA LinesAreUsers ==
  ASSUME CodInv
  PROVE  Cardinality(disco.lines) = Cardinality({l.user : l \in disco.lines})
<1> DEFINE users == {l.user : l \in disco.lines}
           who   == [l \in disco.lines |-> l.user]
<1>1. IsFiniteSet(disco.lines)
  BY DEF CodInv, RInv, TreeOK, Tree
<1>2. who \in Bijection(disco.lines, users)
  <2>1. who \in [disco.lines -> users]
    OBVIOUS
  <2>2. \A l, m \in disco.lines : who[l] = who[m] => l = m
    BY DEF CodInv, RInv, UniqueLines, LineasConNombre
  <2>3. \A u \in users : \E l \in disco.lines : who[l] = u
    OBVIOUS
  <2>4. QED
    BY <2>1, <2>2, <2>3 DEF Bijection, Injection, Surjection, IsInjective
<1>3. QED
  BY <1>1, <1>2, FS_Bijection DEF ExistsBijection

LEMMA ListUsersCodes ==
  ASSUME CodInv, ultima.res # "crash", NEW p \in Request, list_users_serv(disco, p)
  PROVE  /\ ultima'.res = "1" <=> p.user \notin disco.dirs
         /\ ultima'.res = "0" => ultima'.n = Cardinality({l.user : l \in disco.lines})
<1>1. ASSUME NEW code, NEW count, Result(p, code, count)
      PROVE  ultima'.res = code /\ ultima'.n = count
  BY <1>1 DEF Result
<1>2. CASE p.user \notin disco.dirs
  <2>1. Result(p, "1", 0)
    BY <1>2 DEF list_users_serv, CodInv, ListInv
  <2>2. QED
    BY <1>1, <1>2, <2>1
<1>3. CASE p.user \in disco.dirs
  <2>1. Result(p, "2", 0) \/ Result(p, "0", Cardinality(disco.lines))
    BY <1>3 DEF list_users_serv
  <2>2. ultima'.res = "2" \/ (ultima'.res = "0" /\ ultima'.n = Cardinality(disco.lines))
    BY <1>1, <2>1
  <2>3. QED
    BY <1>3, <2>2, LinesAreUsers
<1>4. QED
  BY <1>2, <1>3

LEMMA ListContentCodes ==
  ASSUME SinFallos, NEW p \in Request, list_content_serv(disco, p)
  PROVE  ultima'.res = "0" <=> p.arg \in disco.dirs
<1>1. ASSUME NEW code, NEW count, Result(p, code, count) PROVE ultima'.res = code
  BY <1>1 DEF Result
<1>2. CASE p.arg \notin disco.dirs
  <2>1. Result(p, "Usuario no registrado", -1)
    BY <1>2 DEF list_content_serv
  <2>2. QED
    BY <1>1, <1>2, <2>1
<1>3. CASE p.arg \in disco.dirs
  <2>1. Result(p, "0", Cardinality(Own(disco, p.arg)))
    BY <1>3 DEF list_content_serv, Fails, SinFallos
  <2>2. QED
    BY <1>1, <1>3, <2>1
<1>4. QED
  BY <1>2, <1>3

(* The lines of the list keep having a user. *)
LEMMA LinesHaveUsers ==
  ASSUME TreeOK, LineasConNombre, NEW p \in Request, Nombrada(p), Serv(disco, p)
  PROVE  LineasConNombre'
<1>1. Tree(disco)
  BY DEF TreeOK
<1>2. disco'.lines \subseteq disco.lines => LineasConNombre'
  BY DEF LineasConNombre
<1>3. CASE UNCHANGED disco
  BY <1>2, <1>3
<1>4. CASE register_serv(disco, p)
  BY <1>1, <1>2, <1>4 DEF register_serv, Says, Tree, Store
<1>5. CASE unregister_serv(disco, p)
  <2>1. ASSUME NEW gone
        PROVE  /\ Drop(disco, gone).lines \subseteq disco.lines
               /\ [Drop(disco, gone) EXCEPT !.dirs = @ \ {p.user}].lines \subseteq disco.lines
    BY <1>1 DEF Drop, Tree, Store
  <2>2. QED
    BY <1>2, <1>3, <1>5, <2>1 DEF unregister_serv, Says
<1>6. CASE p.op = "CONNECT" /\ connect_serv(disco, p)
  <2> p.user # Empty
    BY <1>6 DEF Nombrada, Nominales
  <2>1. CASE disco' = OpenedToAppend(disco)
    BY <1>1, <1>2, <2>1 DEF OpenedToAppend, Tree, Store
  <2>2. CASE \E k \in Copias : disco' = [OpenedToAppend(disco) EXCEPT !.lines = @ \cup {NewLine(p, k)}]
    BY <1>1, <2>2 DEF OpenedToAppend, NewLine, LineasConNombre, Tree, Store
  <2>3. QED
    BY <1>3, <1>6, <2>1, <2>2 DEF connect_serv, Says
<1>7. CASE disconnect_serv(disco, p)
  <2> DEFINE opened == IF Empty \in disco.dirs
                       THEN [disco EXCEPT !.files = @ \cup {TempFile}] ELSE disco
  <2>1. opened.lines = disco.lines /\ Tree(opened)
    BY <1>1, AddFileTree, SpecialFiles DEF Tree, Store
  <2>2. Drop(opened, {ListFile}).lines \subseteq disco.lines
    BY <2>1 DEF Drop, Tree, Store
  <2>3. ASSUME NEW some \in SUBSET Kept(disco, p.user)
        PROVE  Renamed(disco, some).lines \subseteq disco.lines
    BY <1>1 DEF Renamed, Kept, Tree, Store
  <2>4. \/ disco' \in {disco, opened, Drop(opened, {ListFile})}
        \/ \E some \in SUBSET Kept(disco, p.user) : disco' = Renamed(disco, some)
    BY <1>7 DEF disconnect_serv
  <2>5. QED
    BY <1>2, <2>1, <2>2, <2>3, <2>4
<1>8. CASE publish_serv(disco, p)
  BY <1>1, <1>2, <1>8 DEF publish_serv, Says, Tree, Store
<1>9. CASE delete_serv(disco, p)
  BY <1>1, <1>2, <1>9 DEF delete_serv, Says, Tree, Store
<1>10. QED
  BY <1>3, <1>4, <1>5, <1>6, <1>7, <1>8, <1>9 DEF Serv, list_users_serv, list_content_serv

LEMMA NamedCodes ==
  ASSUME NombresAparte, SinFallos
  PROVE  RegistroNombrado => CodesMeanWhatTheClientPrints
<1>1. InitRegistro => LineasConNombre
  <2>1. ASSUME NEW d \in Discos, NEW e \in AlArrancar(d) PROVE e.lines = {}
    BY ClavesAssumption, StartTree, TruncateParts DEF SinFallos
  <2>2. QED
    BY <2>1 DEF InitRegistro, LineasConNombre
<1>2. TreeOK /\ LineasConNombre /\ [NextNombrado]_registro => LineasConNombre'
  <2> SUFFICES ASSUME TreeOK, LineasConNombre, [NextNombrado]_registro PROVE LineasConNombre'
    OBVIOUS
  <2>1. ASSUME NEW p \in Request, Nombrada(p), Atiende(p) PROVE LineasConNombre'
    BY <2>1, LinesHaveUsers DEF Atiende
  <2>2. CASE Arranca
    BY <2>2, StartTree, TruncateParts DEF Arranca, TreeOK, LineasConNombre
  <2>3. CASE UNCHANGED registro
    BY <2>3 DEF registro, LineasConNombre
  <2>4. QED
    BY <2>1, <2>2, <2>3 DEF NextNombrado
<1>3. RegistroNombrado => []CodInv
  <2>1. "disk" \notin Faults
    BY DEF SinFallos
  <2>2. RegistroNombrado => []ListInv
    BY <2>1, ListAlways
  <2>3. QED
    BY <1>1, <1>2, <2>2, NombradoCorrect, PTL DEF RegistroNombrado, CodInv, RInv
<1>4. CodInv /\ [NextNombrado]_registro =>
        [Served /\ ultima'.op # "none" => Impreso]_registro
  <2> SUFFICES ASSUME CodInv, [NextNombrado]_registro, ~UNCHANGED registro, Served
               PROVE  Impreso
    OBVIOUS
  <2>1. PICK p \in Request : Nombrada(p) /\ Atiende(p)
    BY DEF NextNombrado, Arranca, Served
  <2>2. /\ p \in Request /\ (p.op \in Nominales => p.user # Empty)
        /\ Serv(disco, p) /\ ultima.res # "crash"
        /\ ultima'.op = p.op /\ ultima'.user = p.user /\ ultima'.arg = p.arg
    BY <2>1, ReplyNamesRequest DEF Atiende, Nombrada
  <2>3. CASE p.op = "REGISTER"
    BY <2>2, <2>3, RegisterCodes DEF Serv, Impreso, Nominales
  <2>4. CASE p.op = "UNREGISTER"
    BY <2>2, <2>4, UnregisterCodes DEF Serv, Impreso, Nominales
  <2>5. CASE p.op = "CONNECT"
    BY <2>2, <2>5, ConnectCodes DEF Serv, Impreso, Nominales
  <2>6. CASE p.op = "DISCONNECT"
    BY <2>2, <2>6, DisconnectCodes DEF Serv, Impreso, Nominales
  <2>7. CASE p.op = "PUBLISH"
    BY <2>2, <2>7, PublishCodes DEF Serv, Impreso
  <2>8. CASE p.op = "DELETE"
    BY <2>2, <2>8, DeleteCodes DEF Serv, Impreso
  <2>9. CASE p.op = "LIST_USERS"
    BY <2>2, <2>9, ListUsersCodes DEF Serv, Impreso
  <2>10. CASE p.op = "LIST_CONTENT"
    BY <2>2, <2>10, ListContentCodes DEF Serv, Impreso
  <2>11. QED
    BY <2>2, <2>3, <2>4, <2>5, <2>6, <2>7, <2>8, <2>9, <2>10 DEF Serv
<1>5. QED
  BY <1>3, <1>4, PTL DEF RegistroNombrado, CodesMeanWhatTheClientPrints

(* What client.py prints for the code of a request is so, for any users and   *)
(* any history of requests, under the conditions of UsersAreIsolated.         *)
THEOREM CodesAreTrue ==
  ASSUME ConNombre, NombresAparte, SinFallos
  PROVE  Registro => CodesMeanWhatTheClientPrints
BY RegistroIsNombrado, NamedCodes, PTL
=============================================================================
