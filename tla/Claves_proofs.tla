--------------------------- MODULE Claves_proofs ----------------------------
(***************************************************************************)
(* What holds of the registry for all users, files, faults and requests.   *)
(***************************************************************************)
EXTENDS Claves, FiniteSetTheorems, TLAPS

(* A truncated request is a request: handlers always work on well-typed     *)
(* input, whatever the client did not send.                                 *)
LEMMA RecibiblesType == Recibibles \subseteq Request
<1>1. ASSUME NEW p \in Request, NEW q \in Truncada(p) PROVE q \in Request
  BY ClavesAssumption DEF Truncada, Request, Simples
<1>2. Peticiones \subseteq Request
  BY ClavesAssumption
<1>3. QED
  BY <1>1, <1>2 DEF Recibibles

(* The fields of a request are of the types of a reply. *)
LEMMA RequestFields ==
  ASSUME NEW p \in Request
  PROVE  p.op \in Ops /\ p.user \in Names /\ p.arg \in Names \cup Ports \cup Files
BY ClavesAssumption DEF Request, Simples, Ops

(* The reply recorded for a request is a reply. *)
LEMMA ResultType ==
  ASSUME NEW p \in Request, NEW code \in Codes, NEW count \in Int, Result(p, code, count)
  PROVE  ultima' \in Reply
BY RequestFields DEF Result, Reply

(* The same for the functions that count nothing. *)
LEMMA PlainResultType ==
  ASSUME NEW p \in Request, NEW code \in Codes, Result(p, code, 0)
  PROVE  ultima' \in Reply
BY RequestFields DEF Result, Reply

(* The ways in which the functions of clavesservidor.c change a tree. *)
LEMMA DropTree ==
  ASSUME NEW d, Tree(d), NEW gone
  PROVE  Tree(Drop(d, gone)) /\ Drop(d, gone).dirs = d.dirs
<1>1. IsFiniteSet(d.files \ gone) /\ IsFiniteSet({})
  BY FS_Difference, FS_EmptySet DEF Tree
<1>2. QED
  BY <1>1 DEF Tree, Store, Drop

(* Adding a file. *)
LEMMA AddFileTree ==
  ASSUME NEW d, Tree(d), NEW q \in Names \X Files
  PROVE  Tree([d EXCEPT !.files = @ \cup {q}])
<1>1. IsFiniteSet(d.files \cup {q})
  BY FS_AddElement DEF Tree
<1>2. QED
  BY <1>1 DEF Tree, Store

(* Adding or removing directories. *)
LEMMA DirsTree ==
  ASSUME NEW d, Tree(d), NEW u \in Names
  PROVE  /\ Tree([d EXCEPT !.dirs = @ \cup {u}])
         /\ Tree([d EXCEPT !.dirs = @ \ {u}])
BY DEF Tree, Store

(* conectados.txt and temp.txt are files of the tree. *)
LEMMA SpecialFiles == ListFile \in Names \X Files /\ TempFile \in Names \X Files
BY ClavesAssumption DEF ListFile, TempFile

(* The end of disconnect_serv. *)
LEMMA RenamedTree ==
  ASSUME NEW d, Tree(d), NEW lines \in SUBSET Line, IsFiniteSet(lines)
  PROVE  Tree(Renamed(d, lines))
<1>1. IsFiniteSet(d.files \ {TempFile})
  BY FS_Difference DEF Tree
<1>2. IsFiniteSet((d.files \ {TempFile}) \cup {ListFile})
  BY <1>1, FS_AddElement
<1>3. QED
  BY <1>2, SpecialFiles DEF Tree, Store, Renamed

(* A reply without an effect. *)
LEMMA SaysType ==
  ASSUME Tree(disco), NEW p \in Request, NEW code \in Codes, Says(p, code)
  PROVE  Tree(disco') /\ ultima' \in Reply
BY PlainResultType DEF Says, Tree

(* What each function leaves behind is a tree, and its reply a reply, also  *)
(* when the tree s it looked at is not the one it changes.                  *)
LEMMA RegisterType ==
  ASSUME Tree(disco), NEW s, Tree(s), NEW p \in Request, register_serv(s, p)
  PROVE  Tree(disco') /\ ultima' \in Reply
<1>1. CASE \E code \in {"1", "2"} : Says(p, code)
  BY <1>1, SaysType DEF Codes
<1>2. CASE disco' = [disco EXCEPT !.dirs = @ \cup {p.user}] /\ Result(p, "0", 0)
  <2>1. ultima' \in Reply
    BY <1>2, PlainResultType DEF Codes
  <2>2. Tree(disco')
    BY <1>2, RequestFields, DirsTree
  <2>3. QED
    BY <2>1, <2>2
<1>3. QED
  BY <1>1, <1>2 DEF register_serv

(* unregister_serv, in each of its outcomes. *)
LEMMA UnregisterType ==
  ASSUME Tree(disco), NEW s, Tree(s), NEW p \in Request, unregister_serv(s, p)
  PROVE  Tree(disco') /\ ultima' \in Reply
<1>1. CASE Says(p, "1")
  BY <1>1, SaysType DEF Codes
<1>2. CASE /\ \/ \E gone : disco' = Drop(disco, gone)
              \/ \E gone : disco' = [Drop(disco, gone) EXCEPT !.dirs = @ \ {p.user}]
           /\ \E code \in {"0", "2", "crash"} : Result(p, code, 0)
  <2>1. ultima' \in Reply
    BY <1>2, PlainResultType DEF Codes
  <2>2. Tree(disco')
    BY <1>2, RequestFields, DropTree, DirsTree
  <2>3. QED
    BY <2>1, <2>2
<1>3. QED
  BY <1>1, <1>2 DEF unregister_serv

(* connect_serv. *)
LEMMA ConnectType ==
  ASSUME Tree(disco), NEW s, Tree(s), NEW p \in Request, p.op = "CONNECT", connect_serv(s, p)
  PROVE  Tree(disco') /\ ultima' \in Reply
<1>1. CASE \E code \in {"1", "crash"} : Says(p, code)
  BY <1>1, SaysType DEF Codes
<1>2. Tree(OpenedToAppend(disco))
  BY AddFileTree, SpecialFiles DEF OpenedToAppend
<1>3. CASE /\ disco' = OpenedToAppend(disco)
           /\ \E code \in {"0", "2", "crash"} : Result(p, code, 0)
  BY <1>2, <1>3, PlainResultType DEF Codes
<1>4. CASE /\ \E k \in Copias : disco' = [OpenedToAppend(disco) EXCEPT !.lines = @ \cup {NewLine(p, k)}]
           /\ Result(p, "0", 0)
  <2>1. PICK k \in Copias : disco' = [OpenedToAppend(disco) EXCEPT !.lines = @ \cup {NewLine(p, k)}]
    BY <1>4
  <2>2. NewLine(p, k) \in Line
    BY RequestFields DEF NewLine, Line, Request, Simples
  <2>3. IsFiniteSet(OpenedToAppend(disco).lines \cup {NewLine(p, k)})
    BY <1>2, FS_AddElement DEF Tree
  <2>4. Tree(disco')
    BY <1>2, <2>1, <2>2, <2>3 DEF Tree, Store
  <2>5. QED
    BY <1>4, <2>4, PlainResultType DEF Codes
<1>5. QED
  BY <1>1, <1>3, <1>4 DEF connect_serv

(* disconnect_serv. *)
LEMMA DisconnectType ==
  ASSUME Tree(disco), NEW s, Tree(s), NEW p \in Request, disconnect_serv(s, p)
  PROVE  Tree(disco') /\ ultima' \in Reply
<1> DEFINE opened == IF Empty \in disco.dirs
                     THEN [disco EXCEPT !.files = @ \cup {TempFile}] ELSE disco
<1>1. Tree(opened)
  BY AddFileTree, SpecialFiles
<1>2. Tree(Drop(opened, {ListFile}))
  BY <1>1, DropTree
<1>3. ASSUME NEW some \in SUBSET Kept(s, p.user) PROVE Tree(Renamed(disco, some))
  <2>1. some \in SUBSET s.lines /\ s.lines \subseteq Line /\ IsFiniteSet(s.lines)
    BY <1>3 DEF Kept, Tree, Store
  <2>2. IsFiniteSet(some)
    BY <2>1, FS_Subset
  <2>3. QED
    BY <2>1, <2>2, RenamedTree
<1>4. /\ disco' \in {disco, opened, Drop(opened, {ListFile})}
           \cup {Renamed(disco, some) : some \in SUBSET Kept(s, p.user)}
      /\ \E code \in {"0", "1", "2", "3", "crash"} : Result(p, code, 0)
  BY DEF disconnect_serv
<1>5. ultima' \in Reply
  BY <1>4, PlainResultType DEF Codes
<1>6. QED
  BY <1>1, <1>2, <1>3, <1>4, <1>5

(* publish_serv. *)
LEMMA PublishType ==
  ASSUME Tree(disco), NEW s, Tree(s), NEW p \in Request, p.op = "PUBLISH", publish_serv(s, p)
  PROVE  Tree(disco') /\ ultima' \in Reply
<1>1. CASE \E code \in {"1", "2", "3", "4"} : Says(p, code)
  BY <1>1, SaysType DEF Codes
<1>2. CASE disco' = [disco EXCEPT !.files = @ \cup {<<p.user, p.arg>>}] /\ Result(p, "0", 0)
  <2>1. <<p.user, p.arg>> \in Names \X Files
    BY RequestFields DEF Request, Simples
  <2>2. Tree(disco')
    BY <1>2, <2>1, AddFileTree
  <2>3. QED
    BY <1>2, <2>2, PlainResultType DEF Codes
<1>3. QED
  BY <1>1, <1>2 DEF publish_serv

(* delete_serv. *)
LEMMA DeleteType ==
  ASSUME Tree(disco), NEW s, Tree(s), NEW p \in Request, delete_serv(s, p)
  PROVE  Tree(disco') /\ ultima' \in Reply
<1>1. CASE \E code \in {"1", "2", "3", "4"} : Says(p, code)
  BY <1>1, SaysType DEF Codes
<1>2. CASE disco' = [disco EXCEPT !.files = @ \ {<<p.user, p.arg>>}] /\ Result(p, "0", 0)
  <2>1. IsFiniteSet(disco.files \ {<<p.user, p.arg>>})
    BY FS_RemoveElement DEF Tree
  <2>2. Tree(disco')
    BY <1>2, <2>1 DEF Tree, Store
  <2>3. QED
    BY <1>2, <2>2, PlainResultType DEF Codes
<1>3. QED
  BY <1>1, <1>2 DEF delete_serv

(* list_users_serv. *)
LEMMA ListUsersType ==
  ASSUME Tree(disco), NEW s, Tree(s), NEW p \in Request, list_users_serv(s, p)
  PROVE  Tree(disco') /\ ultima' \in Reply
<1>1. Cardinality(s.lines) \in Int
  BY FS_CardinalityType DEF Tree
<1>2. \E code \in {"0", "1", "2"}, count \in Int : Result(p, code, count)
  BY <1>1 DEF list_users_serv
<1>3. QED
  BY <1>2, ResultType DEF Codes, list_users_serv

(* list_content_serv. *)
LEMMA ListContentType ==
  ASSUME Tree(disco), NEW s, Tree(s), NEW p \in Request, list_content_serv(s, p)
  PROVE  Tree(disco') /\ ultima' \in Reply
<1>1. IsFiniteSet(Own(s, p.arg))
  BY FS_Subset DEF Tree, Own
<1>2. Cardinality(Own(s, p.arg)) \in Int
  BY <1>1, FS_CardinalityType
<1>3. CASE Result(p, "Usuario no registrado", -1)
  <2>1. -1 \in Int
    OBVIOUS
  <2>2. "Usuario no registrado" \in Codes
    BY DEF Codes
  <2>3. ultima' \in Reply
    BY <1>3, <2>1, <2>2, RequestFields DEF Result, Reply
  <2>4. Tree(disco')
    BY DEF list_content_serv, Tree
  <2>5. QED
    BY <2>3, <2>4
<1>4. CASE Result(p, "0", Cardinality(Own(s, p.arg)))
  BY <1>2, <1>4, ResultType DEF Codes, list_content_serv
<1>5. QED
  BY <1>3, <1>4 DEF list_content_serv

(* Whatever the operation, a tree and a reply are left. *)
LEMMA ServType ==
  ASSUME Tree(disco), NEW s, Tree(s), NEW p \in Request, Serv(s, p)
  PROVE  Tree(disco') /\ ultima' \in Reply
BY RegisterType, UnregisterType, ConnectType, DisconnectType, PublishType, DeleteType,
   ListUsersType, ListContentType DEF Serv

(* main at start leaves a tree. *)
LEMMA TruncateTree == ASSUME NEW d, Tree(d) PROVE Tree(Truncate(d))
<1>1. Tree([d EXCEPT !.files = @ \cup {ListFile}])
  BY AddFileTree, SpecialFiles
<1>2. QED
  BY <1>1, FS_EmptySet DEF Truncate, Tree, Store

(* Before the first request ultima is a reply. *)
LEMMA NoRequestType == NoRequest \in Reply
BY ClavesAssumption DEF NoRequest, Reply, Codes

(* The list is emptied, or, with a disk that fails, the tree is as it was.  *)
LEMMA StartTree ==
  ASSUME NEW d, Tree(d), NEW e \in AlArrancar(d)
  PROVE  Tree(e) /\ (e = Truncate(d) \/ e = d) /\ ("disk" \notin Faults => e = Truncate(d))
BY TruncateTree DEF AlArrancar, Fails

LEMMA InitTree == ASSUME InitRegistro PROVE TreeOK
BY ClavesAssumption, StartTree, NoRequestType DEF InitRegistro, TreeOK

LEMMA StartType == ASSUME TreeOK, Arranca PROVE TreeOK'
BY StartTree, NoRequestType DEF Arranca, TreeOK

(* The registry that serves any request at any time: whatever clients send  *)
(* it, it is this one.                                                      *)
NextTotal     == (\E p \in Request : Atiende(p)) \/ Arranca
RegistroTotal == InitRegistro /\ [][NextTotal]_registro

LEMMA RegistroIsTotal == Registro => RegistroTotal
<1>1. [NextRegistro]_registro => [NextTotal]_registro
  BY RecibiblesType DEF NextRegistro, NextTotal
<1>2. QED
  BY <1>1, PTL DEF Registro, RegistroTotal

LEMMA TotalTypes == RegistroTotal => []TreeOK
<1>1. InitRegistro => TreeOK
  BY InitTree
<1>2. TreeOK /\ [NextTotal]_registro => TreeOK'
  <2> SUFFICES ASSUME TreeOK, [NextTotal]_registro PROVE TreeOK'
    OBVIOUS
  <2>1. ASSUME NEW p \in Request, Atiende(p) PROVE TreeOK'
    BY <2>1, ServType DEF Atiende, TreeOK
  <2>2. CASE Arranca
    BY <2>2, StartType
  <2>3. CASE UNCHANGED registro
    BY <2>3 DEF registro, TreeOK, Tree
  <2>4. QED
    BY <2>1, <2>2, <2>3 DEF NextTotal
<1>3. QED
  BY <1>1, <1>2, PTL DEF RegistroTotal

(* The types of the registry: no sequence of requests, failures, kills and  *)
(* new starts makes the tree or the reply anything else.                    *)
THEOREM TypeCorrect == Registro => []TreeOK
BY RegistroIsTotal, TotalTypes, PTL

-----------------------------------------------------------------------------
(* The tree stays a tree and the list a list of one line per user.          *)
(* UniqueLines needs the rest: a line is appended after a scan of the list  *)
(* in disco, and a name is a word of its own line (ClavesAssumption).       *)
RInv == TreeOK /\ UniqueLines /\ NoOrphans

(* The only fact about names the invariants need. *)
LEMMA TokenOfItself == \A u \in Names \ {Empty} : <<u, u>> \in Tokens
BY ClavesAssumption

(* Taking files away, and with the list its lines, breaks neither. *)
LEMMA DropKeeps ==
  ASSUME RInv, NEW gone
  PROVE  LET d == Drop(disco, gone)
         IN  /\ \A l, m \in d.lines : l.user = m.user /\ l.user # Empty => l = m
             /\ \A q \in d.files : q[1] \in d.dirs
             /\ d.dirs # {} => Empty \in d.dirs
             /\ d.lines # {} => ListFile \in d.files
BY DEF RInv, TreeOK, Tree, Store, UniqueLines, NoOrphans, Drop

(* unregister_serv removes what lies in a directory before the directory. *)
LEMMA UnregisterKeeps ==
  ASSUME RInv, NEW p \in Request, unregister_serv(disco, p)
  PROVE  UniqueLines' /\ NoOrphans'
<1>1. CASE \E gone : disco' = Drop(disco, gone)
  BY <1>1, DropKeeps DEF UniqueLines, NoOrphans
<1>2. CASE disco' = disco
  BY <1>2 DEF RInv, UniqueLines, NoOrphans
<1>3. ASSUME NEW gone, LET left == Drop(disco, gone)
                       IN  Removable(left, p.user) /\ disco' = [left EXCEPT !.dirs = @ \ {p.user}]
      PROVE  UniqueLines' /\ NoOrphans'
  <2> DEFINE left == Drop(disco, gone)
  <2>1. Tree(left)
    BY DropTree DEF RInv, TreeOK
  <2>2. /\ disco'.dirs = left.dirs \ {p.user}
        /\ disco'.files = left.files
        /\ disco'.lines = left.lines
    BY <1>3, <2>1 DEF Tree, Store
  <2>3. UniqueLines'
    BY <2>2, DropKeeps DEF UniqueLines
  <2>4. Own(left, p.user) = {} /\ (p.user = Empty => left.dirs = {Empty})
    BY <1>3 DEF Removable
  <2>5. \A q \in left.files : q[1] \in left.dirs \ {p.user}
    BY <2>4, DropKeeps DEF Own
  <2>6. NoOrphans'
    BY <2>2, <2>4, <2>5, DropKeeps DEF NoOrphans
  <2>7. QED
    BY <2>3, <2>6
<1>4. QED
  BY <1>1, <1>2, <1>3 DEF unregister_serv, Says

(* connect_serv appends for a user that has no line. *)
LEMMA ConnectKeeps ==
  ASSUME RInv, NEW p \in Request, p.op = "CONNECT", connect_serv(disco, p)
  PROVE  UniqueLines' /\ NoOrphans'
<1> DEFINE opened == OpenedToAppend(disco)
<1>1. /\ opened.dirs = disco.dirs
      /\ opened.files = disco.files \cup {ListFile}
      /\ opened.lines = disco.lines
  BY DEF RInv, TreeOK, Tree, Store, OpenedToAppend
<1>2. CASE disco' = disco
  BY <1>2 DEF RInv, UniqueLines, NoOrphans
<1>3. p.user \in disco.dirs => Empty \in disco.dirs
  BY DEF RInv, NoOrphans
<1>4. CASE disco' = opened /\ p.user \in disco.dirs
  BY <1>1, <1>3, <1>4 DEF RInv, UniqueLines, NoOrphans, ListFile
<1>5. ASSUME NEW k \in Copias, ~AlreadyListed(disco, p.user), p.user \in disco.dirs,
             disco' = [opened EXCEPT !.lines = @ \cup {NewLine(p, k)}]
      PROVE  UniqueLines' /\ NoOrphans'
  <2>1. /\ disco'.dirs = disco.dirs
        /\ disco'.files = disco.files \cup {ListFile}
        /\ disco'.lines = disco.lines \cup {NewLine(p, k)}
    BY <1>1, <1>5 DEF RInv, TreeOK, Tree, Store, OpenedToAppend
  <2>2. NoOrphans'
    BY <1>3, <1>5, <2>1 DEF RInv, NoOrphans, ListFile
  <2>3. \A l \in disco.lines : l.user = p.user => p.user = Empty
    BY <1>5, TokenOfItself, RequestFields DEF AlreadyListed
  <2>4. NewLine(p, k).user = p.user
    BY DEF NewLine
  <2>5. UniqueLines'
    BY <2>1, <2>3, <2>4 DEF RInv, UniqueLines
  <2>6. QED
    BY <2>2, <2>5
<1>6. QED
  BY <1>2, <1>4, <1>5 DEF connect_serv, Says

(* disconnect_serv keeps some of the lines, in a list that exists. *)
LEMMA DisconnectKeeps ==
  ASSUME RInv, NEW p \in Request, disconnect_serv(disco, p)
  PROVE  UniqueLines' /\ NoOrphans'
<1> DEFINE opened == IF Empty \in disco.dirs
                     THEN [disco EXCEPT !.files = @ \cup {TempFile}] ELSE disco
<1>1. /\ opened.dirs = disco.dirs /\ opened.lines = disco.lines
      /\ opened.files = IF Empty \in disco.dirs
                        THEN disco.files \cup {TempFile} ELSE disco.files
  BY DEF RInv, TreeOK, Tree, Store
<1>2. CASE disco' = disco
  BY <1>2 DEF RInv, UniqueLines, NoOrphans
<1>3. CASE disco' = opened
  BY <1>1, <1>3 DEF RInv, UniqueLines, NoOrphans, TempFile
<1>4. CASE disco' = Drop(opened, {ListFile})
  <2>1. disco'.dirs = disco.dirs /\ disco'.lines = {} /\ disco'.files = opened.files \ {ListFile}
    BY <1>1, <1>4 DEF Drop, RInv, TreeOK, Tree, Store
  <2>2. QED
    BY <1>1, <2>1 DEF RInv, UniqueLines, NoOrphans, TempFile
<1>5. ASSUME NEW some \in SUBSET Kept(disco, p.user), ListFile \in disco.files,
             disco' = Renamed(disco, some)
      PROVE  UniqueLines' /\ NoOrphans'
  <2>1. /\ disco'.dirs = disco.dirs /\ disco'.lines = some
        /\ disco'.files = (disco.files \ {TempFile}) \cup {ListFile}
    BY <1>5 DEF Renamed, RInv, TreeOK, Tree, Store
  <2>2. some \subseteq disco.lines
    BY <1>5 DEF Kept
  <2>3. QED
    BY <1>5, <2>1, <2>2 DEF RInv, UniqueLines, NoOrphans
<1>6. \/ disco' \in {disco, opened, Drop(opened, {ListFile})}
      \/ /\ ListFile \in disco.files
         /\ \E some \in SUBSET Kept(disco, p.user) : disco' = Renamed(disco, some)
  BY DEF disconnect_serv
<1>7. QED
  BY <1>2, <1>3, <1>4, <1>5, <1>6

LEMMA TotalCorrect == RegistroTotal => [](UniqueLines /\ NoOrphans)
<1>1. InitRegistro => RInv
  <2>1. ASSUME NEW d \in Discos, disco \in AlArrancar(d) PROVE UniqueLines /\ NoOrphans
    <3>1. /\ Tree(d) /\ Empty \in d.dirs /\ \A q \in d.files : q[1] \in d.dirs
          /\ d.lines # {} => ListFile \in d.files
          /\ \A l, m \in d.lines : l.user = m.user /\ l.user # Empty => l = m
      BY ClavesAssumption DEF ListFile
    <3>2. CASE disco = Truncate(d)
      <4>1. disco.dirs = d.dirs /\ disco.lines = {} /\ disco.files = d.files \cup {ListFile}
        BY <3>1, <3>2 DEF Truncate, Tree, Store
      <4>2. QED
        BY <3>1, <4>1 DEF UniqueLines, NoOrphans, ListFile
    <3>3. CASE disco = d
      BY <3>1, <3>3 DEF UniqueLines, NoOrphans
    <3>4. QED
      BY <2>1, <3>1, <3>2, <3>3, StartTree
  <2>2. InitRegistro => TreeOK
    BY InitTree
  <2>3. QED
    BY <2>1, <2>2 DEF InitRegistro, RInv
<1>2. RInv /\ TreeOK' /\ [NextTotal]_registro => RInv'
  <2> SUFFICES ASSUME RInv, TreeOK', [NextTotal]_registro PROVE UniqueLines' /\ NoOrphans'
    BY DEF RInv
  <2>1. ASSUME NEW p \in Request, Serv(disco, p) PROVE UniqueLines' /\ NoOrphans'
    <3>1. CASE register_serv(disco, p)
      BY <3>1 DEF register_serv, Says, RInv, TreeOK, Tree, Store, UniqueLines, NoOrphans
    <3>2. CASE unregister_serv(disco, p)
      BY <3>2, UnregisterKeeps
    <3>3. CASE p.op = "CONNECT" /\ connect_serv(disco, p)
      BY <3>3, ConnectKeeps
    <3>4. CASE disconnect_serv(disco, p)
      BY <3>4, DisconnectKeeps
    <3>5. CASE publish_serv(disco, p)
      BY <3>5 DEF publish_serv, Says, RInv, TreeOK, Tree, Store, UniqueLines, NoOrphans
    <3>6. CASE p.op = "DELETE" /\ delete_serv(disco, p)
      <4>1. <<p.user, p.arg>> # ListFile
        BY <3>6, ClavesAssumption DEF Request, Simples, ListFile
      <4>2. QED
        BY <3>6, <4>1 DEF delete_serv, Says, RInv, TreeOK, Tree, Store, UniqueLines, NoOrphans
    <3>7. CASE UNCHANGED disco
      BY <3>7 DEF RInv, UniqueLines, NoOrphans
    <3>8. QED
      BY <2>1, <3>1, <3>2, <3>3, <3>4, <3>5, <3>6, <3>7
         DEF Serv, list_users_serv, list_content_serv
  <2>2. CASE Arranca
    <3>1. Tree(disco) /\ (disco' = Truncate(disco) \/ disco' = disco)
      BY <2>2, StartTree DEF Arranca, RInv, TreeOK
    <3>2. CASE Empty \in disco.dirs /\ disco' = Truncate(disco)
      BY <3>1, <3>2 DEF Truncate, RInv, Tree, Store, UniqueLines, NoOrphans, ListFile
    <3>3. CASE disco' = disco
      BY <3>3 DEF RInv, UniqueLines, NoOrphans
    <3>4. QED
      BY <3>1, <3>2, <3>3 DEF Truncate
  <2>3. CASE UNCHANGED registro
    BY <2>3 DEF registro, RInv, UniqueLines, NoOrphans
  <2>4. QED
    BY <2>1, <2>2, <2>3 DEF NextTotal, Atiende
<1>3. RInv => UniqueLines /\ NoOrphans
  BY DEF RInv
<1>4. QED
  BY <1>1, <1>2, <1>3, TotalTypes, PTL DEF RegistroTotal

(* A user has at most one line, every file has its directory and every line *)
(* its list, for every user, file and request, and whatever fails.          *)
THEOREM RegistryCorrect == Registro => [](UniqueLines /\ NoOrphans)
BY RegistroIsTotal, TotalCorrect, PTL
=============================================================================
