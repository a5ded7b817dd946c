------------------------------- MODULE Claves -------------------------------
(***************************************************************************)
(* The registry of servidor/clavesservidor.c: the tree ../usuarios and the *)
(* eight *_serv functions that read and write it.                          *)
(*                                                                         *)
(*   ../usuarios/<u>/         one directory per registered user            *)
(*   ../usuarios/<u>/<f>.txt  one file per file published by the user      *)
(*   ../usuarios/conectados.txt   one line "user host port" per connection *)
(*   ../usuarios/temp.txt     scratch copy written by disconnect_serv      *)
(*                                                                         *)
(* Empty is the empty string.  As a user name its directory is ../usuarios *)
(* itself, so conectados.txt and temp.txt are two of its files.            *)
(*                                                                         *)
(* Every *_serv function is an action with two inputs: the request p and   *)
(* s, the tree as it was when the function examined it.  The writes go to  *)
(* disco, the tree at the moment of writing.  In this module, where a      *)
(* request is served in one step, s is disco.  Module Servidor separates   *)
(* the two moments.                                                        *)
(***************************************************************************)
EXTENDS Integers, FiniteSets

CONSTANTS
  Names,       \* user names, the empty one included
  Files,       \* file names without their ".txt", the empty one included
  Ports,       \* addresses a client announces with CONNECT, or Empty
  Empty,       \* the empty string
  NotFound,    \* the file name "notfound", which a client sends for a missing file
  Lista, Temp, \* "conectados" and "temp"
  Tokens,      \* <<u, v>>: u is a whitespace-separated word of the line of v
  Inside,      \* <<u, v>>: u occurs anywhere in the line of v
  Faults,      \* the kinds of failure a run admits
  Copias,      \* bound on identical lines: a line is told apart by its copy
  Discos,      \* the trees the server may find when it starts
  Peticiones   \* the requests clients make in a run

FaultKinds == {"disk", "kill", "close", "reset", "rpc", "thread"}

Simples  == {"REGISTER", "UNREGISTER", "DISCONNECT", "LIST_USERS"}
Listings == {"LIST_USERS", "LIST_CONTENT"}
Ops      == Simples \cup {"CONNECT", "PUBLISH", "DELETE", "LIST_CONTENT"}

(* What a handler holds after reading all the lines of a request. *)
Request == [op : Simples, user : Names, arg : {Empty}]
             \cup [op : {"CONNECT"}, user : Names, arg : Ports]
             \cup [op : {"PUBLISH", "DELETE"}, user : Names, arg : Files \ {Lista, Temp}]
             \cup [op : {"LIST_CONTENT"}, user : Names, arg : Names]

Line  == [user : Names, port : Ports, copy : Copias]
Store == [dirs : SUBSET Names, files : SUBSET (Names \X Files), lines : SUBSET Line]
(* A directory holds finitely many files and a file finitely many lines. *)
Tree(d) == d \in Store /\ IsFiniteSet(d.files) /\ IsFiniteSet(d.lines)
Codes == {"0", "1", "2", "3", "4", "Usuario no registrado", "crash", "none"}

ASSUME ClavesAssumption ==
  /\ Empty \in Names \cap Files \cap Ports
  /\ {NotFound, Lista, Temp} \subseteq Files \ {Empty}
  /\ NotFound \notin {Lista, Temp}
  /\ Lista # Temp
  \* A name is the first word of its own line and a part of it.  The empty
  \* name is no word of any line, and is a part of every line (strstr).
  /\ Tokens \subseteq Inside
  /\ Inside \subseteq Names \X Names
  /\ \A u \in Names \ {Empty} : <<u, u>> \in Tokens
  /\ \A u \in Names : <<Empty, u>> \in Inside \ Tokens
  /\ Faults \subseteq FaultKinds
  \* A tree an earlier run may have left.
  /\ \A d \in Discos : /\ Tree(d) /\ Empty \in d.dirs /\ \A q \in d.files : q[1] \in d.dirs
                       /\ d.lines # {} => <<Empty, Lista>> \in d.files
                       /\ \A l, m \in d.lines : l.user = m.user /\ l.user # Empty => l = m
  /\ Peticiones \subseteq Request

VARIABLES
  disco,   \* the tree ../usuarios
  ultima   \* the last request served, with its result

registro == <<disco, ultima>>

NoRequest == [op |-> "none", user |-> Empty, arg |-> Empty, res |-> "none", n |-> 0]

-----------------------------------------------------------------------------
(* The lines a client did not send before closing are read as empty: at end *)
(* of file readLine returns 0 and leaves the handler's buffer as it was.    *)
Truncada(p) == {p} \cup {[op |-> p.op, user |-> u, arg |-> Empty] : u \in {p.user, Empty}}

Recibibles == IF "close" \in Faults
              THEN UNION {Truncada(p) : p \in Peticiones}
              ELSE Peticiones

ListFile == <<Empty, Lista>>
TempFile == <<Empty, Temp>>

(* The regular files of the directory of u. *)
Own(d, u) == {q \in d.files : q[1] = u}

(* Removing files; the lines go with conectados.txt. *)
Drop(d, gone) == [d EXCEPT !.files = @ \ gone,
                           !.lines = IF ListFile \in gone THEN {} ELSE @]

(* rmdir succeeds on a directory without entries. *)
Removable(d, u) == /\ u \in d.dirs
                   /\ Own(d, u) = {}
                   /\ u = Empty => d.dirs = {Empty}

Fails(f) == f \in Faults

Result(p, code, count) ==
  ultima' = [op |-> p.op, user |-> p.user, arg |-> p.arg, res |-> code, n |-> count]

Says(p, code) == Result(p, code, 0) /\ UNCHANGED disco

-----------------------------------------------------------------------------
register_serv(s, p) ==
  \/ p.user = Empty /\ Says(p, "2")
  \/ p.user # Empty /\ p.user \in s.dirs /\ Says(p, "1")
  \/ /\ p.user # Empty /\ p.user \notin s.dirs
     /\ \/ /\ p.user \notin disco.dirs /\ Empty \in disco.dirs
           /\ disco' = [disco EXCEPT !.dirs = @ \cup {p.user}]
           /\ Result(p, "0", 0)
        \/ /\ p.user \in disco.dirs \/ Empty \notin disco.dirs \/ Fails("disk")
           /\ Says(p, "2")

(* What unregister_serv removes: every regular file readdir returns. *)
SweptButOne(s, u) ==  \* variant: the loop ends one entry too early
  {q \in Own(s, u) : q # CHOOSE last \in Own(s, u) : TRUE}
Swept(s, u) == Own(s, u)

unregister_serv(s, p) ==
  LET own  == Swept(s, p.user)
      left == Drop(disco, own)
  IN  \/ p.user \notin s.dirs /\ Says(p, "1")
      \/ p.user \in s.dirs /\ Fails("disk") /\ Says(p, "1")      \* opendir
      \/ /\ p.user \in s.dirs
         /\ Removable(left, p.user)
         /\ disco' = [left EXCEPT !.dirs = @ \ {p.user}]
         /\ Result(p, "0", 0)
      \/ /\ p.user \in s.dirs                                    \* rmdir fails
         /\ ~Removable(left, p.user) \/ Fails("disk")
         /\ disco' = left
         /\ Result(p, "2", 0)
      \/ /\ p.user \in s.dirs /\ Fails("disk")                   \* remove fails
         /\ \E gone \in SUBSET own : disco' = Drop(disco, gone)
         /\ Result(p, "2", 0)
      \/ /\ p.user \in s.dirs /\ Fails("kill")                   \* killed halfway
         /\ \E gone \in SUBSET own : disco' = Drop(disco, gone)
         /\ Result(p, "crash", 0)

(* The word of some line equals the name. *)
NeverListed(s, u) ==  \* variant: no line is ever found
  FALSE
AlreadyListed(s, u) == \E l \in s.lines : <<u, l.user>> \in Tokens

(* fopen in mode "a+" creates conectados.txt when it is not there. *)
OpenedForWriting(d) ==  \* variant: mode "w"
  [d EXCEPT !.files = @ \cup {ListFile}, !.lines = {}]
OpenedToAppend(d) == [d EXCEPT !.files = @ \cup {ListFile}]

SwappedLine(p, k) ==  \* variant: arguments swapped
  [user |-> p.arg, port |-> p.user, copy |-> k]
NewLine(p, k) == [user |-> p.user, port |-> p.arg, copy |-> k]

connect_serv(s, p) ==
  LET listed == AlreadyListed(s, p.user)
      opened == OpenedToAppend(disco)
  IN  \/ p.user \notin s.dirs /\ Says(p, "1")
      \/ /\ p.user \in s.dirs /\ Fails("disk")   \* fscanf precedes the test for NULL
         /\ Says(p, "crash")
      \/ /\ p.user \in s.dirs /\ listed
         /\ disco' = opened
         /\ Result(p, "2", 0)
      \/ /\ p.user \in s.dirs /\ ~listed
         /\ \/ \E k \in Copias :
                 /\ NewLine(p, k) \notin disco.lines
                 /\ disco' = [opened EXCEPT !.lines = @ \cup {NewLine(p, k)}]
            \/ Fails("disk") /\ disco' = opened  \* fprintf and fclose are not tested
         /\ Result(p, "0", 0)
      \/ /\ p.user \in s.dirs /\ ~listed /\ Fails("kill")  \* the line is still in a buffer
         /\ disco' = opened
         /\ Result(p, "crash", 0)

(* A line is dropped when strstr finds the name anywhere in it. *)
KeptNone(s, u) ==  \* variant: nothing is copied
  {}
Kept(s, u) == {l \in s.lines : <<u, l.user>> \notin Inside}

(* The copy takes the place of conectados.txt: remove, then rename. *)
NotRenamed(d, lines) ==  \* variant: no rename
  [d EXCEPT !.files = @ \ {ListFile}, !.lines = lines]
Renamed(d, lines) == [d EXCEPT !.files = (@ \ {TempFile}) \cup {ListFile}, !.lines = lines]

(* Both files are opened before any test; the test for NULL comes too late *)
(* for fclose(conectadosFile).                                             *)
disconnect_serv(s, p) ==
  LET kept   == Kept(s, p.user)
      opened == IF Empty \in disco.dirs
                THEN [disco EXCEPT !.files = @ \cup {TempFile}] ELSE disco
  IN  \/ /\ p.user \notin s.dirs
         /\ disco' = opened
         /\ Result(p, IF ListFile \in s.files THEN "1" ELSE "crash", 0)
      \/ /\ p.user \in s.dirs /\ ListFile \notin s.files
         /\ disco' = opened
         /\ Result(p, "3", 0)
      \/ /\ p.user \in s.dirs /\ ListFile \in s.files
         /\ disco' = Renamed(disco, kept)
         /\ Result(p, IF kept = s.lines THEN "2" ELSE "0", 0)
      \/ /\ Fails("disk")                        \* fopen fails: fclose(NULL), fputs(NULL)
         /\ disco' \in {disco, opened}
         /\ Result(p, "crash", 0)
      \/ /\ p.user \in s.dirs /\ Fails("disk")   \* fopen of conectados.txt fails
         /\ disco' = opened
         /\ Result(p, "3", 0)
      \/ /\ p.user \in s.dirs /\ ListFile \in s.files /\ Fails("disk")
         /\ \/ \E some \in SUBSET kept : disco' = Renamed(disco, some)  \* fputs fails
            \/ disco' = Drop(opened, {ListFile})                \* rename fails
         /\ Result(p, IF kept = s.lines THEN "2" ELSE "0", 0)
      \/ /\ p.user \in s.dirs /\ ListFile \in s.files /\ Fails("kill")
         /\ \/ disco' = opened
            \/ disco' = Drop(opened, {ListFile})  \* between remove and rename
         /\ Result(p, "crash", 0)

(* The scan of conectados.txt decides nothing. *)
publish_serv(s, p) ==
  LET file == <<p.user, p.arg>>
  IN  \/ p.user \notin s.dirs /\ Says(p, "1")
      \/ p.user \in s.dirs /\ file \in s.files /\ Says(p, "3")
      \/ /\ p.user \in s.dirs /\ file \notin s.files
         /\ ListFile \notin s.files \/ Fails("disk")
         /\ Says(p, "2")
      \/ /\ p.user \in s.dirs /\ file \notin s.files /\ ListFile \in s.files
         /\ p.arg = NotFound \/ p.user \notin disco.dirs \/ Fails("disk")
         /\ Says(p, "4")
      \/ /\ p.user \in s.dirs /\ file \notin s.files /\ ListFile \in s.files
         /\ p.arg # NotFound /\ p.user \in disco.dirs
         /\ disco' = [disco EXCEPT !.files = @ \cup {file}]
         /\ Result(p, "0", 0)

delete_serv(s, p) ==
  LET file == <<p.user, p.arg>>
  IN  \/ p.arg = Empty /\ Says(p, "4")
      \/ p.arg # Empty /\ p.user \notin s.dirs /\ Says(p, "1")
      \/ /\ p.arg # Empty /\ p.user \in s.dirs
         /\ ListFile \notin s.files \/ Fails("disk")
         /\ Says(p, "2")
      \/ /\ p.arg # Empty /\ p.user \in s.dirs /\ ListFile \in s.files
         /\ file \notin disco.files \/ Fails("disk")
         /\ Says(p, "3")
      \/ /\ p.arg # Empty /\ p.user \in s.dirs /\ ListFile \in s.files
         /\ file \in disco.files
         /\ disco' = [disco EXCEPT !.files = @ \ {file}]
         /\ Result(p, "0", 0)

list_users_serv(s, p) ==
  /\ UNCHANGED disco
  /\ \/ p.user = Empty /\ Result(p, "2", 0)
     \/ p.user # Empty /\ p.user \notin s.dirs /\ Result(p, "1", 0)
     \/ /\ p.user # Empty /\ p.user \in s.dirs
        /\ ListFile \notin s.files \/ Fails("disk")
        /\ Result(p, "2", 0)
     \/ /\ p.user # Empty /\ p.user \in s.dirs /\ ListFile \in s.files
        /\ Result(p, "0", Cardinality(s.lines))

list_content_serv(s, p) ==
  /\ UNCHANGED disco
  /\ \/ /\ p.arg \notin s.dirs \/ Fails("disk")
        /\ Result(p, "Usuario no registrado", -1)
     \/ p.arg \in s.dirs /\ Result(p, "0", Cardinality(Own(s, p.arg)))

(* The switch of tratar_mensaje, as far as the registry goes. *)
Serv(s, p) ==
  \/ p.op = "REGISTER"     /\ register_serv(s, p)
  \/ p.op = "UNREGISTER"   /\ unregister_serv(s, p)
  \/ p.op = "CONNECT"      /\ connect_serv(s, p)
  \/ p.op = "DISCONNECT"   /\ disconnect_serv(s, p)
  \/ p.op = "PUBLISH"      /\ publish_serv(s, p)
  \/ p.op = "DELETE"       /\ delete_serv(s, p)
  \/ p.op = "LIST_USERS"   /\ list_users_serv(s, p)
  \/ p.op = "LIST_CONTENT" /\ list_content_serv(s, p)

-----------------------------------------------------------------------------
(* main empties conectados.txt before it accepts anyone: fopen in mode "w". *)
(* When that fails main says nothing, and the list stays as it was.         *)
NotCreated(d) == [d EXCEPT !.lines = {}]  \* variant: the list is not created
Truncate(d) == IF Empty \in d.dirs
               THEN [d EXCEPT !.files = @ \cup {ListFile}, !.lines = {}]
               ELSE d
AlArrancar(d) == {Truncate(d)} \cup {t \in {d} : Fails("disk")}

InitRegistro == /\ disco \in UNION {AlArrancar(d) : d \in Discos}
                /\ ultima = NoRequest

(* A request is served from beginning to end; none once the process died. *)
Atiende(p) == ultima.res # "crash" /\ Serv(disco, p)

(* The server is started again, whatever became of the process before it. *)
Arranca == disco' \in AlArrancar(disco) /\ ultima' = NoRequest

NextRegistro == (\E p \in Recibibles : Atiende(p)) \/ Arranca

Registro == InitRegistro /\ [][NextRegistro]_registro

-----------------------------------------------------------------------------
(***************************************************************************)
(* Properties                                                              *)
(***************************************************************************)
Reply == [op : Ops \cup {"none"}, user : Names,
          arg : Names \cup Ports \cup Files, res : Codes, n : Int]

(* The type invariant: the tree is a tree, the last reply a reply. *)
TreeOK == Tree(disco) /\ ultima \in Reply

(* A user with a name has at most one line in conectados.txt, so a client  *)
(* that looks a name up in the list finds one address (connect_serv tests  *)
(* before it appends, disconnect_serv copies the lines it keeps).          *)
UniqueLines == \A l, m \in disco.lines : l.user = m.user /\ l.user # Empty => l = m

(* Every file lies in a directory that exists, and every line in a list    *)
(* that exists: no half of a failed or killed removal is left hanging      *)
(* (unregister_serv removes the files first, disconnect_serv the list).    *)
NoOrphans == /\ \A q \in disco.files : q[1] \in disco.dirs
             /\ disco.dirs # {} => Empty \in disco.dirs
             /\ disco.lines # {} => ListFile \in disco.files

(* While the server runs the list is there for PUBLISH, DELETE and          *)
(* LIST_USERS: no step of disconnect_serv loses it, a kill between its      *)
(* remove and its rename is repaired by main at the next start.             *)
ListReady == ultima.res # "crash" => ListFile \in disco.files

(* The tree without the scratch file and apart from the existence of the list. *)
Content(d) == [d EXCEPT !.files = @ \ {TempFile, ListFile}]

(* The part of the tree that is about user v. *)
Of(d, v) == [dir   |-> v \in d.dirs,
             files |-> Own(d, v),
             lines |-> {l \in d.lines : l.user = v}]

Served == ultima' # NoRequest

(* A request whose reply is not "0", and one the server dies of, has no     *)
(* effect on the registry: the client that prints a failure is right.       *)
ErrorHasNoEffect ==
  [][Served /\ ultima'.res # "0" => Content(disco') = Content(disco)]_registro

(* What a user asks for touches that user's directory, files and line only: *)
(* nobody loses a file, an account or a connection to another's request.    *)
Isolation ==
  [][Served => \A v \in Names \ {Empty, ultima'.user} : Of(disco', v) = Of(disco, v)]_registro

(* Accounts go with UNREGISTER only, files with UNREGISTER and DELETE only, *)
(* connections with DISCONNECT and a new start only: not with a request of  *)
(* another kind, not with a kill halfway, and accounts and files not with a *)
(* new start (the files under ../usuarios are the server's whole memory).   *)
NothingLost ==
  [][/\ ultima'.op # "UNREGISTER" => disco.dirs \subseteq disco'.dirs
     /\ ultima'.op \notin {"UNREGISTER", "DELETE"} =>
          Content(disco).files \subseteq disco'.files
     /\ Served /\ ultima'.op # "DISCONNECT" => disco.lines \subseteq disco'.lines]_registro

Listed(d, u) == \E l \in d.lines : l.user = u

(* For each operation, what its codes say of the registry before and after. *)
Impreso ==
  LET u == ultima'.user
      f == <<u, ultima'.arg>>
      r == ultima'.res
  IN  CASE ultima'.op = "REGISTER" ->
             /\ (r = "0") <=> u \notin disco.dirs /\ u \in disco'.dirs
             /\ (r = "1") <=> u \in disco.dirs
        [] ultima'.op = "UNREGISTER" ->
             /\ (r = "0") <=> u \in disco.dirs /\ u \notin disco'.dirs
             /\ (r = "1") <=> u \notin disco.dirs
        [] ultima'.op = "CONNECT" ->
             /\ (r = "0") <=> ~Listed(disco, u) /\ Listed(disco', u)
             /\ (r = "1") <=> u \notin disco.dirs
             /\ (r = "2") => Listed(disco, u)
        [] ultima'.op = "DISCONNECT" ->
             /\ (r = "0") <=> Listed(disco, u) /\ ~Listed(disco', u)
             /\ (r = "1") <=> u \notin disco.dirs
             /\ (r = "2") => ~Listed(disco, u)
        [] ultima'.op = "PUBLISH" ->
             /\ (r = "0") <=> f \notin disco.files /\ f \in disco'.files
             /\ (r = "1") <=> u \notin disco.dirs
             /\ (r = "3") <=> f \in disco.files
        [] ultima'.op = "DELETE" ->
             /\ (r = "0") <=> f \in disco.files /\ f \notin disco'.files
             /\ (r = "1") <=> u \notin disco.dirs /\ ultima'.arg # Empty
             /\ (r = "3") => f \notin disco.files
        [] ultima'.op = "LIST_USERS" ->
             /\ (r = "1") <=> u \notin disco.dirs
             /\ (r = "0") => ultima'.n = Cardinality({l.user : l \in disco.lines})
        [] ultima'.op = "LIST_CONTENT" ->
             (r = "0") <=> ultima'.arg \in disco.dirs

(* The text client.py prints for each code is true of the registry before   *)
(* and after the request: "REGISTER OK" means registered now and not before, *)
(* "USER NOT CONNECTED" that there was no connection to close, and so on.    *)
CodesMeanWhatTheClientPrints ==
  [][Served /\ ultima'.op # "none" => Impreso]_registro

(* DISCONNECT answers "0" when it found a line of that user: the comment    *)
(* "User found" of disconnect_serv.                                         *)
FoundIsTheUser ==
  [][Served /\ ultima'.op = "DISCONNECT" /\ ultima'.res = "0" =>
       Listed(disco, ultima'.user)]_registro

(* A file is published by a connected user: publish_serv says it checks     *)
(* whether the user is in conectados.txt.                                   *)
PublisherIsConnected ==
  [][Served /\ ultima'.op = "PUBLISH" /\ ultima'.res = "0" =>
       Listed(disco, ultima'.user)]_registro
=============================================================================
