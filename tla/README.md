# Verification of the file-sharing server and its registry

The repository is a small distributed application: a C server keeps which users exist, which
of them are connected and which files they publish; Python clients ask it for these things and
copy files from one another; the server reports every operation to an RPC server, and the
clients ask a SOAP service for the time. This directory holds TLA+ models of the server, of the
clients around it and of their conversations, TLC configurations that check them, and proofs
checked by TLAPS.

## 1. Inventory

| Part | State | Operations | Talks to |
|---|---|---|---|
| **Registry**, `servidor/clavesservidor.c` | the tree `../usuarios`: a directory per user, a file per published file, `conectados.txt` (one line per connection), `temp.txt` | `register_serv`, `unregister_serv`, `connect_serv`, `disconnect_serv`, `publish_serv`, `delete_serv`, `list_users_serv`, `list_content_serv` | called by the threads |
| **main**, `servidor/servidor.c:433-478` | `sc`, `mensaje_no_copiado`, `mutex_mensaje`, `cond_mensaje` | empty `conectados.txt`, accept, create a thread, wait until it has finished | threads, by the address of `sc`, the flag and the condition |
| **tratar_mensaje**, `servidor.c:19-431` | its stack | lock, read a request, call the registry, call the RPC server, answer, send a listing, signal, unlock, close | client, registry, RPC server |
| **Socket helpers**, `servidor/comm.c` | none | `readLine`, `sendMessage`, `serverAccept` | kernel |
| **Client commands**, `cliente/client.py:41-442` | `_connected_user`, `_isConnected`, `_serverSock`, `_threadAddress`, `_list_users` | one command, one connection (UNREGISTER: two) | server, clock service |
| **File service of a client**, `client.py:445-526` | a listening socket and a thread for each CONNECT | `getfile`, `handle_server_connection` | other clients |
| **Shell**, `client.py:535-610` | none | reads a command and calls it; QUIT | user |
| **RPC server**, `servicio-web/servidorweb_server.c` | none; what it printed | `terminal_rpc_1_svc` | threads |
| **Clock**, `servicio-web/service.py` | none | `get_timestamp` | clients |
| Generated stubs, Makefiles | | | |

What is hard in it:

* **Hand-over of a connection.** Each thread is given the address of the variable `sc` of
  `main` and copies it before taking the lock. Only the flag `mensaje_no_copiado`, which a
  thread clears when it has *finished*, keeps `main` from overwriting `sc`.
* **Early returns.** Fifty places leave `tratar_mensaje` before its end; eleven unlock, the others
  do not, none signals. After any of them the server stands still.
* **Ordering.** Registry, log of the RPC server and answers are three places that learn of an
  operation one after the other.
* **The other end.** A client that closes early is read as empty arguments; one that is gone
  during a listing ends the server by SIGPIPE; a slow one delays everybody.
* **Files.** `unregister_serv` and `disconnect_serv` change the tree in several steps, which
  a failure or a kill can separate.
* **Beliefs.** A session exists three times: in `conectados.txt`, in the attributes of a client and
  as a thread that listens. They change at different moments, and a refused CONNECT, a second one, a
  copy broken off, a DISCONNECT that raises, a kill or a restart changes only some of them.
* **Streams.** `recv` is used as if each call returned one message.

What makes each part correct: the registry keeps one line per user, loses nothing, does not
mix users, and its codes tell the truth; the threads serve each connection once, on their own
connection, as if one at a time; the lock is never held by nobody in particular; the log agrees
with the registry; everybody who can be served is; what a client believes is what the list says,
and only a request made to its thread can end the thread while the session goes on; a listing or a copy
that ends well is complete, and every conversation ends.

The list of hazards, each at its line, is in `PROJECT.json`.

## 2. Modules

| Module | What it is |
|---|---|
| `Claves` | the registry. Each `*_serv` function is an action; `Registro` is the specification in which a request is one step |
| `Servidor` | `main`, the threads, the connections and the faults, around the same `*_serv` actions |
| `Sistema` | client processes with their attributes, their commands and their threads, around `Registro` |
| `Dialogo` | one conversation (LIST_USERS, LIST_CONTENT or GET_FILE), message by message, over a stream |
| `Entrega` | the abstract specification of such a conversation: pieces appear in order, all of them when it ends well |
| `MCClaves`, `MCServidor`, `MCSistema`, `MCDialogo` | instances for TLC |
| `Claves_proofs`, `Registro_proofs` | theorems about the registry: its invariants, and what a single request may do |
| `Servidor_proofs`, `Traza_proofs`, `Listado_proofs` | theorems about the server: its inductive invariant and the refinement; what it records (`hist`, `log`, `resp`); its listings |
| `Dialogo_proofs` | theorems about a conversation: it implements `Entrega`, good clients cost the other end nothing, and the types of everything in it |
| `Sistema_proofs` | theorems about the clients, and that the system serves the registry |
| `Lineas_proofs` | theorem about the lines that sessions leave behind |

How they fit together:

* `Registro` is the model of the registry and the abstract specification of the server:
  `Servidor` EXTENDS `Claves`, keeps its two variables, and `ServesAtomically == Registro` says that
  the server implements it with these two as they are. This is checked (`servidor`) and proved
  (`Linearizable`).
* Because of that, `Sistema` can use the server as `Registro` does: a request is one step (`Sirve`
  calls `Atiende`), in the order of the connections, and the system is one more implementation of the
  registry (`SystemServesTheRegistry`), for the requests that clients send. Threads and lock do not appear again;
  their failures appear as what they mean to clients, `servidor = "colgado"` (an early return) and
  `"caido"`.
* `Dialogo` is what comes after a request has been served, when more than one message goes to the
  client. `Sistema` takes a listing as one step and `Servidor` counts messages; `Dialogo` is where
  messages are cut and joined. It implements `Entrega` (`Delivers`, by INSTANCE with a
  refinement mapping).

### How Claves corresponds to the code

`disco` is the tree: `dirs` (registered users, and the empty name for `../usuarios` itself),
`files` (pairs of a directory and a name) and `lines`, the lines of `conectados.txt`. `ultima` is
the last request with the code and the count its function wrote.

Each `*_serv(s, p)` takes the request `p` and `s`, the tree as it was when the function looked at
it (`access`, `opendir`, the scans); its writes go to `disco`, the tree at the moment of writing.
In `Claves` the two are the same; in `Servidor` a thread looks in one step (`Comprueba`) and
writes in another (`Actua`). A disjunct is an early return or an outcome: with `"disk"` in `Faults` the
calls of the C library may fail, with `"kill"` the process may end at any point of a function that
changes several things. Where the code would use a null FILE the code is `"crash"`. `Truncate` is the
`fopen` for writing with which `main` begins; nobody tests it, and with `"disk"` it may fail and leave the
list as it was, or absent (`AlArrancar`).
How names relate is given by two constants, because the code compares them in two ways: `Tokens`
for `strcmp` with a word (`connect_serv`) and `Inside` for `strstr` (`disconnect_serv`).

### How Servidor corresponds to the code

A connection and the thread created for it share a name, a member of `Clients`. `hilo[c]` is where
the thread is, `loc[c]` its stack (with `sk`, its copy of `sc`), `con[c]` the connection: what was
sent (`enviado`), the request as the server will read it, the confirmation, the state of the peer.
A thread uses `con` only through `loc[c].sk`, so a thread that copied the wrong `sc` really reads
another client's request. The head of the module lists the places and their lines. `Vuelve` is an
early return; the actions say next to it whether the lock is released. `hist`, `log` and `resp`
record what was served, what the RPC server printed (`Impresa`) and what was sent.

A message to a client that has closed may provoke a reset (`peer = "roto"`); the next one is a
SIGPIPE (`Sigpipe`), which ends the process. `Reinicia` starts it again.

### How Sistema corresponds to the code

A member of `Procs` is a running `client.py`. `sesion[c]` holds its attributes: `user` is
`_connected_user`, `addr` the port of `_threadAddress`, `sock` the port of `_serverSock`, `hilos` the
ports on which some thread of the process still accepts; `_isConnected` is true exactly when
there is a user, as the two are always written together. A socket is open while `_serverSock` or a thread
has it (`Puertos`) and is closed, with the calls to it, when nothing has it any more (`Abiertas`).
`lista[c]` is `_list_users`. `curso[c]` is the command under way: `paso` is "pedida" while it waits in
`recv`, "hecha" when the answer is there, "rota" when an exception is, "bloqueada" while a GET_FILE waits
for the other client, "fin" after QUIT or a kill.

There is one action per command, named as in `client.py`: it tests what the command tests, connects and
sends; `Sirve` serves the oldest connection; `RecibeConnect` and `RecibeDisconnect` are the code after
`recv` of the two commands that change attributes. The other answers are only printed and are taken in the
step that serves them. `RecibeDisconnect` has three outcomes: an error changes nothing; "0" ends the session
(`Terminada`); and "0" with nobody at `_threadAddress` any more raises at client.py:216 and leaves the
session as it was, although its line is gone. The last is remembered in `aMedias`, a history variable: the
users a DISCONNECT was broken off for. UNREGISTER runs `disconnect` first and then makes its own request
(`baja`, `Acaba`). A command without a session that has already sent its operation (PUBLISH, DELETE,
LIST_CONTENT) is `Suelta`: the rest of the request reads as empty.

A copy is a call from one process to the thread of another, a member of `llamadas`: `getfile` makes it, with
whatever address `lista` holds; `handle_server_connection` is its end at the thread, which then accepts again
while its process has a session (client.py:498), ends because there is none, or ends because the request
raised (client.py:525): the requester was killed or left in the middle, or the request came in
pieces. `Desbloquea` is the requester going on. A call with `pide` false is the connection by which
`disconnect` wakes a thread, when it reaches another process.

### How Dialogo corresponds to the code

`caso` fixes the conversation, the network and how much there is to send (-1: an error). `sube` and
`baja` are the bytes under way, in pieces: a request, a line, a file and a chunk are two pieces each, so that
a `recv` can return half of one or parts of two; messages of two or three bytes are one. In a "libre" network
a `recv` returns any nonempty beginning of what has arrived, in an "amable" one exactly one message.
`corte` is each end as the other sees it: closed, a reset under way, reset. `cli.paso` and `srv.paso`
are the places of the two programs, `cli.recibido` what was printed or written. For the listings the other
end is a thread of the server, for GET_FILE the thread of the owner. `Caidas` says which end may be killed
and, with `"disk"`, that there are cases (`caso.disco = "mal"`) in which what a listing opens may not open
(`NoAbre`): a LIST_CONTENT then goes on with the
next file and is short of its count (servidor.c:385), or does not find the directory and returns with the lock
(390); a LIST_USERS returns (276).

In each module some definitions marked `variant` are faulty forms of the definition that follows
them. No specification uses them; `PROJECT.json` pairs each with the property it breaks, which
shows that the property can fail.

## 3. What the runs check

| Run | Instance | Shows |
|---|---|---|
| `registro` | two users, two addresses, no faults | one line per user; the list is always there; an error changes nothing; users do not touch each other; each code means what the client prints |
| `servidor` | three connections, five kinds of request (three changes of sessions and accounts, two listings), kills at every point and restarts | own connection, nothing stale, served once, listings agree with their count, the list is there after each start, nothing goes that was not asked to go, and the refinement of `Registro` |
| `servidor_red` | two connections, all nine requests, clients that close or reset, failing files, RPC, accept, `pthread_create` | the inductive invariant, hand-over and lock, no file without a directory, the log, what can end the process |
| `servidor_vivo` | two connections, clients that may leave, fairness | every connection is served and closed |
| `sistema` | two processes, two users, three ports, kills of either side, RPC failures, copies, one restart | beliefs agree with the list; one session per user; a session loses its thread only to a request made to it; what leaves a line behind |
| `dialogo` | three conversations, up to three items, kills of both ends, failing files, fairness | complete when it ends well (refinement of `Entrega`), and, when the files open, it ends, and a client that goes on to the end costs the server nothing |
| `desconecta_a_otro`, `publica_sin_conexion`, `sin_respuesta`, `baja_ajena`, `listado_solapado`, `copia_incompleta` | | a behaviour of the code that contradicts one of its comments, see *findings* |

### Bounds

* Two connections interleave in every way; the third of `servidor` is there because the hand-over
  of a connection is only disturbed by the one after it, and a queue of two behind one thread
  shows that nobody overtakes or is forgotten. A connection carries one request, as in `client.py`.
* `Copias` bounds identical lines: a line is a user, an address and a copy. Two copies are enough to
  see a duplicate; no invariant would allow a second one. `registro` and `sistema`, where the names
  are apart and nothing is cut short, have one.
* Requests and the trees found at the start are small sets chosen so that every code of every
  function comes up; `Faults` is a constant, so each run says which failures it admits.
* `sistema`: `Ordenes` says who types what. Both processes open sessions as `ana`; c1 may take another as
  `luis` on top of it, and copies from `ana`, by an address that may be old, another process's or its own; c2
  owns the account, disconnects, publishes, unregisters and registers again, and quits. Two processes are enough
  for a rival session, a stolen account, a requester killed in the middle and an address that points
  elsewhere; three ports for a session, a forgotten one and a refused one. `MaxCola = 1` bounds the requests
  nobody waits for (each process has at most one it waits for), `MaxEra = 1` the restarts.
* `sistema` uses a `VIEW` that leaves out what no guard and no property looks at (the comment in
  `MCSistema` lists it), and `SYMMETRY` on the ports, which the code never compares but for equality.
* `dialogo`: `MaxN = 3` items, so that there is a first, a middle and a last one.
* Connections are interchangeable: the safety runs of `Servidor` use `SYMMETRY`, the ones with fairness
  do not.
* `CHECK_DEADLOCK FALSE` in the runs of `Servidor`, `Sistema` and `Dialogo`: connections are used up, a
  server that returned early really stops, both processes may have quit or been killed, a conversation ends. In `Claves`
  deadlock is checked.

### Inputs left out

An empty user name stands for `../usuarios` itself: an UNREGISTER or DISCONNECT without a name takes
`conectados.txt` or all its lines away. The server reads one when a request is cut short, so
`servidor_red` and the theorems about `Claves` and `Servidor` include it; the properties of `registro`
are about requests with a name. In `Sistema` the user types nonempty names, and what is sent with a
session arrives whole; the requests that are always cut short, those of commands without a
session, are there.

Also outside every run:

* File names `conectados` and `temp` (a user with an empty name would then publish onto the list),
  user names that are paths or have the form of a file of `../usuarios`, names longer than the
  buffers of the handlers or than 255 characters.
* Lines cut in the middle of a name: a client that closes early is modelled at the boundary of a line.
* In `Sistema`, the messages of a listing or a copy: a copy is there by how it ends, which `Dialogo` has step
  by step. A clock service that does not answer, disk failures of the server, and a queue of connections that
  is full (`listen(1)` of a client). That a DISCONNECT waits for a copy under way before it is done; here the
  copy goes on after it. The end of a socket and of the calls to it is one step.
* In `Dialogo`, transfers of a file that does not open. `EveryDialogueEnds` and `SurvivesAGoodClient` are
  about listings whose files open (`Abren`): a return at 391 keeps the lock and the client is never told.
* Also in `Dialogo`, chunks of a file that equal the final mark, and transfers over a network that joins
  messages, for which only `copia_incompleta` says something.

### Fairness

`FairSpec` of `Servidor` assumes that `main` and every thread go on when they can (the scheduler runs
them all), and that a client goes on sending its request and confirming. The first is what the system
gives. The second is what the code relies on: it has no timeouts, and one client that stops holds up all
others, which is why `EveryoneIsServed` is not claimed without it. Arrivals, faults, spurious wakeups and
restarts are owed by nobody. `EveryoneIsServed` is claimed only without resets and RPC failures: each of them
leads to an early return after which nobody is served (`sin_respuesta` shows one); and without listings,
which a client that leaves can end with a SIGPIPE.

`FairSpec` of `Dialogo` assumes that each end goes on when it can and that a reset under way arrives. A kill,
or the next requester an owner waits for, is owed by nobody. With that both ends of every listing finish
in any network, and those of a transfer when each `recv` gets one message.

### Findings

* `disconnect_serv` removes the lines of every user whose line contains the name
  (`desconecta_a_otro`).
* `publish_serv` looks for the user in `conectados.txt` and ignores the result
  (`publica_sin_conexion`).
* A request whose RPC call fails was served and is never answered, and the server serves nobody
  else (`sin_respuesta`).
* UNREGISTER gives its session up before it asks: another process that connects in between loses its
  account (`baja_ajena`).
* The count of LIST_USERS and its first line are not separated by a confirmation (`listado_solapado`).
* GET_FILE drops what comes with the answer, which may be the beginning of the file, and reports
  success (`copia_incompleta`).

Three things that the code does and that no comment speaks against are hazards in `PROJECT.json`, not
findings: a CONNECT on top of a session leaves a line nobody can remove; after a restart a stale client
can disconnect a newer one; and a DISCONNECT is broken off after its "0" when the thread of the session has
ended before (client.py:525) and `_serverSock` is the socket of a refused CONNECT (139). The connection that
should wake the thread is then refused (216), the client keeps a session the server has taken off the list,
and another process can connect as the same user.

## 4. What is proved

For all values of the constants that satisfy `ClavesAssumption` (names contain themselves, the
trees found at the start have no file outside a directory, ...), `ServidorAssumption`
(`Nadie` is no connection), `SistemaAssumption` (`None` is no name) or `DialogoAssumption` (`MaxN` is a natural
number, so that a listing may have any length), whatever the requests and whatever
the faults unless the last column says otherwise:

| Theorem | Says | Needs besides |
|---|---|---|
| `TypeCorrect` | `Registro => []TreeOK` | |
| `RegistryCorrect` | `Registro => [](UniqueLines /\ NoOrphans)` | |
| `ListIsReady` | `Registro => []ListReady` | named users, no failing file |
| `LosesNothing` | `Registro => NothingLost` | named users |
| `UsersAreIsolated` | `Registro => Isolation` | named users, names apart, no failing file, no kill |
| `RefusedMeansUntouched` | `Registro => ErrorHasNoEffect` | named users, no failing file, no kill |
| `CodesAreTrue` | `Registro => CodesMeanWhatTheClientPrints` | as for `Isolation` |
| `HandOverCorrect` | `Spec => []IInv` (`Servidor`) | |
| `ThreadsApart` | `Spec => []OwnSocket` | |
| `ChecksHold` | `Spec => []NothingStale` | |
| `HandShakeCorrect` | `Spec => []Handshake` | |
| `LockCorrect` | `Spec => []LockHeld` | |
| `Linearizable` | `Spec => ServesAtomically`, that is, `Spec => Registro` | |
| `ServerKeepsTheRegistry` | `Spec => [](UniqueLines /\ NoOrphans)` | |
| `ServerLosesNothing` | `Spec => NothingLost`, `Spec => []ListReady` | as for `Registro` |
| `ServerTellsTheTruth` | `Spec => Isolation /\ ErrorHasNoEffect /\ CodesMeanWhatTheClientPrints` | as for `Registro` |
| `ServedOnceEach` | `Spec => []ServedOnce` | |
| `LogCorrect` | `Spec => []LogIsFaithful` | |
| `ListingsAreWhole` | `Spec => []ListingMatchesCount` | |
| `DeathsHaveACause` | `Spec => []DeathHasACause` | nobody kills the server |
| `TypesCorrect` | `Spec => []TypeOK` (`Sistema`) | |
| `AddressesAreServed` | `Spec => AnnouncedIsServed` | |
| `BeliefsAreTrue` | `Spec => []BeliefIsTrue` | no disk failure, no nonempty name inside another; up to the first restart, and not of users with a DISCONNECT broken off (both in the property) |
| `OneSessionEach` | `Spec => []OneSessionPerUser` | the same |
| `NoLineIsForgotten` | `Spec => LinesEndWithTheirSession` | |
| `SystemServesTheRegistry` | `Spec => RegistroNombrado` (`Sistema`), the registry of requests with a name | |
| `SystemKeepsTheRegistry` | `Spec => [](UniqueLines /\ NoOrphans)` | |
| `SystemLosesNothing` | `Spec => NothingLost` | |
| `SystemKeepsTheList` | `Spec => []ListReady` | no failing file |
| `SystemTellsTheTruth` | `Spec => Isolation /\ ErrorHasNoEffect /\ CodesMeanWhatTheClientPrints` | names apart, no failing file, no kill |
| `DialogueDelivers` | `Spec => Delivers` (`Dialogo`), that is, `Dialogo` implements `Entrega` | no transfer over a network that joins messages |
| `GoodClientsAreSurvived` | `Spec => []SurvivesAGoodClient` | |
| `DialogueTypes` | `Spec => []TypeOK` (`Dialogo`) | |

"Named users" (`ConNombre`): no REGISTER, UNREGISTER, CONNECT or DISCONNECT comes with an empty user name.
"Names apart" (`NombresAparte`): no name is part of another one. Both are real limits of the code: with an
empty name it works on `../usuarios` itself, and `desconecta_a_otro` shows what a name inside another does.
The first is a condition on what may arrive at the registry or at the server, where a client that closes early
cuts the name off; with the fault `"close"` it admits only the other four requests. In `Sistema`, where users type
nonempty names and a request arrives whole (see *Inputs left out*), it is no condition but a result: no command
forgets the name it is about, through sessions replaced, exceptions and the second request of UNREGISTER.

**The registry.** The inductive invariant `RInv` is `TreeOK /\ UniqueLines /\ NoOrphans`; the three
are proved together because `connect_serv` may append to a list that has to be a set of lines of
users (`TreeOK`), and `disconnect_serv` leaves the kept lines in a list that has to exist
(`NoOrphans`). The one fact about names it needs is that a name is a word of its own line, which is
why it holds although `strstr` may drop too many lines.

The action properties of the registry are proved action by action from `RInv`. `ListIsReady` needs
`ListInv`, that `../usuarios` is never removed itself, so that the list in it stays; `CodesAreTrue` needs
besides that no line belongs to the empty name (`LineasConNombre`): then the word CONNECT finds in a
line is the name of its user. They are proved of `RegistroNombrado`, which serves every request that names
its user (`Nombrada`), in any order; `Registro` under `ConNombre` and the system are two ways to drive it.

**The server.** None of `Handshake`, `OwnSocket`, `LockHeld` and `NothingStale` is inductive. That a
thread copies its own connection needs that `main` is still waiting for that very thread
(`Handshake`); that `main` waits needs that nobody else clears the flag, hence that only one thread
is between accept and signal (`Ocupados`, the threads `main` owes a wait); that what a thread saw is
still so needs the lock (`LockHeld`); that a restart finds no thread at work needs that the end of
the process takes all of them (`NoZombie`). Their conjunction with `TypeOK` is `IInv`. In the proof,
steps between lock and unlock share one lemma (`InteriorKeeps`), as they are the same to the
hand-over.

**The refinement.** From `IInv`: at `Actua` a thread's copy of `sc` is its own connection and its
view of the tree is the tree, so `Actua` is `Atiende` of that client's request; every other step but
`Reinicia`, which is `Arranca`, leaves the registry as it is (`StandStill`). One more
invariant is needed, that what a handler reads is a request or what is left of one (`AllHeard`).
`ServerKeepsTheRegistry` carries the theorem of the registry over by this refinement.

**The traces.** `hist` and `log` grow at two places of a thread. `TInv` says how far each connection
has come by where its thread is: not in `hist` before `Actua`, there with the thread's own code after it,
last in `hist` and not yet in `log` at `Registra`, in both once there is an answer; and that the order of
`log` is the order of `hist`, which holds because, by `IInv`, only one thread is between the two.
`DeathsHaveACause` needs in addition that a request that has been read does not change and that only
listings send more than one message (`MuerteInv`). `ListingsAreWhole` needs that the registry is the one
that was counted as long as the thread that counted is sending (`ListadoInv`; the lock, from `IInv`, keeps
everybody else away).

**The system.** `AnnouncedIsServed` needs only the types and goes action by action: the only one that
takes a port out of `hilos` while the session on it goes on is `handle_server_connection`, and with a session
it does so only for a call with `pide`. The ends of other sessions, which also take ports away, are not this
session's, because `RecibeDisconnect` and `Mata` clear the attributes in the same step.

`PuertosInv` says that no port belongs to two processes and that a CONNECT under way has a socket of its own,
which is what its answer makes the address of the session. With it `SesionInv` gives `BeliefIsTrue` and
`OneSessionPerUser`. Its parts are: the request of a command under way is about this session, and only the
server answers (`CursoInv`); no two processes can claim a line of the same user, be it by a session or by a
CONNECT that was answered and not yet read (`SinRival`); what is claimed is in the list (`EnLista`), both but
for the users of `aMedias`; the requests in the backlog somebody waits for are those of the commands under way
(`ColaInv`); and a DISCONNECT whose client was killed is about a line nobody claims (`HuerfanasInv`), so that
it takes nobody else's line. These break at a restart, which empties the list behind the clients' backs; hence
`era = 0` in the properties. `OrdenInv` (`CursoInv` and `ColaInv`) does not, and says among other things that no
request in the backlog lacks the name it needs. So `Sirve` is a step of the registry with a name, a restart is
its start, and no other action touches the directories: `SystemServesTheRegistry`, by which the system has the
properties of the registry.

`NoLineIsForgotten` is about a DISCONNECT that was answered "0" and whose client has not read the answer
(`FueraInv`: its line is not in the list as long as the process has the port of it), and about what could put
the line back: a CONNECT with the same address. The port of a CONNECT that was not served yet is free for others
only when its process was killed. `RezagadasInv` says that such a port is nobody's, unless a process has taken
it for a CONNECT that stands behind the old one in the backlog; that process is answered, and has a session
there, only after the old request was served. Neither names nor failures nor restarts matter for this.

**The conversations.** What an end sends to a client that stays is one sequence of pieces (`Flujo`): the code, the
count, the items, the final mark. `DInv` says that, until the command ends, what is under way is a stretch of that
sequence (`Tramo(p, m)`: `m` pieces after the first `p`), that what was kept is its beginning without the head, and it
ties both numbers to where the ends are: `Emitido`, how many pieces were sent, by the step of the sender;
`Leido`, how many were read and how many of them kept, by the step of the client. So every `recv` returns the next
stretch, wherever the network cuts. What remains is that the head is not read together with what follows: a listing
waits for the confirmation of the code (`CodigoSolo`), and in a network that does not join messages a `recv`
takes one whole message (`MensajeEntero`). A step of the client then appends a stretch or nothing, and ends well only
with the whole (`Progresa`), which are the steps of `Entrega`. `GoodClientsAreSurvived` needs what the last `recv`
says of the other end (`Cortado`: nothing read means it has gone) and what a command that was not killed leaves behind
(`NadaPendiente`): it ended because the other end had gone, or with all read that would be sent, and then its close
is not answered with a reset. It is so only where all that was announced is sent, hence for files that open
(`Buena`): a LIST_CONTENT that skips a file keeps its client waiting until the server closes.

`DialogueTypes` holds in any network, where the argument above does not. It needs that an item is sent or read only
while there are some left (`Contadores`), and that nothing comes before the code, as what is kept of the first
message would else be no code (`CodigoDelante`).

Not proved, only model-checked: `EveryoneIsServed` and `EveryDialogueEnds`. They are liveness under fairness, which the
prover does not do.

## 5. What is not modelled

The number of open descriptors; the bytes of a message (numbers as text, what a count of two digits sends
too much); what `fprintf`, `fclose` and other unchecked calls fail to do beyond losing a line;
the generated RPC stubs and XDR code; the clock service; the build; parsing of arguments, printing and logging.
`serverSocket` runs once before the loop and fails only by ending the program. `PROJECT.json` lists every
part with its status, and every hazard with the reason when no property covers it.

## 6. Plan

Written, in this order: `Claves` (what everything else calls), `Servidor` (the concurrency), `Sistema` (the
clients), `Dialogo` (the messages), and the proofs of all four. What could follow:

1. `Descriptores`: descriptors opened and closed along each path, with a limit.
2. A measure of a listing that every step of its ends brings down, the safety half of `EveryDialogueEnds`. A transfer
   has none: once the owner has gone, GET_FILE goes on reading and confirming nothing until a reset arrives.
