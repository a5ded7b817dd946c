--------------------------- MODULE Dialogo_proofs ---------------------------
(***************************************************************************)
(* A conversation of any length delivers what the other end has, and costs *)
(* it nothing when the client goes on to the end; and in any network both  *)
(* ends keep to their types.                                               *)
(***************************************************************************)
EXTENDS Dialogo, SequenceTheorems, TLAPS

(* The pieces a client that stays would be sent, one after the other: the   *)
(* code, for a listing the count, the items, and for a transfer the mark.   *)
Base  == IF Listado THEN 2 ELSE 1
Items == IF Error THEN 0 ELSE caso.n
Elem(m) == [que |-> "elem", i |-> (m + 1) \div 2, parte |-> 2 - (m % 2)]
Flujo(k) ==
  IF k = 1 THEN [que |-> IF Error THEN "error" ELSE "0", i |-> 0, parte |-> 0]
  ELSE IF k = 2 /\ Listado THEN [que |-> "cuenta", i |-> 0, parte |-> 0]
  ELSE IF k <= Base + 2 * Items THEN Elem(k - Base)
  ELSE [que |-> "FIN", i |-> 0, parte |-> k - (Base + 2 * Items)]

(* m pieces of it after the first p. *)
Tramo(p, m) == [j \in 1..m |-> Flujo(p + j)]

(* How many pieces have been sent when the other end is where it is. *)
Emitido(t) ==
  /\ srv.i \in 0..Items
  /\ t <= Base + 2 * Items + (IF Listado THEN 0 ELSE 2)
  /\ t > Base => (t - Base) % 2 = 0
  /\ srv.paso \in {"pide", "codigo"} => t = 0 /\ srv.i = 0
  /\ srv.paso \in {"conf", "cuenta"} => Listado /\ t = 1 /\ srv.i = 0
  /\ srv.paso = "elem" => t = Base + 2 * srv.i /\ srv.i < Items
  /\ srv.paso = "confElem" => t = Base + 2 * srv.i /\ caso.tipo # "content" /\ 1 <= srv.i /\ 0 <= caso.n
  /\ srv.paso = "FIN" => ~Listado /\ t = 1 + 2 * Items /\ 0 <= caso.n
  /\ srv.paso \in {"fin", "cerrado"} /\ Listado /\ 0 <= caso.n =>
       t = 2 + 2 * Items \/ (caso.tipo = "content" /\ ~Abren)
  /\ srv.paso = "fin" => Listado
  /\ srv.paso = "vuelto" => ~Abren /\ Listado
  /\ srv.paso = "acepta" => ~Listado
  /\ ~Listado /\ Error => t <= 1 /\ (t = 1 => srv.paso \in {"acepta", "cerrado", "matado"})
  /\ srv.paso \in {"pide", "codigo", "conf", "cuenta", "elem", "confElem", "FIN", "fin",
                   "acepta", "cerrado", "matado", "vuelto"}

(* How many have been read, and how many of them kept, when the client is   *)
(* where it is.                                                             *)
Leido(p, g) ==
  /\ cli.paso \in {"confCodigo", "cuenta", "elem", "confElem", "analiza"} => Listado
  /\ cli.paso \in {"pide", "pideResto", "trozo", "confTrozo"} => ~Listado
  /\ cli.paso \in {"pide", "pideResto", "codigo"} => p = 0
  /\ cli.paso \in {"pide", "pideResto", "codigo", "confCodigo", "cuenta"} => g = 0 /\ cli.i = 0
  /\ cli.paso \in {"confCodigo", "cuenta"} =>
       /\ (cli.resp \in {"0", "error"} => p = 1)
       /\ (cli.resp = "0" => 0 <= caso.n) /\ (cli.resp = "error" => Error)
  /\ cli.paso \in {"elem", "confElem", "analiza", "trozo", "confTrozo"} => p = Base + g /\ 0 <= caso.n
  /\ cli.paso = "elem" => cli.i < caso.n
  /\ cli.paso = "elem" /\ Fiable => g = 2 * cli.i
  /\ cli.paso \in {"confElem", "analiza"} =>
       /\ caso.tipo = "users" /\ cli.i <= caso.n
       /\ Fiable /\ cli.leido # <<>> => g = 2 * cli.i
  /\ cli.paso \in {"trozo", "confTrozo"} => g % 2 = 0

(* A recv that returned nothing had reached the end of the stream, and one   *)
(* that returned something, where each gets one message, a whole line.      *)
Cortado ==
  /\ cli.paso \in {"confCodigo", "cuenta"} /\ cli.resp \notin {"0", "error"} => corte["srv"] # "abierto"
  /\ cli.paso \in {"confElem", "analiza"} /\ caso.red = "amable" =>
       \/ cli.leido = <<>> /\ corte["srv"] # "abierto"
       \/ cli.leido # <<>> /\ Entera(cli.leido)

(* What the other end has not read yet of what a client begins with. *)
Enviado ==
  /\ Listado /\ cli.paso = "codigo" => sube = <<>> /\ srv.paso \in {"codigo", "conf", "matado"}
  /\ srv.paso = "pide" =>
       /\ ~Listado
       /\ \/ cli.paso = "pide" /\ sube = <<>>
          \/ cli.paso = "pideResto" /\ sube = <<Peticion[1]>>
          \/ cli.paso = "codigo" /\ sube = Peticion

(* Until the command ends: p pieces read, m on their way, g kept. *)
Viva(p, m, g) ==
  /\ baja = Tramo(p, m) /\ cli.recibido = Tramo(Base, g) /\ g <= 2 * Items
  /\ Emitido(p + m) /\ Leido(p, g) /\ Enviado /\ Cortado
  /\ Listado /\ cli.paso = "codigo" => p + m <= 1
  /\ corte["cli"] = "abierto"
  /\ corte["srv"] # "abierto" => srv.paso \in {"cerrado", "matado"}

(* A client that went on to the end, when everything opens, has left        *)
(* nothing for the other end to send.                                       *)
Buena == caso.red = "amable" /\ Abren
NadaPendiente ==
  \/ srv.paso \in {"cerrado", "matado"}
  \/ /\ corte["cli"] = "cerrado"
     /\ srv.paso \in {"fin", "acepta"} \/ (Listado /\ srv.paso = "confElem" /\ srv.i = caso.n)

(* The inductive invariant.  The transfers it leaves out lose data. *)
DInv ==
  /\ caso \in Casos /\ <<caso.tipo, caso.red>> # <<"file", "libre">>
  /\ cli.paso = "acabado" <=> cli.fin # "no"
  /\ cli.i \in Nat /\ cli.fin \in {"no", "ok", "fallo", "excepcion", "matado"}
  /\ DOMAIN cli = {"paso", "i", "leido", "resp", "recibido", "fin"} /\ DOMAIN srv = {"paso", "i"}
  /\ DOMAIN corte = {"cli", "srv"}
  /\ cli.fin = "no" => \E p, m, g \in Nat : Viva(p, m, g)
  /\ cli.fin \in {"ok", "fallo", "excepcion"} /\ Buena => NadaPendiente

-----------------------------------------------------------------------------
(* Stretches of the stream. *)
Flujos == {Flujo(k) : k \in Nat}

(* A stretch has the pieces of the stream at its places. *)
LEMMA TramoSeq ==
  ASSUME NEW p \in Nat, NEW m \in Nat
  PROVE  /\ Tramo(p, m) \in Seq(Flujos) /\ Len(Tramo(p, m)) = m
         /\ \A j \in 1..m : Tramo(p, m)[j] = Flujo(p + j)
<1>1. \A j \in 1..m : p + j \in Nat
  OBVIOUS
<1>2. Tramo(p, m) \in [1..m -> Flujos]
  BY <1>1 DEF Tramo, Flujos
<1>3. Tramo(p, m) \in Seq(Flujos)
  BY <1>2, SeqDef
<1>4. DOMAIN Tramo(p, m) = 1..m
  BY DEF Tramo
<1>5. Len(Tramo(p, m)) = m
  <2>1. Len(Tramo(p, m)) \in Nat /\ 1..Len(Tramo(p, m)) = 1..m
    BY <1>3, <1>4, LenProperties
  <2>2. QED
    BY <2>1
<1>6. QED
  BY <1>3, <1>5 DEF Tramo

(* What has those pieces at those places is that stretch. *)
LEMMA TramoIgual ==
  ASSUME NEW p \in Nat, NEW m \in Nat, NEW S, NEW s \in Seq(S), Len(s) = m,
         \A j \in 1..m : s[j] = Flujo(p + j)
  PROVE  s = Tramo(p, m)
<1>1. DOMAIN s = 1..m /\ s \in [1..m -> S]
  BY LenProperties
<1>2. s = [j \in 1..m |-> s[j]]
  BY <1>1
<1>3. QED
  BY <1>2 DEF Tramo

(* Only a stretch of no pieces is empty. *)
LEMMA TramoVacio ==
  ASSUME NEW p \in Nat, NEW m \in Nat
  PROVE  Tramo(p, m) = <<>> <=> m = 0
<1>1. Len(<<>>) = 0 /\ <<>> \in Seq(Flujos)
  BY EmptySeq
<1>2. Tramo(p, m) = <<>> => m = 0
  BY <1>1, TramoSeq
<1>3. ASSUME m = 0 PROVE <<>> = Tramo(p, m)
  <2>1. \A j \in 1..m : <<>>[j] = Flujo(p + j)
    BY <1>3
  <2>2. QED
    BY <1>1, <1>3, <2>1, TramoIgual
<1>4. QED
  BY <1>2, <1>3

(* A stretch is cut into stretches. *)
LEMMA TramoParte ==
  ASSUME NEW p \in Nat, NEW m \in Nat, NEW k \in 0..m
  PROVE  /\ SubSeq(Tramo(p, m), 1, k) = Tramo(p, k)
         /\ Cola(Tramo(p, m), k) = Tramo(p + k, m - k)
<1> DEFINE t == Tramo(p, m)
<1>1. t \in Seq(Flujos) /\ Len(t) = m /\ \A j \in 1..m : t[j] = Flujo(p + j)
  BY TramoSeq
<1>2. \A j \in 1..m : t[j] \in Flujos
  BY <1>1, ElementOfSeq
<1> HIDE DEF t
<1>3. /\ SubSeq(t, 1, k) \in Seq(Flujos) /\ Len(SubSeq(t, 1, k)) = k
      /\ \A j \in 1..k : SubSeq(t, 1, k)[j] = t[j]
  <2>1. \A j \in 1..k : t[j] \in Flujos
    BY <1>2
  <2>2. QED
    BY <2>1, SubSeqProperties
<1>4. SubSeq(t, 1, k) = Tramo(p, k)
  <2>1. k \in Nat /\ \A j \in 1..k : SubSeq(t, 1, k)[j] = Flujo(p + j)
    BY <1>1, <1>3
  <2>2. QED
    BY <1>3, <2>1, TramoIgual
<1>5. /\ SubSeq(t, k + 1, m) \in Seq(Flujos) /\ Len(SubSeq(t, k + 1, m)) = m - k
      /\ \A j \in 1..(m - k) : SubSeq(t, k + 1, m)[j] = t[k + j]
  <2>1. \A j \in k + 1 .. m : t[j] \in Flujos
    BY <1>2
  <2>2. QED
    BY <2>1, SubSeqProperties
<1>6. \A j \in 1..(m - k) : SubSeq(t, k + 1, m)[j] = Flujo((p + k) + j)
  <2> SUFFICES ASSUME NEW j \in 1..(m - k) PROVE SubSeq(t, k + 1, m)[j] = Flujo((p + k) + j)
    OBVIOUS
  <2>1. SubSeq(t, k + 1, m)[j] = t[k + j] /\ k + j \in 1..m
    BY <1>5
  <2>2. t[k + j] = Flujo(p + (k + j)) /\ p + (k + j) = (p + k) + j
    BY <1>1, <2>1
  <2>3. QED
    BY <2>1, <2>2
<1>7. SubSeq(t, k + 1, m) = Tramo(p + k, m - k)
  BY <1>5, <1>6, TramoIgual, p + k \in Nat, m - k \in Nat
<1>8. Cola(t, k) = SubSeq(t, k + 1, m)
  BY <1>1 DEF Cola
<1>9. QED
  BY <1>4, <1>7, <1>8 DEF t

(* Two stretches, one after the other, are one. *)
LEMMA TramoSigue ==
  ASSUME NEW p \in Nat, NEW m \in Nat, NEW k \in Nat
  PROVE  Tramo(p, m) \o Tramo(p + m, k) = Tramo(p, m + k)
<1> DEFINE a == Tramo(p, m)
           b == Tramo(p + m, k)
<1>1. /\ a \in Seq(Flujos) /\ Len(a) = m /\ \A j \in 1..m : a[j] = Flujo(p + j)
      /\ b \in Seq(Flujos) /\ Len(b) = k /\ \A j \in 1..k : b[j] = Flujo((p + m) + j)
  <2>1. p + m \in Nat
    OBVIOUS
  <2>2. /\ a \in Seq(Flujos) /\ Len(a) = m /\ \A j \in 1..m : a[j] = Flujo(p + j)
    BY TramoSeq
  <2>3. b \in Seq(Flujos) /\ Len(b) = k /\ \A j \in 1..k : b[j] = Flujo((p + m) + j)
    BY <2>1, TramoSeq
  <2>4. QED
    BY <2>2, <2>3
<1> HIDE DEF a, b
<1>2. /\ a \o b \in Seq(Flujos) /\ Len(a \o b) = m + k
      /\ \A j \in 1..(m + k) : (a \o b)[j] = IF j <= m THEN a[j] ELSE b[j - m]
  BY <1>1, ConcatProperties
<1>3. ASSUME NEW j \in 1..(m + k) PROVE (a \o b)[j] = Flujo(p + j)
  <2>1. CASE j <= m
    BY <1>1, <1>2, <2>1
  <2>2. CASE ~(j <= m)
    <3>1. (a \o b)[j] = b[j - m] /\ j - m \in 1..k
      BY <1>2, <2>2
    <3>2. b[j - m] = Flujo((p + m) + (j - m)) /\ (p + m) + (j - m) = p + j
      BY <1>1, <3>1
    <3>3. QED
      BY <3>1, <3>2
  <2>3. QED
    BY <2>1, <2>2
<1>4. m + k \in Nat /\ a \o b = Tramo(p, m + k)
  <2>1. m + k \in Nat
    OBVIOUS
  <2>2. QED
    BY <1>2, <1>3, <2>1, TramoIgual
<1>5. QED
  BY <1>4 DEF a, b

-----------------------------------------------------------------------------
(* What the constants of a conversation are. *)
LEMMA CasoBasics ==
  ASSUME caso \in Casos
  PROVE  /\ Items \in Nat /\ Base \in {1, 2} /\ caso.n \in Int /\ caso.n >= -1
         /\ Listado \in BOOLEAN /\ Error \in BOOLEAN
         /\ Error => caso.n = -1 /\ Items = 0
         /\ ~Error => caso.n >= 0 /\ Items = caso.n
         /\ caso.n >= 0 => Items = caso.n
         /\ Listado => Base = 2 /\ caso.tipo \in {"users", "content"}
         /\ ~Listado => Base = 1 /\ caso.tipo = "file"
         /\ caso.red \in {"amable", "libre"}
         /\ <<caso.tipo, caso.red>> \in Tipos
<1>1. PICK t \in Tipos, n \in -1..MaxN, d \in DiscosDe :
             caso = [tipo |-> t[1], red |-> t[2], n |-> n, disco |-> d]
  BY DEF Casos
<1>2. /\ t[1] \in {"users", "content", "file"} /\ t[2] \in {"amable", "libre"} /\ t = <<t[1], t[2]>>
  BY DialogoAssumption
<1>3. n \in Int /\ n >= -1 /\ caso.n = n /\ caso.tipo = t[1] /\ caso.red = t[2]
  BY <1>1, DialogoAssumption
<1>4. <<caso.tipo, caso.red>> = t
  BY <1>2, <1>3
<1>5. QED
  BY <1>2, <1>3, <1>4 DEF Items, Base, Listado, Error

(* The stream, piece by piece. *)
LEMMA FlujoBasics ==
  ASSUME caso \in Casos
  PROVE  /\ Flujo(1) = [que |-> IF Error THEN "error" ELSE "0", i |-> 0, parte |-> 0]
         /\ Listado => Flujo(2) = [que |-> "cuenta", i |-> 0, parte |-> 0]
         /\ \A j \in 1..2 * Items : Flujo(Base + j) = Elem(j)
         /\ \A j \in 1..2 : Flujo(Base + 2 * Items + j) = [que |-> "FIN", i |-> 0, parte |-> j]
<1>1. Items \in Nat /\ Base \in {1, 2} /\ (Listado <=> Base = 2) /\ 2 * Items \in Nat
  BY CasoBasics
<1> DEFINE T == 2 * Items
<1>2. T \in Nat
  BY <1>1
<1> HIDE DEF T
<1>3. \A j \in 1..T : Flujo(Base + j) = Elem(j)
  <2> SUFFICES ASSUME NEW j \in 1..T PROVE Flujo(Base + j) = Elem(j)
    OBVIOUS
  <2>1. /\ Base + j # 1 /\ ~(Base + j = 2 /\ Listado) /\ Base + j <= Base + T
        /\ (Base + j) - Base = j
    BY <1>1, <1>2
  <2>2. QED
    BY <2>1 DEF Flujo, T
<1>4. \A j \in 1..2 : Flujo(Base + T + j) = [que |-> "FIN", i |-> 0, parte |-> j]
  <2> SUFFICES ASSUME NEW j \in 1..2 PROVE Flujo(Base + T + j) = [que |-> "FIN", i |-> 0, parte |-> j]
    OBVIOUS
  <2>1. /\ Base + T + j # 1 /\ ~(Base + T + j = 2 /\ Listado) /\ ~(Base + T + j <= Base + T)
        /\ (Base + T + j) - (Base + T) = j
    BY <1>1, <1>2
  <2>2. QED
    BY <2>1 DEF Flujo, T
<1>5. /\ Flujo(1) = [que |-> IF Error THEN "error" ELSE "0", i |-> 0, parte |-> 0]
      /\ Listado => Flujo(2) = [que |-> "cuenta", i |-> 0, parte |-> 0]
  BY DEF Flujo
<1>6. QED
  BY <1>3, <1>4, <1>5 DEF T

(* The two pieces of an item belong together, and to no other item. *)
LEMMA ElemBasics ==
  ASSUME NEW h \in Nat
  PROVE  /\ Elem(2 * h + 1) = [que |-> "elem", i |-> h + 1, parte |-> 1]
         /\ Elem(2 * h + 2) = [que |-> "elem", i |-> h + 1, parte |-> 2]
<1>1. ((2 * h + 1) + 1) \div 2 = h + 1 /\ (2 * h + 1) % 2 = 1
  OBVIOUS
<1>2. ((2 * h + 2) + 1) \div 2 = h + 1 /\ (2 * h + 2) % 2 = 0
  OBVIOUS
<1>3. QED
  BY <1>1, <1>2 DEF Elem

(* Each message is the stretch of the stream its place says. *)
LEMMA MensajeTramo ==
  ASSUME caso \in Casos
  PROVE  /\ ~Error => Mensaje("0", 0) = Tramo(0, 1)
         /\ Error => Mensaje("error", 0) = Tramo(0, 1)
         /\ Listado => Cuenta = Tramo(1, 1)
         /\ \A i \in Nat : i < Items => Mensaje("elem", i + 1) = Tramo(Base + 2 * i, 2)
         /\ Mensaje("FIN", 0) = Tramo(Base + 2 * Items, 2)
<1>1. Items \in Nat /\ Base \in {1, 2}
  BY CasoBasics
<1>2. ASSUME NEW p \in Nat, NEW a, a = Flujo(p + 1) PROVE <<a>> = Tramo(p, 1)
  <2>1. <<a>> \in Seq({a}) /\ Len(<<a>>) = 1 /\ \A j \in 1..1 : <<a>>[j] = Flujo(p + j)
    BY <1>2
  <2>2. QED
    BY <2>1, TramoIgual
<1>3. ASSUME NEW p \in Nat, NEW a, NEW b, a = Flujo(p + 1), b = Flujo(p + 2)
      PROVE  <<a, b>> = Tramo(p, 2)
  <2>1. <<a, b>> \in Seq({a, b}) /\ Len(<<a, b>>) = 2 /\ \A j \in 1..2 : <<a, b>>[j] = Flujo(p + j)
    BY <1>3
  <2>2. QED
    BY <2>1, TramoIgual
<1>4. /\ ~Error => Mensaje("0", 0) = Tramo(0, 1)
      /\ Error => Mensaje("error", 0) = Tramo(0, 1)
  <2>1. \A que \in {"0", "error"} : Mensaje(que, 0) = <<[que |-> que, i |-> 0, parte |-> 0]>>
    BY DEF Mensaje, Largos
  <2>2. <<Flujo(1)>> = Tramo(0, 1)
    BY <1>2, 0 + 1 = 1
  <2>3. QED
    BY <2>1, <2>2, FlujoBasics
<1>5. Listado => Cuenta = Tramo(1, 1)
  <2>1. Cuenta = <<[que |-> "cuenta", i |-> 0, parte |-> 0]>>
    BY DEF Cuenta, Mensaje, Largos
  <2>2. <<Flujo(2)>> = Tramo(1, 1)
    BY <1>2, 1 + 1 = 2
  <2>3. QED
    BY <2>1, <2>2, FlujoBasics
<1>6. ASSUME NEW i \in Nat, i < Items PROVE Mensaje("elem", i + 1) = Tramo(Base + 2 * i, 2)
  <2>1. Mensaje("elem", i + 1) = <<Elem(2 * i + 1), Elem(2 * i + 2)>>
    BY ElemBasics DEF Mensaje, Largos
  <2>2. /\ 2 * i + 1 \in 1..2 * Items /\ 2 * i + 2 \in 1..2 * Items
        /\ Base + (2 * i + 1) = (Base + 2 * i) + 1 /\ Base + (2 * i + 2) = (Base + 2 * i) + 2
        /\ Base + 2 * i \in Nat
    BY <1>1, <1>6
  <2>3. Elem(2 * i + 1) = Flujo((Base + 2 * i) + 1) /\ Elem(2 * i + 2) = Flujo((Base + 2 * i) + 2)
    BY <2>2, FlujoBasics
  <2>4. QED
    BY <1>3, <2>1, <2>2, <2>3
<1>7. Mensaje("FIN", 0) = Tramo(Base + 2 * Items, 2)
  <2>1. Mensaje("FIN", 0) = <<[que |-> "FIN", i |-> 0, parte |-> 1], [que |-> "FIN", i |-> 0, parte |-> 2]>>
    BY DEF Mensaje, Largos
  <2>2. Base + 2 * Items \in Nat
    BY <1>1
  <2>3. QED
    BY <1>3, <2>1, <2>2, FlujoBasics
<1>8. QED
  BY <1>4, <1>5, <1>6, <1>7

(* What the other end has is the part of the stream between the head and the mark. *)
LEMMA TodoTramo ==
  ASSUME caso \in Casos PROVE Todo = Tramo(Base, 2 * Items)
<1>1. Todo = [j \in 1..2 * Items |-> Elem(j)]
  BY DEF Todo, Elem, Items
<1>2. QED
  BY <1>1, FlujoBasics DEF Tramo

(* What a recv takes of a stretch, and what it leaves. *)
LEMMA TramoLeible ==
  ASSUME NEW p \in Nat, NEW m \in Nat, NEW otro, NEW r \in Leibles(Tramo(p, m), otro)
  PROVE  \E k \in 0..m :
           /\ r = Tramo(p, k) /\ Len(r) = k /\ Cola(Tramo(p, m), Len(r)) = Tramo(p + k, m - k)
           /\ k = 0 => r = <<>> /\ m = 0 /\ corte[otro] # "abierto"
           /\ k > 0 => r # <<>> /\ k \in Cortes(Tramo(p, m), otro)
<1>1. Len(Tramo(p, m)) = m
  BY TramoSeq
<1>2. CASE r = <<>> /\ Tramo(p, m) = <<>> /\ corte[otro] # "abierto"
  <2>1. m = 0 /\ r = Tramo(p, 0)
    BY <1>2, TramoVacio
  <2>2. Len(r) = 0 /\ Cola(Tramo(p, m), 0) = Tramo(p + 0, m - 0)
    <3>1. Len(r) = 0
      BY <2>1, TramoSeq
    <3>2. 0 \in 0..m
      OBVIOUS
    <3>3. QED
      BY <3>1, <3>2, TramoParte
  <2>3. 0 \in 0..m
    OBVIOUS
  <2>4. QED
    BY <1>2, <2>1, <2>2, <2>3
<1>3. ASSUME NEW k \in Cortes(Tramo(p, m), otro), r = SubSeq(Tramo(p, m), 1, k)
      PROVE  k \in 1..m /\ r = Tramo(p, k) /\ Len(r) = k /\ r # <<>>
                        /\ Cola(Tramo(p, m), Len(r)) = Tramo(p + k, m - k)
  <2>1. k \in 1..m
    BY <1>1 DEF Cortes
  <2>2. k \in Nat /\ k \in 0..m /\ k # 0
    BY <2>1
  <2>3. r = Tramo(p, k) /\ Cola(Tramo(p, m), k) = Tramo(p + k, m - k)
    BY <1>3, <2>2, TramoParte
  <2>4. Len(r) = k /\ r # <<>>
    BY <2>2, <2>3, TramoSeq, TramoVacio
  <2>5. QED
    BY <2>1, <2>3, <2>4
<1>4. CASE \E k \in Cortes(Tramo(p, m), otro) : r = SubSeq(Tramo(p, m), 1, k)
  <2>1. PICK k \in Cortes(Tramo(p, m), otro) : r = SubSeq(Tramo(p, m), 1, k)
    BY <1>4
  <2>2. k \in 1..m /\ r = Tramo(p, k) /\ Len(r) = k /\ r # <<>>
                   /\ Cola(Tramo(p, m), Len(r)) = Tramo(p + k, m - k)
    BY <1>3, <2>1
  <2>3. k \in 0..m /\ k # 0
    BY <2>2
  <2>4. QED
    BY <2>1, <2>2, <2>3
<1>5. QED
  BY <1>2, <1>4 DEF Leibles

(* Where each recv gets one message: the code of a transfer comes alone. *)
LEMMA CodigoSolo ==
  ASSUME caso \in Casos, caso.red = "amable", ~Listado,
         NEW m \in Nat, NEW k \in Cortes(Tramo(0, m), "srv")
  PROVE  k = 1
<1>1. k \in 1..m /\ \A j \in 1..m : Tramo(0, m)[j] = Flujo(j)
  <2>1. 0 \in Nat /\ \A j \in 1..m : 0 + j = j
    OBVIOUS
  <2>2. Len(Tramo(0, m)) = m /\ \A j \in 1..m : Tramo(0, m)[j] = Flujo(0 + j)
    BY <2>1, TramoSeq
  <2>3. k \in 1..Len(Tramo(0, m))
    BY DEF Cortes
  <2>4. QED
    BY <2>1, <2>2, <2>3
<1>2. ASSUME k >= 2 PROVE FALSE
  <2>1. 1 \in 1..k /\ 2 \in 1..k /\ 1 \in 1..m /\ 2 \in 1..m
    BY <1>1, <1>2
  <2>2. Mismo(Flujo(1), Flujo(2))
    BY <1>1, <2>1 DEF Cortes
  <2>3. Flujo(2).que \in {"elem", "FIN"}
    BY DEF Flujo, Elem
  <2>4. Flujo(1).que \in {"0", "error"}
    BY DEF Flujo
  <2>5. QED
    BY <2>2, <2>3, <2>4 DEF Mismo
<1>3. QED
  BY <1>1, <1>2

(* Nor is the count of a listing, there. *)
LEMMA CuentaSola ==
  ASSUME caso \in Casos, caso.red = "amable", Listado,
         NEW m \in Nat, NEW k \in Cortes(Tramo(1, m), "srv")
  PROVE  k = 1
<1>1. k \in 1..m /\ \A j \in 1..m : Tramo(1, m)[j] = Flujo(1 + j)
  BY TramoSeq DEF Cortes
<1>2. ASSUME k >= 2 PROVE FALSE
  <2>1. 1 \in 1..k /\ 2 \in 1..k /\ 1 \in 1..m /\ 2 \in 1..m /\ 1 + 1 = 2 /\ 1 + 2 = 3
    BY <1>1, <1>2
  <2>2. Mismo(Flujo(2), Flujo(3))
    BY <1>1, <2>1 DEF Cortes
  <2>3. Flujo(3).que \in {"elem", "FIN"}
    BY DEF Flujo, Elem
  <2>4. Flujo(2).que = "cuenta"
    BY FlujoBasics
  <2>5. QED
    BY <2>2, <2>3, <2>4 DEF Mismo
<1>3. QED
  BY <1>1, <1>2

(* After the head, a recv gets two pieces, unless there are none. *)
LEMMA MensajeEntero ==
  ASSUME caso \in Casos, caso.red = "amable",
         NEW h \in Nat, h <= Items, NEW m \in Nat, m % 2 = 0, h = Items => m <= 2,
         NEW k \in Cortes(Tramo(Base + 2 * h, m), "srv")
  PROVE  k = 2
<1> DEFINE s == Tramo(Base + 2 * h, m)
<1>1. Items \in Nat /\ Base \in {1, 2} /\ Base + 2 * h \in Nat
  BY CasoBasics
<1>2. /\ Len(s) = m /\ k \in 1..m
      /\ \A j \in 1..m : s[j] = Flujo((Base + 2 * h) + j)
  BY <1>1, TramoSeq DEF Cortes
<1>3. /\ \A j \in 1..k : Mismo(s[1], s[j])
      /\ k < Len(s) => ~Mismo(s[1], s[k + 1])
  BY DEF Cortes
<1> HIDE DEF s
<1>4. m >= 2
  BY <1>2
<1>5. s[1] = Flujo((Base + 2 * h) + 1) /\ s[2] = Flujo((Base + 2 * h) + 2)
      /\ (m > 2 => s[3] = Flujo((Base + 2 * h) + 3))
  <2>1. 1 \in 1..m /\ 2 \in 1..m /\ (m > 2 => 3 \in 1..m)
    BY <1>4
  <2>2. QED
    BY <1>2, <2>1
<1>6. CASE h < Items
  <2>1. /\ 2 * h + 1 \in 1..2 * Items /\ 2 * h + 2 \in 1..2 * Items
        /\ (Base + 2 * h) + 1 = Base + (2 * h + 1) /\ (Base + 2 * h) + 2 = Base + (2 * h + 2)
    BY <1>1, <1>6
  <2>2. /\ Flujo((Base + 2 * h) + 1) = [que |-> "elem", i |-> h + 1, parte |-> 1]
        /\ Flujo((Base + 2 * h) + 2) = [que |-> "elem", i |-> h + 1, parte |-> 2]
    <3>1. Flujo(Base + (2 * h + 1)) = Elem(2 * h + 1) /\ Flujo(Base + (2 * h + 2)) = Elem(2 * h + 2)
      BY <2>1, FlujoBasics
    <3>2. /\ Elem(2 * h + 1) = [que |-> "elem", i |-> h + 1, parte |-> 1]
          /\ Elem(2 * h + 2) = [que |-> "elem", i |-> h + 1, parte |-> 2]
      BY ElemBasics
    <3>3. QED
      BY <2>1, <3>1, <3>2
  <2>3. Mismo(s[1], s[2]) /\ s[1].que = "elem" /\ s[1].i = h + 1
    BY <1>5, <2>2 DEF Mismo
  <2>4. k >= 2
    BY <1>2, <1>3, <1>4, <2>3
  <2>5. ASSUME m > 2 PROVE ~Mismo(s[1], s[3])
    <3>1. CASE h + 1 < Items
      <4>1. 2 * (h + 1) + 1 \in 1..2 * Items /\ (Base + 2 * h) + 3 = Base + (2 * (h + 1) + 1) /\ h + 1 \in Nat
        BY <1>1, <3>1
      <4>2. Flujo(Base + (2 * (h + 1) + 1)) = Elem(2 * (h + 1) + 1)
        BY <4>1, FlujoBasics
      <4>3. Elem(2 * (h + 1) + 1).i = (h + 1) + 1
        <5>1. Elem(2 * (h + 1) + 1) = [que |-> "elem", i |-> (h + 1) + 1, parte |-> 1]
          BY <4>1, ElemBasics
        <5>2. QED
          BY <5>1
      <4>4. Flujo((Base + 2 * h) + 3).i = h + 2
        BY <4>1, <4>2, <4>3
      <4>5. QED
        BY <1>5, <2>3, <2>5, <4>4 DEF Mismo
    <3>2. CASE h + 1 = Items
      <4>1. (Base + 2 * h) + 3 = Base + 2 * Items + 1
        BY <1>1, <3>2
      <4>2. Flujo(Base + 2 * Items + 1).que = "FIN"
        BY FlujoBasics
      <4>3. QED
        BY <1>5, <2>3, <2>5, <4>1, <4>2 DEF Mismo
    <3>3. QED
      BY <1>1, <1>6, <3>1, <3>2
  <2>6. ASSUME k > 2 PROVE FALSE
    <3>1. m > 2 /\ 3 \in 1..k
      BY <1>2, <2>6
    <3>2. QED
      BY <1>3, <2>5, <3>1
  <2>7. QED
    BY <1>2, <2>4, <2>6
<1>7. CASE h = Items
  <2>1. m = 2
    BY <1>4, <1>7
  <2>2. /\ Flujo(Base + 2 * Items + 1) = [que |-> "FIN", i |-> 0, parte |-> 1]
        /\ Flujo(Base + 2 * Items + 2) = [que |-> "FIN", i |-> 0, parte |-> 2]
    BY FlujoBasics
  <2>3. Mismo(s[1], s[2])
    BY <1>5, <1>7, <2>2 DEF Mismo
  <2>4. k # 1
    BY <1>2, <1>3, <2>1, <2>3
  <2>5. QED
    BY <1>2, <2>1, <2>4
<1>8. QED
  BY <1>1, <1>6, <1>7

-----------------------------------------------------------------------------
(* The other end *)

(* The stream of a conversation does not change. *)
LEMMA MismoFlujo ==
  ASSUME caso' = caso
  PROVE  /\ Base' = Base /\ Items' = Items /\ (Listado <=> Listado') /\ (Error <=> Error')
         /\ \A p, m \in Nat : Tramo(p, m)' = Tramo(p, m)
         /\ \A m \in Nat : Tramo(Base, m)' = Tramo(Base, m)
<1>1. Base' = Base /\ Items' = Items /\ (Listado <=> Listado') /\ (Error <=> Error')
  BY DEF Base, Items, Listado, Error
<1>2. \A k : Flujo(k)' = Flujo(k)
  BY <1>1 DEF Flujo, Elem
<1>3. QED
  BY <1>1, <1>2 DEF Tramo

(* A request is not read before all of it is there. *)
LEMMA PeticionEntera ==
  ASSUME caso.red = "amable", corte["cli"] = "abierto",
         sube \in {<<>>, <<Peticion[1]>>, Peticion}, NEW r \in Leibles(sube, "cli")
  PROVE  Len(r) = 2 /\ r # <<>>
<1> DEFINE a == [que |-> "peticion", i |-> 0, parte |-> 1]
           b == [que |-> "peticion", i |-> 0, parte |-> 2]
<1>1. Peticion = <<a, b>>
  BY DEF Peticion, Mensaje, Largos
<1>2. a.parte = 1 /\ Mismo(a, b)
  BY DEF Mismo
<1> HIDE DEF a, b
<1>3. /\ sube \in Seq({a, b}) /\ Len(sube) \in 0..2
      /\ (Len(sube) >= 1 => sube[1] = a) /\ (Len(sube) = 2 => sube[2] = b)
  <2>1. CASE sube = <<>>
    BY <2>1, EmptySeq
  <2>2. CASE sube = <<a>>
    BY <2>2
  <2>3. CASE sube = <<a, b>>
    BY <2>3
  <2>4. QED
    BY <1>1, <2>1, <2>2, <2>3
<1>4. PICK k \in Cortes(sube, "cli") : r = SubSeq(sube, 1, k)
  BY DEF Leibles
<1>5. k \in 1..Len(sube) /\ (k < Len(sube) => ~Mismo(sube[1], sube[k + 1])) /\ sube[k].parte # 1
  BY DEF Cortes
<1>6. k = 2
  <2>1. CASE k = 1
    BY <1>2, <1>3, <1>5, <2>1
  <2>2. QED
    BY <1>3, <1>5, <2>1
<1>7. Len(r) = 2
  <2>1. \A j \in 1..k : sube[j] \in {a, b}
    BY <1>3, <1>5, <1>6
  <2>2. QED
    BY <1>4, <1>6, <2>1, SubSeqProperties
<1>8. r # <<>>
  BY <1>7
<1>9. QED
  BY <1>7, <1>8

(* What a step of the other end has to show, k pieces being sent in it. *)
LEMMA SrvPaso ==
  ASSUME DInv, cli.fin = "no", UNCHANGED <<caso, cli>>,
         DOMAIN srv' = {"paso", "i"}, DOMAIN corte' = {"cli", "srv"},
         NEW p \in Nat, NEW m \in Nat, NEW g \in Nat, Viva(p, m, g), NEW k \in Nat,
         baja' = Tramo(p, m + k), Emitido(p + (m + k))', Enviado', Fiable' => Fiable,
         Listado /\ cli.paso = "codigo" => p + (m + k) <= 1,
         corte'["cli"] = "abierto", corte["srv"] # "abierto" => corte'["srv"] # "abierto",
         corte'["srv"] # "abierto" => srv'.paso \in {"cerrado", "matado"}
  PROVE  DInv'
<1>1. /\ Base' = Base /\ Items' = Items /\ (Listado <=> Listado')
      /\ Tramo(p, m + k)' = Tramo(p, m + k) /\ Tramo(Base, g)' = Tramo(Base, g)
  <2>1. m + k \in Nat /\ caso' = caso
    OBVIOUS
  <2>2. QED
    BY <2>1, MismoFlujo
<1>2. Leido(p, g)'
  BY <1>1, MismoFlujo DEF Viva, Leido
<1>3. Viva(p, m + k, g)'
  <2>1. baja' = Tramo(p, m + k)' /\ cli'.recibido = Tramo(Base, g)' /\ g <= 2 * Items'
    BY <1>1 DEF Viva
  <2>2. Listado' /\ cli'.paso = "codigo" => p + (m + k) <= 1
    BY <1>1
  <2>3. Cortado'
    BY DEF Viva, Cortado, Entera, Mismo
  <2>4. QED
    BY <1>2, <2>1, <2>2, <2>3 DEF Viva
<1>4. m + k \in Nat
  OBVIOUS
<1>5. QED
  BY <1>3, <1>4 DEF DInv

(* The steps of the other end, its kill and a reset keep the invariant. *)
LEMMA ServidorMantiene ==
  ASSUME DInv, Servidor \/ AceptaOtra \/ MataServidor \/ LlegaReset
  PROVE  DInv' /\ UNCHANGED <<caso, cli>>
<1>1. UNCHANGED <<caso, cli>>
  BY DEF Servidor, AceptaOtra, MataServidor, LlegaReset, LeePeticion, MandaCodigo, EsperaCodigo,
         MandaCuenta, MandaElemento, EsperaElemento, NoAbre, MandaFin, Termina, SoloSrv
<1> SUFFICES DInv'
  BY <1>1
<1>2. /\ DOMAIN srv = {"paso", "i"} /\ DOMAIN corte = {"cli", "srv"}
      /\ \A e : DOMAIN Avisa(e) = {"cli", "srv"}
      /\ \A e, q : DOMAIN Cierra(e, q) = {"cli", "srv"}
  BY DEF DInv, Avisa, Cierra
<1>3. DOMAIN srv' = {"paso", "i"}
  <2>1. ASSUME NEW paso, Sigue(paso) PROVE DOMAIN srv' = {"paso", "i"}
    BY <1>2, <2>1 DEF Sigue
  <2>2. CASE LeePeticion \/ MandaCodigo \/ EsperaCodigo \/ MandaCuenta \/ EsperaElemento
             \/ NoAbre \/ MandaFin \/ Termina \/ AceptaOtra \/ MataServidor
    BY <1>2, <2>1, <2>2 DEF LeePeticion, MandaCodigo, EsperaCodigo, MandaCuenta, EsperaElemento, NoAbre,
         MandaFin, Termina, AceptaOtra, MataServidor, Emite, NoPuede, SinConfirmar
  <2>3. CASE MandaElemento
    BY <2>1, <2>3 DEF MandaElemento, Emite, NoPuede
  <2>4. CASE LlegaReset
    BY <1>2, <2>4 DEF LlegaReset
  <2>5. QED
    BY <2>2, <2>3, <2>4 DEF Servidor
<1>4. DOMAIN corte' = {"cli", "srv"}
  BY <1>2 DEF Servidor, AceptaOtra, MataServidor, LlegaReset, LeePeticion, MandaCodigo, EsperaCodigo,
         MandaCuenta, MandaElemento, EsperaElemento, NoAbre, MandaFin, Termina, Emite, NoPuede, SinConfirmar
<1>5. CASE cli.fin # "no"
  <2>1. ASSUME cli.fin \in {"ok", "fallo", "excepcion"}, Buena PROVE NadaPendiente'
    <3>1. NadaPendiente
      BY <2>1 DEF DInv
    <3>2. CASE srv.paso = "matado"
      <4>1. UNCHANGED srv
        BY <3>2 DEF Servidor, AceptaOtra, MataServidor, LlegaReset, LeePeticion, MandaCodigo,
             EsperaCodigo, MandaCuenta, MandaElemento, EsperaElemento, NoAbre, MandaFin, Termina, Finales
      <4>2. QED
        BY <3>2, <4>1 DEF NadaPendiente
    <3>3. CASE srv.paso = "cerrado"
      <4>1. UNCHANGED srv
        BY <3>3 DEF Servidor, AceptaOtra, MataServidor, LlegaReset, LeePeticion, MandaCodigo,
             EsperaCodigo, MandaCuenta, MandaElemento, EsperaElemento, NoAbre, MandaFin, Termina, Finales
      <4>2. QED
        BY <3>3, <4>1 DEF NadaPendiente
    <3>4. CASE corte["cli"] = "cerrado" /\ srv.paso \in {"fin", "acepta"}
      <4>1. Sigue("cerrado") \/ Sigue("matado") \/ (UNCHANGED srv /\ corte'["cli"] = "cerrado")
        BY <1>2, <2>1, <3>4 DEF Buena, Servidor, AceptaOtra, MataServidor, LlegaReset, LeePeticion, MandaCodigo,
             EsperaCodigo, MandaCuenta, MandaElemento, EsperaElemento, NoAbre, MandaFin, Termina
      <4>2. QED
        BY <1>2, <3>4, <4>1 DEF NadaPendiente, Sigue
    <3>5. CASE corte["cli"] = "cerrado" /\ Listado /\ srv.paso = "confElem" /\ srv.i = caso.n
      <4>1. Siguiente = "fin"
        BY <3>5, CasoBasics DEF Siguiente, DInv
      <4>2. \/ Sigue("fin") /\ UNCHANGED corte
            \/ Sigue("matado")
            \/ UNCHANGED srv /\ corte'["cli"] = "cerrado"
        BY <1>2, <3>5, <4>1 DEF Servidor, AceptaOtra, MataServidor, LlegaReset, LeePeticion, MandaCodigo,
             EsperaCodigo, MandaCuenta, MandaElemento, EsperaElemento, NoAbre, MandaFin, Termina, SinConfirmar
      <4>3. QED
        BY <1>1, <1>2, <3>5, <4>2 DEF NadaPendiente, Sigue, Listado
    <3>6. QED
      BY <3>1, <3>2, <3>3, <3>4, <3>5 DEF NadaPendiente
  <2>2. QED
    BY <1>1, <1>3, <1>4, <1>5, <2>1 DEF Abren, DInv, Buena
<1>6. CASE cli.fin = "no"
  <2>1. PICK p \in Nat, m \in Nat, g \in Nat : Viva(p, m, g)
    BY <1>6 DEF DInv
  <2>2. /\ baja = Tramo(p, m) /\ Emitido(p + m) /\ Enviado
        /\ corte["cli"] = "abierto"
        /\ corte["srv"] # "abierto" => srv.paso \in {"cerrado", "matado"}
        /\ Listado /\ cli.paso = "codigo" => p + m <= 1
    BY <2>1 DEF Viva
  <2>3. /\ Items \in Nat /\ Base \in {1, 2} /\ caso.n \in Int /\ caso \in Casos
        /\ Error => caso.n = -1 /\ Items = 0
        /\ ~Error => caso.n >= 0 /\ Items = caso.n
        /\ caso.n >= 0 => Items = caso.n
        /\ Listado => Base = 2 /\ caso.tipo \in {"users", "content"}
        /\ ~Listado => Base = 1 /\ caso.tipo = "file" /\ caso.red = "amable"
    BY CasoBasics DEF DInv
  <2>4. /\ Base' = Base /\ Items' = Items /\ (Listado <=> Listado') /\ (Error <=> Error')
        /\ caso' = caso /\ cli' = cli
    BY <1>1, MismoFlujo
  <2>5. srv.i \in 0..Items /\ srv.i \in Nat
    BY <2>2 DEF Emitido
  (* Steps in which nothing is sent. *)
  <2>6. ASSUME UNCHANGED baja, Emitido(p + m)', Enviado', Fiable' => Fiable,
               corte'["cli"] = "abierto", corte["srv"] # "abierto" => corte'["srv"] # "abierto",
               corte'["srv"] # "abierto" => srv'.paso \in {"cerrado", "matado"}
        PROVE  DInv'
    <3>1. m + 0 = m /\ 0 \in Nat
      OBVIOUS
    <3>2. QED
      BY <1>1, <1>3, <1>4, <1>6, <2>1, <2>2, <2>6, <3>1, SrvPaso
  (* Steps in which a message is. *)
  <2>7. ASSUME NEW k \in Nat, baja' = baja \o Tramo(p + m, k), corte' = corte,
               srv'.paso # "matado", srv.paso \notin Finales,
               Emitido(p + (m + k))', Enviado', Listado /\ cli.paso = "codigo" => p + (m + k) <= 1
        PROVE  DInv'
    <3>1. baja' = Tramo(p, m + k) /\ corte' = corte
      BY <2>2, <2>7, TramoSigue
    <3>2. Fiable' => Fiable
      BY <2>4, <2>7 DEF Abren, Fiable, Finales
    <3>3. corte'["srv"] = "abierto"
      BY <2>2, <2>7, <3>1 DEF Finales
    <3>4. QED
      BY <1>1, <1>3, <1>4, <1>6, <2>1, <2>2, <2>7, <3>1, <3>2, <3>3, SrvPaso
  <2>8. CASE LeePeticion
    <3>1. /\ srv.paso = "pide" /\ ~Listado /\ sube \in {<<>>, <<Peticion[1]>>, Peticion}
          /\ p + m = 0 /\ srv.i = 0
      BY <2>2, <2>8 DEF LeePeticion, Enviado, Emitido
    <3>2. \A r \in Leibles(sube, "cli") : Len(r) = 2 /\ r # <<>>
      BY <2>2, <2>3, <3>1, PeticionEntera
    <3>3. Sigue("codigo") /\ UNCHANGED <<corte, baja>>
      BY <2>8, <3>2 DEF LeePeticion
    <3>4. srv'.paso = "codigo" /\ srv'.i = 0
      BY <1>2, <3>1, <3>3 DEF Sigue
    <3>5. Emitido(p + m)'
      BY <2>3, <2>4, <3>1, <3>4 DEF Emitido
    <3>6. Enviado'
      BY <2>4, <3>1, <3>4 DEF Enviado
    <3>7. Fiable' => Fiable
      BY <2>4, <3>1 DEF Abren, Fiable
    <3>8. QED
      BY <2>2, <2>6, <3>1, <3>3, <3>5, <3>6, <3>7
  <2>9. CASE MandaCodigo
    <3>1. srv.paso = "codigo" /\ p + m = 0 /\ srv.i = 0
      BY <2>2, <2>9 DEF MandaCodigo, Emitido
    <3>2. PICK msg, paso : /\ Emite(msg, Sigue(paso)) /\ msg = Tramo(p + m, 1)
                           /\ ~Error => paso = IF Listado THEN "conf" ELSE Primero
                           /\ Error => paso = IF Listado THEN "conf" ELSE "acepta"
      BY <2>3, <2>9, <3>1, MensajeTramo DEF MandaCodigo
    <3>3. Sigue(paso) /\ baja' = baja \o msg /\ corte' = corte
      BY <2>2, <3>2 DEF Emite, NoPuede, Envia, Avisa
    <3>4. srv'.paso = paso /\ srv'.i = 0
      BY <1>2, <3>1, <3>3 DEF Sigue
    <3>5. /\ paso \in {"conf", "acepta", "elem", "FIN"} /\ (paso = "conf" <=> Listado)
          /\ (paso = "elem" => ~Listado /\ Items > 0) /\ (paso = "FIN" => Items = 0 /\ 0 <= caso.n)
      BY <2>3, <3>2 DEF Primero
    <3>6. Emitido(p + (m + 1))'
      BY <2>3, <2>4, <3>1, <3>4, <3>5 DEF Emitido
    <3>7. Enviado'
      <4>1. UNCHANGED sube
        BY <2>9 DEF MandaCodigo, SoloSrv
      <4>2. QED
        BY <2>2, <2>4, <3>4, <3>5, <4>1 DEF Enviado
    <3>8. p + (m + 1) = 1 /\ baja' = baja \o Tramo(p + m, 1) /\ corte' = corte
      BY <3>1, <3>2, <3>3
    <3>9. srv'.paso # "matado" /\ srv.paso \notin Finales
      BY <3>1, <3>4, <3>5 DEF Finales
    <3>10. QED
      BY <2>7, <3>6, <3>7, <3>8, <3>9
  <2>10. CASE EsperaCodigo
    <3>1. srv.paso = "conf" /\ p + m = 1 /\ Listado /\ srv.i = 0
      BY <2>2, <2>10 DEF EsperaCodigo, Emitido
    <3>2. Sigue("cuenta") /\ sube # <<>> /\ UNCHANGED <<corte, baja>>
      BY <2>2, <2>10 DEF EsperaCodigo, Confirmado, SinConfirmar
    <3>3. srv'.paso = "cuenta" /\ srv'.i = 0
      BY <1>2, <3>1, <3>2 DEF Sigue
    <3>4. Emitido(p + m)'
      BY <2>3, <2>4, <3>1, <3>3 DEF Emitido
    <3>5. Enviado'
      BY <2>2, <2>4, <3>2, <3>3 DEF Enviado
    <3>6. Fiable' => Fiable
      BY <2>4, <3>1 DEF Abren, Fiable
    <3>7. QED
      BY <2>2, <2>6, <3>1, <3>2, <3>4, <3>5, <3>6
  <2>11. CASE MandaCuenta
    <3>1. srv.paso = "cuenta" /\ p + m = 1 /\ Listado /\ srv.i = 0 /\ UNCHANGED sube
      BY <2>2, <2>11 DEF MandaCuenta, Emitido, SoloSrv
    <3>2. Enviado' <=> srv'.paso # "pide"
      BY <2>2, <2>4, <3>1 DEF Enviado
    <3>3. CASE caso.tipo = "content" /\ Error /\ Sigue("fin") /\ UNCHANGED <<baja, corte>>
      <4>1. srv'.paso = "fin" /\ srv'.i = 0
        BY <1>2, <3>1, <3>3 DEF Sigue
      <4>2. Emitido(p + m)'
        BY <2>3, <2>4, <3>1, <3>3, <4>1 DEF Emitido
      <4>3. Fiable' => Fiable
        BY <2>4, <3>1 DEF Abren, Fiable
      <4>4. QED
        BY <2>2, <2>6, <3>1, <3>2, <3>3, <4>1, <4>2, <4>3
    <3>4. CASE Emite(Cuenta, Sigue(Primero))
      <4>1. Sigue(Primero) /\ baja' = baja \o Cuenta /\ corte' = corte
        BY <2>2, <3>4 DEF Emite, NoPuede, Envia, Avisa
      <4>2. srv'.paso = Primero /\ srv'.i = 0
        BY <1>2, <3>1, <4>1 DEF Sigue
      <4>3. Primero \in {"elem", "fin"} /\ (Primero = "elem" <=> Items > 0)
        BY <2>3, <3>1 DEF Primero
      <4>4. Emitido(2)'
        BY <2>3, <2>4, <3>1, <4>2, <4>3 DEF Emitido
      <4>5. p + (m + 1) = 2 /\ Cuenta = Tramo(p + m, 1)
        BY <2>3, <3>1, MensajeTramo
      <4>6. ~(Listado /\ cli.paso = "codigo")
        BY <2>2, <3>1 DEF Enviado
      <4>7. srv'.paso # "matado" /\ srv.paso \notin Finales /\ srv'.paso # "pide"
        BY <3>1, <4>2, <4>3 DEF Finales
      <4>8. QED
        BY <2>7, <3>2, <4>1, <4>4, <4>5, <4>6, <4>7
    <3>5. QED
      BY <2>2, <2>11, <3>3, <3>4 DEF MandaCuenta
  <2>12. CASE MandaElemento
    <3>1. /\ srv.paso = "elem" /\ p + m = Base + 2 * srv.i /\ srv.i < Items /\ UNCHANGED sube
      BY <2>2, <2>12 DEF MandaElemento, Emitido, SoloSrv
    <3>2. PICK paso :
            /\ Emite(Mensaje("elem", srv.i + 1), srv' = [i |-> srv.i + 1, paso |-> paso])
            /\ paso = IF caso.tipo # "content" THEN "confElem"
                      ELSE IF srv.i + 1 < caso.n THEN "elem" ELSE "fin"
      BY <2>12 DEF MandaElemento
    <3>3. /\ srv' = [i |-> srv.i + 1, paso |-> paso]
          /\ baja' = baja \o Mensaje("elem", srv.i + 1) /\ corte' = corte
      BY <2>2, <3>2 DEF Emite, NoPuede, Envia, Avisa
    <3>4. srv'.paso = paso /\ srv'.i = srv.i + 1
      BY <3>3
    <3>5. /\ Mensaje("elem", srv.i + 1) = Tramo(p + m, 2)
          /\ p + (m + 2) = Base + 2 * (srv.i + 1) /\ caso.n = Items
      <4>1. Mensaje("elem", srv.i + 1) = Tramo(Base + 2 * srv.i, 2)
        BY <2>3, <2>5, <3>1, MensajeTramo
      <4>2. p + (m + 2) = (p + m) + 2 /\ Base + 2 * (srv.i + 1) = (Base + 2 * srv.i) + 2
        BY <2>3, <2>5
      <4>3. caso.n = Items
        BY <2>3, <2>5, <3>1
      <4>4. QED
        BY <3>1, <4>1, <4>2, <4>3
    <3>6. Emitido(p + (m + 2))'
      <4>1. PICK i \in Nat : i = srv.i + 1
        BY <2>5
      <4>2. i \in 0..Items /\ p + (m + 2) = Base + 2 * i /\ (Base + 2 * i - Base) % 2 = 0
        BY <2>3, <2>5, <3>1, <3>5, <4>1
      <4>3. /\ Base + 2 * i <= Base + 2 * Items + (IF Listado THEN 0 ELSE 2)
            /\ (~(i < Items) => i = Items)
        BY <2>3, <4>2
      <4>4. paso \in {"confElem", "elem", "fin"} /\ (paso = "confElem" <=> caso.tipo # "content")
            /\ (paso = "elem" <=> caso.tipo = "content" /\ i < Items)
        BY <3>2, <3>5, <4>1
      <4>5. (caso.tipo = "content" => Listado) /\ 0 <= caso.n
        BY <2>3, <3>5 DEF Listado
      <4>6. srv'.i = i
        BY <3>4, <4>1
      <4>7. ~Error /\ 1 <= i
        BY <2>5, <4>1, <4>5 DEF Error
      <4>8. QED
        BY <2>3, <2>4, <3>4, <3>5, <4>2, <4>3, <4>4, <4>5, <4>6, <4>7 DEF Emitido
    <3>7. Enviado' /\ ~(Listado /\ cli.paso = "codigo")
      BY <2>2, <2>4, <3>1, <3>2, <3>4 DEF Enviado
    <3>8. srv'.paso # "matado" /\ srv.paso \notin Finales
      BY <3>1, <3>2, <3>4 DEF Finales
    <3>9. QED
      BY <2>7, <3>3, <3>5, <3>6, <3>7, <3>8
  <2>13. CASE EsperaElemento
    <3>1. /\ srv.paso = "confElem" /\ p + m = Base + 2 * srv.i /\ caso.tipo # "content" /\ 0 <= caso.n
      BY <2>2, <2>13 DEF EsperaElemento, Emitido
    <3>2. Sigue(Siguiente) /\ UNCHANGED <<corte, baja>>
      BY <2>2, <2>13 DEF EsperaElemento, SinConfirmar
    <3>3. srv'.paso = Siguiente /\ srv'.i = srv.i
      BY <1>2, <3>2 DEF Sigue
    <3>4. /\ Siguiente \in {"elem", "fin", "FIN"} /\ (Siguiente = "elem" => srv.i < Items)
          /\ (Siguiente = "fin" => Listado /\ srv.i = Items)
          /\ (Siguiente = "FIN" => ~Listado /\ srv.i = Items)
      <4>1. caso.n = Items /\ (~(srv.i < caso.n) => srv.i = Items)
        BY <2>3, <2>5, <3>1
      <4>2. QED
        BY <4>1 DEF Siguiente
    <3>5. Emitido(p + m)'
      BY <2>2, <2>3, <2>4, <2>5, <3>1, <3>3, <3>4 DEF Emitido
    <3>6. Enviado'
      BY <2>2, <2>4, <3>1, <3>3, <3>4 DEF Enviado
    <3>7. Fiable' => Fiable
      BY <2>4, <3>1 DEF Fiable
    <3>8. QED
      BY <2>2, <2>6, <3>1, <3>2, <3>5, <3>6, <3>7
  <2>14. CASE MandaFin
    <3>1. /\ srv.paso = "FIN" /\ ~Listado /\ p + m = Base + 2 * Items /\ UNCHANGED sube
          /\ ~Error
      <4>1. srv.paso = "FIN" /\ UNCHANGED sube
        BY <2>14 DEF MandaFin, SoloSrv
      <4>2. ~Listado /\ p + m = 1 + 2 * Items /\ 0 <= caso.n
        BY <2>2, <4>1 DEF Emitido
      <4>3. QED
        BY <2>3, <4>1, <4>2 DEF Error
    <3>2. Emite(Mensaje("FIN", 0), Sigue("acepta"))
      BY <2>14 DEF MandaFin
    <3>3. Sigue("acepta") /\ baja' = baja \o Mensaje("FIN", 0) /\ corte' = corte
      BY <2>2, <3>2 DEF Emite, NoPuede, Envia, Avisa
    <3>4. srv'.paso = "acepta" /\ srv'.i = srv.i
      BY <1>2, <3>3 DEF Sigue
    <3>5. Mensaje("FIN", 0) = Tramo(p + m, 2) /\ p + (m + 2) = Base + 2 * Items + 2
      BY <2>3, <3>1, MensajeTramo
    <3>6. Emitido(p + (m + 2))'
      <4>1. (Base + 2 * Items + 2 - Base) % 2 = 0
        BY <2>3
      <4>2. QED
        BY <2>3, <2>4, <2>5, <3>1, <3>4, <3>5, <4>1 DEF Emitido
    <3>7. Enviado'
      BY <2>2, <2>4, <3>1, <3>4 DEF Enviado
    <3>8. srv'.paso # "matado" /\ srv.paso \notin Finales
      BY <3>1, <3>4 DEF Finales
    <3>9. QED
      BY <2>7, <3>1, <3>3, <3>5, <3>6, <3>7, <3>8
  <2>15. CASE Termina \/ AceptaOtra
    <3>1. srv.paso \in {"fin", "acepta"} /\ Sigue("cerrado") /\ corte' = Cierra("srv", sube)
          /\ UNCHANGED <<sube, baja>>
      BY <2>15 DEF Termina, AceptaOtra
    <3>2. srv'.paso = "cerrado" /\ srv'.i = srv.i
      BY <1>2, <3>1 DEF Sigue
    <3>3. corte'["cli"] = "abierto" /\ corte'["srv"] # "abierto"
      BY <1>2, <2>2, <3>1 DEF Cierra
    <3>4. Emitido(p + m)'
      BY <2>2, <2>3, <2>4, <2>5, <3>1, <3>2 DEF Abren, Emitido
    <3>5. Enviado'
      BY <2>2, <2>4, <3>1, <3>2 DEF Enviado
    <3>6. Fiable' => Fiable
      BY <2>4, <3>1 DEF Abren, Fiable
    <3>7. QED
      BY <2>6, <3>1, <3>2, <3>3, <3>4, <3>5, <3>6
  <2>16. CASE MataServidor
    <3>1. srv.paso \notin Finales \ {"vuelto"} /\ Sigue("matado") /\ corte' = Cierra("srv", sube)
          /\ UNCHANGED <<sube, baja>>
      BY <2>16 DEF MataServidor
    <3>2. srv'.paso = "matado" /\ srv'.i = srv.i
      BY <1>2, <3>1 DEF Sigue
    <3>3. corte'["cli"] = "abierto" /\ corte'["srv"] # "abierto"
      BY <1>2, <2>2, <3>1 DEF Cierra
    <3>4. Emitido(p + m)'
      BY <2>2, <2>3, <2>4, <2>5, <3>2 DEF Emitido
    <3>5. Enviado'
      BY <2>2, <2>4, <3>1, <3>2 DEF Enviado
    <3>6. Fiable' => Fiable
      BY <2>4, <3>1 DEF Abren, Fiable, Finales
    <3>7. QED
      BY <2>6, <3>1, <3>2, <3>3, <3>4, <3>5, <3>6
  <2>19. CASE NoAbre
    <3>1. /\ srv.paso \in {"elem", "fin"} /\ ~Abren /\ Listado /\ UNCHANGED <<sube, baja, corte>>
          /\ Sigue("vuelto") \/ (caso.tipo = "content" /\ Sigue("fin"))
      BY <2>3, <2>19 DEF NoAbre, Listado
    <3>2. srv'.i = srv.i /\ (srv'.paso = "vuelto" \/ (caso.tipo = "content" /\ srv'.paso = "fin"))
      BY <1>2, <3>1 DEF Sigue
    <3>3. Emitido(p + m)'
      BY <2>2, <2>3, <2>4, <2>5, <3>1, <3>2 DEF Abren, Emitido
    <3>4. Enviado'
      BY <2>2, <2>4, <3>1, <3>2 DEF Enviado
    <3>5. Fiable' => Fiable
      BY <2>4, <3>1 DEF Abren, Fiable
    <3>6. QED
      BY <2>2, <2>6, <3>1, <3>3, <3>4, <3>5
  <2>17. CASE LlegaReset
    <3>1. corte' = [corte EXCEPT !["srv"] = "roto"] /\ corte["srv"] = "avisado" /\ UNCHANGED <<sube, baja, srv>>
      <4>1. UNCHANGED <<sube, baja, srv>>
        BY <2>17 DEF LlegaReset
      <4>2. PICK e \in {"cli", "srv"} : corte[e] = "avisado" /\ corte' = [corte EXCEPT ![e] = "roto"]
        BY <2>17 DEF LlegaReset
      <4>3. e = "srv"
        BY <2>2, <4>2
      <4>4. QED
        BY <4>1, <4>2, <4>3
    <3>2. corte'["cli"] = "abierto" /\ corte'["srv"] = "roto" /\ srv.paso \in {"cerrado", "matado"}
      BY <1>2, <2>2, <3>1
    <3>3. Emitido(p + m)' /\ Enviado' /\ (Fiable' => Fiable)
      BY <2>2, <2>4, <3>1 DEF Abren, Emitido, Enviado, Fiable
    <3>4. QED
      BY <2>6, <3>1, <3>2, <3>3
  <2>18. QED
    BY <2>8, <2>9, <2>10, <2>11, <2>12, <2>13, <2>14, <2>15, <2>16, <2>17, <2>19 DEF Servidor
<1>7. QED
  BY <1>5, <1>6

-----------------------------------------------------------------------------
(* The client *)

(* The command goes on, or ends, and has kept more of the stream: all the   *)
(* items when it ends well and that can be relied on.                       *)
Progresa ==
  /\ caso' = caso /\ cli.fin = "no"
  /\ cli'.fin \in {"no", "ok", "fallo", "excepcion", "matado"}
  /\ \E g, g1 \in Nat : /\ g <= g1 /\ g1 <= 2 * Items
                        /\ cli.recibido = Tramo(Base, g) /\ cli'.recibido = Tramo(Base, g1)
                        /\ cli'.fin = "ok" /\ Fiable => g1 = 2 * Items

(* So do those of the client, and they go on with the delivery. *)
LEMMA ClienteMantiene ==
  ASSUME DInv, Cliente \/ MataCliente
  PROVE  DInv' /\ Progresa
<1>1. UNCHANGED <<caso, srv>>
  BY Zenon DEF Cliente, MataCliente, PideArchivo, LeeCodigo, ConfirmaCodigo, LeeCuenta, LeeElemento,
         ConfirmaElemento, AnalizaLinea, LeeTrozo, ConfirmaTrozo, RecvFalla, SoloCli
<1>2. cli.fin = "no" /\ cli.paso # "acabado"
  BY Zenon DEF DInv, Cliente, MataCliente, PideArchivo, LeeCodigo, ConfirmaCodigo, LeeCuenta, LeeElemento,
         ConfirmaElemento, AnalizaLinea, LeeTrozo, ConfirmaTrozo, RecvFalla
<1>3. /\ DOMAIN cli = {"paso", "i", "leido", "resp", "recibido", "fin"} /\ DOMAIN corte = {"cli", "srv"}
      /\ cli.i \in Nat /\ caso \in Casos
      /\ DOMAIN Avisa("srv") = {"cli", "srv"} /\ \A q : DOMAIN Cierra("cli", q) = {"cli", "srv"}
  BY DEF DInv, Avisa, Cierra
<1>4. /\ Items \in Nat /\ Base \in {1, 2} /\ caso.n \in Int
      /\ Error => caso.n = -1 /\ Items = 0
      /\ caso.n >= 0 => Items = caso.n
      /\ Listado => Base = 2 /\ caso.tipo \in {"users", "content"}
      /\ ~Listado => Base = 1 /\ caso.tipo = "file" /\ caso.red = "amable"
  BY CasoBasics DEF DInv
<1>5. PICK p \in Nat, m \in Nat, g \in Nat : Viva(p, m, g)
  BY <1>2 DEF DInv
<1>6. /\ baja = Tramo(p, m) /\ cli.recibido = Tramo(Base, g) /\ g <= 2 * Items
      /\ Emitido(p + m) /\ Leido(p, g) /\ Enviado /\ Cortado
      /\ Listado /\ cli.paso = "codigo" => p + m <= 1
      /\ corte["cli"] = "abierto"
      /\ corte["srv"] # "abierto" => srv.paso \in {"cerrado", "matado"}
  BY <1>5 DEF Viva
<1>7. /\ Base' = Base /\ Items' = Items /\ (Listado <=> Listado') /\ (Error <=> Error')
      /\ caso' = caso /\ srv' = srv /\ (Fiable <=> Fiable')
  BY <1>1, MismoFlujo DEF Abren, Fiable
(* Steps with which the command ends. *)
<1>8. ASSUME cli'.paso = "acabado", cli'.fin \in {"ok", "fallo", "excepcion", "matado"}, cli'.i \in Nat,
             DOMAIN cli' = DOMAIN cli, DOMAIN corte' = {"cli", "srv"},
             NEW g1 \in Nat, g <= g1, g1 <= 2 * Items, cli'.recibido = Tramo(Base, g1),
             cli'.fin = "ok" /\ Fiable => g1 = 2 * Items,
             cli'.fin # "matado" /\ Buena => NadaPendiente'
      PROVE  DInv' /\ Progresa
  <2>1. DInv'
    BY <1>1, <1>8 DEF Abren, DInv, Buena
  <2>2. Progresa
    BY <1>1, <1>2, <1>6, <1>8 DEF Progresa
  <2>3. QED
    BY <2>1, <2>2
(* Steps with which it goes on, having read k pieces. *)
<1>9. ASSUME cli'.fin = "no", cli'.paso # "acabado", cli'.i \in Nat,
             DOMAIN cli' = DOMAIN cli, DOMAIN corte' = {"cli", "srv"},
             NEW k \in 0..m, baja' = Tramo(p + k, m - k),
             NEW g1 \in Nat, g <= g1, g1 <= 2 * Items, cli'.recibido = Tramo(Base, g1),
             Leido(p + k, g1)', Enviado', Cortado', Listado /\ cli'.paso = "codigo" => p + m <= 1,
             corte'["cli"] = "abierto", corte'["srv"] # "abierto" => corte["srv"] # "abierto"
      PROVE  DInv' /\ Progresa
  <2>1. Progresa
    BY <1>1, <1>2, <1>6, <1>9 DEF Progresa
  <2>2. p + k \in Nat /\ m - k \in Nat /\ (p + k) + (m - k) = p + m
    OBVIOUS
  <2>3. Emitido(p + m)'
    BY <1>6, <1>7 DEF Abren, Emitido
  <2>4. Tramo(p + k, m - k)' = Tramo(p + k, m - k) /\ Tramo(Base, g1)' = Tramo(Base, g1)
    BY <1>7, <2>2, MismoFlujo
  <2>5. Viva(p + k, m - k, g1)'
    <3>1. /\ baja' = Tramo(p + k, m - k)' /\ cli'.recibido = Tramo(Base, g1)' /\ g1 <= 2 * Items'
          /\ (Listado' /\ cli'.paso = "codigo" => (p + k) + (m - k) <= 1)
          /\ (corte'["srv"] # "abierto" => srv'.paso \in {"cerrado", "matado"})
      BY <1>6, <1>7, <1>9, <2>2, <2>4
    <3>2. Emitido((p + k) + (m - k))'
      BY <2>2, <2>3
    <3>3. QED
      BY <1>9, <3>1, <3>2 DEF Viva
  <2>6. DInv'
    BY <1>1, <1>3, <1>9, <2>2, <2>5 DEF DInv
  <2>7. QED
    BY <2>1, <2>6
(* A recv. *)
<1>10. ASSUME NEW r \in Recv
       PROVE  \E k \in 0..m :
                /\ r = Tramo(p, k) /\ Len(r) = k /\ Cola(baja, Len(r)) = Tramo(p + k, m - k)
                /\ k = 0 => r = <<>> /\ m = 0 /\ corte["srv"] # "abierto"
                /\ k > 0 => r # <<>> /\ k \in Cortes(Tramo(p, m), "srv")
  <2>1. r \in Leibles(Tramo(p, m), "srv") /\ baja = Tramo(p, m)
    BY <1>6, <1>10 DEF Recv
  <2>2. QED
    BY <2>1, TramoLeible
<1> DEFINE Aviso == corte["srv"] # "abierto" => corte'["srv"] # "abierto"
           Cerrado(k) == corte' = Cierra("cli", Tramo(p + k, m - k))
(* A command that ends when the other end has gone, or with everything read that was sent. *)
<1>11. ASSUME corte["srv"] # "abierto" PROVE NadaPendiente'
  BY <1>6, <1>7, <1>11 DEF NadaPendiente
<1>12. ASSUME NEW k \in 0..m, Cerrado(k), Listado => Abren, cli.paso \notin {"pide", "pideResto"},
              p + k = Base + 2 * Items + (IF Listado THEN 0 ELSE IF Error THEN 0 ELSE 2)
       PROVE  NadaPendiente'
  <2>1. k = m
    BY <1>4, <1>6, <1>12 DEF Emitido
  <2>2. Tramo(p + k, m - k) = <<>>
    <3>1. p + k \in Nat /\ m - k \in Nat /\ m - k = 0
      BY <2>1
    <3>2. QED
      BY <3>1, TramoVacio
  <2>3. corte'["cli"] = "cerrado"
    BY <1>3, <1>12, <2>2 DEF Cierra
  <2>4. p + m = Base + 2 * Items + (IF Listado THEN 0 ELSE IF Error THEN 0 ELSE 2)
    BY <1>12, <2>1
  <2>5. CASE Listado
    <3>1. p + m = 2 + 2 * Items
      BY <1>4, <2>4, <2>5
    <3>2. srv.paso \in {"fin", "cerrado", "matado"} \/ (srv.paso = "confElem" /\ srv.i = caso.n)
      BY <1>4, <1>6, <1>12, <2>5, <3>1 DEF Emitido
    <3>3. QED
      BY <1>7, <2>3, <2>5, <3>2 DEF NadaPendiente
  <2>6. CASE ~Listado
    <3>1. p + m = IF Error THEN 1 ELSE 3 + 2 * Items
      BY <1>4, <2>4, <2>6
    <3>2. srv.paso \in {"acepta", "cerrado", "matado"}
      BY <1>4, <1>6, <2>6, <3>1 DEF Emitido
    <3>3. QED
      BY <1>7, <2>3, <2>6, <3>2 DEF NadaPendiente
  <2>7. QED
    BY <2>5, <2>6
(* Most places of the client ask nothing of the last recv. *)
<1>13. ASSUME cli'.paso \notin {"confCodigo", "cuenta", "confElem", "analiza"} PROVE Cortado'
  BY <1>13 DEF Cortado
(* A send, and the step that follows it or the exception. *)
<1>14. ASSUME NEW paso, NEW msg, paso # "acabado", Manda(msg, Va(paso)), UNCHANGED baja,
              Va(paso) /\ sube' = Envia(sube, msg, "srv") => Enviado' /\ Leido(p, g)',
              Va(paso) /\ Aviso => Cortado',
              Listado => paso # "codigo"
       PROVE  DInv' /\ Progresa
  <2>1. CASE corte["srv"] = "roto" /\ Acaba("excepcion")
    <3>1. /\ cli'.paso = "acabado" /\ cli'.fin = "excepcion" /\ cli'.i = cli.i
          /\ cli'.recibido = cli.recibido /\ DOMAIN cli' = DOMAIN cli /\ DOMAIN corte' = {"cli", "srv"}
      BY <1>3, <2>1 DEF Acaba
    <3>2. NadaPendiente'
      BY <1>11, <2>1
    <3>3. QED
      BY <1>3, <1>6, <1>8, <3>1, <3>2
  <2>2. CASE Va(paso) /\ sube' = Envia(sube, msg, "srv") /\ corte' = Avisa("srv")
    <3>1. /\ cli'.paso = paso /\ cli'.fin = "no" /\ cli'.i = cli.i
          /\ cli'.recibido = cli.recibido /\ DOMAIN cli' = DOMAIN cli /\ DOMAIN corte' = {"cli", "srv"}
      BY <1>2, <1>3, <2>2 DEF Va
    <3>2. corte'["cli"] = "abierto" /\ (corte'["srv"] # "abierto" <=> corte["srv"] # "abierto")
      BY <1>3, <1>6, <2>2 DEF Avisa
    <3>3. 0 \in 0..m /\ p + 0 = p /\ m - 0 = m
      OBVIOUS
    <3>4. QED
      BY <1>3, <1>6, <1>9, <1>14, <2>2, <3>1, <3>2, <3>3
  <2>3. QED
    BY <1>14, <2>1, <2>2 DEF Manda
(* After the code of a transfer has been read the request is read, and so is it in a listing. *)
<1>15. ASSUME cli'.paso # "codigo", Listado \/ 1 <= p + m PROVE Enviado'
  <2>1. srv.paso # "pide"
    BY <1>6, <1>15 DEF Enviado, Emitido
  <2>2. QED
    BY <1>7, <1>15, <2>1 DEF Enviado
<1>16. ASSUME NEW paso, Va(paso)
       PROVE  /\ cli'.paso = paso /\ cli'.i = cli.i /\ cli'.leido = cli.leido /\ cli'.resp = cli.resp
              /\ cli'.recibido = cli.recibido /\ cli'.fin = "no" /\ DOMAIN cli' = DOMAIN cli
  BY <1>2, <1>3, <1>16 DEF Va
<1>17. CASE PideArchivo
  <2>1. UNCHANGED baja /\ ~Listado
    BY <1>6, <1>17 DEF PideArchivo, Leido
  <2>2. ASSUME srv.paso = "pide" PROVE corte["srv"] = "abierto"
    BY <1>6, <2>2
  <2>3. Peticion = <<Peticion[1], Peticion[2]>>
    BY DEF Peticion, Mensaje, Largos
  <2>4. CASE cli.paso = "pide" /\ Manda(<<Peticion[1]>>, Va("pideResto"))
    <3>1. ASSUME Va("pideResto") PROVE Leido(p, g)'
      BY <1>4, <1>6, <1>7, <1>16, <2>1, <2>4, <3>1 DEF Leido
    <3>2. ASSUME Va("pideResto"), sube' = Envia(sube, <<Peticion[1]>>, "srv") PROVE Enviado'
      <4>1. srv.paso = "pide" => sube = <<>> /\ sube' = <<>> \o <<Peticion[1]>>
        BY <1>6, <2>2, <2>4, <3>2 DEF Enviado, Envia
      <4>2. <<>> \o <<Peticion[1]>> = <<Peticion[1]>>
        OBVIOUS
      <4>3. Peticion' = Peticion
        BY DEF Peticion, Mensaje
      <4>4. QED
        BY <1>7, <1>16, <2>1, <3>2, <4>1, <4>2, <4>3 DEF Enviado
    <3>3. Va("pideResto") => Cortado'
      BY <1>16, <1>13
    <3>4. QED
      BY <1>14, <2>1, <2>4, <3>1, <3>2, <3>3
  <2>5. CASE cli.paso = "pideResto" /\ Manda(<<Peticion[2]>>, Va("codigo"))
    <3>1. ASSUME Va("codigo") PROVE Leido(p, g)'
      BY <1>4, <1>6, <1>7, <1>16, <2>1, <2>5, <3>1 DEF Leido
    <3>2. ASSUME Va("codigo"), sube' = Envia(sube, <<Peticion[2]>>, "srv") PROVE Enviado'
      <4>1. srv.paso = "pide" => sube' = <<Peticion[1]>> \o <<Peticion[2]>>
        BY <1>6, <2>2, <2>5, <3>2 DEF Enviado, Envia
      <4>2. ASSUME NEW a, NEW b PROVE <<a>> \o <<b>> = <<a, b>>
        <5>1. <<a>> \in Seq({a, b}) /\ <<b>> \in Seq({a, b}) /\ <<a, b>> \in Seq({a, b})
          OBVIOUS
        <5>2. /\ Len(<<a>>) = 1 /\ Len(<<b>>) = 1 /\ Len(<<a, b>>) = 2 /\ <<a>>[1] = a /\ <<b>>[1] = b
              /\ <<a, b>>[1] = a /\ <<a, b>>[2] = b
          OBVIOUS
        <5>3. /\ <<a>> \o <<b>> \in Seq({a, b}) /\ Len(<<a>> \o <<b>>) = 2
              /\ (<<a>> \o <<b>>)[1] = a /\ (<<a>> \o <<b>>)[2] = b
          BY <5>1, <5>2, ConcatProperties
        <5>4. \A j \in 1..2 : (<<a>> \o <<b>>)[j] = <<a, b>>[j]
          <6>1. \A j \in 1..2 : j = 1 \/ j = 2
            OBVIOUS
          <6>2. QED
            BY <5>2, <5>3, <6>1
        <5>5. QED
          BY <5>1, <5>2, <5>3, <5>4, SeqEqual
      <4>3. Peticion' = Peticion
        BY DEF Peticion, Mensaje
      <4>4. QED
        BY <1>7, <1>16, <2>1, <2>3, <3>2, <4>1, <4>2, <4>3 DEF Enviado
    <3>3. Va("codigo") => Cortado'
      BY <1>16, <1>13
    <3>4. QED
      BY <1>14, <2>1, <2>5, <3>1, <3>2, <3>3
  <2>6. QED
    BY <1>17, <2>4, <2>5 DEF PideArchivo
<1>18. CASE ConfirmaCodigo
  <2>1. cli.paso = "confCodigo" /\ Manda(OK, Va("cuenta")) /\ UNCHANGED baja /\ Listado
    BY <1>6, <1>18 DEF ConfirmaCodigo, Leido
  <2>2. ASSUME Va("cuenta") PROVE Leido(p, g)' /\ Enviado'
    BY <1>4, <1>6, <1>7, <1>15, <1>16, <2>1, <2>2 DEF Leido
  <2>3. ASSUME Va("cuenta"), Aviso PROVE Cortado'
    BY <1>6, <1>16, <2>1, <2>3 DEF Cortado
  <2>4. QED
    BY <1>14, <2>1, <2>2, <2>3
<1>19. CASE ConfirmaElemento
  <2>1. cli.paso = "confElem" /\ Manda(OK, Va("analiza")) /\ UNCHANGED baja /\ Listado
    BY <1>6, <1>19 DEF ConfirmaElemento, Leido
  <2>2. ASSUME Va("analiza") PROVE Leido(p, g)' /\ Enviado'
    BY <1>4, <1>6, <1>7, <1>15, <1>16, <2>1, <2>2 DEF Leido
  <2>3. ASSUME Va("analiza"), Aviso PROVE Cortado'
    BY <1>6, <1>7, <1>16, <2>1, <2>3 DEF Cortado, Entera, Mismo
  <2>4. QED
    BY <1>14, <2>1, <2>2, <2>3
<1>20. CASE ConfirmaTrozo
  <2>1. cli.paso = "confTrozo" /\ Manda(OK, Va("trozo")) /\ UNCHANGED baja /\ ~Listado /\ p = 1 + g
    BY <1>4, <1>6, <1>20 DEF ConfirmaTrozo, Leido
  <2>2. 1 <= p + m
    BY <2>1
  <2>3. ASSUME Va("trozo") PROVE Leido(p, g)' /\ Enviado'
    BY <1>4, <1>6, <1>7, <1>15, <1>16, <2>1, <2>2, <2>3 DEF Leido
  <2>4. Va("trozo") => Cortado'
    BY <1>16, <1>13
  <2>5. QED
    BY <1>14, <2>1, <2>3, <2>4
<1>21. ASSUME NEW fin \in {"ok", "excepcion", "matado"}, Acaba(fin), fin = "ok" /\ Fiable => g = 2 * Items,
              fin # "matado" /\ Buena => NadaPendiente'
       PROVE  DInv' /\ Progresa
  <2>1. /\ cli'.paso = "acabado" /\ cli'.fin = fin /\ cli'.i = cli.i
        /\ cli'.recibido = cli.recibido /\ DOMAIN cli' = DOMAIN cli /\ DOMAIN corte' = {"cli", "srv"}
    BY <1>3, <1>21 DEF Acaba
  <2>2. QED
    BY <1>3, <1>6, <1>8, <1>21, <2>1
<1>22. CASE RecvFalla \/ MataCliente
  <2>1. ASSUME RecvFalla PROVE NadaPendiente'
    BY <1>11, <2>1 DEF RecvFalla
  <2>2. QED
    BY <1>21, <1>22, <2>1 DEF RecvFalla, MataCliente
<1>23. CASE AnalizaLinea
  <2>1. cli.paso = "analiza" /\ UNCHANGED <<sube, baja, caso, srv>> /\ Listado
        /\ caso.n = Items /\ (Fiable /\ cli.leido # <<>> => g = 2 * cli.i)
    BY <1>4, <1>6, <1>23 DEF AnalizaLinea, Leido
  <2>2. CASE cli.leido # <<>> /\ cli.i < caso.n /\ Va("elem") /\ UNCHANGED corte
    <3>1. Leido(p, g)'
      BY <1>4, <1>6, <1>7, <1>16, <2>1, <2>2 DEF Leido
    <3>2. Enviado'
      BY <1>15, <1>16, <2>1, <2>2
    <3>3. 0 \in 0..m /\ p + 0 = p /\ m - 0 = m
      OBVIOUS
    <3>4. /\ cli'.paso = "elem" /\ cli'.fin = "no" /\ cli'.i \in Nat /\ cli'.recibido = Tramo(Base, g)
          /\ DOMAIN cli' = DOMAIN cli
      BY <1>3, <1>6, <1>16, <2>2
    <3>5. /\ DOMAIN corte' = {"cli", "srv"} /\ corte'["cli"] = "abierto" /\ corte' = corte
          /\ baja' = Tramo(p + 0, m - 0)
      BY <1>3, <1>6, <2>1, <2>2, <3>3
    <3>6. Leido(p + 0, g)' /\ Cortado'
      BY <1>13, <3>1, <3>3, <3>4
    <3>7. QED
      BY <1>6, <1>9, <3>2, <3>3, <3>4, <3>5, <3>6
  <2>3. CASE cli.leido # <<>> /\ cli.i = caso.n /\ Acaba("ok")
    <3>1. Fiable => g = 2 * Items
      BY <2>1, <2>3
    <3>2. ASSUME Buena PROVE NadaPendiente'
      <4>1. g = 2 * Items /\ p = Base + g
        BY <1>6, <2>1, <3>1, <3>2 DEF Buena, Fiable, Leido
      <4>2. 0 \in 0..m /\ p + 0 = p /\ m - 0 = m
        OBVIOUS
      <4>3. Cerrado(0)
        BY <1>6, <2>3, <4>2 DEF Acaba
      <4>4. p + 0 = Base + 2 * Items + (IF Listado THEN 0 ELSE IF Error THEN 0 ELSE 2)
        BY <1>4, <2>1, <4>1
      <4>5. QED
        BY <1>12, <2>1, <3>2, <4>2, <4>3, <4>4 DEF Buena
    <3>3. QED
      BY <1>21, <2>3, <3>1, <3>2
  <2>4. CASE ~Entera(cli.leido) /\ Acaba("excepcion")
    <3>1. Buena => NadaPendiente'
      BY <1>6, <1>11, <2>1, <2>4 DEF Buena, Cortado
    <3>2. QED
      BY <1>21, <2>4, <3>1
  <2>5. QED
    BY <1>23, <2>2, <2>3, <2>4 DEF AnalizaLinea

(* A step that reads k pieces. *)
<1>24. CASE LeeCodigo
  <2>1. PICK r \in Recv :
          LET resp == IF r = <<>> THEN "" ELSE r[1].que
              leido == [cli EXCEPT !.leido = r, !.resp = resp]
          IN  /\ Lee(r)
              /\ \/ Listado /\ cli' = [leido EXCEPT !.paso = "confCodigo"] /\ UNCHANGED corte
                 \/ /\ ~Listado /\ resp = "0"
                    /\ cli' = [leido EXCEPT !.paso = "trozo"] /\ UNCHANGED corte
                 \/ /\ ~Listado /\ resp # "0"
                    /\ cli' = [leido EXCEPT !.paso = "acabado",
                                            !.fin = IF resp = "" THEN "excepcion" ELSE "fallo"]
                    /\ corte' = Cierra("cli", Cola(baja, Len(r)))
    BY <1>24, Zenon DEF LeeCodigo
  <2>2. PICK k \in 0..m :
          /\ r = Tramo(p, k) /\ Len(r) = k /\ Cola(baja, Len(r)) = Tramo(p + k, m - k)
          /\ k = 0 => r = <<>> /\ m = 0 /\ corte["srv"] # "abierto"
          /\ k > 0 => r # <<>> /\ k \in Cortes(Tramo(p, m), "srv")
    BY <1>10
  <2>3. cli.paso = "codigo" /\ UNCHANGED sube /\ p = 0 /\ g = 0 /\ cli.i = 0
    BY <1>6, <1>24 DEF LeeCodigo, SoloCli, Leido
  <2>4. baja' = Tramo(p + k, m - k)
    BY <2>1, <2>2 DEF Lee
  <2> DEFINE resp == IF r = <<>> THEN "" ELSE r[1].que
  <2>5. k > 0 => resp = IF Error THEN "error" ELSE "0"
    <3>1. ASSUME k > 0 PROVE r[1].que = IF Error THEN "error" ELSE "0"
      <4>1. 1 \in 1..k /\ k \in Nat /\ p = 0 /\ 0 + 1 = 1
        BY <2>3, <3>1
      <4>2. r[1] = Flujo(0 + 1)
        BY <2>2, <4>1, TramoSeq
      <4>3. QED
        BY <1>3, <4>1, <4>2, FlujoBasics
    <3>2. r # <<>> => resp = r[1].que
      OBVIOUS
    <3> HIDE DEF resp
    <3>3. QED
      BY <2>2, <3>1, <3>2
  <2>6. k = 0 => resp \notin {"0", "error"}
    BY <2>2
  <2>7. resp = "0" => 1 <= k /\ ~Error /\ 0 <= caso.n
    <3>1. k = 0 \/ (1 <= k /\ k > 0)
      OBVIOUS
    <3>2. QED
      BY <1>3, <2>5, <2>6, <3>1, CasoBasics DEF Error
  <2>8. /\ resp \in {"0", "error"} => k > 0 /\ (Listado => p + k = 1)
        /\ resp = "error" => Error
        /\ resp \notin {"0", "error"} => k = 0
    <3>1. Listado /\ k > 0 => p + k = 1
      BY <1>6, <2>2, <2>3
    <3>2. k = 0 \/ k > 0
      OBVIOUS
    <3>3. QED
      BY <2>5, <2>6, <3>1, <3>2
  <2>9. CASE ~Listado /\ resp # "0"
    <3>1. /\ cli'.paso = "acabado" /\ cli'.fin \in {"fallo", "excepcion"} /\ cli'.i = cli.i
          /\ cli'.recibido = cli.recibido /\ DOMAIN cli' = DOMAIN cli /\ DOMAIN corte' = {"cli", "srv"}
          /\ corte' = Cierra("cli", Cola(baja, Len(r)))
      BY <1>3, <2>1, <2>9
    <3>2. NadaPendiente'
      <4>1. CASE k = 0
        BY <1>11, <2>2, <4>1
      <4>2. CASE k > 0
        <5>1. Error /\ Items = 0
          BY <1>4, <2>9, <2>5, <4>2
        <5>2. p + m <= 1
          BY <1>4, <1>6, <2>9, <5>1 DEF Emitido
        <5>3. p + k = Base + 2 * Items + (IF Listado THEN 0 ELSE IF Error THEN 0 ELSE 2)
          BY <1>4, <2>3, <2>9, <4>2, <5>1, <5>2
        <5>4. Cerrado(k)
          BY <2>2, <3>1
        <5>5. QED
          BY <1>12, <2>3, <2>9, <5>3, <5>4
      <4>3. QED
        BY <4>1, <4>2
    <3>3. QED
      <4>1. cli'.fin # "ok" /\ g <= g /\ cli'.fin \in {"ok", "fallo", "excepcion", "matado"}
        BY <3>1
      <4>2. cli'.recibido = Tramo(Base, g) /\ g <= 2 * Items /\ cli'.i \in Nat
        BY <1>3, <1>6, <3>1
      <4>3. QED
        BY <1>8, <3>1, <3>2, <4>1, <4>2
  <2>10. CASE Listado \/ resp = "0"
    <3>1. /\ cli'.resp = resp /\ cli'.i = cli.i /\ cli'.fin = "no" /\ UNCHANGED corte
          /\ cli'.paso = (IF Listado THEN "confCodigo" ELSE "trozo")
          /\ cli'.recibido = cli.recibido /\ DOMAIN cli' = DOMAIN cli
      BY <1>2, <1>3, <2>1, <2>10
    <3>2. ~Listado => k = 1
      BY <1>3, <1>4, <2>2, <2>3, <2>7, <2>10, CodigoSolo
    <3>3. Listado => k = m /\ k <= 1
      BY <1>6, <2>2, <2>3
    <3>4. /\ resp = "0" => p + k = 1 /\ 0 <= caso.n
          /\ ~Listado => p + k = Base + g /\ 0 <= caso.n /\ 1 <= p + m
          /\ g % 2 = 0
      BY <1>4, <2>3, <2>7, <2>10, <3>2, <3>3
    <3>5. Leido(p + k, g)'
      <4> HIDE DEF resp
      <4>1. CASE Listado
        <5>1. cli'.paso = "confCodigo" /\ cli'.i = 0 /\ g = 0
          BY <2>3, <3>1, <4>1
        <5>2. /\ cli'.resp \in {"0", "error"} => p + k = 1
              /\ cli'.resp = "0" => 0 <= caso.n
              /\ cli'.resp = "error" => Error
          BY <2>8, <3>1, <3>4, <4>1
        <5>3. QED
          BY <1>7, <4>1, <5>1, <5>2 DEF Leido
      <4>2. CASE ~Listado
        BY <1>7, <2>3, <3>1, <3>4, <4>2 DEF Leido
      <4>3. QED
        BY <4>1, <4>2
    <3>6. Enviado' /\ cli'.paso # "codigo"
      BY <1>15, <3>1, <3>4
    <3>7. /\ cli'.paso \notin {"codigo", "acabado"} /\ cli'.i \in Nat /\ cli'.recibido = Tramo(Base, g)
          /\ corte'["cli"] = "abierto" /\ corte' = corte /\ cli'.fin = "no" /\ DOMAIN cli' = DOMAIN cli
      BY <1>3, <1>6, <3>1
    <3>8. Cortado'
      <4> HIDE DEF resp
      <4>1. CASE Listado
        <5>1. cli'.paso = "confCodigo" /\ cli'.resp = resp /\ corte' = corte
          BY <3>1, <3>7, <4>1
        <5>2. resp \notin {"0", "error"} => corte["srv"] # "abierto"
          BY <2>2, <2>8
        <5>3. QED
          BY <5>1, <5>2 DEF Cortado
      <4>2. CASE ~Listado
        BY <1>13, <3>1, <4>2
      <4>3. QED
        BY <4>1, <4>2
    <3>9. QED
      BY <1>3, <1>6, <1>9, <2>4, <3>5, <3>6, <3>7, <3>8
  <2> HIDE DEF resp
  <2>11. QED
    BY <2>9, <2>10
<1>25. CASE LeeCuenta
  <2>1. PICK r \in Recv :
          /\ Lee(r)
          /\ \/ /\ cli.resp = "0" /\ r = Cuenta /\ caso.n > 0
                /\ cli' = [cli EXCEPT !.leido = r, !.paso = "elem"] /\ UNCHANGED corte
             \/ /\ ~(cli.resp = "0" /\ r = Cuenta /\ caso.n > 0)
                /\ cli' = [cli EXCEPT !.leido = r, !.paso = "acabado",
                                      !.fin = IF cli.resp = "error" THEN "fallo"
                                              ELSE IF cli.resp = "0" /\ r = Cuenta THEN "ok"
                                              ELSE "excepcion"]
                /\ corte' = Cierra("cli", Cola(baja, Len(r)))
    BY <1>25 DEF LeeCuenta
  <2>2. PICK k \in 0..m :
          /\ r = Tramo(p, k) /\ Len(r) = k /\ Cola(baja, Len(r)) = Tramo(p + k, m - k)
          /\ k = 0 => corte["srv"] # "abierto"
          /\ k > 0 => k \in Cortes(Tramo(p, m), "srv")
    BY <1>10
  <2>3. cli.paso = "cuenta" /\ UNCHANGED sube /\ g = 0 /\ cli.i = 0 /\ Listado
        /\ (cli.resp = "0" => p = 1 /\ 0 <= caso.n)
    BY <1>6, <1>25 DEF LeeCuenta, SoloCli, Leido
  <2>4. baja' = Tramo(p + k, m - k)
    BY <2>1, <2>2 DEF Lee
  <2>5. CASE cli.resp = "0" /\ r = Cuenta /\ caso.n > 0
    <3>1. /\ cli'.paso = "elem" /\ cli'.fin = "no" /\ cli'.i = cli.i /\ UNCHANGED corte
          /\ cli'.recibido = cli.recibido /\ DOMAIN cli' = DOMAIN cli
      BY <1>2, <1>3, <2>1, <2>5
    <3>2. k = 1
      <4>1. Cuenta = Tramo(1, 1)
        BY <1>3, <2>3, MensajeTramo
      <4>2. QED
        BY <2>2, <2>5, <4>1, TramoSeq
    <3>3. Leido(p + k, g)'
      BY <1>4, <1>7, <2>3, <2>5, <3>1, <3>2 DEF Leido
    <3>4. Enviado' /\ Cortado'
      BY <1>15, <1>13, <2>3, <3>1
    <3>5. QED
      BY <1>3, <1>6, <1>9, <2>4, <3>1, <3>3, <3>4
  <2>6. CASE ~(cli.resp = "0" /\ r = Cuenta /\ caso.n > 0)
    <3>1. /\ cli'.paso = "acabado" /\ cli'.fin \in {"ok", "fallo", "excepcion"} /\ cli'.i = cli.i
          /\ cli'.recibido = cli.recibido /\ DOMAIN cli' = DOMAIN cli /\ DOMAIN corte' = {"cli", "srv"}
          /\ (cli'.fin = "ok" => cli.resp = "0" /\ r = Cuenta)
          /\ corte' = Cierra("cli", Cola(baja, Len(r)))
      BY <1>3, <2>1, <2>6
    <3>2. cli'.fin = "ok" => g = 2 * Items
      BY <1>4, <2>3, <2>6, <3>1
    <3>3. ASSUME Buena PROVE NadaPendiente'
      <4>1. CASE corte["srv"] # "abierto"
        BY <1>11, <4>1
      <4>2. CASE corte["srv"] = "abierto"
        <5>1. k > 0 /\ cli.resp \in {"0", "error"}
          BY <1>6, <2>2, <2>3, <4>2 DEF Cortado
        <5>2. p = 1 /\ (cli.resp = "error" => Error)
          BY <1>6, <2>3, <5>1 DEF Leido
        <5>3. k = 1
          BY <1>3, <2>2, <2>3, <3>3, <5>1, <5>2, CuentaSola DEF Buena
        <5>4. r = Cuenta
          BY <1>3, <2>2, <2>3, <5>2, <5>3, MensajeTramo
        <5>5. Items = 0
          BY <1>4, <2>3, <2>6, <5>1, <5>2, <5>4
        <5>6. p + k = Base + 2 * Items + (IF Listado THEN 0 ELSE IF Error THEN 0 ELSE 2)
          BY <1>4, <2>3, <5>2, <5>3, <5>5
        <5>7. Cerrado(k)
          BY <2>2, <3>1
        <5>8. QED
          BY <1>12, <2>3, <3>3, <5>6, <5>7 DEF Buena
      <4>3. QED
        BY <4>1, <4>2
    <3>4. cli'.recibido = Tramo(Base, g) /\ g <= g /\ g <= 2 * Items /\ cli'.i \in Nat
      BY <1>3, <1>6, <3>1
    <3>5. QED
      BY <1>8, <3>1, <3>2, <3>3, <3>4
  <2>7. QED
    BY <2>5, <2>6
<1>26. CASE LeeElemento
  <2>1. PICK r \in Recv :
          LET leido == [cli EXCEPT !.leido = r, !.recibido = @ \o r, !.i = @ + 1]
          IN  /\ Lee(r)
              /\ \/ caso.tipo = "users" /\ cli' = [leido EXCEPT !.paso = "confElem"] /\ UNCHANGED corte
                 \/ /\ caso.tipo = "content" /\ cli.i + 1 < caso.n
                    /\ cli' = leido /\ UNCHANGED corte
                 \/ /\ caso.tipo = "content" /\ cli.i + 1 = caso.n
                    /\ cli' = [leido EXCEPT !.paso = "acabado", !.fin = "ok"]
                    /\ corte' = Cierra("cli", Cola(baja, Len(r)))
    <3>1. \A r : [cli EXCEPT !.leido = r, !.recibido = @ \o r, !.i = @ + 1].i = cli.i + 1
      BY <1>3
    <3>2. QED
      BY <1>26, <3>1 DEF LeeElemento
  <2>2. PICK k \in 0..m :
          /\ r = Tramo(p, k) /\ Len(r) = k /\ Cola(baja, Len(r)) = Tramo(p + k, m - k)
          /\ k = 0 => r = <<>> /\ m = 0 /\ corte["srv"] # "abierto"
          /\ k > 0 => r # <<>> /\ k \in Cortes(Tramo(p, m), "srv")
    BY <1>10
  <2>3. /\ cli.paso = "elem" /\ UNCHANGED sube /\ Listado /\ p = 2 + g /\ Base = 2
        /\ caso.n = Items /\ cli.i < Items /\ (Fiable => g = 2 * cli.i)
    BY <1>4, <1>6, <1>26 DEF LeeElemento, SoloCli, Leido
  <2>4. baja' = Tramo(p + k, m - k)
    BY <2>1, <2>2 DEF Lee
  <2>5. g + k \in Nat /\ g <= g + k /\ g + k <= 2 * Items /\ p + k = Base + (g + k)
    <3>1. p + m <= 2 + 2 * Items
      BY <1>4, <1>6, <2>3 DEF Emitido
    <3>2. QED
      BY <1>4, <2>3, <3>1
  <2>6. cli.recibido \o r = Tramo(Base, g + k)
    <3>1. k \in Nat /\ Base \in Nat /\ r = Tramo(Base + g, k)
      BY <2>2, <2>3
    <3>2. Tramo(Base, g) \o Tramo(Base + g, k) = Tramo(Base, g + k)
      BY <3>1, TramoSigue
    <3>3. QED
      BY <1>6, <3>1, <3>2
  (* Where each recv gets one message, two pieces have come, or none at the end of the stream. *)
  <2>7. ASSUME Fiable, k > 0 PROVE k = 2
    <3>1. caso.red = "amable" /\ p = Base + 2 * cli.i
      BY <2>3, <2>7 DEF Fiable
    <3>2. (p + m - Base) % 2 = 0
      BY <1>4, <1>6, <2>3, <2>7 DEF Emitido
    <3>3. m % 2 = 0
      BY <1>3, <1>4, <3>1, <3>2
    <3>4. cli.i <= Items /\ cli.i # Items
      BY <1>3, <1>4, <2>3
    <3>5. QED
      BY <1>3, <2>2, <2>7, <3>1, <3>3, <3>4, MensajeEntero
  <2>8. ASSUME Fiable, caso.tipo = "content" PROVE k = 2
    <3>1. ASSUME k = 0 PROVE FALSE
      <4>1. m = 0 /\ srv.paso \in {"cerrado", "matado"}
        BY <1>6, <2>2, <3>1
      <4>2. srv.paso = "cerrado"
        BY <2>8, <4>1 DEF Fiable
      <4>3. p + m = 2 + 2 * Items
        BY <1>4, <1>6, <2>3, <2>8, <4>2 DEF Emitido, Fiable
      <4>4. QED
        BY <1>3, <1>4, <2>3, <2>8, <4>1, <4>3
    <3>2. QED
      BY <2>7, <2>8, <3>1
  <2>9. cli.i + 1 \in Nat /\ cli.i + 1 <= Items /\ 2 * (cli.i + 1) = 2 * cli.i + 2
    BY <1>3, <1>4, <2>3
  <2>10. CASE caso.tipo = "users"
    <3>1. /\ cli'.paso = "confElem" /\ cli'.fin = "no" /\ cli'.i = cli.i + 1 /\ UNCHANGED corte
          /\ cli'.recibido = cli.recibido \o r /\ DOMAIN cli' = DOMAIN cli /\ cli'.leido = r
      BY <1>2, <1>3, <2>1, <2>10
    <3>2. Fiable /\ r # <<>> => g + k = 2 * (cli.i + 1)
      BY <2>2, <2>3, <2>7, <2>9
    <3>3. Leido(p + k, g + k)'
      BY <1>4, <1>7, <2>3, <2>5, <2>9, <2>10, <3>1, <3>2 DEF Leido
    <3>4. Enviado'
      BY <1>15, <2>3, <3>1
    <3>5. ASSUME caso.red = "amable", k > 0 PROVE Entera(r)
      <4>1. k = 2 /\ g = 2 * cli.i
        BY <2>3, <2>7, <2>10, <3>5 DEF Fiable
      <4>2. 1 \in 1..2 /\ 2 \in 1..2 /\ 2 \in Nat
        OBVIOUS
      <4>3. r[1] = Flujo(p + 1) /\ r[2] = Flujo(p + 2)
        BY <2>2, <4>1, <4>2, TramoSeq
      <4>4. /\ 2 * cli.i + 1 \in 1..2 * Items /\ 2 * cli.i + 2 \in 1..2 * Items
            /\ p + 1 = Base + (2 * cli.i + 1) /\ p + 2 = Base + (2 * cli.i + 2)
        BY <1>3, <1>4, <2>3, <4>1
      <4>5. r[1] = Elem(2 * cli.i + 1) /\ r[2] = Elem(2 * cli.i + 2)
        BY <1>3, <4>3, <4>4, FlujoBasics
      <4>6. /\ Elem(2 * cli.i + 1) = [que |-> "elem", i |-> cli.i + 1, parte |-> 1]
            /\ Elem(2 * cli.i + 2) = [que |-> "elem", i |-> cli.i + 1, parte |-> 2]
        BY <1>3, ElemBasics
      <4>7. QED
        BY <2>2, <4>1, <4>5, <4>6 DEF Entera, Mismo
    <3>6. Cortado'
      <4>1. k = 0 \/ k > 0
        OBVIOUS
      <4>2. cli'.leido = r /\ cli'.paso = "confElem" /\ corte' = corte /\ caso' = caso
        BY <1>7, <3>1
      <4>3. caso.red = "amable" => \/ cli'.leido = <<>> /\ corte'["srv"] # "abierto"
                                   \/ cli'.leido # <<>> /\ Entera(cli'.leido)
        BY <2>2, <3>5, <4>1, <4>2
      <4>4. QED
        BY <4>2, <4>3 DEF Cortado, Entera, Mismo
    <3>7. QED
      BY <1>3, <1>6, <1>9, <2>4, <2>5, <2>6, <2>9, <3>1, <3>3, <3>4, <3>6
  <2>11. CASE caso.tipo = "content" /\ cli.i + 1 < caso.n
    <3>1. /\ cli'.paso = "elem" /\ cli'.fin = "no" /\ cli'.i = cli.i + 1 /\ UNCHANGED corte
          /\ cli'.recibido = cli.recibido \o r /\ DOMAIN cli' = DOMAIN cli /\ cli'.leido = r
      <4>1. cli' = [cli EXCEPT !.leido = r, !.recibido = @ \o r, !.i = @ + 1] /\ UNCHANGED corte
        BY <1>4, <2>1, <2>9, <2>11
      <4>2. QED
        BY <1>2, <1>3, <2>3, <4>1
    <3>2. Fiable => g + k = 2 * (cli.i + 1)
      BY <2>3, <2>8, <2>9, <2>11
    <3>3. Leido(p + k, g + k)'
      BY <1>4, <1>7, <2>3, <2>5, <2>9, <2>11, <3>1, <3>2 DEF Leido
    <3>4. Enviado' /\ Cortado'
      BY <1>15, <1>13, <2>3, <3>1
    <3>5. QED
      BY <1>3, <1>6, <1>9, <2>4, <2>5, <2>6, <2>9, <3>1, <3>3, <3>4
  <2>12. CASE caso.tipo = "content" /\ cli.i + 1 = caso.n
    <3>1. /\ cli'.paso = "acabado" /\ cli'.fin = "ok" /\ cli'.i = cli.i + 1
          /\ cli'.recibido = cli.recibido \o r /\ DOMAIN cli' = DOMAIN cli /\ DOMAIN corte' = {"cli", "srv"}
          /\ corte' = Cierra("cli", Cola(baja, Len(r)))
      <4>1. /\ cli' = [[cli EXCEPT !.leido = r, !.recibido = @ \o r, !.i = @ + 1]
                         EXCEPT !.paso = "acabado", !.fin = "ok"]
            /\ corte' = Cierra("cli", Cola(baja, Len(r)))
        BY <1>4, <2>1, <2>9, <2>12
      <4>2. QED
        BY <1>2, <1>3, <2>3, <4>1
    <3>2. Fiable => g + k = 2 * Items
      BY <2>3, <2>8, <2>9, <2>12
    <3>3. ASSUME Buena PROVE NadaPendiente'
      <4>1. CASE srv.paso = "matado"
        BY <1>7, <4>1 DEF NadaPendiente
      <4>2. CASE srv.paso # "matado"
        <5>1. p + k = Base + 2 * Items + (IF Listado THEN 0 ELSE IF Error THEN 0 ELSE 2)
          BY <1>4, <2>3, <2>5, <3>2, <3>3, <4>2 DEF Buena, Fiable
        <5>2. Cerrado(k)
          BY <2>2, <3>1
        <5>3. QED
          BY <1>12, <2>3, <3>3, <5>1, <5>2 DEF Buena
      <4>3. QED
        BY <4>1, <4>2
    <3>4. QED
      BY <1>8, <2>5, <2>6, <2>9, <3>1, <3>2, <3>3
  <2>13. QED
    <3>1. caso.n \in Nat /\ caso.n = Items /\ caso.tipo \in {"users", "content"}
      BY <1>4, <2>3
    <3>2. cli.i + 1 < caso.n \/ cli.i + 1 = caso.n
      <4>1. PICK i \in Nat : i = cli.i
        BY <1>3
      <4>2. i < caso.n
        BY <2>3, <4>1
      <4>3. \A a, b \in Nat : a < b => a + 1 < b \/ a + 1 = b
        BY SMTT(30)
      <4>4. i + 1 < caso.n \/ i + 1 = caso.n
        BY <3>1, <4>2, <4>3, Zenon
      <4>5. QED
        BY <4>1, <4>4
    <3>3. QED
      BY <2>10, <2>11, <2>12, <3>1, <3>2
<1>27. CASE LeeTrozo
  <2>1. PICK r \in Recv :
          /\ Lee(r)
          /\ \/ /\ r = Mensaje("FIN", 0)
                /\ cli' = [cli EXCEPT !.leido = r, !.paso = "acabado", !.fin = "ok"]
                /\ corte' = Cierra("cli", Cola(baja, Len(r)))
             \/ /\ r # Mensaje("FIN", 0)
                /\ cli' = [cli EXCEPT !.leido = r, !.recibido = @ \o r, !.paso = "confTrozo"]
                /\ UNCHANGED corte
    BY <1>27 DEF LeeTrozo
  <2>2. PICK k \in 0..m :
          /\ r = Tramo(p, k) /\ Len(r) = k /\ Cola(baja, Len(r)) = Tramo(p + k, m - k)
          /\ k = 0 => r = <<>> /\ m = 0 /\ corte["srv"] # "abierto"
          /\ k > 0 => r # <<>> /\ k \in Cortes(Tramo(p, m), "srv")
    BY <1>10
  <2>3. /\ cli.paso = "trozo" /\ UNCHANGED sube /\ ~Listado /\ p = Base + g /\ Base = 1
        /\ caso.n = Items /\ g % 2 = 0 /\ caso.red = "amable"
    BY <1>4, <1>6, <1>27 DEF LeeTrozo, SoloCli, Leido
  <2>4. baja' = Tramo(p + k, m - k)
    BY <2>1, <2>2 DEF Lee
  <2>5. PICK h \in Nat : g = 2 * h /\ h <= Items
    <3>1. g \div 2 \in Nat /\ g = 2 * (g \div 2)
      BY <2>3
    <3>2. g \div 2 <= Items
      BY <1>4, <1>6, <3>1
    <3>3. QED
      BY <3>1, <3>2
  <2>6. ASSUME k > 0 PROVE k = 2
    <3>1. p = Base + 2 * h /\ p + m <= Base + 2 * Items + 2 /\ (p + m - Base) % 2 = 0
      BY <1>4, <1>6, <2>2, <2>3, <2>5, <2>6 DEF Emitido
    <3>2. m % 2 = 0 /\ (h = Items => m <= 2)
      BY <1>4, <2>3, <3>1
    <3>3. QED
      BY <1>3, <2>2, <2>3, <2>5, <2>6, <3>1, <3>2, MensajeEntero
  <2>7. Mensaje("FIN", 0) = Tramo(Base + 2 * Items, 2)
    BY <1>3, MensajeTramo
  <2>8. CASE r = Mensaje("FIN", 0)
    <3>1. k = 2
      <4>1. Base + 2 * Items \in Nat
        BY <1>4
      <4>2. QED
        BY <2>2, <2>7, <2>8, <4>1, TramoSeq
    <3>2. r[1].que = "FIN"
      BY <2>8 DEF Mensaje, Largos
    <3>3. ASSUME h < Items PROVE FALSE
      <4>1. 2 * h + 1 \in 1..2 * Items /\ p + 1 = Base + (2 * h + 1) /\ 1 \in 1..k
        BY <1>4, <2>3, <2>5, <3>1, <3>3
      <4>2. r[1] = Flujo(Base + (2 * h + 1))
        BY <2>2, <3>1, <4>1, TramoSeq
      <4>3. Flujo(Base + (2 * h + 1)) = Elem(2 * h + 1)
        BY <1>3, <4>1, FlujoBasics
      <4>4. QED
        BY <3>2, <4>2, <4>3 DEF Elem
    <3>4. g = 2 * Items
      BY <1>4, <2>5, <3>3
    <3>5. /\ cli'.paso = "acabado" /\ cli'.fin = "ok" /\ cli'.i = cli.i
          /\ cli'.recibido = cli.recibido /\ DOMAIN cli' = DOMAIN cli /\ DOMAIN corte' = {"cli", "srv"}
          /\ corte' = Cierra("cli", Cola(baja, Len(r)))
      BY <1>3, <2>1, <2>8
    <3>6. NadaPendiente'
      <4>1. ~Error
        BY <1>4, <2>3 DEF Error
      <4>2. p + k = Base + 2 * Items + (IF Listado THEN 0 ELSE IF Error THEN 0 ELSE 2)
        BY <1>4, <2>3, <3>1, <3>4, <4>1
      <4>3. Cerrado(k)
        BY <2>2, <3>5
      <4>4. QED
        BY <1>12, <2>3, <4>2, <4>3
    <3>7. cli'.recibido = Tramo(Base, g) /\ g <= g /\ g <= 2 * Items /\ cli'.i \in Nat
      BY <1>3, <1>6, <3>5
    <3>8. QED
      BY <1>8, <3>4, <3>5, <3>6, <3>7
  <2>9. CASE r # Mensaje("FIN", 0)
    <3>1. /\ cli'.paso = "confTrozo" /\ cli'.fin = "no" /\ cli'.i = cli.i /\ UNCHANGED corte
          /\ cli'.recibido = cli.recibido \o r /\ DOMAIN cli' = DOMAIN cli
      BY <1>2, <1>3, <2>1, <2>9
    <3>2. g + k \in Nat /\ g <= g + k /\ p + k = Base + (g + k)
      BY <1>4, <2>3
    <3>3. g + k <= 2 * Items /\ (g + k) % 2 = 0
      <4>1. CASE k = 0
        BY <1>6, <2>3, <4>1
      <4>2. CASE k = 2
        <5>1. ASSUME h = Items PROVE FALSE
          BY <2>2, <2>3, <2>5, <2>7, <2>9, <4>2, <5>1
        <5>2. h + 1 <= Items /\ g + k = 2 * (h + 1)
          BY <1>4, <2>5, <4>2, <5>1
        <5>3. QED
          BY <1>4, <5>2
      <4>3. QED
        BY <2>6, <4>1, <4>2
    <3>4. cli.recibido \o r = Tramo(Base, g + k)
      <4>1. k \in Nat /\ Base \in Nat /\ r = Tramo(Base + g, k)
        BY <2>2, <2>3
      <4>2. Tramo(Base, g) \o Tramo(Base + g, k) = Tramo(Base, g + k)
        BY <4>1, TramoSigue
      <4>3. QED
        BY <1>6, <4>1, <4>2
    <3>5. Leido(p + k, g + k)'
      BY <1>4, <1>6, <1>7, <2>3, <3>1, <3>2, <3>3 DEF Leido
    <3>6. Enviado'
      <4>1. 1 <= p + m
        BY <2>3
      <4>2. QED
        BY <1>15, <3>1, <4>1
    <3>7. Cortado'
      BY <1>13, <3>1
    <3>8. QED
      BY <1>3, <1>6, <1>9, <2>4, <3>1, <3>2, <3>3, <3>4, <3>5, <3>6, <3>7
  <2>10. QED
    BY <2>8, <2>9
<1>28. QED
  BY <1>17, <1>18, <1>19, <1>20, <1>22, <1>23, <1>24, <1>25, <1>26, <1>27 DEF Cliente

-----------------------------------------------------------------------------
(* A conversation begins in the invariant. *)
LEMMA InitD ==
  ASSUME Init, <<caso.tipo, caso.red>> # <<"file", "libre">> PROVE DInv
<1>1. caso \in Casos
  BY DEF Init
<1>2. /\ Items \in Nat /\ Base \in {1, 2} /\ (Listado => Base = 2) /\ (~Listado => Base = 1)
  BY <1>1, CasoBasics
<1>3. <<>> = Tramo(0, 0) /\ <<>> = Tramo(Base, 0)
  <2>1. 0 \in Nat /\ Base \in Nat
    BY <1>2
  <2>2. QED
    BY <2>1, TramoVacio
<1>4. Emitido(0)
  <2>1. srv.paso \in {"codigo", "pide"} /\ srv.i = 0
    BY DEF Init
  <2>2. 0 \in 0..Items /\ 0 <= Base + 2 * Items + (IF Listado THEN 0 ELSE 2) /\ ~(0 > Base)
    BY <1>2
  <2>3. QED
    BY <2>1, <2>2 DEF Emitido
<1>5. Leido(0, 0)
  BY <1>2 DEF Leido, Init
<1>6. Enviado
  BY DEF Enviado, Init
<1>7. Cortado /\ cli.fin = "no"
  BY DEF Cortado, Init
<1>8. Viva(0, 0, 0)
  <2>1. 0 + 0 = 0 /\ 0 <= 2 * Items
    BY <1>2
  <2>2. baja = <<>> /\ cli.recibido = <<>> /\ corte["cli"] = "abierto" /\ corte["srv"] = "abierto"
    BY DEF Init
  <2>3. QED
    BY <1>3, <1>4, <1>5, <1>6, <1>7, <2>1, <2>2 DEF Viva
<1>9. QED
  BY <1>1, <1>8, <1>7 DEF DInv, Init

(* A step of the command is a step of the delivery. *)
LEMMA ProgresaEntrega ==
  ASSUME caso \in Casos, Progresa PROVE Entregado!Paso
<1>1. PICK g \in Nat, g1 \in Nat :
        /\ g <= g1 /\ g1 <= 2 * Items
        /\ cli.recibido = Tramo(Base, g) /\ cli'.recibido = Tramo(Base, g1)
        /\ cli'.fin = "ok" /\ Fiable => g1 = 2 * Items
  BY DEF Progresa
<1>2. Base \in Nat /\ 2 * Items \in Nat /\ Todo = Tramo(Base, 2 * Items)
  BY CasoBasics, TodoTramo
<1>3. PICK t \in Nat : t = 2 * Items
  BY <1>2
<1>4. ASSUME NEW a \in Nat, NEW b \in Nat, a <= b
      PROVE  /\ Len(Tramo(Base, a)) <= Len(Tramo(Base, b))
             /\ Tramo(Base, a) = SubSeq(Tramo(Base, b), 1, Len(Tramo(Base, a)))
  <2>1. a \in 0..b
    BY <1>4
  <2>2. SubSeq(Tramo(Base, b), 1, a) = Tramo(Base, a)
    BY <1>2, <2>1, TramoParte
  <2>3. Len(Tramo(Base, a)) = a /\ Len(Tramo(Base, b)) = b
    BY <1>2, TramoSeq
  <2>4. QED
    BY <1>4, <2>2, <2>3
<1>5. Entregado!EsPrefijo(cli.recibido, cli'.recibido) /\ Entregado!EsPrefijo(cli'.recibido, Todo)
  BY <1>1, <1>2, <1>3, <1>4 DEF Entregado!EsPrefijo
<1>6. Todo' = Todo
  BY DEF Progresa, Todo, Error
<1>7. cli'.fin = "ok" /\ Fiable => cli'.recibido = Todo
  BY <1>1, <1>2
<1>8. QED
  BY <1>5, <1>6, <1>7 DEF Progresa, Entregado!Paso, Entregado!Aparece, Entregado!Acaba

(* Every step keeps it, and is a step of the delivery or of nothing. *)
LEMMA DInvMantiene ==
  ASSUME DInv, [Next]_vars
  PROVE  DInv' /\ [Entregado!Paso]_<<Todo, cli.recibido, IF cli.fin \in {"no", "ok"} THEN cli.fin ELSE "mal">>
<1>1. CASE Cliente \/ MataCliente
  BY <1>1, ClienteMantiene, ProgresaEntrega DEF DInv
<1>2. CASE Servidor \/ AceptaOtra \/ MataServidor \/ LlegaReset
  <2>1. DInv' /\ caso' = caso /\ cli' = cli
    BY <1>2, ServidorMantiene
  <2>2. Todo' = Todo
    BY <2>1 DEF Todo, Error
  <2>3. QED
    BY <2>1, <2>2
<1>3. CASE UNCHANGED vars
  <2>1. caso' = caso /\ cli' = cli /\ UNCHANGED <<sube, baja, corte, srv>>
    BY <1>3 DEF vars
  <2>2. Todo' = Todo
    BY <2>1 DEF Todo, Error
  <2>3. DInv'
    BY <2>1 DEF Abren, DInv, Viva, Emitido, Leido, Enviado, Cortado, NadaPendiente, Buena, Entera, Mismo, Tramo,
                Flujo, Base, Items, Error, Listado, Elem, Fiable, Peticion, Mensaje, Casos, DiscosDe
  <2>4. QED
    BY <2>1, <2>2, <2>3
<1>4. QED
  BY <1>1, <1>2, <1>3 DEF Next

(* For any number of items, wherever the network cuts a listing and whoever *)
(* is killed, a command prints or writes a beginning of what the other end  *)
(* has, in order, and all of it when it ends well and that can be relied    *)
(* on; transfers over a network that joins messages are excepted.           *)
THEOREM DialogueDelivers ==
  ASSUME <<"file", "libre">> \notin Tipos PROVE Spec => Delivers
<1>1. Init => DInv /\ Entregado!Inicio
  <2> SUFFICES ASSUME Init PROVE DInv /\ Entregado!Inicio
    OBVIOUS
  <2>1. caso \in Casos /\ cli.recibido = <<>> /\ cli.fin = "no"
    BY DEF Init
  <2>2. <<caso.tipo, caso.red>> \in Tipos
    BY <2>1, CasoBasics
  <2>3. QED
    BY <2>1, <2>2, InitD DEF Entregado!Inicio
<1>2. DInv /\ [Next]_vars
        => DInv' /\ [Entregado!Paso]_<<Todo, cli.recibido, IF cli.fin \in {"no", "ok"} THEN cli.fin ELSE "mal">>
  BY DInvMantiene
<1>3. QED
  BY <1>1, <1>2, PTL DEF Spec, Delivers, Entregado!Promesa

(* A listing or a transfer of any length with a client that goes on to the  *)
(* end, over a network that keeps messages apart and of files that open,    *)
(* leaves the server its process and its lock, and the owner of the file    *)
(* its thread, whenever the server or the owner is killed and however late  *)
(* a reset arrives.                                                         *)
THEOREM GoodClientsAreSurvived == Spec => []SurvivesAGoodClient
<1> DEFINE Prevista == <<caso.tipo, caso.red>> # <<"file", "libre">>
           I == Prevista => DInv
<1>1. Init => I
  BY InitD
<1>2. I /\ [Next]_vars => I'
  <2> SUFFICES ASSUME I, [Next]_vars, Prevista' PROVE DInv'
    BY Zenon
  <2>1. caso' = caso
    BY Zenon DEF Next, vars, Cliente, Servidor, LlegaReset, AceptaOtra, MataCliente, MataServidor, PideArchivo,
           LeeCodigo, ConfirmaCodigo, LeeCuenta, LeeElemento, ConfirmaElemento, AnalizaLinea, LeeTrozo,
           ConfirmaTrozo, RecvFalla, LeePeticion, MandaCodigo, EsperaCodigo, MandaCuenta, MandaElemento,
           EsperaElemento, NoAbre, MandaFin, Termina, SoloCli, SoloSrv
  <2>2. DInv
    BY <2>1
  <2>3. QED
    BY <2>2, DInvMantiene
<1>3. I => SurvivesAGoodClient
  <2> SUFFICES ASSUME I, caso.red = "amable", Abren, cli.fin # "matado"
               PROVE  srv.paso \notin {"muerto", "vuelto", "excepcion"}
    BY DEF SurvivesAGoodClient
  <2>1. DInv
    OBVIOUS
  <2>2. CASE cli.fin = "no"
    BY <2>1, <2>2 DEF DInv, Viva, Emitido
  <2>3. CASE cli.fin # "no"
    BY <2>1, <2>3 DEF DInv, NadaPendiente, Buena
  <2>4. QED
    BY <2>2, <2>3
<1>4. QED
  BY <1>1, <1>2, <1>3, PTL DEF Spec

-----------------------------------------------------------------------------
(* Types, in any network.                                                   *)

PasosCli   == {"pide", "pideResto", "codigo", "confCodigo", "cuenta", "elem", "confElem",
               "analiza", "trozo", "confTrozo", "acabado"}
Respuestas == {"", "0", "error"}
Fines      == {"no", "ok", "fallo", "excepcion", "matado"}

(* Items are counted one by one, and only while there are any left. *)
Contadores ==
  /\ cli.paso \in {"pide", "pideResto", "codigo", "confCodigo", "cuenta"} => cli.i = 0
  /\ cli.paso = "elem" => cli.i < caso.n
  /\ srv.paso \in {"pide", "codigo", "noEsta", "conf", "cuenta"} => srv.i = 0
  /\ srv.paso = "elem" => srv.i < caso.n

(* Until the client reads the code nothing comes before it. *)
CodigoDelante ==
  cli.paso \in {"pide", "pideResto", "codigo"} =>
    /\ corte["cli"] = "abierto"
    /\ baja # <<>> => baja[1].que \in {"0", "error"}
    /\ srv.paso \in {"conf", "cuenta", "elem", "confElem", "FIN", "fin"} => baja # <<>>

TiposInv == TypeOK /\ Contadores /\ CodigoDelante

(* The fields of a client. *)
LEMMA CliForma == EstadoCli = [paso : PasosCli, i : 0..MaxN, leido : Seq(Piezas), resp : Respuestas,
                               recibido : Seq(Piezas), fin : Fines]
BY Zenon DEF EstadoCli, PasosCli, Respuestas, Fines

(* What becomes of a client when a step gives new values to its fields. *)
LEMMA CliCampos ==
  ASSUME NEW c \in EstadoCli
  PROVE  /\ c.i \in 0..MaxN /\ c.recibido \in Seq(Piezas)
         /\ \A p \in PasosCli : /\ [c EXCEPT !.paso = p] \in EstadoCli
                                /\ [c EXCEPT !.paso = p].paso = p /\ [c EXCEPT !.paso = p].i = c.i
         /\ \A f \in Fines : /\ [c EXCEPT !.paso = "acabado", !.fin = f] \in EstadoCli
                             /\ [c EXCEPT !.paso = "acabado", !.fin = f].paso = "acabado"
<1>1. "acabado" \in PasosCli
  BY DEF PasosCli
<1>2. QED
  BY CliForma, <1>1

(* ... when what it has read ends the command, *)
LEMMA CliLeeAcaba ==
  ASSUME NEW c \in EstadoCli, NEW r \in Seq(Piezas), NEW f \in Fines,
         NEW t, t = [c EXCEPT !.leido = r, !.paso = "acabado", !.fin = f]
  PROVE  t \in EstadoCli /\ t.paso = "acabado"
<1>1. "acabado" \in PasosCli
  BY DEF PasosCli
<1>2. QED
  BY CliForma, <1>1

(* ... or a chunk, *)
LEMMA CliLeeTrozo ==
  ASSUME NEW c \in EstadoCli, NEW r \in Seq(Piezas),
         NEW t, t = [c EXCEPT !.leido = r, !.recibido = @ \o r, !.paso = "confTrozo"]
  PROVE  t \in EstadoCli /\ t.paso = "confTrozo"
<1>1. "confTrozo" \in PasosCli
  BY DEF PasosCli
<1>2. c.recibido \o r \in Seq(Piezas)
  BY CliForma
<1>3. QED
  BY CliForma, <1>1, <1>2

(* ... or an item. *)
LEMMA CliLeeElemento ==
  ASSUME NEW c \in EstadoCli, NEW r \in Seq(Piezas), c.i + 1 <= MaxN,
         NEW t, t = [c EXCEPT !.leido = r, !.recibido = @ \o r, !.i = @ + 1]
  PROVE  t \in EstadoCli /\ t.paso = c.paso
<1>1. c.recibido \o r \in Seq(Piezas)
  BY CliForma
<1>2. c.i + 1 \in 0..MaxN
  BY CliForma, DialogoAssumption
<1>3. QED
  BY CliForma, <1>1, <1>2

(* The pieces of a message. *)
LEMMA MensajeType ==
  ASSUME NEW que \in {"0", "error", "cuenta", "OK"} \cup Largos, NEW i \in 0..MaxN
  PROVE  /\ Mensaje(que, i) \in Seq(Piezas) /\ Mensaje(que, i) # <<>>
         /\ Mensaje(que, i)[1].que = que
         /\ que \in Largos => Mensaje(que, i)[1] \in Piezas /\ Mensaje(que, i)[2] \in Piezas
<1>1. \A parte \in 0..2 : [que |-> que, i |-> i, parte |-> parte] \in Piezas
  BY DEF Piezas
<1>2. ASSUME NEW a \in Piezas PROVE <<a>> \in Seq(Piezas) /\ <<a>> # <<>> /\ <<a>>[1] = a
  OBVIOUS
<1>3. ASSUME NEW a \in Piezas, NEW b \in Piezas
      PROVE  <<a, b>> \in Seq(Piezas) /\ <<a, b>> # <<>> /\ <<a, b>>[1] = a /\ <<a, b>>[2] = b
  OBVIOUS
<1>4. CASE que \in Largos
  BY <1>1, <1>3, <1>4 DEF Mensaje
<1>5. CASE que \notin Largos
  BY <1>1, <1>2, <1>5 DEF Mensaje
<1>6. QED
  BY <1>4, <1>5

(* A recv takes pieces from the beginning and leaves the rest. *)
LEMMA LeibleType ==
  ASSUME NEW s \in Seq(Piezas), NEW otro, NEW r \in Leibles(s, otro)
  PROVE  /\ r \in Seq(Piezas) /\ Cola(s, Len(r)) \in Seq(Piezas)
         /\ r = <<>> \/ (s # <<>> /\ r[1] = s[1])
<1>1. ASSUME NEW k \in 0..Len(s) PROVE SubSeq(s, 1, k) \in Seq(Piezas) /\ Cola(s, k) \in Seq(Piezas)
                                       /\ Len(SubSeq(s, 1, k)) = k
  BY DEF Cola
<1>2. CASE r = <<>>
  <2>1. Len(r) = 0
    BY <1>2
  <2>2. QED
    BY <1>1, <1>2, <2>1
<1>3. ASSUME NEW k \in Cortes(s, otro), r = SubSeq(s, 1, k)
      PROVE  /\ r \in Seq(Piezas) /\ Cola(s, Len(r)) \in Seq(Piezas)
             /\ s # <<>> /\ r[1] = s[1]
  <2>1. k \in 1..Len(s)
    BY <1>3 DEF Cortes
  <2>2. r[1] = s[1] /\ s # <<>>
    BY <1>3, <2>1
  <2>3. QED
    BY <1>1, <1>3, <2>1, <2>2
<1>4. QED
  BY <1>2, <1>3 DEF Leibles

(* The ends as they see each other. *)
LEMMA CorteType ==
  ASSUME corte \in EstadoCorte
  PROVE  /\ \A otro \in {"cli", "srv"} : Avisa(otro) \in EstadoCorte
         /\ Avisa("srv")["cli"] = corte["cli"]
         /\ corte["cli"] = "abierto" => Avisa("cli") = corte
         /\ \A s : \A yo \in {"cli", "srv"} : Cierra(yo, s) \in EstadoCorte
         /\ \A s : Cierra("srv", s)["cli"] = corte["cli"]
BY DEF EstadoCorte, Avisa, Cierra

(* What is sent arrives in order. *)
LEMMA EnviaType ==
  ASSUME NEW s \in Seq(Piezas), NEW m \in Seq(Piezas), NEW otro
  PROVE  /\ Envia(s, m, otro) \in Seq(Piezas)
         /\ s # <<>> => Envia(s, m, otro) # <<>> /\ Envia(s, m, otro)[1] = s[1]
         /\ s = <<>> /\ m # <<>> /\ corte[otro] = "abierto" =>
              Envia(s, m, otro) # <<>> /\ Envia(s, m, otro)[1] = m[1]
<1>1. s \o m \in Seq(Piezas) /\ Len(s \o m) = Len(s) + Len(m) /\ Len(s) \in Nat /\ Len(m) \in Nat
  OBVIOUS
<1>2. s # <<>> => (s \o m)[1] = s[1] /\ s \o m # <<>>
  OBVIOUS
<1>3. s = <<>> /\ m # <<>> => (s \o m)[1] = m[1] /\ s \o m # <<>>
  OBVIOUS
<1>4. QED
  BY <1>1, <1>2, <1>3 DEF Envia

(* A send of the client, or the exception of a broken pipe. *)
LEMMA MandaType ==
  ASSUME TypeOK, NEW m \in Seq(Piezas), NEW p \in PasosCli, Manda(m, Va(p))
  PROVE  /\ sube' \in Seq(Piezas) /\ corte' \in EstadoCorte
         /\ \/ cli' = [cli EXCEPT !.paso = p] /\ corte'["cli"] = corte["cli"]
            \/ cli' = [cli EXCEPT !.paso = "acabado", !.fin = "excepcion"]
<1>1. sube \in Seq(Piezas) /\ corte \in EstadoCorte
  BY DEF TypeOK
<1>2. \/ /\ sube' = Envia(sube, m, "srv") /\ corte' = Avisa("srv")
         /\ cli' = [cli EXCEPT !.paso = p]
      \/ /\ cli' = [cli EXCEPT !.paso = "acabado", !.fin = "excepcion"]
         /\ corte' = Cierra("cli", baja) /\ UNCHANGED sube
  BY Zenon DEF Manda, Va, Acaba
<1>3. Envia(sube, m, "srv") \in Seq(Piezas) /\ Cierra("cli", baja) \in EstadoCorte
      /\ Avisa("srv") \in EstadoCorte /\ Avisa("srv")["cli"] = corte["cli"]
  BY <1>1, CorteType, EnviaType
<1>4. QED
  BY <1>1, <1>2, <1>3, Zenon

(* A client that goes on or ends. *)
LEMMA CliEnds ==
  ASSUME TiposInv, UNCHANGED <<caso, srv>>, sube' \in Seq(Piezas), baja' \in Seq(Piezas),
         corte' \in EstadoCorte, cli' \in EstadoCli,
         cli'.paso \notin {"pide", "pideResto", "codigo"},
         cli'.paso \in {"confCodigo", "cuenta"} => cli'.i = 0,
         cli'.paso = "elem" => cli'.i < caso.n
  PROVE  TiposInv'
<1>1. TypeOK'
  <2>1. caso \in Casos /\ srv \in EstadoSrv
    BY DEF TiposInv, TypeOK
  <2>2. caso' \in Casos /\ srv' \in EstadoSrv
    BY <2>1
  <2> QED
    BY <2>2, Zenon DEF TypeOK
<1>2. Contadores' /\ CodigoDelante'
  BY DEF TiposInv, Contadores, CodigoDelante
<1>3. QED
  BY <1>1, <1>2 DEF TiposInv

(* The client: what it reads first is the code, and it counts what it reads. *)
LEMMA ClienteTypes ==
  ASSUME TiposInv, Cliente \/ MataCliente
  PROVE  TiposInv'
<1>1. /\ caso \in Casos /\ sube \in Seq(Piezas) /\ baja \in Seq(Piezas) /\ corte \in EstadoCorte
      /\ cli \in EstadoCli /\ cli.i \in 0..MaxN /\ cli.recibido \in Seq(Piezas) /\ TypeOK
      /\ caso.n \in Int /\ caso.n <= MaxN /\ MaxN \in Nat
  <2>1. /\ caso \in Casos /\ sube \in Seq(Piezas) /\ baja \in Seq(Piezas) /\ corte \in EstadoCorte
        /\ cli \in EstadoCli /\ TypeOK
    BY DEF TiposInv, TypeOK
  <2>2. caso.n \in Int /\ caso.n <= MaxN /\ MaxN \in Nat
    BY <2>1, DialogoAssumption DEF Casos
  <2>3. cli.i \in 0..MaxN /\ cli.recibido \in Seq(Piezas)
    BY <2>1, CliCampos
  <2>4. QED
    BY <2>1, <2>2, <2>3
<1>2. UNCHANGED <<caso, srv>>
  BY Zenon DEF Cliente, MataCliente, PideArchivo, LeeCodigo, ConfirmaCodigo, LeeCuenta, LeeElemento,
         ConfirmaElemento, AnalizaLinea, LeeTrozo, ConfirmaTrozo, RecvFalla, SoloCli
<1>3. /\ \A q : Cierra("cli", q) \in EstadoCorte
      /\ \A r \in Recv : /\ r \in Seq(Piezas) /\ Cola(baja, Len(r)) \in Seq(Piezas)
                         /\ r = <<>> \/ (baja # <<>> /\ r[1] = baja[1])
      /\ OK \in Seq(Piezas) /\ <<Peticion[1]>> \in Seq(Piezas) /\ <<Peticion[2]>> \in Seq(Piezas)
  <2>1. "OK" \in {"0", "error", "cuenta", "OK"} \cup Largos /\ "peticion" \in Largos
        /\ "peticion" \in {"0", "error", "cuenta", "OK"} \cup Largos /\ 0 \in 0..MaxN
    BY <1>1 DEF Largos
  <2>2. OK \in Seq(Piezas) /\ Peticion[1] \in Piezas /\ Peticion[2] \in Piezas
    BY <2>1, MensajeType DEF OK, Peticion
  <2>3. QED
    BY <1>1, <2>2, CorteType, LeibleType DEF Recv
(* The command ends. *)
<1>4. ASSUME NEW f \in Fines, Acaba(f), UNCHANGED <<sube, baja>>
      PROVE  TiposInv'
  <2>1. cli' = [cli EXCEPT !.paso = "acabado", !.fin = f] /\ corte' = Cierra("cli", baja)
    BY <1>4 DEF Acaba
  <2>2. cli' \in EstadoCli /\ cli'.paso = "acabado"
    BY <1>1, <1>4, <2>1, CliCampos
  <2>3. QED
    BY <1>1, <1>2, <1>3, <1>4, <2>1, <2>2, CliEnds
<1>5. \A f \in {"ok", "excepcion", "matado"} : f \in Fines
  BY DEF Fines
(* It sends a confirmation. *)
<1>6. ASSUME NEW p \in {"cuenta", "analiza", "trozo"}, Manda(OK, Va(p)), UNCHANGED baja,
             p = "cuenta" => cli.i = 0
      PROVE  TiposInv'
  <2>1. p \in PasosCli /\ "acabado" \in PasosCli /\ "excepcion" \in Fines
    BY DEF PasosCli, Fines
  <2>2. /\ sube' \in Seq(Piezas) /\ corte' \in EstadoCorte
        /\ \/ cli' = [cli EXCEPT !.paso = p]
           \/ cli' = [cli EXCEPT !.paso = "acabado", !.fin = "excepcion"]
    BY <1>1, <1>3, <1>6, <2>1, MandaType
  <2>3. /\ cli' \in EstadoCli
        /\ cli'.paso = "acabado" \/ (cli'.paso = p /\ cli'.i = cli.i)
    <3>1. CASE cli' = [cli EXCEPT !.paso = p]
      BY <1>1, <2>1, <3>1, CliCampos, Zenon
    <3>2. CASE cli' = [cli EXCEPT !.paso = "acabado", !.fin = "excepcion"]
      BY <1>1, <2>1, <3>2, CliCampos, Zenon
    <3>3. QED
      BY <2>2, <3>1, <3>2
  <2>4. QED
    BY <1>1, <1>2, <1>6, <2>2, <2>3, CliEnds
<1>7. CASE ConfirmaCodigo \/ ConfirmaElemento \/ ConfirmaTrozo
  BY <1>6, <1>7 DEF ConfirmaCodigo, ConfirmaElemento, ConfirmaTrozo, TiposInv, Contadores
<1>8. CASE RecvFalla
  BY <1>4, <1>5, <1>8 DEF RecvFalla, SoloCli
<1>9. CASE MataCliente
  BY <1>4, <1>5, <1>9 DEF MataCliente
<1>10. CASE AnalizaLinea
  <2>1. CASE cli.i < caso.n /\ Va("elem") /\ UNCHANGED corte
    <3>1. "elem" \in PasosCli
      BY DEF PasosCli
    <3>2. cli' \in EstadoCli /\ cli'.paso = "elem" /\ cli'.i = cli.i
      BY <1>1, <2>1, <3>1, CliCampos DEF Va
    <3>3. UNCHANGED <<sube, baja>>
      BY <1>10 DEF AnalizaLinea
    <3>4. QED
      BY <1>1, <1>2, <2>1, <3>2, <3>3, CliEnds
  <2>2. CASE Acaba("ok") \/ Acaba("excepcion")
    BY <1>4, <1>5, <1>10, <2>2 DEF AnalizaLinea
  <2>3. QED
    BY <1>10, <2>1, <2>2 DEF AnalizaLinea
<1>11. CASE PideArchivo
  <2>1. ASSUME NEW p \in {"pideResto", "codigo"}, NEW j \in {1, 2}, Manda(<<Peticion[j]>>, Va(p)),
               UNCHANGED baja, cli.paso \in {"pide", "pideResto"}
        PROVE  TiposInv'
    <3>1. p \in PasosCli /\ "acabado" \in PasosCli /\ "excepcion" \in Fines
      BY DEF PasosCli, Fines
    <3>2. /\ sube' \in Seq(Piezas) /\ corte' \in EstadoCorte
          /\ \/ cli' = [cli EXCEPT !.paso = p] /\ corte'["cli"] = corte["cli"]
             \/ cli' = [cli EXCEPT !.paso = "acabado", !.fin = "excepcion"]
      BY <1>1, <1>3, <2>1, <3>1, MandaType
    <3>3. /\ cli' \in EstadoCli
          /\ \/ cli'.paso = "acabado"
             \/ cli'.paso = p /\ cli'.i = cli.i /\ corte'["cli"] = corte["cli"]
      <4>1. CASE cli' = [cli EXCEPT !.paso = p] /\ corte'["cli"] = corte["cli"]
        BY <1>1, <3>1, <4>1, CliCampos, Zenon
      <4>2. CASE cli' = [cli EXCEPT !.paso = "acabado", !.fin = "excepcion"]
        BY <1>1, <3>1, <4>2, CliCampos, Zenon
      <4>3. QED
        BY <3>2, <4>1, <4>2
    <3>4. CASE cli'.paso = "acabado"
      BY <1>1, <1>2, <2>1, <3>2, <3>3, <3>4, CliEnds
    <3>5. CASE cli'.paso = p /\ cli'.i = cli.i /\ corte'["cli"] = corte["cli"]
      <4>1. TypeOK'
        <5>1. caso' \in Casos /\ srv' \in EstadoSrv /\ baja' \in Seq(Piezas)
          BY <1>1, <1>2, <2>1 DEF TypeOK
        <5>2. QED
          BY <3>2, <3>3, <5>1, Zenon DEF TypeOK
      <4>2. Contadores' /\ CodigoDelante'
        BY <1>2, <2>1, <3>5 DEF TiposInv, Contadores, CodigoDelante
      <4>3. QED
        BY <4>1, <4>2 DEF TiposInv
    <3>6. QED
      BY <3>3, <3>4, <3>5
  <2>2. QED
    BY <1>11, <2>1 DEF PideArchivo
(* It reads. *)
<1>12. ASSUME NEW r \in Recv, Lee(r), UNCHANGED sube, cli' \in EstadoCli,
              corte' \in EstadoCorte,
              cli'.paso \notin {"pide", "pideResto", "codigo"},
              cli'.paso \in {"confCodigo", "cuenta"} => cli'.i = 0,
              cli'.paso = "elem" => cli'.i < caso.n
       PROVE  TiposInv'
  <2>1. baja' \in Seq(Piezas) /\ sube' \in Seq(Piezas)
    BY <1>1, <1>3, <1>12 DEF Lee
  <2>2. QED
    BY <1>2, <1>12, <2>1, CliEnds
<1>13. CASE LeeCodigo
  <2>1. PICK r \in Recv :
          LET resp == IF r = <<>> THEN "" ELSE r[1].que
              leido == [cli EXCEPT !.leido = r, !.resp = resp]
          IN  /\ Lee(r)
              /\ \/ Listado /\ cli' = [leido EXCEPT !.paso = "confCodigo"] /\ UNCHANGED corte
                 \/ /\ ~Listado /\ resp = "0"
                    /\ cli' = [leido EXCEPT !.paso = "trozo"] /\ UNCHANGED corte
                 \/ /\ ~Listado /\ resp # "0"
                    /\ cli' = [leido EXCEPT !.paso = "acabado",
                                            !.fin = IF resp = "" THEN "excepcion" ELSE "fallo"]
                    /\ corte' = Cierra("cli", Cola(baja, Len(r)))
    BY <1>13, Zenon DEF LeeCodigo
  <2>2. cli.paso = "codigo" /\ UNCHANGED sube /\ cli.i = 0
    BY <1>13 DEF LeeCodigo, SoloCli, TiposInv, Contadores
  <2> DEFINE resp  == IF r = <<>> THEN "" ELSE r[1].que
             f     == IF resp = "" THEN "excepcion" ELSE "fallo"
             leido == [cli EXCEPT !.leido = r, !.resp = resp]
  <2>3. r # <<>> => r[1].que \in {"0", "error"}
    BY <1>3, <2>2 DEF TiposInv, CodigoDelante
  <2>4. resp \in Respuestas
    <3>1. CASE r = <<>>
      BY <3>1, Zenon DEF Respuestas
    <3>2. CASE r # <<>>
      <4>1. resp = r[1].que
        BY <3>2, Zenon
      <4>2. "0" \in Respuestas /\ "error" \in Respuestas
        BY Zenon DEF Respuestas
      <4> HIDE DEF resp
      <4>3. QED
        BY <2>3, <3>2, <4>1, <4>2
    <3>3. QED
      BY <3>1, <3>2
  <2>5. f \in Fines
    BY Zenon DEF Fines
  <2>6. /\ Lee(r)
        /\ \/ cli' = [leido EXCEPT !.paso = "confCodigo"] /\ UNCHANGED corte
           \/ cli' = [leido EXCEPT !.paso = "trozo"] /\ UNCHANGED corte
           \/ /\ cli' = [leido EXCEPT !.paso = "acabado", !.fin = f]
              /\ corte' = Cierra("cli", Cola(baja, Len(r)))
    BY <2>1, Zenon
  <2> HIDE DEF resp, f
  <2>7. leido \in EstadoCli /\ leido.i = cli.i
    <3>1. r \in Seq(Piezas) /\ cli \in EstadoCli
      BY <1>1, <1>3
    <3>2. leido = [cli EXCEPT !.leido = r, !.resp = resp]
      BY Zenon DEF leido
    <3>3. QED
      BY <2>4, <3>1, <3>2, CliForma
  <2> HIDE DEF leido
  <2>8. {"confCodigo", "trozo", "acabado"} \subseteq PasosCli
    BY DEF PasosCli
  <2>9. /\ cli' \in EstadoCli
        /\ (cli'.paso = "confCodigo" /\ cli'.i = 0) \/ cli'.paso \in {"trozo", "acabado"}
    <3>1. CASE cli' = [leido EXCEPT !.paso = "confCodigo"]
      BY <2>2, <2>7, <2>8, <3>1, CliCampos
    <3>2. CASE cli' = [leido EXCEPT !.paso = "trozo"]
      BY <2>7, <2>8, <3>2, CliCampos
    <3>3. CASE cli' = [leido EXCEPT !.paso = "acabado", !.fin = f]
      BY <2>5, <2>7, <3>3, CliCampos
    <3>4. QED
      BY <2>6, <3>1, <3>2, <3>3
  <2>10. Lee(r) /\ corte' \in EstadoCorte
    BY <1>1, <1>3, <2>6
  <2>11. /\ cli'.paso \notin {"pide", "pideResto", "codigo"}
         /\ cli'.paso \in {"confCodigo", "cuenta"} => cli'.i = 0
         /\ cli'.paso = "elem" => cli'.i < caso.n
    BY <2>9
  <2>12. QED
    BY <1>12, <2>2, <2>9, <2>10, <2>11, Zenon
<1>14. CASE LeeCuenta
  <2>1. PICK r \in Recv :
          /\ Lee(r)
          /\ \/ /\ caso.n > 0 /\ cli' = [cli EXCEPT !.leido = r, !.paso = "elem"] /\ UNCHANGED corte
             \/ /\ \E f \in {"fallo", "ok", "excepcion"} :
                     cli' = [cli EXCEPT !.leido = r, !.paso = "acabado", !.fin = f]
                /\ corte' = Cierra("cli", Cola(baja, Len(r)))
    BY <1>14 DEF LeeCuenta
  <2>2. cli.paso = "cuenta" /\ UNCHANGED sube /\ cli.i = 0
    BY <1>14 DEF LeeCuenta, SoloCli, TiposInv, Contadores
  <2>3. {"elem", "acabado"} \subseteq PasosCli /\ {"fallo", "ok", "excepcion"} \subseteq Fines
    BY DEF PasosCli, Fines
  <2>4. /\ cli' \in EstadoCli
        /\ cli'.paso = "acabado" \/ (cli'.paso = "elem" /\ cli'.i = 0 /\ caso.n > 0)
    <3>1. r \in Seq(Piezas) /\ cli \in EstadoCli
      BY <1>1, <1>3
    <3>2. CASE caso.n > 0 /\ cli' = [cli EXCEPT !.leido = r, !.paso = "elem"]
      <4>1. "elem" \in PasosCli
        BY <2>3
      <4>2. cli' \in EstadoCli /\ cli'.paso = "elem" /\ cli'.i = cli.i
        BY <3>1, <3>2, <4>1, CliForma
      <4>3. QED
        BY <2>2, <3>2, <4>2
    <3>3. ASSUME NEW f \in {"fallo", "ok", "excepcion"},
                 cli' = [cli EXCEPT !.leido = r, !.paso = "acabado", !.fin = f]
          PROVE  cli' \in EstadoCli /\ cli'.paso = "acabado"
      BY <2>3, <3>1, <3>3, CliLeeAcaba
    <3>4. QED
      BY <2>1, <3>2, <3>3, Zenon
  <2>5. Lee(r) /\ corte' \in EstadoCorte
    BY <1>1, <1>3, <2>1
  <2>6. /\ cli'.paso \notin {"pide", "pideResto", "codigo"}
        /\ cli'.paso \in {"confCodigo", "cuenta"} => cli'.i = 0
        /\ cli'.paso = "elem" => cli'.i < caso.n
    BY <2>4
  <2>7. QED
    BY <1>12, <2>2, <2>4, <2>5, <2>6, Zenon
<1>15. CASE LeeElemento
  <2> DEFINE leido(r) == [cli EXCEPT !.leido = r, !.recibido = @ \o r, !.i = @ + 1]
  <2>1. PICK r \in Recv :
          /\ Lee(r)
          /\ \/ cli' = [leido(r) EXCEPT !.paso = "confElem"] /\ UNCHANGED corte
             \/ leido(r).i < caso.n /\ cli' = leido(r) /\ UNCHANGED corte
             \/ /\ cli' = [leido(r) EXCEPT !.paso = "acabado", !.fin = "ok"]
                /\ corte' = Cierra("cli", Cola(baja, Len(r)))
    BY <1>15 DEF LeeElemento
  <2>2. cli.paso = "elem" /\ UNCHANGED sube /\ cli.i + 1 <= MaxN
    BY <1>1, <1>15 DEF LeeElemento, SoloCli, TiposInv, Contadores
  <2>3. r \in Seq(Piezas)
    BY <1>3
  <2>4. {"elem", "confElem", "acabado"} \subseteq PasosCli /\ "ok" \in Fines
    BY DEF PasosCli, Fines
  <2> DEFINE l == leido(r)
  <2>5. l \in EstadoCli /\ l.paso = "elem"
    <3>1. cli \in EstadoCli
      BY <1>1
    <3>2. QED
      BY <2>2, <2>3, <3>1, CliLeeElemento, Zenon
  <2>6. \/ cli' = [l EXCEPT !.paso = "confElem"] /\ UNCHANGED corte
        \/ l.i < caso.n /\ cli' = l /\ UNCHANGED corte
        \/ /\ cli' = [l EXCEPT !.paso = "acabado", !.fin = "ok"]
           /\ corte' = Cierra("cli", Cola(baja, Len(r)))
    BY <2>1
  <2> HIDE DEF l, leido
  <2>7. /\ cli' \in EstadoCli
        /\ cli'.paso \in {"confElem", "acabado"} \/ (cli'.paso = "elem" /\ cli'.i < caso.n)
    <3>1. CASE cli' = [l EXCEPT !.paso = "confElem"]
      BY <2>4, <2>5, <3>1, CliCampos
    <3>2. CASE l.i < caso.n /\ cli' = l
      BY <2>5, <3>2
    <3>3. CASE cli' = [l EXCEPT !.paso = "acabado", !.fin = "ok"]
      BY <2>4, <2>5, <3>3, CliCampos
    <3>4. QED
      BY <2>6, <3>1, <3>2, <3>3
  <2>8. Lee(r) /\ corte' \in EstadoCorte
    BY <1>1, <1>3, <2>1, <2>6
  <2>9. /\ cli'.paso \notin {"pide", "pideResto", "codigo"}
        /\ cli'.paso \in {"confCodigo", "cuenta"} => cli'.i = 0
        /\ cli'.paso = "elem" => cli'.i < caso.n
    BY <2>7
  <2>10. QED
    BY <1>12, <2>2, <2>7, <2>8, <2>9, Zenon
<1>16. CASE LeeTrozo
  <2>1. PICK r \in Recv :
          /\ Lee(r)
          /\ \/ /\ cli' = [cli EXCEPT !.leido = r, !.paso = "acabado", !.fin = "ok"]
                /\ corte' = Cierra("cli", Cola(baja, Len(r)))
             \/ /\ cli' = [cli EXCEPT !.leido = r, !.recibido = @ \o r, !.paso = "confTrozo"]
                /\ UNCHANGED corte
    BY <1>16 DEF LeeTrozo
  <2>2. UNCHANGED sube
    BY <1>16 DEF LeeTrozo, SoloCli
  <2>3. r \in Seq(Piezas)
    BY <1>3
  <2>4. {"confTrozo", "acabado"} \subseteq PasosCli /\ "ok" \in Fines
    BY DEF PasosCli, Fines
  <2>5. cli' \in EstadoCli /\ cli'.paso \in {"confTrozo", "acabado"}
    <3>1. cli \in EstadoCli
      BY <1>1
    <3>2. CASE cli' = [cli EXCEPT !.leido = r, !.paso = "acabado", !.fin = "ok"]
      BY <2>3, <2>4, <3>1, <3>2, CliLeeAcaba
    <3>3. CASE cli' = [cli EXCEPT !.leido = r, !.recibido = @ \o r, !.paso = "confTrozo"]
      BY <2>3, <3>1, <3>3, CliLeeTrozo
    <3>4. QED
      BY <2>1, <3>2, <3>3
  <2>6. Lee(r) /\ corte' \in EstadoCorte
    BY <1>1, <1>3, <2>1
  <2>7. /\ cli'.paso \notin {"pide", "pideResto", "codigo"}
        /\ cli'.paso \in {"confCodigo", "cuenta"} => cli'.i = 0
        /\ cli'.paso = "elem" => cli'.i < caso.n
    BY <2>5
  <2>8. QED
    BY <1>12, <2>2, <2>5, <2>6, <2>7, Zenon
<1>17. QED
  BY <1>7, <1>8, <1>9, <1>10, <1>11, <1>13, <1>14, <1>15, <1>16 DEF Cliente

(* The steps of the other end, and those it takes after it has sent the code. *)
PasosSrv == {"pide", "codigo", "noEsta", "conf", "cuenta", "elem", "confElem", "FIN", "fin"} \cup Finales
TrasCodigo == {"conf", "cuenta", "elem", "confElem", "FIN", "fin"}
EnCodigo == cli.paso \in {"pide", "pideResto", "codigo"}

(* What becomes of the other end when it goes on. *)
LEMMA SrvCampos ==
  ASSUME NEW s \in EstadoSrv
  PROVE  /\ s.i \in 0..MaxN
         /\ \A p \in PasosSrv : /\ [s EXCEPT !.paso = p] \in EstadoSrv
                                /\ [s EXCEPT !.paso = p].paso = p /\ [s EXCEPT !.paso = p].i = s.i
         /\ \A p \in PasosSrv, i \in 0..MaxN : [i |-> i, paso |-> p] \in EstadoSrv
<1>1. EstadoSrv = [paso : PasosSrv, i : 0..MaxN]
  BY DEF EstadoSrv, PasosSrv
<1>2. QED
  BY <1>1

(* What an invariant of types says of the variables, field by field. *)
LEMMA TiposHechos ==
  ASSUME TiposInv
  PROVE  /\ caso \in Casos /\ sube \in Seq(Piezas) /\ baja \in Seq(Piezas) /\ corte \in EstadoCorte
         /\ cli \in EstadoCli /\ srv \in EstadoSrv /\ srv.i \in 0..MaxN
         /\ caso.n \in Int /\ caso.n <= MaxN /\ MaxN \in Nat
<1>1. /\ caso \in Casos /\ sube \in Seq(Piezas) /\ baja \in Seq(Piezas) /\ corte \in EstadoCorte
      /\ cli \in EstadoCli /\ srv \in EstadoSrv
  BY DEF TiposInv, TypeOK
<1>2. caso.n \in Int /\ caso.n <= MaxN /\ MaxN \in Nat
  BY <1>1, DialogoAssumption DEF Casos
<1>3. srv.i \in 0..MaxN
  BY <1>1, SrvCampos
<1>4. QED
  BY <1>1, <1>2, <1>3

(* The other end goes on and sends nothing. *)
LEMMA SrvSigue ==
  ASSUME TiposInv, UNCHANGED <<caso, baja, cli>>, sube' \in Seq(Piezas), corte' \in EstadoCorte,
         corte'["cli"] = corte["cli"], NEW p \in PasosSrv, Sigue(p),
         p \in {"pide", "codigo", "noEsta", "conf", "cuenta"} => srv.i = 0,
         p = "elem" => srv.i < caso.n,
         p \in TrasCodigo => srv.paso \in TrasCodigo \/ ~EnCodigo
  PROVE  TiposInv'
<1>1. srv' \in EstadoSrv /\ srv'.paso = p /\ srv'.i = srv.i
  BY TiposHechos, SrvCampos DEF Sigue
<1>2. TypeOK'
  <2>1. caso' \in Casos /\ cli' \in EstadoCli /\ baja' \in Seq(Piezas)
    BY TiposHechos
  <2>2. QED
    BY <1>1, <2>1, Zenon DEF TypeOK
<1>3. Contadores'
  BY <1>1 DEF TiposInv, Contadores
<1>4. CodigoDelante'
  BY <1>1 DEF TiposInv, CodigoDelante, TrasCodigo, EnCodigo
<1>5. QED
  BY <1>2, <1>3, <1>4 DEF TiposInv

(* It sends a message and goes on: before the code is read, the code is the *)
(* first of what is on its way.                                             *)
LEMMA SrvManda ==
  ASSUME TiposInv, UNCHANGED <<caso, sube, cli>>, NEW m \in Seq(Piezas), m # <<>>,
         baja' = Envia(baja, m, "cli"), corte' = Avisa("cli"), srv' \in EstadoSrv,
         srv'.paso \in {"pide", "codigo", "noEsta", "conf", "cuenta"} => srv'.i = 0,
         srv'.paso = "elem" => srv'.i < caso.n,
         m[1].que \in {"0", "error"} \/ srv.paso \in TrasCodigo
  PROVE  TiposInv'
<1>1. baja' \in Seq(Piezas) /\ corte' \in EstadoCorte
  BY TiposHechos, EnviaType, CorteType
<1>2. TypeOK'
  <2>1. caso' \in Casos /\ cli' \in EstadoCli /\ sube' \in Seq(Piezas)
    BY TiposHechos
  <2>2. QED
    BY <1>1, <2>1, Zenon DEF TypeOK
<1>3. Contadores'
  BY DEF TiposInv, Contadores
<1>4. CodigoDelante'
  <2>1. SUFFICES ASSUME EnCodigo
                 PROVE  /\ corte'["cli"] = "abierto"
                        /\ baja' # <<>> /\ baja'[1].que \in {"0", "error"}
    BY DEF CodigoDelante, EnCodigo
  <2>2. /\ corte["cli"] = "abierto"
        /\ baja # <<>> => baja[1].que \in {"0", "error"}
        /\ srv.paso \in TrasCodigo => baja # <<>>
    BY <2>1 DEF TiposInv, CodigoDelante, EnCodigo, TrasCodigo
  <2>3. corte' = corte
    BY <2>2, TiposHechos, CorteType
  <2>4. baja \in Seq(Piezas)
    BY TiposHechos
  <2>5. /\ baja # <<>> => baja' # <<>> /\ baja'[1] = baja[1]
        /\ baja = <<>> => baja' # <<>> /\ baja'[1] = m[1]
    BY <2>2, <2>4, EnviaType
  <2>6. QED
    BY <2>2, <2>3, <2>4, <2>5
<1>5. QED
  BY <1>2, <1>3, <1>4 DEF TiposInv

(* The other end sends the code before anything else, and counts its items. *)
LEMMA ServidorTypes ==
  ASSUME TiposInv, Servidor \/ LlegaReset \/ AceptaOtra \/ MataServidor
  PROVE  TiposInv'
<1>1. /\ caso \in Casos /\ sube \in Seq(Piezas) /\ baja \in Seq(Piezas) /\ corte \in EstadoCorte
      /\ cli \in EstadoCli /\ srv \in EstadoSrv /\ srv.i \in 0..MaxN
      /\ caso.n \in Int /\ caso.n <= MaxN /\ MaxN \in Nat
  BY TiposHechos
<1>2. /\ \A q : Cierra("srv", q) \in EstadoCorte /\ Cierra("srv", q)["cli"] = corte["cli"]
      /\ \A r \in Leibles(sube, "cli") : Cola(sube, Len(r)) \in Seq(Piezas)
      /\ \A q \in {"0", "error", "cuenta", "elem", "FIN"}, i \in 0..MaxN :
           Mensaje(q, i) \in Seq(Piezas) /\ Mensaje(q, i) # <<>> /\ Mensaje(q, i)[1].que = q
      /\ 0 \in 0..MaxN
  <2>1. \A q : Cierra("srv", q) \in EstadoCorte /\ Cierra("srv", q)["cli"] = corte["cli"]
    BY <1>1, CorteType
  <2>2. \A r \in Leibles(sube, "cli") : Cola(sube, Len(r)) \in Seq(Piezas)
    BY <1>1, LeibleType
  <2>3. ASSUME NEW q \in {"0", "error", "cuenta", "elem", "FIN"}, NEW i \in 0..MaxN
        PROVE  Mensaje(q, i) \in Seq(Piezas) /\ Mensaje(q, i) # <<>> /\ Mensaje(q, i)[1].que = q
    <3>1. q \in {"0", "error", "cuenta", "OK"} \cup Largos
      BY DEF Largos
    <3>2. QED
      BY <3>1, MensajeType
  <2>4. 0 \in 0..MaxN
    BY <1>1
  <2>5. QED
    BY <2>1, <2>2, <2>3, <2>4
<1>3. /\ {"codigo", "noEsta", "conf", "cuenta", "elem", "confElem", "FIN", "fin"} \subseteq PasosSrv
      /\ {"acepta", "cerrado", "muerto", "vuelto", "excepcion", "matado"} \subseteq PasosSrv
  BY DEF PasosSrv, Finales
(* It ends, or goes back to accept. *)
<1>4. ASSUME NEW p \in {"acepta", "cerrado", "muerto", "vuelto", "excepcion", "matado"}, Sigue(p),
             corte' = corte \/ \E q : corte' = Cierra("srv", q),
             UNCHANGED <<caso, baja, cli>>, sube' \in Seq(Piezas)
      PROVE  TiposInv'
  <2>1. corte' \in EstadoCorte /\ corte'["cli"] = corte["cli"]
    <3>1. CASE corte' = corte
      BY <1>1, <3>1
    <3>2. ASSUME NEW q, corte' = Cierra("srv", q)
          PROVE  corte' \in EstadoCorte /\ corte'["cli"] = corte["cli"]
      BY <1>2, <3>2
    <3>3. QED
      BY <1>4, <3>1, <3>2
  <2>2. p \in PasosSrv
    BY <1>3
  <2>3. QED
    BY <1>4, <2>1, <2>2, SrvSigue DEF TrasCodigo
<1>5. ASSUME NoPuede, SoloSrv
      PROVE  TiposInv'
  <2>1. sube' \in Seq(Piezas) /\ UNCHANGED <<caso, baja, cli>>
    BY <1>1, <1>5 DEF NoPuede, SoloSrv
  <2>2. \E p \in {"muerto", "vuelto", "excepcion"} :
          Sigue(p) /\ (corte' = corte \/ corte' = Cierra("srv", sube))
    BY <1>5 DEF NoPuede
  <2>3. QED
    BY <1>4, <2>1, <2>2
<1>6. CASE LeePeticion
  <2>1. PICK r \in Leibles(sube, "cli") :
          /\ sube' = Cola(sube, Len(r))
          /\ \/ Sigue("acepta") /\ UNCHANGED corte
             \/ Sigue("codigo") /\ UNCHANGED corte
             \/ Sigue("noEsta") /\ UNCHANGED corte
             \/ Sigue("excepcion") /\ corte' = Cierra("srv", Cola(sube, Len(r)))
    BY <1>6 DEF LeePeticion
  <2>2. UNCHANGED <<caso, baja, cli>> /\ sube' \in Seq(Piezas) /\ srv.i = 0
    BY <1>2, <1>6, <2>1 DEF LeePeticion, TiposInv, Contadores
  <2>3. CASE Sigue("acepta") /\ UNCHANGED corte
    BY <1>4, <2>2, <2>3
  <2>4. ASSUME NEW p \in {"codigo", "noEsta"}, Sigue(p), UNCHANGED corte
        PROVE  TiposInv'
    BY <1>1, <1>3, <2>2, <2>4, SrvSigue DEF TrasCodigo
  <2>5. CASE Sigue("excepcion") /\ corte' = Cierra("srv", Cola(sube, Len(r)))
    BY <1>4, <2>2, <2>5
  <2>6. QED
    BY <2>1, <2>3, <2>4, <2>5
<1>7. ASSUME NEW q \in {"0", "error", "cuenta", "FIN"}, SoloSrv,
             baja' = Envia(baja, Mensaje(q, 0), "cli"), corte' = Avisa("cli"),
             NEW p \in PasosSrv, Sigue(p),
             p \in {"pide", "codigo", "noEsta", "conf", "cuenta"} => srv.i = 0,
             p = "elem" => srv.i < caso.n,
             q \in {"0", "error"} \/ srv.paso \in TrasCodigo
      PROVE  TiposInv'
  <2>1. srv' \in EstadoSrv /\ srv'.paso = p /\ srv'.i = srv.i
    BY <1>1, <1>7, SrvCampos DEF Sigue
  <2>2. Mensaje(q, 0) \in Seq(Piezas) /\ Mensaje(q, 0) # <<>> /\ Mensaje(q, 0)[1].que = q
    BY <1>2
  <2>3. QED
    BY <1>7, <2>1, <2>2, SrvManda DEF SoloSrv
<1>8. CASE MandaCodigo
  <2>1. SoloSrv /\ srv.i = 0
    BY <1>8 DEF MandaCodigo, TiposInv, Contadores
  <2>2. \/ NoPuede
        \/ /\ baja' = Envia(baja, Mensaje("0", 0), "cli") /\ corte' = Avisa("cli")
           /\ Sigue(IF Listado THEN "conf" ELSE Primero)
        \/ /\ baja' = Envia(baja, Mensaje("error", 0), "cli") /\ corte' = Avisa("cli")
           /\ Sigue(IF Listado THEN "conf" ELSE "acepta")
    BY <1>8, Zenon DEF MandaCodigo, Emite
  <2>3. \/ NoPuede
        \/ \E q \in {"0", "error"}, p \in {"conf", "elem", "fin", "FIN", "acepta"} :
             /\ baja' = Envia(baja, Mensaje(q, 0), "cli") /\ corte' = Avisa("cli")
             /\ Sigue(p) /\ (p = "elem" => caso.n > 0)
    BY <2>2 DEF Primero
  <2>4. QED
    BY <1>3, <1>5, <1>7, <2>1, <2>3
<1>9. CASE EsperaCodigo
  <2>1. /\ UNCHANGED <<caso, baja, corte, cli>> /\ srv.i = 0 /\ srv.paso \in TrasCodigo
        /\ Sigue("cuenta") \/ Sigue("vuelto")
        /\ UNCHANGED sube \/ (sube # <<>> /\ sube' = Tail(sube))
    BY <1>9 DEF EsperaCodigo, Confirmado, SinConfirmar, TiposInv, Contadores, TrasCodigo
  <2>2. sube' \in Seq(Piezas)
    <3>1. sube # <<>> => Tail(sube) \in Seq(Piezas)
      BY <1>1
    <3>2. QED
      BY <1>1, <2>1, <3>1
  <2>3. CASE Sigue("cuenta")
    BY <1>1, <1>3, <2>1, <2>2, <2>3, SrvSigue
  <2>4. CASE Sigue("vuelto")
    BY <1>4, <2>1, <2>2, <2>4
  <2>5. QED
    BY <2>1, <2>3, <2>4
<1>10. CASE MandaCuenta
  <2>1. SoloSrv /\ srv.i = 0 /\ srv.paso \in TrasCodigo
    BY <1>10 DEF MandaCuenta, TiposInv, Contadores, TrasCodigo
  <2>2. \/ \E p \in {"elem", "fin", "FIN"} :
             /\ UNCHANGED <<baja, corte>> /\ Sigue(p) /\ (p = "elem" => caso.n > 0)
        \/ Emite(Cuenta, Sigue(Primero))
    BY <1>10 DEF MandaCuenta, Primero
  <2>3. Emite(Cuenta, Sigue(Primero)) =>
          \/ NoPuede
          \/ /\ baja' = Envia(baja, Mensaje("cuenta", 0), "cli") /\ corte' = Avisa("cli")
             /\ Sigue(Primero)
    BY Zenon DEF Emite, Cuenta
  <2>4. Primero \in {"elem", "fin", "FIN"} /\ (Primero = "elem" => caso.n > 0)
    BY DEF Primero
  <2>5. ASSUME NEW p \in {"elem", "fin", "FIN"}, UNCHANGED <<baja, corte>>, Sigue(p),
               p = "elem" => caso.n > 0
        PROVE  TiposInv'
    BY <1>1, <1>3, <2>1, <2>5, SrvSigue DEF SoloSrv
  <2>6. QED
    BY <1>3, <1>5, <1>7, <2>1, <2>2, <2>3, <2>4, <2>5
<1>11. CASE MandaElemento
  <2>1. SoloSrv /\ srv.i < caso.n /\ srv.paso \in TrasCodigo
    BY <1>11 DEF MandaElemento, TiposInv, Contadores, TrasCodigo
  <2>2. srv.i + 1 \in 0..MaxN
    BY <1>1, <2>1
  <2>3. \/ NoPuede
        \/ /\ baja' = Envia(baja, Mensaje("elem", srv.i + 1), "cli") /\ corte' = Avisa("cli")
           /\ srv' = [i |-> srv.i + 1, paso |-> IF caso.tipo # "content" THEN "confElem"
                                                ELSE IF srv.i + 1 < caso.n THEN "elem" ELSE "fin"]
    BY <1>11, Zenon DEF MandaElemento, Emite
  <2>4. ASSUME NEW p \in {"confElem", "elem", "fin"}, srv' = [i |-> srv.i + 1, paso |-> p],
               p = "elem" => srv.i + 1 < caso.n,
               baja' = Envia(baja, Mensaje("elem", srv.i + 1), "cli"), corte' = Avisa("cli")
        PROVE  TiposInv'
    <3>1. srv' \in EstadoSrv /\ srv'.paso = p /\ srv'.i = srv.i + 1
      BY <1>1, <1>3, <2>2, <2>4, SrvCampos
    <3>2. Mensaje("elem", srv.i + 1) \in Seq(Piezas) /\ Mensaje("elem", srv.i + 1) # <<>>
      BY <1>2, <2>2
    <3>3. QED
      BY <2>1, <2>4, <3>1, <3>2, SrvManda DEF SoloSrv
  <2>5. QED
    BY <1>5, <2>1, <2>3, <2>4
<1>12. CASE EsperaElemento
  <2>1. /\ UNCHANGED <<caso, baja, cli>> /\ srv.paso \in TrasCodigo
        /\ sube' \in Seq(Piezas)
        /\ \/ Sigue(Siguiente) /\ UNCHANGED corte
           \/ Sigue("vuelto") /\ UNCHANGED corte
           \/ Sigue("excepcion") /\ corte' = Cierra("srv", sube)
    <3>1. \/ Sigue(Siguiente) /\ UNCHANGED corte
          \/ Sigue("vuelto") /\ UNCHANGED corte
          \/ Sigue("excepcion") /\ corte' = Cierra("srv", sube)
      BY <1>12 DEF EsperaElemento, SinConfirmar
    <3>2. \/ UNCHANGED sube \/ (sube # <<>> /\ sube' = Tail(sube))
          \/ \E r \in Leibles(sube, "cli") : sube' = Cola(sube, Len(r))
      BY <1>12 DEF EsperaElemento, SinConfirmar, Confirmado
    <3>3. sube' \in Seq(Piezas)
      <4>1. sube # <<>> => Tail(sube) \in Seq(Piezas)
        BY <1>1
      <4>2. QED
        BY <1>1, <1>2, <3>2, <4>1
    <3>4. QED
      BY <1>12, <3>1, <3>3 DEF EsperaElemento, TrasCodigo
  <2>2. Siguiente \in {"elem", "fin", "FIN"} /\ (Siguiente = "elem" => srv.i < caso.n)
    BY DEF Siguiente
  <2>3. ASSUME NEW p \in {"elem", "fin", "FIN"}, UNCHANGED corte, Sigue(p), p = "elem" => srv.i < caso.n
        PROVE  TiposInv'
    BY <1>1, <1>3, <2>1, <2>3, SrvSigue
  <2>4. QED
    BY <1>4, <2>1, <2>2, <2>3
<1>13. CASE MandaFin
  <2>1. SoloSrv /\ srv.paso \in TrasCodigo
    BY <1>13 DEF MandaFin, TrasCodigo
  <2>2. \/ NoPuede
        \/ /\ baja' = Envia(baja, Mensaje("FIN", 0), "cli") /\ corte' = Avisa("cli")
           /\ Sigue("acepta")
    BY <1>13, Zenon DEF MandaFin, Emite
  <2>3. QED
    BY <1>3, <1>5, <1>7, <2>1, <2>2
<1>17. CASE NoAbre
  <2>1. /\ Sigue("vuelto") \/ Sigue("fin")
        /\ srv.paso \in TrasCodigo /\ UNCHANGED <<caso, sube, baja, corte, cli>>
    BY <1>17 DEF NoAbre, TrasCodigo
  <2>2. CASE Sigue("vuelto")
    BY <1>1, <1>4, <2>1, <2>2
  <2>3. CASE Sigue("fin")
    BY <1>1, <1>3, <2>1, <2>3, SrvSigue
  <2>4. QED
    BY <2>1, <2>2, <2>3
<1>14. CASE Termina \/ AceptaOtra \/ MataServidor
  <2>1. /\ Sigue("cerrado") \/ Sigue("matado")
        /\ corte' = Cierra("srv", sube) /\ UNCHANGED <<caso, sube, baja, cli>>
    BY <1>14 DEF Termina, AceptaOtra, MataServidor
  <2>2. QED
    BY <1>1, <1>4, <2>1
<1>15. CASE LlegaReset
  <2>1. PICK e \in {"cli", "srv"} : corte[e] = "avisado" /\ corte' = [corte EXCEPT ![e] = "roto"]
    BY <1>15 DEF LlegaReset
  <2>2. UNCHANGED <<caso, sube, baja, cli, srv>>
    BY <1>15 DEF LlegaReset
  <2>3. corte' \in EstadoCorte /\ (corte["cli"] = "abierto" => corte'["cli"] = "abierto")
    BY <1>1, <2>1 DEF EstadoCorte
  <2>4. TypeOK'
    <3>1. /\ caso' \in Casos /\ sube' \in Seq(Piezas) /\ baja' \in Seq(Piezas)
          /\ cli' \in EstadoCli /\ srv' \in EstadoSrv
      BY <1>1, <2>2
    <3>2. QED
      BY <2>3, <3>1, Zenon DEF TypeOK
  <2>5. Contadores' /\ CodigoDelante'
    BY <2>2, <2>3 DEF TiposInv, Contadores, CodigoDelante
  <2>6. QED
    BY <2>4, <2>5 DEF TiposInv
<1>16. QED
  BY <1>6, <1>8, <1>9, <1>10, <1>11, <1>12, <1>13, <1>14, <1>15, <1>17 DEF Servidor

(* A conversation starts with nothing sent. *)
LEMMA TiposInit == Init => TiposInv
<1> SUFFICES ASSUME Init PROVE TiposInv
  OBVIOUS
<1>1. /\ caso \in Casos /\ sube = <<>> /\ baja = <<>>
      /\ corte = [e \in {"cli", "srv"} |-> "abierto"]
      /\ srv = [paso |-> IF Listado THEN "codigo" ELSE "pide", i |-> 0]
  BY Zenon DEF Init
<1>2. sube \in Seq(Piezas) /\ baja \in Seq(Piezas) /\ corte \in EstadoCorte /\ corte["cli"] = "abierto"
  BY <1>1 DEF EstadoCorte
<1>3. 0 \in 0..MaxN
  BY DialogoAssumption
<1>4. srv \in EstadoSrv /\ srv.i = 0 /\ srv.paso \in {"codigo", "pide"}
  BY <1>1, <1>3 DEF EstadoSrv
<1>5. cli \in EstadoCli /\ cli.i = 0 /\ cli.paso \in {"codigo", "pide"}
  <2>1. PICK r \in Respuestas :
          cli = [paso |-> IF Listado THEN "codigo" ELSE "pide", i |-> 0,
                 leido |-> <<>>, resp |-> r, recibido |-> <<>>, fin |-> "no"]
    BY Zenon DEF Init, Respuestas
  <2>2. {"codigo", "pide"} \subseteq PasosCli /\ "no" \in Fines /\ <<>> \in Seq(Piezas)
    BY DEF PasosCli, Fines
  <2>3. QED
    BY <1>3, <2>1, <2>2, CliForma
<1>6. TypeOK
  BY <1>1, <1>2, <1>4, <1>5, Zenon DEF TypeOK
<1>7. Contadores /\ CodigoDelante
  BY <1>1, <1>2, <1>4, <1>5 DEF Contadores, CodigoDelante
<1>8. QED
  BY <1>6, <1>7 DEF TiposInv

(* Nothing happens, nothing changes. *)
LEMMA TiposStutter ==
  ASSUME TiposInv, UNCHANGED vars
  PROVE  TiposInv'
<1>1. UNCHANGED <<caso, sube, baja, corte, cli, srv>>
  BY DEF vars
<1>2. TypeOK'
  <2>1. /\ caso' \in Casos /\ sube' \in Seq(Piezas) /\ baja' \in Seq(Piezas) /\ corte' \in EstadoCorte
        /\ cli' \in EstadoCli /\ srv' \in EstadoSrv
    BY <1>1, TiposHechos
  <2>2. QED
    BY <2>1, Zenon DEF TypeOK
<1>3. Contadores' /\ CodigoDelante'
  BY <1>1 DEF TiposInv, Contadores, CodigoDelante
<1>4. QED
  BY <1>2, <1>3 DEF TiposInv

(* In every conversation, in any network, both ends and the stream have their *)
(* types.  That takes the order of the messages: no end counts more items     *)
(* than there are, and the first thing a client reads is a code, so the       *)
(* answer it keeps is "0", "error" or the nothing of an ended stream.         *)
THEOREM DialogueTypes == Spec => []TypeOK
<1>1. Init => TiposInv
  BY TiposInit
<1>2. TiposInv /\ [Next]_vars => TiposInv'
  BY ClienteTypes, ServidorTypes, TiposStutter DEF Next
<1>3. TiposInv => TypeOK
  BY DEF TiposInv
<1>4. QED
  BY <1>1, <1>2, <1>3, PTL DEF Spec
=============================================================================
