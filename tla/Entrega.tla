------------------------------- MODULE Entrega -------------------------------
(***************************************************************************)
(* What a listing or a transfer promises to the user of client.py: the     *)
(* pieces appear in order, each once, none invented; and when the command  *)
(* ends well, all of them have appeared.                                   *)
(***************************************************************************)
EXTENDS Naturals, Sequences

VARIABLES
  todo,       \* the pieces the other end has for this client
  recibido,   \* those printed, or written to the local file
  fin,        \* "no" while the command runs, "ok", or "mal"
  fiable      \* the promise that "ok" means everything holds

EsPrefijo(s, t) == Len(s) <= Len(t) /\ s = SubSeq(t, 1, Len(s))

Inicio == recibido = <<>> /\ fin = "no"

(* More pieces appear, or the command ends, perhaps with the last of them. *)
Aparece == EsPrefijo(recibido, recibido') /\ EsPrefijo(recibido', todo)

Acaba == /\ fin' \in {"ok", "mal"}
         /\ fin' = "ok" /\ fiable => recibido' = todo

Paso == /\ fin = "no" /\ Aparece
        /\ fin' = "no" \/ Acaba
        /\ UNCHANGED todo

Promesa == Inicio /\ [][Paso]_<<todo, recibido, fin>>
=============================================================================
