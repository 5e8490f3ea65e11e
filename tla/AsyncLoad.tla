------------------------------ MODULE AsyncLoad ------------------------------
(***************************************************************************)
(* What useAsync keeps for a resource that a component loads when it is    *)
(* mounted and whenever the values it depends on change: the state it      *)
(* shows, and the requests behind it.  A load aborts the one before it,    *)
(* whose answer may still come in and must not be shown.                   *)
(*                                                                         *)
(* A load is a record: what is shown (status, and data for a success), the *)
(* values it was made for (key), and the key of an aborted request whose   *)
(* answer is still due (late: one is kept, since it is ignored anyway).    *)
(* The modules of the pages hold one such record per useAsync.             *)
(***************************************************************************)
CONSTANT Nothing   \* null: no request, no data

\* State with the fields of a component that is mounted in place of its own.  (It is @@,
\* spelled out for the provers.)
Mounting(part, w) ==
  [x \in DOMAIN part \cup DOMAIN w |-> IF x \in DOMAIN part THEN part[x] ELSE w[x]]

\* The effect runs for the first time, when the component is mounted.
Mounted(key) ==
  [status |-> "loading", key |-> key, data |-> Nothing, late |-> Nothing]

\* The effect runs again: its cleanup aborts the request in flight.
Reloaded(load, key) ==
  [status |-> "loading", key |-> key, data |-> Nothing,
   late |-> IF load.status = "loading" THEN load.key ELSE load.late]

\* The current request is answered, with data or with an error.
Succeeded(load, data) == [load EXCEPT !.status = "success", !.data = data]
Failed(load) == [load EXCEPT !.status = "error"]

\* Variant for the checks: the answer is shown although its request was aborted.
LateAnswerShown(load, data) ==
  IF data = Nothing THEN load ELSE [load EXCEPT !.status = "success", !.data = data, !.late = Nothing]

\* The answer of an aborted request is dropped, whatever it is.
LateAnswer(load, data) == [load EXCEPT !.late = Nothing]

\* What a component may show.
HasData(load) == load.status = "success"
Pending(load) == load.status = "loading"

\* Data is shown only for the values the component depends on now.
ShownFor(load, key) == HasData(load) => load.key = key /\ load.data.of = key

\* The records of a load over a set of keys and a set of data.
Loads(Keys, Data) ==
  [status : {"loading", "error", "success"}, key : Keys,
   data : Data \cup {Nothing}, late : Keys \cup {Nothing}]
=============================================================================
