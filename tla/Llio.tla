-------------------------------- MODULE Llio --------------------------------
(***************************************************************************)
(* What both sides of the proxy's protocol build messages from: a message   *)
(* is a sequence of typed fields, and a reader takes the first field or     *)
(* throws.                                                                  *)
(*                                                                         *)
(* A field of the wrong kind is a reader's exception here; in the bytes it  *)
(* is an exception or a wrong value, which no property tells apart.         *)
(***************************************************************************)
EXTENDS Sequences

Field(k, v) == [k |-> k, v |-> v]

Got(v, rest) == [ok |-> TRUE, v |-> v, rest |-> rest]
Bad(rest) == [ok |-> FALSE, v |-> <<>>, rest |-> rest]

(* What ends the process: an exception that leaves a function of llio.h     *)
(* declared noexcept.                                                       *)
Terminates == [ok |-> FALSE, v |-> <<>>, rest |-> <<>>, terminates |-> TRUE]
terminates(x) == "terminates" \in DOMAIN x

(* What is read after x, unless reading x has thrown. *)
Then(x, next(_)) == IF x.ok THEN next(x) ELSE x

prim_from(k, m) ==
    IF m # <<>> /\ m[1].k = k THEN Got(m[1].v, Tail(m)) ELSE Bad(m)
=============================================================================
