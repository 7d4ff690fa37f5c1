-------------------------- MODULE IdempotentApiMC ---------------------------
(* A small instance of IdempotentApi for TLC: one create, one update of    *)
(* generation 1 and a read, any of them under any key any number of        *)
(* times.                                                                  *)
EXTENDS IdempotentApi, TLC

CONSTANTS acme, b1, b2

MCSlug == {acme}
MCBody == {b1, b2}

MCWorkload ==
  {[Nothing EXCEPT !.op = "create", !.slug = acme, !.body = b1]}
    \cup {[Nothing EXCEPT !.op = "put", !.tenant = t, !.ifMatch = 1, !.body = b2] :
           t \in Request}
    \cup {[Nothing EXCEPT !.op = "get", !.tenant = t] : t \in Request}
=============================================================================
