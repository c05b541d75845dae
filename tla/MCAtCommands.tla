---------------------------- MODULE MCAtCommands ----------------------------
(* A small instance of AtCommands: every kind of request, with several settings. *)
EXTENDS AtCommands

Ask(word, n, verb) == [word |-> word, n |-> n, verb |-> verb, known |-> FALSE]

(* One request for each row, and some that no row is for. *)
EveryRequest ==
    {Ask("phonebook", n, verb) :
        n \in 2..3, verb \in {"create", "read", "update", "delete"}}
    \union {Ask("text", n, verb) : n \in 1..3, verb \in {"send", "read", "delete"}}
    \union {[Ask("text", 3, "read") EXCEPT !.known = TRUE]}
    \union {Ask(word, n, "other") : word \in {"call", "pb_mode"}, n \in 0..1}
    \union {Ask(word, 0, "other") : word \in Words \ (CrudWords \union {"call", "pb_mode"})}

(* Any one thing is permitted where any other is not. *)
SeparateSettings == {
    {"create contacts", "delete contacts", "send sms"},
    {"create contacts", "delete sms", "make call"},
    {"delete contacts", "delete sms"},
    {"send sms", "make call"}}
=============================================================================
