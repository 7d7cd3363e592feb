----------------------------- MODULE HandleMap ------------------------------
(***************************************************************************)
(* What mtask_handle.c promises: a directory of the services by handle and *)
(* by local name.  A handle belongs to one service at a time, a name is    *)
(* given once, and retiring a handle takes its names away.                 *)
(***************************************************************************)
CONSTANTS Ctx, Handle, Name, NULL

VARIABLES
  owner,     \* owner[h]: the context a grab of h returns, or NULL
  named      \* named[n]: the handle a lookup of n returns, or NULL

vars == <<owner, named>>

Init == /\ owner = [h \in Handle |-> NULL]
        /\ named = [n \in Name |-> NULL]

Bind(h, c) == /\ owner[h] = NULL /\ owner'[h] = c
              /\ \A g \in Handle : owner[g] # c
              /\ owner' = [owner EXCEPT ![h] = c]
              /\ UNCHANGED named

Unbind(h) == /\ owner[h] # NULL /\ owner'[h] = NULL
             /\ owner' = [owner EXCEPT ![h] = NULL]
             /\ named' = [n \in Name |-> IF named[n] = h THEN NULL ELSE named[n]]

\* A name may be given to a handle that was retired meanwhile.
GiveName(n, h) == /\ named[n] = NULL /\ named'[n] = h
                  /\ named' = [named EXCEPT ![n] = h]
                  /\ UNCHANGED owner

Next == \E h \in Handle : \/ \E c \in Ctx : Bind(h, c)
                          \/ Unbind(h)
                          \/ \E n \in Name : GiveName(n, h)

Spec == Init /\ [][Next]_vars
=============================================================================
