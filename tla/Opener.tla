------------------------------- MODULE Opener -------------------------------
(***************************************************************************)
(* What infra.Connect and infra.Backend (internal/infra/db.go) promise to  *)
(* the goroutines that call them: there is at most one connection for a    *)
(* connection string, every caller is given that one, and a call can only  *)
(* fail while there is none.                                               *)
(***************************************************************************)
EXTENDS Integers

CONSTANTS
    Callers,      \* goroutines
    Strings,      \* connection strings
    Null,         \* no connection, no answer
    Error         \* the answer of a call that failed

VARIABLES
    shared,       \* the connection for each string, numbered as they are opened
    asked,        \* the string each caller asks for
    answered,     \* what each caller was given
    count         \* number of connections opened so far

vars == <<shared, asked, answered, count>>

Init ==
    /\ shared = [s \in Strings |-> Null]
    /\ asked = [c \in Callers |-> Null]
    /\ answered = [c \in Callers |-> Null]
    /\ count = 0

Ask(c, s) ==
    /\ asked[c] = Null
    /\ asked' = [asked EXCEPT ![c] = s]
    /\ UNCHANGED <<shared, answered, count>>

Waiting(c) == asked[c] # Null /\ answered[c] = Null

GiveShared(c) ==
    /\ Waiting(c)
    /\ shared[asked[c]] # Null
    /\ answered' = [answered EXCEPT ![c] = shared[asked[c]]]
    /\ UNCHANGED <<shared, asked, count>>

OpenNew(c) ==
    /\ Waiting(c)
    /\ shared[asked[c]] = Null
    /\ shared' = [shared EXCEPT ![asked[c]] = count + 1]
    /\ answered' = [answered EXCEPT ![c] = count + 1]
    /\ count' = count + 1
    /\ UNCHANGED asked

Refuse(c) ==
    /\ Waiting(c)
    /\ shared[asked[c]] = Null
    /\ answered' = [answered EXCEPT ![c] = Error]
    /\ UNCHANGED <<shared, asked, count>>

Leave(c) ==
    /\ answered[c] # Null
    /\ asked' = [asked EXCEPT ![c] = Null]
    /\ answered' = [answered EXCEPT ![c] = Null]
    /\ UNCHANGED <<shared, count>>

Next ==
    \E c \in Callers :
       \/ \E s \in Strings : Ask(c, s)
       \/ GiveShared(c)
       \/ OpenNew(c)
       \/ Refuse(c)
       \/ Leave(c)

Spec == Init /\ [][Next]_vars

=============================================================================
