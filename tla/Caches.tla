------------------------------- MODULE Caches -------------------------------
(***************************************************************************)
(* The caches of database connections and of workflow backends             *)
(* (Connect and Backend in internal/infra/db.go), which all the goroutines *)
(* of a process share.  The two are one algorithm: lock a mutex, look the  *)
(* string up, open what is not there while the mutex is held, unlock.      *)
(*                                                                         *)
(* Opening parses the string, connects and, for a backend, runs migrations *)
(* that panic when they fail; the panic is recovered before the deferred   *)
(* unlock, so that a call that fails and one that panics end alike.        *)
(***************************************************************************)
EXTENDS Integers, FiniteSets

CONSTANTS Callers, Strings, Null, Error

ASSUME NullAssumption == Null \notin Callers \cup Strings \cup Int
ASSUME ErrorAssumption == Error \notin Int /\ Error # Null

VARIABLES
    mutex,        \* connCacheMu: the caller that holds it
    cache,        \* connCache: the connection for each string
    call,         \* what each caller is doing
    opened        \* number of connections opened so far

vars == <<mutex, cache, call, opened>>

-----------------------------------------------------------------------------
Connection == Nat \ {0}

Call == [pc     : {"idle", "lock", "look", "open", "unlock", "return"},
         string : Strings \cup {Null},
         result : Connection \cup {Error, Null}]

NoCall == [pc |-> "idle", string |-> Null, result |-> Null]

Begin(c, s) ==
    /\ call[c].pc = "idle"
    /\ call' = [call EXCEPT ![c] = [pc |-> "lock", string |-> s, result |-> Null]]
    /\ UNCHANGED <<mutex, cache, opened>>

Lock(c) ==
    /\ call[c].pc = "lock"
    /\ mutex = Null
    /\ mutex' = c
    /\ call' = [call EXCEPT ![c].pc = "look"]
    /\ UNCHANGED <<cache, opened>>

LookUp(c) ==
    LET known == cache[call[c].string] IN
    /\ call[c].pc = "look"
    /\ call' = IF known # Null
               THEN [call EXCEPT ![c].pc = "unlock", ![c].result = known]
               ELSE [call EXCEPT ![c].pc = "open"]
    /\ UNCHANGED <<mutex, cache, opened>>

\* Variant: a call that fails starts again.
OpenAtLast(c) ==
    /\ call[c].pc = "open"
    /\ \/ /\ opened' = opened + 1
          /\ cache' = [cache EXCEPT ![call[c].string] = opened + 1]
          /\ call' = [call EXCEPT ![c].pc = "unlock", ![c].result = opened + 1]
          /\ UNCHANGED mutex
       \/ /\ call' = [call EXCEPT ![c].pc = "lock"]
          /\ mutex' = Null
          /\ UNCHANGED <<cache, opened>>

\* Variant: what was opened is not remembered.
OpenAndForget(c) ==
    /\ call[c].pc = "open"
    /\ opened < 3
    /\ opened' = opened + 1
    /\ call' = [call EXCEPT ![c].pc = "unlock", ![c].result = opened + 1]
    /\ UNCHANGED <<mutex, cache>>

Open(c) ==
    /\ call[c].pc = "open"
    /\ \/ /\ opened' = opened + 1
          /\ cache' = [cache EXCEPT ![call[c].string] = opened + 1]
          /\ call' = [call EXCEPT ![c].pc = "unlock", ![c].result = opened + 1]
       \/ /\ call' = [call EXCEPT ![c].pc = "unlock", ![c].result = Error]
          /\ UNCHANGED <<cache, opened>>
    /\ UNCHANGED mutex

Unlock(c) ==
    /\ call[c].pc = "unlock"
    /\ mutex' = Null
    /\ call' = [call EXCEPT ![c].pc = "return"]
    /\ UNCHANGED <<cache, opened>>

Return(c) ==
    /\ call[c].pc = "return"
    /\ call' = [call EXCEPT ![c] = NoCall]
    /\ UNCHANGED <<mutex, cache, opened>>

-----------------------------------------------------------------------------
Init ==
    /\ mutex = Null
    /\ cache = [s \in Strings |-> Null]
    /\ call = [c \in Callers |-> NoCall]
    /\ opened = 0

Step(c) == Lock(c) \/ LookUp(c) \/ Open(c) \/ Unlock(c) \/ Return(c)

Next == \E c \in Callers : Step(c) \/ \E s \in Strings : Begin(c, s)

\* A call goes on: opening ends, in one way or the other, and a Go mutex does
\* not starve a waiter.
Fairness == \A c \in Callers : WF_vars(Step(c)) /\ SF_vars(Lock(c))

Spec == Init /\ [][Next]_vars /\ Fairness

-----------------------------------------------------------------------------
(* Properties *)

\* Every variable keeps its type, and exactly the caller between lock and
\* unlock holds the mutex, also when opening failed (infra/db.go:31-32, 51-55).
TypeOK ==
    /\ mutex \in Callers \cup {Null}
    /\ cache \in [Strings -> Connection \cup {Null}]
    /\ call \in [Callers -> Call]
    /\ opened \in Nat
    /\ \A c \in Callers : mutex = c <=> call[c].pc \in {"look", "open", "unlock"}

\* The code implements the promise of module Opener: a call is answered when
\* it finds the connection, opens it or fails to, still under the mutex.
Promise == INSTANCE Opener WITH
    shared <- cache,
    asked <- [c \in Callers |-> call[c].string],
    answered <- [c \in Callers |-> call[c].result],
    count <- opened

KeepsPromise == Promise!Spec

\* Every call returns, with a connection or an error: nobody leaves with the
\* mutex held (infra/db.go:31-32, 69-70).
EveryCallReturns == \A c \in Callers : call[c].pc = "lock" ~> call[c].pc = "idle"

=============================================================================
