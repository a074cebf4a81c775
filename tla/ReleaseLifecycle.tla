-------------------------- MODULE ReleaseLifecycle --------------------------
(***************************************************************************)
(* What the status of a release promises to a client of the release        *)
(* service (models/release.go:10-15): a release is created unknown, waits  *)
(* from the moment a deployment of it is accepted, and is decided once.    *)
(* An accepted release may be withdrawn again, and is then unknown.        *)
(*                                                                         *)
(* A failed installation also overwrites the statuses of Overwritable,     *)
(* which is empty when the jobs backend neither loses a reply nor executes *)
(* an activity twice at the same time.                                     *)
(***************************************************************************)
CONSTANTS Releases, Overwritable

VARIABLE status

Move(r, from, to) ==
    /\ status[r] \in from
    /\ status' = [status EXCEPT ![r] = to]

Create(r)   == Move(r, {"absent"}, "unknown")
Accept(r)   == Move(r, {"unknown"}, "wait")
Withdraw(r) == Move(r, {"wait"}, "unknown")
Confirm(r)  == Move(r, {"wait"}, "deployed")
Condemn(r)  == Move(r, {"wait"} \cup Overwritable, "dead")

Init == status = [r \in Releases |-> "absent"]

Next == \E r \in Releases :
           Create(r) \/ Accept(r) \/ Withdraw(r) \/ Confirm(r) \/ Condemn(r)

Spec == Init /\ [][Next]_status

=============================================================================
