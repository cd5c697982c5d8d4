---------------------------- MODULE ExclusiveLock ----------------------------
(***************************************************************************)
(* What JobRunner (for a job) and the lease store (for a session) promise, *)
(* with no queue, file, clock or loop in sight: a resource has at most one *)
(* holder, a holder has at most one resource, and only the holder or a     *)
(* crash lets it go.                                                       *)
(***************************************************************************)
CONSTANTS Resources, Holders

VARIABLE owner  \* owner[r]: who holds resource r

Busy(h) == \E r \in Resources : h \in owner[r]

Init == owner = [r \in Resources |-> {}]

Claim(h, r) ==
  /\ owner[r] = {}
  /\ ~Busy(h)
  /\ owner' = [owner EXCEPT ![r] = {h}]

Release(h, r) ==
  /\ owner[r] = {h}
  /\ owner' = [owner EXCEPT ![r] = {}]

Crash == owner' = [r \in Resources |-> {}]

Next == Crash \/ \E h \in Holders, r \in Resources : Claim(h, r) \/ Release(h, r)

Spec == Init /\ [][Next]_owner
=============================================================================
