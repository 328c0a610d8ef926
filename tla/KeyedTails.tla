----------------------------- MODULE KeyedTails -----------------------------
(***************************************************************************)
(* The map of promise tails with which the git cache and the registrations *)
(* serialise what is done under one key: who joins waits for the tail it   *)
(* finds and becomes the tail; who leaves deletes the tail if it still is  *)
(* its own.                                                                *)
(***************************************************************************)
EXTENDS Naturals

CONSTANTS Keys, Parties, NoParty

VARIABLES tail,    \* per key: the party that joined last, NoParty if none
          prior    \* per party: whom it waits for, NoParty once that is over

Tailed(k) == tail[k] # NoParty
First(p)  == prior[p] = NoParty

Join(k, p) ==
  /\ prior' = [prior EXCEPT ![p] = tail[k]]
  /\ tail' = [tail EXCEPT ![k] = p]

(* Mutant: the tail is deleted whoever it belongs to.                      *)
LeaveDeleting(k, p) ==
  /\ prior' = [q \in Parties |-> IF prior[q] = p THEN NoParty ELSE prior[q]]
  /\ tail' = [tail EXCEPT ![k] = NoParty]

Leave(k, p) ==
  /\ prior' = [q \in Parties |-> IF prior[q] = p THEN NoParty ELSE prior[q]]
  /\ tail' = [tail EXCEPT ![k] = IF @ = p THEN NoParty ELSE @]
=============================================================================
