----------------------------- MODULE ControlLease -----------------------------
(***************************************************************************)
(* What control of a browser session keeps to however control changes      *)
(* overlap: an epoch is a token that is granted to one controller and to   *)
(* no other, and a lease that has ended stays ended.  ADR-0007 promises    *)
(* more (an epoch that moves by one at every change); README section 7     *)
(* says which interleavings break that.                                    *)
(***************************************************************************)
EXTENDS Naturals

CONSTANTS
  Controllers,  \* identities that may be given control
  Nobody,       \* the null controller
  Epochs        \* the epochs a session may carry

VARIABLES
  holder,   \* the interactive controller
  epoch,    \* the control epoch
  granted,  \* whom each epoch was granted to, or Nobody
  live      \* the epochs whose lease is neither revoked nor expired

leaseVars == <<holder, epoch, granted, live>>

LeaseInit ==
  /\ holder \in Controllers
  /\ epoch = 1
  /\ granted = [e \in Epochs |-> IF e = 1 THEN holder ELSE Nobody]
  /\ live = {1}

\* Control passes to k with a lease at an epoch nobody was granted before.
Transfer(k, e) ==
  /\ granted[e] = Nobody
  /\ granted' = [granted EXCEPT ![e] = k]
  /\ holder' = k
  /\ epoch' = e
  /\ e \in live' /\ live' \subseteq live \cup {e}

\* Control is given up, at an epoch past the first.
GiveUp(e) ==
  /\ e # 1
  /\ holder' = Nobody
  /\ epoch' = e
  /\ live' \subseteq live
  /\ UNCHANGED granted

\* Leases run out or the session ends; control itself does not move.
Lapse ==
  /\ live' \subseteq live
  /\ UNCHANGED <<holder, epoch, granted>>

LeaseNext ==
  \/ \E k \in Controllers, e \in Epochs : Transfer(k, e)
  \/ \E e \in Epochs : GiveUp(e)
  \/ Lapse

LeaseSpec == LeaseInit /\ [][LeaseNext]_leaseVars
=============================================================================
