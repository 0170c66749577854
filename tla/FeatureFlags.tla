---------------------------- MODULE FeatureFlags ----------------------------
(***************************************************************************)
(* What a host promises those who ask it for a feature, without the query, *)
(* the notifications and the map that bring it about: what it tells is     *)
(* what the feature was at some time, it hears of each change at most once *)
(* and goes on telling the change it heard of last.  It may be late, may   *)
(* hear of changes in another order than they were made in, and it forgets *)
(* everything at once.                                                     *)
(***************************************************************************)
EXTENDS Naturals, Sequences

CONSTANT Id

Flag == {"enabled", "disabled", "gone"}

VARIABLES
    history,  \* what each feature has been, oldest first
    told,     \* what the host tells of it, and the place of that in history
    heard     \* the places in history the host has heard of

Nothing == [place |-> 0, flag |-> "unknown"]

FInit ==
    /\ history = [id \in Id |-> << >>]
    /\ told = [id \in Id |-> Nothing]
    /\ heard = [id \in Id |-> {}]

(* A feature changes, is enabled again perhaps, until it is gone.           *)
Change(id) ==
    /\ \A k \in DOMAIN history[id] : history[id][k] # "gone"
    /\ \E flag \in Flag : history' = [history EXCEPT ![id] = Append(@, flag)]
    /\ UNCHANGED <<told, heard>>

(* The host hears of a change.  It may have missed some before it.          *)
Hear(id) ==
    /\ \E k \in DOMAIN history[id] \ heard[id] :
          /\ told' = [told EXCEPT ![id] = [place |-> k, flag |-> history[id][k]]]
          /\ heard' = [heard EXCEPT ![id] = @ \cup {k}]
    /\ UNCHANGED history

Forget ==
    /\ told' = [id \in Id |-> Nothing]
    /\ heard' = [id \in Id |-> {}]
    /\ UNCHANGED history

FNext == (\E id \in Id : Change(id) \/ Hear(id)) \/ Forget

FSpec == FInit /\ [][FNext]_<<history, told, heard>>
=============================================================================
