-------------------------------- MODULE MCSeats --------------------------------
\* One place of each level; a ward and its LGA share a word of their names; a
\* leader beside the two accounts, of whom more are told of a risk than the cap allows.
EXTENDS Recipients, TLC

Up == ("p1" :> "w1") @@ ("w1" :> "l1") @@ ("l1" :> "s1") @@ ("s1" :> "s1")

Names == ("p1" :> <<"school">>) @@ ("w1" :> <<"ahoada", "town">>) @@ ("l1" :> <<"ahoada">>)
         @@ ("s1" :> <<"rivers">>)
Codes == ("p1" :> "32-02")

\* Of two requests served at once one is about the unit (bound).
BoundedSeats ==
    /\ SeatsNext
    /\ \A c, d \in Clerks : c # d => {clerk'[c].place, clerk'[d].place} \cap (PUs \cup {"none"}) # {}

BoundedSeatsSpec == SeatsInit /\ [][BoundedSeats]_seatVars

Alike == Permutations(Accounts) \cup Permutations(Phones) \cup Permutations(Clerks)
================================================================================
