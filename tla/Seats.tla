--------------------------------- MODULE Seats ---------------------------------
(***************************************************************************)
(* The agents of a campaign (modules/agents): accounts with a phone number *)
(* and an email, and the seat each holds: a role at a polling unit, ward,  *)
(* LGA or state.  Creating and updating an agent read, decide and write in *)
(* several steps without a transaction; unique indexes are what the        *)
(* database adds.  Names and passwords are left out.                       *)
(***************************************************************************)
EXTENDS Integers, Sequences, FiniteSets

CONSTANTS
    PUs, Wards, LGAs, States,    \* the places of the four levels
    Parent,                      \* the ward of a unit, and so on; of a state itself
    Accounts,                    \* ids of accounts
    Phones,                      \* phone numbers, normalised
    Clerks,                      \* requests served at once
    Name, Code                   \* the name of a place, a sequence of words; a unit's code

Places == PUs \cup Wards \cup LGAs \cup States

ASSUME PlacesHaveParents ==
    /\ Parent \in [Places -> Places]
    /\ \A p \in PUs : Parent[p] \in Wards
    /\ \A w \in Wards : Parent[w] \in LGAs
    /\ \A l \in LGAs : Parent[l] \in States
    /\ \A s \in States : Parent[s] = s
    /\ PUs \cap (Wards \cup LGAs \cup States) = {}
    /\ Wards \cap (LGAs \cup States) = {} /\ LGAs \cap States = {}

\* What stands for an absent phone, place or account is none.
ASSUME NoneIsAbsent ==
    "none" \notin Phones \cup Places \cup Accounts /\ "new" \notin Accounts

VARIABLES
    account,    \* the User rows: phone, email, whether active; NoAccount if there is none
    seat,       \* the CampaignMembership of each account: place and whether active
    at, clerk   \* the next step of each request, and what it carries

seatVars == <<account, seat, at, clerk>>

\* An agent without an address gets one made of the phone number: an email is
\* represented by the number it was made of.
NoAccount == [phone |-> "none", email |-> "none", active |-> FALSE]
NoSeat == [place |-> "none", active |-> FALSE]
NoRequest == [phone |-> "none", place |-> "none", who |-> "none", on |-> "open"]

SeatsInit ==
    /\ account = [a \in Accounts |-> NoAccount]
    /\ seat = [a \in Accounts |-> NoSeat]
    /\ at = [c \in Clerks |-> "idle"]
    /\ clerk = [c \in Clerks |-> NoRequest]

Go(c, step, request) ==
    /\ at' = [at EXCEPT ![c] = step]
    /\ clerk' = [clerk EXCEPT ![c] = request]

Refuse(c) == Go(c, "idle", NoRequest)

ByPhone(x) == {a \in Accounts : account[a] # NoAccount /\ account[a].phone = x}
ByEmail(x) == {a \in Accounts : account[a] # NoAccount /\ account[a].email = x}

\* assertPuSeatAvailable: who sits at a unit, other than account a.
Occupants(place, a) ==
    {b \in Accounts \ {a} : place \in PUs /\ seat[b] = [place |-> place, active |-> TRUE]}

-----------------------------------------------------------------------------
\* create: the accounts of the phone and of its email are looked up; two different
\* ones are a conflict.
LookUp(c, x, place) ==
    /\ at[c] = "idle"
    /\ IF \E a \in ByPhone(x), b \in ByEmail(x) : a # b
       THEN Refuse(c)
       ELSE \E who \in IF ByPhone(x) \cup ByEmail(x) # {} THEN ByPhone(x) \cup ByEmail(x)
                       ELSE {"new"} :
               Go(c, "account",
                     [phone |-> x, place |-> place, who |-> who, on |-> "open"])
    /\ UNCHANGED <<account, seat>>

\* The account is made, or the one found is given the phone and made active; a phone
\* or email that somebody took meanwhile is refused by the unique index.
WriteAccount(c) ==
    LET x == clerk[c].phone
        who == clerk[c].who
    IN  /\ at[c] = "account"
        /\ IF who = "new"
           THEN IF ByPhone(x) \cup ByEmail(x) # {}
                THEN Refuse(c) /\ UNCHANGED account
                ELSE \E a \in Accounts :
                        /\ account[a] = NoAccount
                        /\ account' = [account EXCEPT ![a] =
                               [phone |-> x, email |-> x, active |-> TRUE]]
                        /\ Go(c, "check", [clerk[c] EXCEPT !.who = a])
           ELSE IF ByPhone(x) \ {who} # {}
                THEN Refuse(c) /\ UNCHANGED account
                ELSE /\ account' = [account EXCEPT ![who].phone = x, ![who].active = TRUE]
                     /\ Go(c, "check", clerk[c])
        /\ UNCHANGED seat

\* Only now is it looked whether the unit is free.
CheckSeat(c) ==
    /\ at[c] = "check"
    /\ IF Occupants(clerk[c].place, clerk[c].who) # {}
       THEN Refuse(c) ELSE Go(c, "sit", clerk[c])
    /\ UNCHANGED <<account, seat>>

\* A request opens the seat, closes it or keeps it as it is.
Open(c) == IF clerk[c].on = "keep" THEN seat[clerk[c].who].active ELSE clerk[c].on = "open"

\* (Mutant: no index guards the unit, the check before is all there is.)
SitUnguarded(c) ==
    /\ at[c] = "sit"
    /\ seat' = [seat EXCEPT ![clerk[c].who] = [place |-> clerk[c].place, active |-> Open(c)]]
    /\ Refuse(c)
    /\ UNCHANGED account

\* The membership is written; the partial unique index of the active seats of units
\* refuses a second one.
Sit(c) ==
    /\ at[c] = "sit"
    /\ IF Open(c) /\ Occupants(clerk[c].place, clerk[c].who) # {}
       THEN UNCHANGED seat
       ELSE seat' = [seat EXCEPT ![clerk[c].who] =
                [place |-> clerk[c].place, active |-> Open(c)]]
    /\ Refuse(c)
    /\ UNCHANGED account

\* update: a seat is moved, closed or opened again and the phone changed; the unit and
\* the phone are checked first, whether or not the agent is to be active.
Revise(c, a, x, place, on) ==
    /\ at[c] = "idle"
    /\ seat[a] # NoSeat
    /\ IF \/ Occupants(place, a) # {}
          \/ x # account[a].phone /\ ByPhone(x) \ {a} # {}
       THEN Refuse(c)
       ELSE Go(c, "revise", [phone |-> x, place |-> place, who |-> a, on |-> on])
    /\ UNCHANGED <<account, seat>>

\* The account first, then the seat.
ReviseAccount(c) ==
    LET a == clerk[c].who
        x == clerk[c].phone
    IN  /\ at[c] = "revise"
        /\ IF ByPhone(x) \ {a} # {}
           THEN Refuse(c) /\ UNCHANGED account
           ELSE /\ account' = [account EXCEPT ![a].phone = x,
                       ![a].active = IF clerk[c].on = "keep" THEN @ ELSE clerk[c].on = "open"]
                /\ Go(c, "sit", clerk[c])
        /\ UNCHANGED seat

SeatsNext ==
    \E c \in Clerks :
        \/ \E x \in Phones, place \in Places : LookUp(c, x, place)
        \/ \E a \in Accounts, x \in Phones, place \in Places,
             on \in {"open", "close", "keep"} :
              Revise(c, a, x, place, on)
        \/ WriteAccount(c) \/ CheckSeat(c) \/ Sit(c) \/ ReviseAccount(c)

SeatsSpec == SeatsInit /\ [][SeatsNext]_seatVars

-----------------------------------------------------------------------------
\* Lists of agents.  A query asks for a kind of agent and may name a state, an LGA
\* and a ward; a viewer is an officer of a level at a place.
Under(p, q) ==
    \/ p = q
    \/ Parent[p] = q
    \/ Parent[Parent[p]] = q
    \/ Parent[Parent[Parent[p]]] = q

In(places, q) == IF q = "none" THEN places ELSE {p \in places : Under(p, q)}

SeatedAt(places) == {a \in Accounts : seat[a].active /\ seat[a].place \in places}

Wants(q, kind) == q.kind \in {kind, "all"}

\* A state's agents; a ward leaves out whoever sits above it.
StateList(q, s) ==
    LET inWard(places) == IF q.ward = "none" THEN places ELSE In(places, q.ward)
        above(places) == IF q.ward = "none" THEN places ELSE {}
    IN  SeatedAt((IF Wants(q, "state") THEN above({s}) ELSE {})
            \cup (IF Wants(q, "lga") THEN above(In(LGAs, s)) ELSE {})
            \cup (IF Wants(q, "ward") THEN inWard(In(Wards, s)) ELSE {})
            \cup (IF Wants(q, "pu") THEN inWard(In(PUs, s)) ELSE {}))

\* Everybody's, where neither a state nor an LGA is named.  A ward narrows the
\* agents of wards and units and leaves those above as they are.
CampaignList(q) ==
    SeatedAt((IF Wants(q, "state") THEN States ELSE {})
        \cup (IF Wants(q, "lga") THEN LGAs ELSE {})
        \cup (IF Wants(q, "ward") THEN In(Wards, q.ward) ELSE {})
        \cup (IF Wants(q, "pu") THEN In(PUs, q.ward) ELSE {}))

\* (Mutant: the list of an LGA keeps its coordinator out for the other viewers too.)
LgaListTeamOnly(q, l, ownTeam) ==
    SeatedAt((IF Wants(q, "ward") THEN In(In(Wards, l), q.ward) ELSE {})
        \cup (IF Wants(q, "pu") THEN In(In(PUs, l), q.ward) ELSE {}))

\* An LGA's; its own officer sees the team below only.
LgaList(q, l, ownTeam) ==
    SeatedAt((IF Wants(q, "lga") /\ q.ward = "none" /\ ~ownTeam THEN {l} ELSE {})
        \cup (IF Wants(q, "ward") THEN In(In(Wards, l), q.ward) ELSE {})
        \cup (IF Wants(q, "pu") THEN In(In(PUs, l), q.ward) ELSE {}))

\* list, for viewers whose query stays within their own place.
Listed(v, q) ==
    IF v.level = "ward" THEN SeatedAt(In(PUs, v.place))
    ELSE LET l == IF v.level = "lga" THEN v.place ELSE q.lga
             s == IF v.level = "state" THEN v.place ELSE q.state
         IN  IF v.level = "lga" /\ q.kind \in {"lga", "state"} THEN {}
             ELSE IF l # "none" THEN LgaList(q, l, v.level = "lga")
             ELSE IF s # "none" THEN StateList(q, s)
             ELSE CampaignList(q)

\* Whom to call about a place: the agents of it and of all that is above it.
Chain == [p \in Places |-> {q \in Places : Under(p, q)}]

Contacts(p) == [q \in Chain[p] |-> {a \in Accounts : seat[a] = [place |-> q, active |-> TRUE]}]

Unassigned(p) == {q \in Chain[p] : Contacts(p)[q] = {}}

\* Finding a place by what somebody types: units by their code, then whatever has the
\* term in its name.  An answer is shown with the place above it, a unit with its code.
Has(name, term) ==
    \E i \in 1..(Len(name) - Len(term) + 1) : SubSeq(name, i, i + Len(term) - 1) = term

Label(p) ==
    IF p \in PUs THEN <<Code[p]>> \o Name[p]
    ELSE IF p \in States THEN Name[p]
    ELSE Name[p] \o Name[Parent[p]]

\* findScopeByLabel: the one place meant, or the candidates among which to choose.
Find(term) ==
    LET byCode == {p \in PUs : <<Code[p]>> = term}
        candidates == {p \in Places : Has(Name[p], term)}
        exact == {p \in candidates : Label(p) = term}
    IN  IF Cardinality(byCode) = 1 THEN byCode
        ELSE IF Cardinality(candidates) <= 1 THEN candidates
        ELSE IF Cardinality(exact) = 1 THEN exact
        ELSE candidates

\* Who is answered when the assistant is asked for the people of a place by its name.
Answered(term) ==
    IF Cardinality(Find(term)) = 1
    THEN UNION {UNION {Contacts(p)[q] : q \in Chain[p]} : p \in Find(term)} ELSE {}

-----------------------------------------------------------------------------
Kinds == {"state", "lga", "ward", "pu"}

\* The types; a seat belongs to an account.
SeatsTypeOK ==
    /\ account \in [Accounts -> [phone : Phones \cup {"none"}, email : Phones \cup {"none"},
                                 active : BOOLEAN]]
    /\ seat \in [Accounts -> [place : Places \cup {"none"}, active : BOOLEAN]]
    /\ \A a \in Accounts : seat[a] # NoSeat => account[a] # NoAccount
    /\ at \in [Clerks -> {"idle", "account", "check", "sit", "revise"}]

\* "One active agent occupies a PU", and no two accounts answer to one phone number,
\* whatever requests interleave between their checks and their writes.
OneAgentPerUnit ==
    \A a, b \in Accounts : a # b =>
        /\ ~(seat[a].active /\ seat[b].active /\ seat[a].place = seat[b].place
             /\ seat[a].place \in PUs)
        /\ account[a] # NoAccount => account[a].phone # account[b].phone

Query(kind, s, l) == [kind |-> kind, state |-> s, lga |-> l, ward |-> "none"]
Director == [level |-> "all", place |-> "none"]

\* The lists tell one story: all kinds together are the sum of the kinds; a state's list
\* is its own officer's and those of its LGAs, and what its officer sees; and the list of
\* a ward's officer is the director's of the units there.  Who is named as the contact of
\* a place, also when it is asked for by a unit's code, is who is seated at or above it.
ListsAgree ==
    /\ \A s \in States :
          /\ Listed(Director, Query("all", s, "none")) =
                 UNION {Listed(Director, Query(k, s, "none")) : k \in Kinds}
          /\ Listed(Director, Query("all", s, "none")) = SeatedAt({s}) \cup
                 UNION {Listed(Director, Query("all", "none", l)) : l \in In(LGAs, s)}
          /\ Listed([level |-> "state", place |-> s], Query("all", "none", "none")) =
                 Listed(Director, Query("all", s, "none"))
    /\ \A l \in LGAs :
          Listed([level |-> "lga", place |-> l], Query("all", "none", "none")) =
              Listed(Director, Query("all", "none", l)) \ SeatedAt({l})
    /\ \A w \in Wards :
          Listed([level |-> "ward", place |-> w], Query("all", "none", "none")) =
              Listed(Director, [Query("pu", "none", "none") EXCEPT !.ward = w])
    /\ \A p \in Places, a \in Accounts :
          seat[a].active /\ seat[a].place \in Chain[p] =>
              \E q \in Chain[p] \ Unassigned(p) : a \in Contacts(p)[q]
    /\ \A p \in PUs :
          {q \in PUs : Code[q] = Code[p]} = {p} => Answered(<<Code[p]>>) = SeatedAt(Chain[p])
================================================================================
