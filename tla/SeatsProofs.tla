------------------------------ MODULE SeatsProofs ------------------------------
(***************************************************************************)
(* One active agent per unit and one account per phone, for any places,    *)
(* accounts and phones and any number of requests at once.  The checks     *)
(* before the writes give nothing to rely on; the argument is that each    *)
(* write that could break the rule is refused by an index, and that a      *)
(* request carries an account which exists from the step it is named.      *)
(* Lists, contacts and those whom an event is told are sets computed from  *)
(* the seats: that they agree holds wherever the seats are of their type   *)
(* and places have the parents of their level.                             *)
(***************************************************************************)
EXTENDS Recipients, FiniteSetTheorems, TLAPS

Requests ==
    [phone : Phones \cup {"none"}, place : Places \cup {"none"},
     who : Accounts \cup {"new", "none"}, on : {"open", "close", "keep"}]

\* What a request in progress carries.
Carries(c) ==
    /\ clerk[c].phone \in Phones
    /\ clerk[c].place \in Places
    /\ \/ clerk[c].who = "new" /\ at[c] = "account"
       \/ clerk[c].who \in Accounts /\ account[clerk[c].who] # NoAccount

\* Accounts have a number; no two have the same, and no two agents sit at one unit.
Numbered == \A a \in Accounts : account[a] # NoAccount => account[a].phone \in Phones

SeatsInv ==
    /\ SeatsTypeOK
    /\ clerk \in [Clerks -> Requests]
    /\ \A c \in Clerks : at[c] # "idle" => Carries(c)
    /\ Numbered
    /\ OneAgentPerUnit

\* Nothing is there at first.
LEMMA SeatsInitInv == SeatsInit => SeatsInv
<1> SUFFICES ASSUME SeatsInit PROVE SeatsInv
    OBVIOUS
<1>1. SeatsTypeOK
    BY DEF SeatsInit, SeatsTypeOK, NoAccount, NoSeat
<1>2. clerk \in [Clerks -> Requests] /\ \A c \in Clerks : at[c] = "idle"
    BY DEF SeatsInit, NoRequest, Requests
<1>3. Numbered /\ OneAgentPerUnit
    BY DEF SeatsInit, Numbered, OneAgentPerUnit, NoAccount, NoSeat
<1> QED BY <1>1, <1>2, <1>3 DEF SeatsInv

\* A step that takes a request on, or ends it, and changes no row.
LEMMA GoInv ==
    ASSUME SeatsInv, NEW c \in Clerks, UNCHANGED <<account, seat>>,
           NEW step \in {"account", "check", "sit", "revise"}, NEW r \in Requests,
           Go(c, step, r),
           r.phone \in Phones, r.place \in Places,
           \/ r.who = "new" /\ step = "account"
           \/ r.who \in Accounts /\ account[r.who] # NoAccount
    PROVE  SeatsInv'
<1>1. SeatsTypeOK' /\ (clerk \in [Clerks -> Requests])'
    BY DEF SeatsInv, SeatsTypeOK, Go
<1>2. ASSUME NEW d \in Clerks, at'[d] # "idle" PROVE Carries(d)'
  <2>1. CASE d = c
    BY <2>1 DEF SeatsInv, SeatsTypeOK, Go, Carries
  <2>2. CASE d # c
    <3>1. at'[d] = at[d] /\ clerk'[d] = clerk[d]
        BY <2>2 DEF SeatsInv, SeatsTypeOK, Go
    <3> QED BY <3>1, <1>2 DEF SeatsInv, Carries
  <2> QED BY <2>1, <2>2
<1>3. Numbered' /\ OneAgentPerUnit'
    BY DEF SeatsInv, Numbered, OneAgentPerUnit
<1> QED BY <1>1, <1>2, <1>3 DEF SeatsInv

\* A request that is refused.
LEMMA RefuseInv ==
    ASSUME SeatsInv, NEW c \in Clerks, UNCHANGED <<account, seat>>, Refuse(c)
    PROVE  SeatsInv'
<1>1. SeatsTypeOK' /\ (clerk \in [Clerks -> Requests])'
    BY DEF SeatsInv, SeatsTypeOK, Refuse, Go, NoRequest, Requests
<1>2. ASSUME NEW d \in Clerks, at'[d] # "idle" PROVE Carries(d)'
  <2>1. d # c /\ at'[d] = at[d] /\ clerk'[d] = clerk[d]
      BY <1>2 DEF SeatsInv, SeatsTypeOK, Refuse, Go
  <2> QED BY <2>1, <1>2 DEF SeatsInv, Carries
<1>3. Numbered' /\ OneAgentPerUnit'
    BY DEF SeatsInv, Numbered, OneAgentPerUnit
<1> QED BY <1>1, <1>2, <1>3 DEF SeatsInv

\* An account is written with a number that nobody else has.
LEMMA AccountInv ==
    ASSUME SeatsInv, NEW c \in Clerks, NEW a \in Accounts,
           NEW row \in [phone : Phones, email : Phones \cup {"none"}, active : BOOLEAN],
           ByPhone(row.phone) \ {a} = {},
           account' = [account EXCEPT ![a] = row], UNCHANGED seat,
           NEW step \in {"check", "sit"}, NEW r \in Requests, Go(c, step, r),
           r.phone \in Phones, r.place \in Places, r.who = a
    PROVE  SeatsInv'
<1>0. account'[a] # NoAccount /\ \A b \in Accounts \ {a} : account'[b] = account[b]
    BY NoneIsAbsent DEF SeatsInv, SeatsTypeOK, NoAccount
<1>1. SeatsTypeOK' /\ (clerk \in [Clerks -> Requests])'
  <2>1. (account \in [Accounts -> [phone : Phones \cup {"none"},
                      email : Phones \cup {"none"}, active : BOOLEAN]])'
      BY DEF SeatsInv, SeatsTypeOK
  <2>2. (\A b \in Accounts : seat[b] # NoSeat => account[b] # NoAccount)'
      BY <1>0 DEF SeatsInv, SeatsTypeOK
  <2> QED BY <2>1, <2>2 DEF SeatsInv, SeatsTypeOK, Go
<1>2. ASSUME NEW d \in Clerks, at'[d] # "idle" PROVE Carries(d)'
  <2>1. CASE d = c
    BY <2>1, <1>0 DEF SeatsInv, SeatsTypeOK, Go, Carries
  <2>2. CASE d # c
    <3>1. at'[d] = at[d] /\ clerk'[d] = clerk[d]
        BY <2>2 DEF SeatsInv, SeatsTypeOK, Go
    <3>2. Carries(d)
        BY <3>1, <1>2 DEF SeatsInv
    <3> QED BY <3>1, <3>2, <1>0 DEF Carries
  <2> QED BY <2>1, <2>2
<1>3. account'[a].phone = row.phone
    BY DEF SeatsInv, SeatsTypeOK
<1>4. Numbered'
    BY <1>0, <1>3 DEF SeatsInv, Numbered
<1>5. \A b \in Accounts \ {a} : account[b].phone # row.phone
  <2> SUFFICES ASSUME NEW b \in Accounts \ {a}, account[b].phone = row.phone PROVE FALSE
      OBVIOUS
  <2>1. account[b] # NoAccount
      BY NoneIsAbsent DEF NoAccount
  <2> QED BY <2>1 DEF ByPhone
<1>6. OneAgentPerUnit'
  <2> SUFFICES ASSUME NEW b \in Accounts, NEW d \in Accounts, b # d
               PROVE  /\ ~(seat[b].active /\ seat[d].active /\ seat[b].place = seat[d].place
                           /\ seat[b].place \in PUs)
                      /\ account'[b] # NoAccount => account'[b].phone # account'[d].phone
      BY DEF OneAgentPerUnit
  <2>1. ~(seat[b].active /\ seat[d].active /\ seat[b].place = seat[d].place
          /\ seat[b].place \in PUs)
      BY DEF SeatsInv, OneAgentPerUnit
  <2>2. CASE b = a
      BY <2>2, <1>0, <1>3, <1>5, <2>1
  <2>3. CASE d = a
      BY <2>3, <1>0, <1>3, <1>5, <2>1
  <2>4. CASE b # a /\ d # a
      BY <2>4, <1>0, <2>1 DEF SeatsInv, OneAgentPerUnit
  <2> QED BY <2>2, <2>3, <2>4
<1> QED BY <1>1, <1>2, <1>4, <1>6 DEF SeatsInv

\* create's look at the accounts.
LEMMA LookUpInv ==
    ASSUME SeatsInv, NEW c \in Clerks, NEW x \in Phones, NEW place \in Places,
           LookUp(c, x, place)
    PROVE  SeatsInv'
<1>1. CASE Refuse(c)
    BY <1>1, RefuseInv DEF LookUp
<1>2. CASE ~Refuse(c)
  <2>1. PICK who \in ByPhone(x) \cup ByEmail(x) \cup {"new"} :
            Go(c, "account", [phone |-> x, place |-> place, who |-> who, on |-> "open"])
      BY <1>2 DEF LookUp
  <2>2. who = "new" \/ (who \in Accounts /\ account[who] # NoAccount)
    <3>1. CASE who \in ByPhone(x)
        BY <3>1 DEF ByPhone
    <3>2. CASE who \in ByEmail(x)
        BY <3>2 DEF ByEmail
    <3> QED BY <3>1, <3>2
  <2>3. [phone |-> x, place |-> place, who |-> who, on |-> "open"] \in Requests
      BY <2>2 DEF Requests
  <2> DEFINE r == [phone |-> x, place |-> place, who |-> who, on |-> "open"]
  <2>4. r.phone \in Phones /\ r.place \in Places /\ r.who = who
      OBVIOUS
  <2>5. UNCHANGED <<account, seat>>
      BY DEF LookUp
  <2>6. r \in Requests /\ Go(c, "account", r)
      BY <2>1, <2>3
  <2> HIDE DEF r
  <2> QED BY <2>2, <2>4, <2>5, <2>6, GoInv
<1> QED BY <1>1, <1>2

\* create's account.
LEMMA WriteAccountInv ==
    ASSUME SeatsInv, NEW c \in Clerks, WriteAccount(c)
    PROVE  SeatsInv'
<1>1. Carries(c) /\ clerk[c] \in Requests /\ at[c] = "account"
    BY DEF SeatsInv, WriteAccount
<1>2. CASE Refuse(c) /\ UNCHANGED account
    BY <1>2, RefuseInv DEF WriteAccount
<1>3. CASE clerk[c].who = "new" /\ ~(Refuse(c) /\ UNCHANGED account)
  <2> DEFINE x == clerk[c].phone
             row == [phone |-> x, email |-> x, active |-> TRUE]
  <2>1. PICK a \in Accounts :
            /\ account' = [account EXCEPT ![a] = row]
            /\ Go(c, "check", [clerk[c] EXCEPT !.who = a])
      BY <1>3 DEF WriteAccount
  <2>2. ByPhone(row.phone) = {}
      BY <1>3 DEF WriteAccount
  <2>3. row \in [phone : Phones, email : Phones \cup {"none"}, active : BOOLEAN]
      BY <1>1 DEF Carries
  <2>4. [clerk[c] EXCEPT !.who = a] \in Requests
      BY <1>1 DEF Requests
  <2>5. /\ [clerk[c] EXCEPT !.who = a].phone \in Phones
        /\ [clerk[c] EXCEPT !.who = a].place \in Places
        /\ [clerk[c] EXCEPT !.who = a].who = a
      BY <1>1 DEF Carries, Requests
  <2>6. UNCHANGED seat
      BY DEF WriteAccount
  <2> HIDE DEF row
  <2> QED BY <2>1, <2>2, <2>3, <2>4, <2>5, <2>6, AccountInv
<1>4. CASE clerk[c].who # "new" /\ ~(Refuse(c) /\ UNCHANGED account)
  <2> DEFINE x == clerk[c].phone
             a == clerk[c].who
             row == [account[a] EXCEPT !.phone = x, !.active = TRUE]
  <2>1. a \in Accounts /\ x \in Phones /\ clerk[c].place \in Places
      BY <1>1, <1>4 DEF Carries
  <2>2. /\ account' = [account EXCEPT ![a] = row]
        /\ ByPhone(x) \ {a} = {} /\ Go(c, "check", clerk[c]) /\ UNCHANGED seat
      BY <1>4, <2>1 DEF WriteAccount, SeatsInv, SeatsTypeOK
  <2>3. row \in [phone : Phones, email : Phones \cup {"none"}, active : BOOLEAN]
        /\ row.phone = x
      BY <2>1 DEF SeatsInv, SeatsTypeOK
  <2> HIDE DEF row
  <2> QED BY <1>1, <2>1, <2>2, <2>3, AccountInv
<1> QED BY <1>2, <1>3, <1>4

\* create's look at the unit.
LEMMA CheckSeatInv ==
    ASSUME SeatsInv, NEW c \in Clerks, CheckSeat(c)
    PROVE  SeatsInv'
<1>1. Carries(c) /\ clerk[c] \in Requests /\ clerk[c].who # "new"
    BY NoneIsAbsent DEF SeatsInv, CheckSeat, Carries
<1>2. CASE Refuse(c)
    BY <1>2, RefuseInv DEF CheckSeat
<1>3. CASE Go(c, "sit", clerk[c])
    BY <1>1, <1>3, GoInv DEF CheckSeat, Carries
<1> QED BY <1>2, <1>3 DEF CheckSeat

\* update's checks.
LEMMA ReviseInv ==
    ASSUME SeatsInv, NEW c \in Clerks, NEW a \in Accounts, NEW x \in Phones,
           NEW place \in Places, NEW on \in {"open", "close", "keep"},
           Revise(c, a, x, place, on)
    PROVE  SeatsInv'
<1> DEFINE r == [phone |-> x, place |-> place, who |-> a, on |-> on]
<1>1. account[a] # NoAccount
    BY DEF Revise, SeatsInv, SeatsTypeOK
<1>2. r \in Requests /\ r.phone \in Phones /\ r.place \in Places /\ r.who = a
    BY DEF Requests
<1>3. CASE Refuse(c)
    BY <1>3, RefuseInv DEF Revise
<1>4. CASE Go(c, "revise", r)
  <2> HIDE DEF r
  <2> QED BY <1>1, <1>2, <1>4, GoInv DEF Revise
<1> QED BY <1>3, <1>4 DEF Revise

\* update's account.
LEMMA ReviseAccountInv ==
    ASSUME SeatsInv, NEW c \in Clerks, ReviseAccount(c)
    PROVE  SeatsInv'
<1> DEFINE x == clerk[c].phone
           a == clerk[c].who
           on == IF clerk[c].on = "keep" THEN account[a].active ELSE clerk[c].on = "open"
           row == [account[a] EXCEPT !.phone = x, !.active = on]
<1>1. Carries(c) /\ clerk[c] \in Requests /\ a \in Accounts
    BY DEF SeatsInv, ReviseAccount, Carries
<1>2. CASE Refuse(c) /\ UNCHANGED account
    BY <1>2, RefuseInv DEF ReviseAccount
<1>3. CASE ~(Refuse(c) /\ UNCHANGED account)
  <2>1. /\ account' = [account EXCEPT ![a] = row]
        /\ ByPhone(x) \ {a} = {} /\ Go(c, "sit", clerk[c]) /\ UNCHANGED seat
      BY <1>1, <1>3 DEF ReviseAccount, SeatsInv, SeatsTypeOK
  <2>2. row \in [phone : Phones, email : Phones \cup {"none"}, active : BOOLEAN]
        /\ row.phone = x
      BY <1>1 DEF Carries, SeatsInv, SeatsTypeOK
  <2>3. x \in Phones /\ clerk[c].place \in Places
      BY <1>1 DEF Carries
  <2> HIDE DEF row
  <2> QED BY <1>1, <2>1, <2>2, <2>3, AccountInv
<1> QED BY <1>2, <1>3

\* The membership; the index refuses a second active one at the unit.
LEMMA SitInv ==
    ASSUME SeatsInv, NEW c \in Clerks, Sit(c)
    PROVE  SeatsInv'
<1> DEFINE a == clerk[c].who
           new == [place |-> clerk[c].place, active |-> Open(c)]
<1>1. Carries(c) /\ a \in Accounts /\ account[a] # NoAccount /\ clerk[c].place \in Places
    BY DEF SeatsInv, Sit, Carries
<1>2. Refuse(c) /\ UNCHANGED account
    BY DEF Sit
<1>3. CASE UNCHANGED seat
    BY <1>2, <1>3, RefuseInv
<1>4. CASE /\ seat' = [seat EXCEPT ![a] = new]
           /\ Open(c) => Occupants(clerk[c].place, a) = {}
  <2>1. Open(c) \in BOOLEAN
      BY <1>1 DEF Open, SeatsInv, SeatsTypeOK
  <2>2. SeatsTypeOK' /\ (clerk \in [Clerks -> Requests])'
      BY <1>1, <1>2, <1>4, <2>1
      DEF SeatsInv, SeatsTypeOK, Refuse, Go, NoRequest, Requests
  <2>3. ASSUME NEW d \in Clerks, at'[d] # "idle" PROVE Carries(d)'
    <3>1. d # c /\ at'[d] = at[d] /\ clerk'[d] = clerk[d]
        BY <1>2, <2>3 DEF SeatsInv, SeatsTypeOK, Refuse, Go
    <3> QED BY <1>2, <3>1, <2>3 DEF SeatsInv, Carries
  <2>4. Numbered'
      BY <1>2 DEF SeatsInv, Numbered
  <2>5. ASSUME NEW b \in Accounts \ {a}, seat[b].active, Open(c), seat[b].place = new.place,
               seat[b].place \in PUs
        PROVE  FALSE
    <3>1. seat[b] = [place |-> clerk[c].place, active |-> TRUE]
        BY <2>5 DEF SeatsInv, SeatsTypeOK
    <3> QED BY <3>1, <2>5, <1>4 DEF Occupants
  <2>6. seat'[a] = new /\ \A b \in Accounts \ {a} : seat'[b] = seat[b]
      BY <1>1, <1>4 DEF SeatsInv, SeatsTypeOK
  <2>7. OneAgentPerUnit'
    <3> SUFFICES ASSUME NEW b \in Accounts, NEW d \in Accounts, b # d
                 PROVE  /\ ~(seat'[b].active /\ seat'[d].active
                             /\ seat'[b].place = seat'[d].place /\ seat'[b].place \in PUs)
                        /\ account[b] # NoAccount => account[b].phone # account[d].phone
        BY <1>2 DEF OneAgentPerUnit
    <3>1. account[b] # NoAccount => account[b].phone # account[d].phone
        BY DEF SeatsInv, OneAgentPerUnit
    <3>2. CASE b = a
        BY <3>1, <3>2, <2>5, <2>6
    <3>3. CASE d = a
        BY <3>1, <3>3, <2>5, <2>6
    <3>4. CASE b # a /\ d # a
        BY <3>1, <3>4, <2>6 DEF SeatsInv, OneAgentPerUnit
    <3> QED BY <3>2, <3>3, <3>4
  <2> QED BY <2>2, <2>3, <2>4, <2>7 DEF SeatsInv
<1> QED BY <1>3, <1>4 DEF Sit

\* Every step keeps the invariant.
THEOREM Invariance == SeatsSpec => []SeatsInv
<1>1. ASSUME SeatsInv, SeatsNext PROVE SeatsInv'
    BY <1>1, LookUpInv, ReviseInv, WriteAccountInv, CheckSeatInv, SitInv, ReviseAccountInv
    DEF SeatsNext
<1>2. ASSUME SeatsInv, UNCHANGED seatVars PROVE SeatsInv'
    BY <1>2 DEF seatVars, SeatsInv, SeatsTypeOK, Carries, Numbered, OneAgentPerUnit
<1> QED BY <1>1, <1>2, SeatsInitInv, PTL DEF SeatsSpec

\* However many requests overlap between their checks and their writes, one active
\* agent sits at a unit and one account answers to a number.
THEOREM OneAgentCorrect == SeatsSpec => []OneAgentPerUnit
<1>1. SeatsInv => OneAgentPerUnit
    BY DEF SeatsInv
<1> QED BY <1>1, Invariance, PTL

-----------------------------------------------------------------------------
(* Places.                                                                 *)

\* What is under a place of each level, and the chain above one.
LEMMA Levels ==
    /\ \A l \in LGAs, s \in States : Under(l, s) <=> Parent[l] = s
    /\ \A w \in Wards, s \in States : Under(w, s) <=> Parent[Parent[w]] = s
    /\ \A p \in PUs, s \in States : Under(p, s) <=> Parent[Parent[Parent[p]]] = s
    /\ \A w \in Wards, l \in LGAs : Under(w, l) <=> Parent[w] = l
    /\ \A p \in PUs, l \in LGAs : Under(p, l) <=> Parent[Parent[p]] = l
    /\ \A p \in PUs, w \in Wards : Under(p, w) <=> Parent[p] = w
BY PlacesHaveParents DEF Under, Places

LEMMA NotNone == \A p \in Places : p # "none"
BY NoneIsAbsent

LEMMA ChainOf ==
    ASSUME NEW p \in Places
    PROVE  Chain[p] = {p, Parent[p], Parent[Parent[p]], Parent[Parent[Parent[p]]]} /\ Chain[p] \subseteq Places
<1>1. {p, Parent[p], Parent[Parent[p]], Parent[Parent[Parent[p]]]} \subseteq Places
  BY PlacesHaveParents
<1>2. Chain[p] = {q \in Places : Under(p, q)}
  BY DEF Chain
<1>3. QED BY <1>1, <1>2 DEF Under

LEMMA UnderAll ==
    ASSUME NEW q \in Places, NEW S
    PROVE  \A x : x \in In(S, q) <=> x \in S /\ Under(x, q)
BY NotNone DEF In

LEMMA InAll == \A S : In(S, "none") = S
BY DEF In

-----------------------------------------------------------------------------
(* Lists.                                                                  *)

\* A director's list of a state, by kind.
LEMMA StateLists ==
    ASSUME NEW s \in States
    PROVE  /\ Listed(Director, Query("all", s, "none")) =
                 SeatedAt({s}) \cup SeatedAt(In(LGAs, s)) \cup SeatedAt(In(Wards, s)) \cup SeatedAt(In(PUs, s))
           /\ Listed(Director, Query("state", s, "none")) = SeatedAt({s})
           /\ Listed(Director, Query("lga", s, "none")) = SeatedAt(In(LGAs, s))
           /\ Listed(Director, Query("ward", s, "none")) = SeatedAt(In(Wards, s))
           /\ Listed(Director, Query("pu", s, "none")) = SeatedAt(In(PUs, s))
<1>1. s # "none"
  BY NotNone DEF Places
<1>2. \A kind \in Kinds \cup {"all"} : Listed(Director, Query(kind, s, "none")) = StateList(Query(kind, s, "none"), s)
  BY <1>1 DEF Listed, Director, Query
<1>3. \A kind \in Kinds \cup {"all"} :
        StateList(Query(kind, s, "none"), s) =
            SeatedAt((IF kind \in {"state", "all"} THEN {s} ELSE {})
                \cup (IF kind \in {"lga", "all"} THEN In(LGAs, s) ELSE {})
                \cup (IF kind \in {"ward", "all"} THEN In(Wards, s) ELSE {})
                \cup (IF kind \in {"pu", "all"} THEN In(PUs, s) ELSE {}))
  BY DEF StateList, Wants, Query
<1>4. Listed(Director, Query("all", s, "none")) =
          SeatedAt({s} \cup In(LGAs, s) \cup In(Wards, s) \cup In(PUs, s))
  BY <1>2, <1>3
<1>5. Listed(Director, Query("all", s, "none")) =
          SeatedAt({s}) \cup SeatedAt(In(LGAs, s)) \cup SeatedAt(In(Wards, s)) \cup SeatedAt(In(PUs, s))
  BY <1>4 DEF SeatedAt
<1>6. Listed(Director, Query("state", s, "none")) = SeatedAt({s} \cup {} \cup {} \cup {})
  BY <1>2, <1>3 DEF Kinds
<1>7. Listed(Director, Query("lga", s, "none")) = SeatedAt({} \cup In(LGAs, s) \cup {} \cup {})
  BY <1>2, <1>3 DEF Kinds
<1>8. Listed(Director, Query("ward", s, "none")) = SeatedAt({} \cup {} \cup In(Wards, s) \cup {})
  BY <1>2, <1>3 DEF Kinds
<1>9. Listed(Director, Query("pu", s, "none")) = SeatedAt({} \cup {} \cup {} \cup In(PUs, s))
  BY <1>2, <1>3 DEF Kinds
<1>10. \A S : /\ S \cup {} \cup {} \cup {} = S /\ {} \cup S \cup {} \cup {} = S
               /\ {} \cup {} \cup S \cup {} = S /\ {} \cup {} \cup {} \cup S = S
  OBVIOUS
<1>11. QED BY <1>5, <1>6, <1>7, <1>8, <1>9, <1>10

\* A director's list of an LGA, and its officer's.
LEMMA LgaLists ==
    ASSUME NEW l \in LGAs
    PROVE  /\ Listed(Director, Query("all", "none", l)) =
                 SeatedAt({l}) \cup SeatedAt(In(Wards, l)) \cup SeatedAt(In(PUs, l))
           /\ Listed([level |-> "lga", place |-> l], Query("all", "none", "none")) =
                 SeatedAt(In(Wards, l)) \cup SeatedAt(In(PUs, l))
<1>1. l # "none"
  BY NotNone DEF Places
<1>2. /\ Listed(Director, Query("all", "none", l)) = LgaList(Query("all", "none", l), l, FALSE)
      /\ Listed([level |-> "lga", place |-> l], Query("all", "none", "none"))
             = LgaList(Query("all", "none", "none"), l, TRUE)
  BY <1>1 DEF Listed, Director, Query
<1>3. /\ LgaList(Query("all", "none", l), l, FALSE) = SeatedAt({l} \cup In(Wards, l) \cup In(PUs, l))
      /\ LgaList(Query("all", "none", "none"), l, TRUE) = SeatedAt({} \cup In(Wards, l) \cup In(PUs, l))
  BY InAll DEF LgaList, Wants, Query
<1>4. SeatedAt({l} \cup In(Wards, l) \cup In(PUs, l)) =
          SeatedAt({l}) \cup SeatedAt(In(Wards, l)) \cup SeatedAt(In(PUs, l))
  BY DEF SeatedAt
<1>5. SeatedAt({} \cup In(Wards, l) \cup In(PUs, l)) = SeatedAt(In(Wards, l)) \cup SeatedAt(In(PUs, l))
  BY DEF SeatedAt
<1>6. QED BY <1>2, <1>3, <1>4, <1>5

\* The contacts of a place are who is seated at or above it.
LEMMA ContactsSeated ==
    ASSUME SeatsTypeOK, NEW p \in Places
    PROVE  /\ \A q \in Chain[p] : Contacts(p)[q] = SeatedAt({q})
           /\ UNION {Contacts(p)[q] : q \in Chain[p]} = SeatedAt(Chain[p])
<1>1. ASSUME NEW q \in Chain[p] PROVE Contacts(p)[q] = SeatedAt({q})
  <2>1. Contacts(p)[q] = {a \in Accounts : seat[a] = [place |-> q, active |-> TRUE]}
    BY DEF Contacts
  <2>2. \A a \in Accounts : seat[a] = [place |-> q, active |-> TRUE] <=> seat[a].active /\ seat[a].place = q
    BY DEF SeatsTypeOK
  <2>3. QED BY <2>1, <2>2 DEF SeatedAt
<1>2. UNION {Contacts(p)[q] : q \in Chain[p]} = SeatedAt(Chain[p])
  BY <1>1 DEF SeatedAt
<1>3. QED BY <1>1, <1>2

LEMMA ListsHold == ASSUME SeatsTypeOK PROVE ListsAgree
<1>1. ASSUME NEW s \in States
      PROVE  /\ Listed(Director, Query("all", s, "none")) =
                    UNION {Listed(Director, Query(k, s, "none")) : k \in Kinds}
             /\ Listed(Director, Query("all", s, "none")) = SeatedAt({s}) \cup
                    UNION {Listed(Director, Query("all", "none", l)) : l \in In(LGAs, s)}
             /\ Listed([level |-> "state", place |-> s], Query("all", "none", "none")) =
                    Listed(Director, Query("all", s, "none"))
  <2>1. UNION {Listed(Director, Query(k, s, "none")) : k \in Kinds} =
            Listed(Director, Query("state", s, "none")) \cup Listed(Director, Query("lga", s, "none"))
            \cup Listed(Director, Query("ward", s, "none")) \cup Listed(Director, Query("pu", s, "none"))
    BY DEF Kinds
  <2>2. UNION {Listed(Director, Query("all", "none", l)) : l \in In(LGAs, s)} =
            SeatedAt(In(LGAs, s)) \cup SeatedAt(In(Wards, s)) \cup SeatedAt(In(PUs, s))
    <3>1. \A x : x \in In(LGAs, s) <=> x \in LGAs /\ Parent[x] = s
      BY UnderAll, Levels DEF Places
    <3>2. \A x : x \in In(Wards, s) <=> x \in Wards /\ Parent[Parent[x]] = s
      BY UnderAll, Levels DEF Places
    <3>3. \A x : x \in In(PUs, s) <=> x \in PUs /\ Parent[Parent[Parent[x]]] = s
      BY UnderAll, Levels DEF Places
    <3>4. \A l \in LGAs : \A x : x \in In(Wards, l) <=> x \in Wards /\ Parent[x] = l
      BY UnderAll, Levels DEF Places
    <3>5. \A l \in LGAs : \A x : x \in In(PUs, l) <=> x \in PUs /\ Parent[Parent[x]] = l
      BY UnderAll, Levels DEF Places
    <3>6. \A x : x \in In(Wards, s) <=> \E l \in In(LGAs, s) : x \in In(Wards, l)
      BY <3>1, <3>2, <3>4, PlacesHaveParents
    <3>7. \A x : x \in In(PUs, s) <=> \E l \in In(LGAs, s) : x \in In(PUs, l)
      BY <3>1, <3>3, <3>5, PlacesHaveParents
    <3>8. \A l \in In(LGAs, s) : Listed(Director, Query("all", "none", l)) =
                 SeatedAt({l}) \cup SeatedAt(In(Wards, l)) \cup SeatedAt(In(PUs, l))
      BY <3>1, LgaLists
    <3>9. ASSUME NEW a
          PROVE  a \in UNION {Listed(Director, Query("all", "none", l)) : l \in In(LGAs, s)} <=>
                 a \in SeatedAt(In(LGAs, s)) \cup SeatedAt(In(Wards, s)) \cup SeatedAt(In(PUs, s))
      <4>1. a \in UNION {Listed(Director, Query("all", "none", l)) : l \in In(LGAs, s)} <=>
            \E l \in In(LGAs, s) : a \in SeatedAt({l}) \cup SeatedAt(In(Wards, l)) \cup SeatedAt(In(PUs, l))
        BY <3>8
      <4>2. QED BY <4>1, <3>6, <3>7 DEF SeatedAt
    <3>10. QED BY <3>9
  <2>3. Listed([level |-> "state", place |-> s], Query("all", "none", "none")) =
            StateList(Query("all", "none", "none"), s)
    BY NotNone DEF Listed, Query, Places
  <2>4. StateList(Query("all", "none", "none"), s) =
            SeatedAt({s} \cup In(LGAs, s) \cup In(Wards, s) \cup In(PUs, s))
    BY DEF StateList, Wants, Query
  <2>5. StateList(Query("all", "none", "none"), s) =
            SeatedAt({s}) \cup SeatedAt(In(LGAs, s)) \cup SeatedAt(In(Wards, s)) \cup SeatedAt(In(PUs, s))
    BY <2>4 DEF SeatedAt
  <2>6. Listed(Director, Query("all", s, "none")) =
            SeatedAt({s}) \cup SeatedAt(In(LGAs, s)) \cup SeatedAt(In(Wards, s)) \cup SeatedAt(In(PUs, s))
    BY StateLists
  <2>7. Listed(Director, Query("all", s, "none")) =
            UNION {Listed(Director, Query(k, s, "none")) : k \in Kinds}
    BY <2>1, <2>6, StateLists
  <2>8. Listed(Director, Query("all", s, "none")) = SeatedAt({s}) \cup
            UNION {Listed(Director, Query("all", "none", l)) : l \in In(LGAs, s)}
    <3>1. \A A, B, C, D : A \cup B \cup C \cup D = A \cup (B \cup C \cup D)
      OBVIOUS
    <3>2. QED BY <2>2, <2>6, <3>1
  <2>9. QED BY <2>3, <2>5, <2>6, <2>7, <2>8
<1>2. ASSUME NEW l \in LGAs
      PROVE  Listed([level |-> "lga", place |-> l], Query("all", "none", "none")) =
                 Listed(Director, Query("all", "none", l)) \ SeatedAt({l})
  <2>1. l \notin In(Wards, l) /\ l \notin In(PUs, l)
    BY UnderAll, PlacesHaveParents DEF Places
  <2>2. QED BY <2>1, LgaLists DEF SeatedAt
<1>3. ASSUME NEW w \in Wards
      PROVE  Listed([level |-> "ward", place |-> w], Query("all", "none", "none")) =
                 Listed(Director, [Query("pu", "none", "none") EXCEPT !.ward = w])
  <2>1. Listed(Director, [Query("pu", "none", "none") EXCEPT !.ward = w]) =
            CampaignList([Query("pu", "none", "none") EXCEPT !.ward = w])
    BY DEF Listed, Director, Query
  <2>2. CampaignList([Query("pu", "none", "none") EXCEPT !.ward = w]) = SeatedAt(In(PUs, w))
    BY DEF CampaignList, Wants, Query
  <2>3. QED BY <2>1, <2>2 DEF Listed
<1>4. ASSUME NEW p \in Places, NEW a \in Accounts, seat[a].active, seat[a].place \in Chain[p]
      PROVE  \E q \in Chain[p] \ Unassigned(p) : a \in Contacts(p)[q]
  <2>1. a \in Contacts(p)[seat[a].place]
    BY <1>4, ContactsSeated DEF SeatedAt
  <2>2. seat[a].place \notin Unassigned(p)
    BY <2>1 DEF Unassigned
  <2>3. QED BY <1>4, <2>1, <2>2
<1>5. ASSUME NEW p \in PUs, {q \in PUs : Code[q] = Code[p]} = {p}
      PROVE  Answered(<<Code[p]>>) = SeatedAt(Chain[p])
  <2>1. {q \in PUs : <<Code[q]>> = <<Code[p]>>} = {p}
    <3>1. \A q \in PUs : <<Code[q]>> = <<Code[p]>> <=> Code[q] = Code[p]
      OBVIOUS
    <3>2. QED BY <1>5, <3>1
  <2>2. Cardinality({p}) = 1
    BY FS_Singleton
  <2>3. Find(<<Code[p]>>) = {p}
    BY <2>1, <2>2 DEF Find
  <2>4. Answered(<<Code[p]>>) = UNION {Contacts(p)[q] : q \in Chain[p]}
    BY <2>2, <2>3 DEF Answered
  <2>5. QED BY <2>4, ContactsSeated DEF Places
<1>6. QED BY <1>1, <1>2, <1>3, <1>4, <1>5 DEF ListsAgree

\* Whatever the requests do, the lists of agents agree: all kinds are the sum of the kinds, a
\* state's list is its LGAs' and what its own officer sees, and the contacts named for a
\* place are who is seated at or above it (agents.service, list and contacts).
THEOREM SeatsListsAgree == SeatsSpec => []ListsAgree
<1>1. SeatsInv => ListsAgree
  BY ListsHold DEF SeatsInv
<1>2. QED BY <1>1, Invariance, PTL
-----------------------------------------------------------------------------
(* Whom an event is told to.                                               *)

\* A list of recipients, each to be pushed to or not.
IsRaw(raw) == \A r \in raw : r \in [user : {r.user}, push : BOOLEAN]

LEMMA ToRaw ==
    ASSUME NEW U, NEW push \in BOOLEAN
    PROVE  IsRaw(To(U, push)) /\ Users(To(U, push)) = U
           /\ Pushed(To(U, push)) = IF push THEN U ELSE {}
<1>1. IsRaw(To(U, push))
  BY DEF IsRaw, To
<1>2. Users(To(U, push)) = U
  <2>1. \A r : r \in To(U, push) <=> \E u \in U : r = [user |-> u, push |-> push]
    BY DEF To
  <2>2. \A u : u \in Users(To(U, push)) <=> \E r \in To(U, push) : u = r.user
    BY DEF Users
  <2>3. \A u \in U : [user |-> u, push |-> push].user = u
    OBVIOUS
  <2>4. ASSUME NEW u \in Users(To(U, push)) PROVE u \in U
    <3>1. PICK r \in To(U, push) : u = r.user
      BY <2>2
    <3>2. PICK v \in U : r = [user |-> v, push |-> push]
      BY <2>1
    <3>3. u = v
      BY <3>1, <3>2
    <3>4. QED BY <3>3
  <2>5. ASSUME NEW u \in U PROVE u \in Users(To(U, push))
    <3>1. [user |-> u, push |-> push] \in To(U, push)
      BY DEF To
    <3>2. QED BY <2>2, <2>3, <3>1
  <2>6. QED BY <2>4, <2>5
<1>3. Pushed(To(U, push)) = IF push THEN U ELSE {}
  <2>1. \A r \in To(U, push) : r.push = push
    BY DEF To
  <2>2. {r \in To(U, push) : r.push} = IF push THEN To(U, push) ELSE {}
    BY <2>1
  <2>3. QED BY <1>2, <2>2 DEF Users, Pushed
<1>4. QED BY <1>1, <1>2, <1>3

LEMMA BothRaw ==
    ASSUME NEW A, NEW B, IsRaw(A), IsRaw(B)
    PROVE  IsRaw(A \cup B) /\ Users(A \cup B) = Users(A) \cup Users(B)
           /\ Pushed(A \cup B) = Pushed(A) \cup Pushed(B)
<1>1. IsRaw(A \cup B)
  BY DEF IsRaw
<1>2. Users(A \cup B) = Users(A) \cup Users(B)
  BY DEF Users
<1>3. Pushed(A \cup B) = Pushed(A) \cup Pushed(B)
  BY DEF Pushed
<1>4. QED BY <1>1, <1>2, <1>3

\* Taking duplicates and the actor out loses nobody else, and nobody's push.
LEMMA ResolveKeeps ==
    ASSUME NEW raw, IsRaw(raw), NEW actor
    PROVE  Users(Resolve(raw, actor)) = Users(raw) \ {actor}
           /\ Pushed(Resolve(raw, actor)) = Pushed(raw) \ {actor}
<1>1. ASSUME NEW r \in raw, r.user # actor
      PROVE  \E k \in Resolve(raw, actor) : k.user = r.user /\ (r.push => k.push)
  <2>1. r \in [user : {r.user}, push : BOOLEAN]
    BY DEF IsRaw
  <2>2. CASE r \in Resolve(raw, actor)
    BY <2>2
  <2>3. CASE r \notin Resolve(raw, actor)
    <3> DEFINE k == [user |-> r.user, push |-> TRUE]
    <3>1. ~r.push /\ [r EXCEPT !.push = TRUE] \in raw
      BY <2>3, <1>1 DEF Resolve
    <3>2. [r EXCEPT !.push = TRUE] = k
      <4>1. PICK q : q = [r EXCEPT !.push = TRUE]
        OBVIOUS
      <4>2. q \in [user : {r.user}, push : BOOLEAN] /\ q.user = r.user /\ q.push
        BY <2>1, <4>1
      <4>3. q = k
        BY <4>2
      <4>4. QED BY <4>1, <4>3
    <3>3. k \in raw /\ k.user # actor /\ k.push /\ k.user = r.user
      BY <3>1, <3>2, <1>1
    <3>4. k \in Resolve(raw, actor)
      BY <3>3 DEF Resolve
    <3>5. QED BY <3>3, <3>4
  <2>4. QED BY <2>2, <2>3
<1>2. \A k \in Resolve(raw, actor) : k \in raw /\ k.user # actor
  BY DEF Resolve
<1>3. Users(Resolve(raw, actor)) = Users(raw) \ {actor}
  BY <1>1, <1>2 DEF Users
<1>4. Pushed(Resolve(raw, actor)) = Pushed(raw) \ {actor}
  BY <1>1, <1>2 DEF Pushed
<1>5. QED BY <1>3, <1>4

\* The places that the events of a unit and of its ward are about.
LEMMA PlacesOf ==
    ASSUME NEW p \in PUs
    PROVE  /\ WardOf(p) = {Parent[p]} /\ WardOf(Parent[p]) = {Parent[p]}
           /\ AreaOf(Parent[p], LGAs) = {Parent[Parent[p]]}
           /\ AreaOf(Parent[p], States) = {Parent[Parent[Parent[p]]]}
           /\ Chain[p] \ {p} = {Parent[p], Parent[Parent[p]], Parent[Parent[Parent[p]]]}
           /\ Parent[p] \in Wards
<1> DEFINE w == Parent[p]
           l == Parent[w]
           s == Parent[l]
<1>1. w \in Wards /\ l \in LGAs /\ s \in States /\ Parent[s] = s /\ p \notin Wards
  BY PlacesHaveParents
<1>2. p \notin {w, l, s} /\ l \notin States /\ w \notin LGAs /\ w \notin States /\ s \notin LGAs
  BY <1>1, PlacesHaveParents
<1>3. Chain[p] = {p, w, l, s} /\ Chain[w] = {w, l, s}
  BY <1>1, ChainOf DEF Places
<1>4. WardOf(p) = {w} /\ WardOf(w) = {w}
  <2>1. w \notin PUs
    BY <1>1, PlacesHaveParents
  <2>2. QED BY <1>1, <2>1 DEF WardOf
<1>5. AreaOf(w, LGAs) = {l} /\ AreaOf(w, States) = {s}
  BY <1>1, <1>2, <1>3 DEF AreaOf
<1>6. Chain[p] \ {p} = {w, l, s}
  BY <1>2, <1>3
<1>7. QED BY <1>1, <1>4, <1>5, <1>6

\* A report from a unit is told at its ward; the escalation at its LGA.
LEMMA ReportedTo ==
    ASSUME NEW p \in PUs, NEW urgent \in BOOLEAN, NEW push \in BOOLEAN
    PROVE  /\ Reported(ReportOf(p, "none", urgent), push) =
                  To(SeatedAt({Parent[p]}), push)
                  \cup (IF urgent THEN To(SeatedAt({Parent[Parent[p]]}), FALSE) ELSE {})
           /\ Reported(ReportOf("none", Parent[p], urgent), push) =
                  Reported(ReportOf(p, "none", urgent), push)
           /\ Escalated(ReportOf(p, "none", urgent)) = SeatedAt({Parent[Parent[p]]})
<1>1. p # "none" /\ Parent[p] # "none"
  BY NotNone, PlacesHaveParents DEF Places
<1>2. WardOfReport(ReportOf(p, "none", urgent)) = {Parent[p]}
      /\ WardOfReport(ReportOf("none", Parent[p], urgent)) = {Parent[p]}
  BY <1>1 DEF WardOfReport, ReportOf
<1>3. {Parent[w] : w \in {Parent[p]}} = {Parent[Parent[p]]}
  OBVIOUS
<1>4. Escalated(ReportOf(p, "none", urgent)) = SeatedAt({Parent[Parent[p]]})
      /\ Escalated(ReportOf("none", Parent[p], urgent)) = SeatedAt({Parent[Parent[p]]})
  BY <1>2, <1>3 DEF Escalated
<1>5. ReportOf(p, "none", urgent).urgent = urgent
      /\ ReportOf("none", Parent[p], urgent).urgent = urgent
  BY DEF ReportOf
<1>6. QED BY <1>2, <1>4, <1>5 DEF Reported

\* Of a change of risk: leaders first, then officers of the place.
LEMMA RiskHeard ==
    ASSUME SeatsTypeOK, NEW p \in States \cup LGAs \cup Wards, NEW told \in RiskTold(p)
    PROVE  /\ told \subseteq Leadership \cup SeatedAt(Chain[p])
           /\ Leadership \subseteq told \/ Cardinality(Leadership) > Cap
<1> DEFINE O == SeatedAt(Chain[p] \cap States) \ Coordinators
           W == SeatedAt({p} \cap (LGAs \cup Wards)) \ Coordinators
           groups == RiskGroups(p)
           all == UNION {groups[i] : i \in DOMAIN groups}
<1>1. groups = <<Leadership, O, W>>
  BY DEF RiskGroups
<1>2. all = Leadership \cup O \cup W
  <2>1. DOMAIN groups = {1, 2, 3} /\ groups[1] = Leadership /\ groups[2] = O /\ groups[3] = W
    BY <1>1
  <2>2. QED BY <2>1
<1>3. p \in Chain[p]
  BY ChainOf DEF Places
<1>4. O \subseteq SeatedAt(Chain[p]) /\ W \subseteq SeatedAt(Chain[p])
  BY <1>3 DEF SeatedAt
<1>5. /\ told \subseteq all
      /\ Cardinality(told) = IF Cardinality(all) < Cap THEN Cardinality(all) ELSE Cap
      /\ \A i, j \in DOMAIN groups : i < j /\ groups[j] \cap told # {} => groups[i] \subseteq told
  BY DEF RiskTold, FirstOf
<1>6. (O \cup W) \cap told # {} => Leadership \subseteq told
  <2>1. DOMAIN groups = {1, 2, 3} /\ groups[1] = Leadership /\ groups[2] = O /\ groups[3] = W
    BY <1>1
  <2> HIDE DEF groups, O, W
  <2>2. O \cap told # {} => Leadership \subseteq told
    BY <1>5, <2>1
  <2>3. W \cap told # {} => Leadership \subseteq told
    <3>1. 1 \in DOMAIN groups /\ 3 \in DOMAIN groups /\ 1 < 3
      BY <2>1
    <3>2. groups[3] \cap told # {} => groups[1] \subseteq told
      BY <1>5, <3>1
    <3>3. QED BY <2>1, <3>2
  <2>4. QED BY <2>2, <2>3
<1>7. ASSUME (O \cup W) \cap told = {}, ~(Cardinality(Leadership) > Cap)
      PROVE  Leadership \subseteq told
  <2>1. told \subseteq Leadership
    BY <1>2, <1>5, <1>7
  <2>2. IsFiniteSet(O \cup W) /\ IsFiniteSet(all)
    <3>1. O \cup W \subseteq Accounts
      BY DEF SeatedAt
    <3>2. IsFiniteSet(O \cup W)
      BY <3>1, FewAreTold, FS_Subset
    <3>3. IsFiniteSet(Leadership \cup (O \cup W))
      BY <3>2, FewAreTold, FS_Union
    <3>4. Leadership \cup (O \cup W) = all
      BY <1>2
    <3>5. QED BY <3>2, <3>3, <3>4
  <2>3. Cardinality(Leadership) \in Nat /\ Cardinality(all) \in Nat /\ Cap \in Nat
    BY <2>2, FewAreTold, FS_CardinalityType
  <2>4. Cardinality(Leadership) <= Cardinality(all)
    <3>1. Leadership \subseteq all
      BY <1>2
    <3>2. Leadership \in SUBSET all
      BY <3>1
    <3>3. QED BY <2>2, <3>2, FS_Subset
  <2>5. Cardinality(told) >= Cardinality(Leadership)
    BY <1>5, <1>7, <2>3, <2>4
  <2>6. told \in SUBSET Leadership
    BY <2>1
  <2>7. told = Leadership
    <3>1. /\ IsFiniteSet(told) /\ Cardinality(told) <= Cardinality(Leadership)
          /\ Cardinality(Leadership) = Cardinality(told) => Leadership = told
      BY <2>6, FewAreTold, FS_Subset
    <3>2. Cardinality(told) \in Nat
      BY <3>1, FS_CardinalityType
    <3>3. QED BY <2>3, <2>5, <3>1, <3>2
  <2>8. QED BY <2>7
<1>8. told \subseteq Leadership \cup SeatedAt(Chain[p])
  BY <1>2, <1>4, <1>5
<1>9. QED BY <1>6, <1>7, <1>8
\* What is sent about a unit and its ward, as lists of those who sit at one place above it.
LEMMA Sent ==
    ASSUME NEW p \in PUs
    PROVE  /\ Submitted(p, TRUE) = To(SeatedAt({Parent[p]}), TRUE)
           /\ Comment(p) = To(SeatedAt({Parent[p]}), TRUE)
           /\ Updated(p) = To(SeatedAt({Parent[p]}), TRUE)
           /\ WardReturned(Parent[p]) = To(SeatedAt({Parent[p]}), TRUE)
           /\ Comment(Parent[p]) = To(SeatedAt({Parent[p]}), TRUE)
           /\ Forwarded(Parent[p]) =
                  To(SeatedAt({Parent[Parent[p]]}) \cup SeatedAt({Parent[Parent[Parent[p]]]}), FALSE)
           /\ Answer(p, Nobody) = To(SeatedAt({p}), TRUE)
<1>1. Submitted(p, TRUE) = To(SeatedAt({Parent[p]}), TRUE)
  BY PlacesOf DEF Submitted, WardOfficers
<1>2. Comment(p) = To(SeatedAt({Parent[p]}), TRUE)
  BY PlacesOf DEF Comment, Commented, WardOfficers
<1>3. Updated(p) = To(SeatedAt({Parent[p]}), TRUE)
  BY DEF Updated
<1>4. WardReturned(Parent[p]) = To(SeatedAt({Parent[p]}), TRUE)
  BY PlacesOf DEF WardReturned, WardOfficers
<1>5. Comment(Parent[p]) = To(SeatedAt({Parent[p]}), TRUE)
  BY PlacesOf DEF Comment, Commented, WardOfficers
<1>6. Forwarded(Parent[p]) =
          To(SeatedAt({Parent[Parent[p]]}) \cup SeatedAt({Parent[Parent[Parent[p]]]}), FALSE)
  BY PlacesOf DEF Forwarded, LgaOfficers, StateOfficers
<1>7. Answer(p, Nobody) = To(SeatedAt({p}), TRUE)
  <2>1. {p} \cap PUs = {p}
    OBVIOUS
  <2>2. QED BY <2>1 DEF Answer, Submitter
<1>8. QED BY <1>1, <1>2, <1>3, <1>4, <1>5, <1>6, <1>7

LEMMA SeatedOver ==
    ASSUME NEW p \in PUs
    PROVE  /\ \A q \in Chain[p] : SeatedAt({q}) \subseteq SeatedAt(Chain[p])
           /\ {p, Parent[p], Parent[Parent[p]], Parent[Parent[Parent[p]]]} = Chain[p]
           /\ SeatedAt(Chain[p] \ {p}) = SeatedAt({Parent[p]}) \cup SeatedAt({Parent[Parent[p]]})
                                         \cup SeatedAt({Parent[Parent[Parent[p]]]})
<1>1. \A q \in Chain[p] : SeatedAt({q}) \subseteq SeatedAt(Chain[p])
  BY DEF SeatedAt
<1>2. {p, Parent[p], Parent[Parent[p]], Parent[Parent[Parent[p]]]} = Chain[p]
  BY ChainOf DEF Places
<1>3. Chain[p] \ {p} = {Parent[p], Parent[Parent[p]], Parent[Parent[Parent[p]]]}
  BY PlacesOf
<1>4. ASSUME NEW x, NEW y, NEW z
      PROVE  SeatedAt({x, y, z}) = SeatedAt({x}) \cup SeatedAt({y}) \cup SeatedAt({z})
  BY DEF SeatedAt
<1>5. SeatedAt(Chain[p] \ {p}) = SeatedAt({Parent[p]}) \cup SeatedAt({Parent[Parent[p]]})
                                  \cup SeatedAt({Parent[Parent[Parent[p]]]})
  <2>1. SeatedAt({Parent[p], Parent[Parent[p]], Parent[Parent[Parent[p]]]}) =
            SeatedAt({Parent[p]}) \cup SeatedAt({Parent[Parent[p]]})
            \cup SeatedAt({Parent[Parent[Parent[p]]]})
    BY DEF SeatedAt
  <2>2. QED BY <1>3, <2>1, Zenon
<1>6. QED BY <1>1, <1>2, <1>5

\* An urgent report of a unit, and a calm one.
LEMMA ReportHeard ==
    ASSUME NEW p \in PUs, NEW urgent \in BOOLEAN
    PROVE  /\ IsRaw(Reported(ReportOf(p, "none", urgent), TRUE))
           /\ Users(Reported(ReportOf(p, "none", urgent), TRUE)) =
                  SeatedAt({Parent[p]}) \cup (IF urgent THEN SeatedAt({Parent[Parent[p]]}) ELSE {})
           /\ Pushed(Reported(ReportOf(p, "none", urgent), TRUE)) = SeatedAt({Parent[p]})
<1> DEFINE A == To(SeatedAt({Parent[p]}), TRUE)
           B == IF urgent THEN To(SeatedAt({Parent[Parent[p]]}), FALSE) ELSE {}
<1>1. Reported(ReportOf(p, "none", urgent), TRUE) = A \cup B
  BY ReportedTo
<1>2. IsRaw(A) /\ Users(A) = SeatedAt({Parent[p]}) /\ Pushed(A) = SeatedAt({Parent[p]})
  BY ToRaw
<1>3. /\ IsRaw(B) /\ Users(B) = (IF urgent THEN SeatedAt({Parent[Parent[p]]}) ELSE {})
      /\ Pushed(B) = {}
  <2>1. CASE urgent
    <3>1. B = To(SeatedAt({Parent[Parent[p]]}), FALSE)
      BY <2>1
    <3> HIDE DEF B
    <3>2. IsRaw(To(SeatedAt({Parent[Parent[p]]}), FALSE))
          /\ Users(To(SeatedAt({Parent[Parent[p]]}), FALSE)) = SeatedAt({Parent[Parent[p]]})
          /\ Pushed(To(SeatedAt({Parent[Parent[p]]}), FALSE)) = {}
      BY ToRaw
    <3>3. QED BY <2>1, <3>1, <3>2
  <2>2. CASE ~urgent
    BY <2>2 DEF IsRaw, Users, Pushed
  <2>3. QED BY <2>1, <2>2
<1> HIDE DEF A, B
<1>4. IsRaw(A \cup B) /\ Users(A \cup B) = Users(A) \cup Users(B)
      /\ Pushed(A \cup B) = Pushed(A) \cup Pushed(B)
  BY <1>2, <1>3, BothRaw
<1>5. QED BY <1>1, <1>2, <1>3, <1>4

LEMMA OnlyTheirsHold ==
    ASSUME SeatsTypeOK, NEW p \in PUs, NEW actor
    PROVE  OnlyTheirs(p, actor)
<1> DEFINE S == SeatedAt(Chain[p])
           w == Parent[p]
           Heard(raw) == Users(Resolve(raw, actor)) \subseteq S \ {actor}
           urgent == Resolve(Reported(ReportOf(p, "none", TRUE), TRUE), actor)
<1>1. UNION {Contacts(p)[q] : q \in Chain[p]} = S
  BY ContactsSeated DEF Places
<1>2. \A raw : IsRaw(raw) /\ Users(raw) \subseteq S => Heard(raw)
  BY ResolveKeeps
<1>3. SeatedAt({p}) \subseteq S /\ SeatedAt({w}) \subseteq S /\ SeatedAt({Parent[w]}) \subseteq S
      /\ SeatedAt({Parent[Parent[w]]}) \subseteq S
  BY SeatedOver
<1>4. ASSUME NEW U, U \subseteq S, NEW push \in BOOLEAN PROVE Heard(To(U, push))
  BY <1>2, <1>4, ToRaw
<1>5. Heard(urgent)
  <2>1. IsRaw(Reported(ReportOf(p, "none", TRUE), TRUE))
        /\ Users(Reported(ReportOf(p, "none", TRUE), TRUE)) \subseteq S
    <3>1. Users(Reported(ReportOf(p, "none", TRUE), TRUE)) = SeatedAt({w}) \cup SeatedAt({Parent[w]})
      BY ReportHeard
    <3>2. QED BY <1>3, <3>1, ReportHeard
  <2>2. IsRaw(urgent)
    BY <2>1 DEF IsRaw, Resolve
  <2>3. Users(urgent) \subseteq S
    BY <2>1, <1>2
  <2>4. QED BY <1>2, <2>2, <2>3
<1>6. /\ Heard(Submitted(p, TRUE)) /\ Heard(Comment(p)) /\ Heard(Updated(p))
      /\ Heard(WardReturned(w)) /\ Heard(Comment(w))
  <2>1. Heard(To(SeatedAt({w}), TRUE))
    BY <1>3, <1>4
  <2> HIDE DEF Heard
  <2>2. QED BY <2>1, Sent
<1>7. Heard(Forwarded(w))
  <2>1. SeatedAt({Parent[w]}) \cup SeatedAt({Parent[Parent[w]]}) \subseteq S
    BY <1>3
  <2>2. Heard(To(SeatedAt({Parent[w]}) \cup SeatedAt({Parent[Parent[w]]}), FALSE))
    BY <2>1, <1>4
  <2> HIDE DEF Heard
  <2>3. QED BY <2>2, Sent
<1>8. Heard(Answer(p, Nobody))
  <2>1. Heard(To(SeatedAt({p}), TRUE))
    BY <1>3, <1>4
  <2> HIDE DEF Heard
  <2>2. QED BY <2>1, Sent
<1>9. ASSUME NEW own \in Accounts
      PROVE  Users(Resolve(Answer(p, own) \cup Resolved(own), actor)) = {own} \ {actor}
  <2>1. own # Nobody
    BY NoneIsAbsent DEF Nobody
  <2>2. Answer(p, own) = To({own}, TRUE) /\ Resolved(own) = To({own}, TRUE)
    <3>1. {own} \ {Nobody} = {own}
      BY <2>1
    <3>2. QED BY <2>1, <3>1 DEF Answer, Submitter, Resolved
  <2>3. Answer(p, own) \cup Resolved(own) = To({own}, TRUE)
    BY <2>2
  <2>4. IsRaw(To({own}, TRUE)) /\ Users(To({own}, TRUE)) = {own}
    BY ToRaw
  <2>5. QED BY <2>3, <2>4, ResolveKeeps
<1>10. QED
  <2> HIDE DEF S, urgent
  <2>1. \A raw \in {Submitted(p, TRUE), Comment(p), Updated(p), urgent, WardReturned(w),
                   Forwarded(w), Comment(w), Answer(p, Nobody)} :
            Users(Resolve(raw, actor)) \subseteq S \ {actor}
    BY <1>5, <1>6, <1>7, <1>8
  <2> USE DEF urgent
  <2>2. QED BY <1>1, <1>9, <2>1 DEF OnlyTheirs

LEMMA AllAboveHold ==
    ASSUME NEW p \in PUs, NEW actor
    PROVE  AllAboveHear(p, actor)
<1> DEFINE W == SeatedAt({Parent[p]})
           L == SeatedAt({Parent[Parent[p]]})
           S == SeatedAt({Parent[Parent[Parent[p]]]})
<1> HIDE DEF W, L, S
<1>1. Users(Resolve(Submitted(p, TRUE), actor)) = W \ {actor}
  <2>1. IsRaw(To(W, TRUE)) /\ Users(To(W, TRUE)) = W
    BY ToRaw
  <2>2. Submitted(p, TRUE) = To(W, TRUE)
    BY Sent DEF W
  <2>3. QED BY <2>1, <2>2, ResolveKeeps
<1>2. Users(Resolve(Forwarded(Parent[p]), actor)) = (L \cup S) \ {actor}
  <2>1. IsRaw(To(L \cup S, FALSE)) /\ Users(To(L \cup S, FALSE)) = L \cup S
    BY ToRaw
  <2>2. Forwarded(Parent[p]) = To(L \cup S, FALSE)
    BY Sent DEF L, S
  <2>3. QED BY <2>1, <2>2, ResolveKeeps
<1>3. SeatedAt(Chain[p] \ {p}) = W \cup L \cup S
  BY SeatedOver DEF W, L, S
<1>4. QED BY <1>1, <1>2, <1>3 DEF AllAboveHear

LEMMA ReportsReachHold ==
    ASSUME NEW p \in PUs, NEW actor
    PROVE  ReportsReach(p, actor)
<1> DEFINE W == SeatedAt({Parent[p]})
           L == SeatedAt({Parent[Parent[p]]})
           calm == Reported(ReportOf(p, "none", FALSE), TRUE)
           urgent == Reported(ReportOf(p, "none", TRUE), TRUE)
<1>1. IsRaw(calm) /\ Users(calm) = W /\ Pushed(calm) = W
  <2>1. Users(calm) = W \cup {}
    BY ReportHeard
  <2>2. QED BY <2>1, ReportHeard
<1>2. IsRaw(urgent) /\ Users(urgent) = W \cup L /\ Pushed(urgent) = W
  BY ReportHeard
<1>3. Reported(ReportOf("none", Parent[p], TRUE), TRUE) = urgent
  BY ReportedTo
<1>4. Escalated(ReportOf(p, "none", FALSE)) = L
  BY ReportedTo
<1>5. Users(Resolve(To(L, FALSE), actor)) = L \ {actor}
  <2>1. IsRaw(To(L, FALSE)) /\ Users(To(L, FALSE)) = L
    BY ToRaw
  <2>2. QED BY <2>1, ResolveKeeps
<1> HIDE DEF W, L, calm, urgent
<1>6. /\ Users(Resolve(calm, actor)) = W \ {actor} /\ Pushed(Resolve(calm, actor)) = W \ {actor}
      /\ Users(Resolve(urgent, actor)) = (W \cup L) \ {actor}
      /\ Pushed(Resolve(urgent, actor)) = W \ {actor}
  BY <1>1, <1>2, ResolveKeeps
<1>7. (W \cup L) \ {actor} = (W \ {actor}) \cup (L \ {actor})
  OBVIOUS
<1>8. /\ Users(Resolve(urgent, actor)) = Users(Resolve(calm, actor))
            \cup Users(Resolve(To(Escalated(ReportOf(p, "none", FALSE)), FALSE), actor))
      /\ Pushed(Resolve(urgent, actor)) = Pushed(Resolve(calm, actor))
  BY <1>4, <1>5, <1>6, <1>7
<1>9. QED BY <1>3, <1>8 DEF ReportsReach, calm, urgent

\* Whoever sits where, and whatever requests change it: what is told of a unit and its ward
\* is told to those seated at or above it and never to the actor; nobody above misses it;
\* reports reach the same people by either name; a change of risk is told to leaders first.
THEOREM SeatsRightAreTold == SeatsSpec => []TheRightAreTold
<1>1. ASSUME SeatsTypeOK PROVE TheRightAreTold
  <2>1. ASSUME NEW p \in PUs, NEW actor \in Accounts \cup {Nobody}
        PROVE  OnlyTheirs(p, actor) /\ AllAboveHear(p, actor) /\ ReportsReach(p, actor)
    BY <1>1, OnlyTheirsHold, AllAboveHold, ReportsReachHold
  <2>2. ASSUME NEW p \in States \cup LGAs \cup Wards, NEW told \in RiskTold(p)
        PROVE  /\ told \subseteq Leadership \cup UNION {Contacts(p)[q] : q \in Chain[p]}
               /\ Leadership \subseteq told \/ Cardinality(Leadership) > Cap
    <3>1. UNION {Contacts(p)[q] : q \in Chain[p]} = SeatedAt(Chain[p])
      BY <1>1, ContactsSeated DEF Places
    <3>2. QED BY <1>1, <3>1, RiskHeard
  <2>3. QED BY <2>1, <2>2 DEF TheRightAreTold
<1>2. SeatsInv => TheRightAreTold
  BY <1>1 DEF SeatsInv
<1>3. QED BY <1>2, Invariance, PTL
=============================================================================
