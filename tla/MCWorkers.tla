------------------------------ MODULE MCWorkers ------------------------------
(***************************************************************************)
(* What models read in the background: scans of the portal (Irev), photos  *)
(* of the agents' sheets (Ec8a), posts beside the moods that are pulled    *)
(* (Social).  As modelled they share no variable, so that one instance     *)
(* holds them all: one part is busy and the others rest.  In rest nothing  *)
(* is to do in Ec8a or Social; the timers of Irev are fair while it is     *)
(* busy.                                                                   *)
(***************************************************************************)
EXTENDS MCIrev, Ec8a, Social, TLC

CONSTANTS q1, q2

VARIABLE busy

workersVars == <<vars, events, ec8aVars, socialVars, busy>>

-----------------------------------------------------------------------------
\* A sheet that adds up and one that does not; answers of the model that fit one of them,
\* name another party, or leave boxes unread.
Even == [registered |-> 9, accredited |-> 5, issued |-> 7, unused |-> 2, spoiled |-> 1,
         rejected |-> 1, valid |-> 3, used |-> 5, parties |-> ("APC" :> 2) @@ ("PDP" :> 1)]
Typed == {Even, [Even EXCEPT !.valid = 4]}
Said(fields, parties) == [fields |-> fields, parties |-> parties, unreadable |-> FALSE]
Seen == {Said("valid" :> 3, ("APC" :> 2) @@ ("LP" :> 1)), Said("valid" :> 4, "LP" :> 1),
         Said(<<>>, "LP" :> 1)}

\* Two posts of an account within an hour; two states with an LGA of one name, which
\* Pulseforge names with its state and without; the national row beside a state's.
Writer == (q1 :> "a") @@ (q2 :> "a")
SameHour == (q1 :> 0) @@ (q2 :> 0)
TwoStates == {<<"benue">>, <<"nasarawa">>}
Obi == {<<"benue", "obi">>, <<"nasarawa", "obi">>, <<"benue", "ado">>}
Negative(n) == {[total |-> 2, negative |-> n, unknown |-> 0]}
AreaRow(state, lga, place, n) == [state |-> state, lga |-> lga, counts |-> Negative(n), at |-> place]
Mood ==
    [states |-> {[state |-> s, counts |-> Negative(1), at |-> <<s>>] : s \in {"benue", "national"}},
     lgas |-> {AreaRow("benue", "obi", <<"benue", "obi">>, 1),
               AreaRow("none", "obi", <<"nasarawa", "obi">>, 2),
               AreaRow("none", "ado", <<"benue", "ado">>, 0)}]
OneMood == {Mood}

\* A sync of moods is combined with one post with which nothing goes wrong (bound).
Listening ==
    /\ SocialNext
    /\ \/ busy = "posts" /\ pull' = NoPull /\ active' = active
       \/ busy = "moods" /\ post'[q2] = "absent" /\ dead' = {} /\ restarts' = 0

-----------------------------------------------------------------------------
WorkersInit ==
    /\ SettlingInit /\ Ec8aInit /\ SocialInit
    /\ busy \in {"scans", "photos", "posts", "moods"}
    /\ busy # "photos" => channel = "up"
    /\ busy \notin {"posts", "moods"} => broker

WorkersNext ==
    /\ UNCHANGED busy
    /\ \/ busy = "scans" /\ SettlingNext /\ UNCHANGED <<ec8aVars, socialVars>>
       \/ busy = "photos" /\ Ec8aNext /\ UNCHANGED <<vars, events, socialVars>>
       \/ Listening /\ UNCHANGED <<vars, events, ec8aVars>>

WorkersSpec ==
    /\ WorkersInit /\ [][WorkersNext]_workersVars
    /\ WF_vars(busy = "scans" /\ CatalogTick) /\ WF_vars(busy = "scans" /\ CatalogAges)
    /\ WF_vars(busy = "scans" /\ BackfillTick) /\ WF_vars(busy = "scans" /\ WaitTick)
    /\ \A w \in Slots : WF_vars(Work(w))
    /\ Ec8aFairness /\ SocialFairness
=============================================================================
