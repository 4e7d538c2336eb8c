---------------------------- MODULE Notifications ----------------------------
(***************************************************************************)
(* Dispatching notifications (modules/notifications): an event becomes one *)
(* inbox row per recipient, unique by event and recipient, and then one    *)
(* push to the devices of those whose row is new.  Dispatches run in the   *)
(* process that emitted the event, side by side, and die with it.          *)
(***************************************************************************)
EXTENDS Integers

CONSTANTS
    Users,
    Keys,         \* the sourceEventIds of the events
    Processes,    \* API instances
    Tasks         \* numbers of the dispatches that run at once (bound)

ASSUME TaskNumbers == Tasks \subseteq Nat

VARIABLES
    inbox,    \* the rows stored: pairs of an event and a recipient
    pushes,   \* how many pushes were sent for each such pair
    task      \* the dispatches under way, NoTask where there is none

noteVars == <<inbox, pushes, task>>

NoTask == [at |-> {}, key |-> {}, left |-> {}, push |-> {}]

NotifyInit ==
    /\ inbox = {}
    /\ pushes = [n \in Keys \X Users |-> 0]
    /\ task = [t \in Tasks |-> NoTask]

\* Process i emits an event to recipients, each with the wish for a push.  The
\* dispatch takes the first free number.
Dispatch(i, key, recipients) ==
    \E t \in Tasks :
        /\ task[t] = NoTask
        /\ \A n \in Tasks : n < t => task[n] # NoTask
        /\ task' = [task EXCEPT ![t] =
               [at |-> {i}, key |-> {key}, left |-> recipients, push |-> {}]]
        /\ UNCHANGED <<inbox, pushes>>

KeyOf(t) == CHOOSE k \in Keys : k \in task[t].key

\* (Mutant: whoever asked for a push gets it, new row or not.)
StoreAndPush(t, u, push) ==
    /\ <<u, push>> \in task[t].left
    /\ inbox' = inbox \cup {<<KeyOf(t), u>>}
    /\ task' = [task EXCEPT ![t].left = @ \ {<<u, push>>},
                            ![t].push = IF push THEN @ \cup {u} ELSE @]
    /\ UNCHANGED pushes

\* The row of one recipient; one who has it already is skipped.
Store(t, u, push) ==
    LET new == <<KeyOf(t), u>> \notin inbox
    IN  /\ <<u, push>> \in task[t].left
        /\ inbox' = inbox \cup {<<KeyOf(t), u>>}
        /\ task' = [task EXCEPT ![t].left = @ \ {<<u, push>>},
                                ![t].push = IF push /\ new THEN @ \cup {u} ELSE @]
        /\ UNCHANGED pushes

\* The database refuses a row: it is logged and the next recipient is served.
StoreFails(t, u, push) ==
    /\ <<u, push>> \in task[t].left
    /\ task' = [task EXCEPT ![t].left = @ \ {<<u, push>>}]
    /\ UNCHANGED <<inbox, pushes>>

\* All rows are stored: one push to everybody whose row is new.
Push(t) ==
    /\ task[t] # NoTask
    /\ task[t].left = {}
    /\ pushes' = [n \in Keys \X Users |->
           IF n[1] = KeyOf(t) /\ n[2] \in task[t].push THEN pushes[n] + 1 ELSE pushes[n]]
    /\ task' = [task EXCEPT ![t] = NoTask]
    /\ UNCHANGED inbox

\* The device tokens cannot be read, or the push service fails: no push, no retry.
PushFails(t) ==
    /\ task[t] # NoTask
    /\ task[t].left = {}
    /\ task' = [task EXCEPT ![t] = NoTask]
    /\ UNCHANGED <<inbox, pushes>>

\* The dispatches of a process end with it.
DispatchesDie(i) ==
    /\ task' = [t \in Tasks |-> IF i \in task[t].at THEN NoTask ELSE task[t]]
    /\ UNCHANGED <<inbox, pushes>>

Deliver ==
    \E t \in Tasks :
        \/ \E u \in Users, push \in BOOLEAN : Store(t, u, push)
        \/ Push(t)

NotifyTypeOK ==
    /\ inbox \subseteq Keys \X Users
    /\ pushes \in [Keys \X Users -> 0 .. 2]
    /\ task \in [Tasks -> [at : SUBSET Processes, key : SUBSET Keys,
                           left : SUBSET (Users \X BOOLEAN), push : SUBSET Users]]

\* "Unique notification keys absorb overlapping ticks": nobody is pushed twice
\* for one event, and nobody without a row, whatever overlaps or dies.
PushedOnce ==
    \A n \in Keys \X Users : pushes[n] <= 1 /\ (pushes[n] = 1 => n \in inbox)
=============================================================================
