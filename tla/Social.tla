-------------------------------- MODULE Social --------------------------------
(***************************************************************************)
(* Social listening: posts that are sent in, stored, queued, classified by *)
(* a language model and counted by the hour (social.service, social-queue, *)
(* social-analyze.worker); and the sentiment of places that is pulled from *)
(* Pulseforge (pulseforge-sync, pulseforge.client).  Both write            *)
(* SentimentSnapshot rows, those of the campaign under the same keys.      *)
(* RabbitMQ is connected from the start or never (it is not connected to   *)
(* again after an error).                                                  *)
(*                                                                         *)
(* A sentiment is POSITIVE, NEGATIVE or UNKNOWN; of counts the negative    *)
(* and the unknown are kept beside the total.  Texts, topics, scores and   *)
(* entities are left out, and so are the pages that show Pulseforge's      *)
(* answers unstored (feed, voices, narratives, alerts, stances) and the    *)
(* campaign's board (mood), which shows its newest row.                    *)
(***************************************************************************)
EXTENDS Integers, Sequences, FiniteSets

CONSTANTS
    Posts, Account, PostedAt,   \* posts, and the account and hour of each
    Analyses,                   \* analyses that may run at once within the process
    LastHour, Back,             \* hours are 0 .. LastHour; a sync covers Back of them
    States, LGAs,               \* the places in the database: <<name>>, <<state, name>>
    Sentiments,                 \* what the model may find, besides UNKNOWN
    Moods,                      \* what Pulseforge may answer: rows of states and of LGAs
    MaxRestarts, JobLimit       \* bounds: restarts of the process, jobs in the queue

Hours == 0 .. LastHour

ASSUME PostsAndHours == PostedAt \in [Posts -> Hours] /\ "absent" \notin Sentiments

ASSUME Places ==
    IsFiniteSet(LGAs) /\ \A x \in LGAs : x = <<x[1], x[2]>> /\ x[1] # "none"

\* A row of Pulseforge's names the place it is about: the state, or the LGA and, unless it
\* leaves it out ("none"), its state.  An LGA the database lacks has no namesake in it.
ASSUME MoodsNameTheirPlace ==
    \A answer \in Moods :
        /\ \A r \in answer.states : r.at = <<r.state>>
        /\ \A r \in answer.lgas :
              /\ r.at[2] = r.lga /\ r.state \in {r.at[1], "none"}
              /\ r.at \in LGAs \/ \A x \in LGAs : x[2] # r.lga

Accounts == {Account[p] : p \in Posts}

VARIABLES
    active,     \* SocialSource rows that are active
    post,       \* SocialPost: absent, new (not analysed) or the sentiment stored
    feed,       \* the batch that is being ingested, {} if none
    broker,     \* whether RabbitMQ is connected
    jobs, dead, \* the queue of jobs and the posts of dead-lettered ones
    task,       \* each analysis that runs
    window,     \* the campaign's SentimentSnapshot of each windowStart
    reading,    \* the newest SentimentSnapshot of each place
    pull,       \* a sync under way: what Pulseforge answered
    hour,       \* the time
    restarts

socialVars == <<active, post, feed, broker, jobs, dead, task, window, reading, pull, hour, restarts>>
postVars == <<active, post, feed, broker, jobs, dead, task, restarts>>
moodVars == <<reading, pull, hour>>

IdleTask == [step |-> "idle", posts |-> {}, again |-> FALSE, left |-> {}, hours |-> {}, counted |-> {}]
NoWindow == [engine |-> "none", counts |-> {}]
NoPull == [step |-> "idle", states |-> {}, lgas |-> {}, at |-> 0]
NoReading == [counts |-> {}, of |-> {}]

SocialInit ==
    /\ active = Accounts
    /\ post = [p \in Posts |-> "absent"]
    /\ feed = {}
    /\ broker \in BOOLEAN
    /\ jobs = <<>> /\ dead = {}
    /\ task = [t \in Analyses |-> IdleTask]
    /\ window = [h \in Hours |-> NoWindow]
    /\ reading = [x \in States \cup LGAs |-> NoReading]
    /\ pull = NoPull
    /\ hour = 0
    /\ restarts = 0

Stored(h) == {p \in Posts : post[p] # "absent" /\ PostedAt[p] = h}
Analysed(p) == post[p] \notin {"absent", "new"}

-----------------------------------------------------------------------------
\* ingest: posts of active sources are stored; a batch of which none is known is refused.
Ingest(batch) ==
    LET known == {p \in batch : Account[p] \in active /\ PostedAt[p] <= hour}
    IN  /\ feed = {} /\ known # {}
        /\ post' = [p \in Posts |-> IF p \in known /\ post[p] = "absent" THEN "new" ELSE post[p]]
        /\ feed' = batch
        /\ UNCHANGED <<active, broker, jobs, dead, task, window, restarts, moodVars>>

Start(t, job) ==
    task' = [task EXCEPT ![t] = [IdleTask EXCEPT !.step = "classify", !.posts = job.posts,
                                             !.again = job.again]]

\* The posts of the batch that are not analysed go to the queue, or without RabbitMQ to
\* an analysis in the process.
Queue ==
    LET pending == {p \in feed : post[p] = "new"}
        job == [posts |-> pending, again |-> FALSE]
    IN  /\ feed # {}
        /\ feed' = {}
        /\ IF pending = {} THEN UNCHANGED <<jobs, task>>
           ELSE IF broker
           THEN Len(jobs) < JobLimit /\ jobs' = Append(jobs, job) /\ UNCHANGED task
           ELSE /\ \E t \in Analyses : task[t] = IdleTask /\ Start(t, job)
                /\ UNCHANGED jobs
        /\ UNCHANGED <<active, post, broker, dead, window, restarts, moodVars>>

\* updateSource
Toggle(a) ==
    /\ active' = IF a \in active THEN active \ {a} ELSE active \cup {a}
    /\ UNCHANGED <<post, feed, broker, jobs, dead, task, window, restarts, moodVars>>

-----------------------------------------------------------------------------
\* The channel hands out one message at a time (prefetch 1).
ConsumeJob(t) ==
    /\ broker /\ jobs # <<>>
    /\ \A u \in Analyses : task[u] = IdleTask
    /\ Start(t, Head(jobs))
    /\ jobs' = Tail(jobs)
    /\ UNCHANGED <<active, post, feed, broker, dead, window, restarts, moodVars>>

\* classify: the model answers about some of the posts.  An answer that fails, is no JSON
\* or has no results is an answer about none, and so is a missing key.
ClassifyPosts(t, answered) ==
    /\ task[t].step = "classify" /\ answered \subseteq task[t].posts
    /\ \E sentiment \in [answered -> Sentiments \cup {"UNKNOWN"}] :
          task' = [task EXCEPT ![t].step = "write",
              ![t].left = {<<p, IF p \in answered THEN sentiment[p] ELSE "UNKNOWN">> :
                               p \in task[t].posts}]
    /\ UNCHANGED <<active, post, feed, broker, jobs, dead, window, restarts, moodVars>>

\* handle: every post is written, known or not, and is analysed from then on.
WritePost(t) ==
    /\ task[t].step = "write"
    /\ \E w \in task[t].left :
          /\ post' = [post EXCEPT ![w[1]] = w[2]]
          /\ task' = [task EXCEPT ![t].left = @ \ {w},
                 ![t].step = IF task[t].left = {w} THEN "count" ELSE "write",
                 ![t].hours = {PostedAt[p] : p \in task[t].posts}]
    /\ UNCHANGED <<active, feed, broker, jobs, dead, window, restarts, moodVars>>

\* rebuildSnapshots: an hour is counted from all of its posts.
CountsOf(h) ==
    LET n(s) == Cardinality({p \in Stored(h) : post[p] \in s})
    IN  {[total |-> Cardinality(Stored(h)), negative |-> n({"NEGATIVE"}),
          unknown |-> n({"UNKNOWN", "new"})]}

\* (Mutant: an hour is counted from the posts of the job.)
CountHourOfJob(t) ==
    LET only(h) == {p \in task[t].posts : PostedAt[p] = h}
        n(h, s) == Cardinality({p \in only(h) : post[p] \in s})
    IN  /\ task[t].step = "count"
        /\ \E h \in task[t].hours :
              task' = [task EXCEPT ![t].step = "store", ![t].left = {h},
                  ![t].counted = {[total |-> Cardinality(only(h)), negative |-> n(h, {"NEGATIVE"}),
                                   unknown |-> n(h, {"UNKNOWN", "new"})]}]
        /\ UNCHANGED <<active, post, feed, broker, jobs, dead, window, restarts, moodVars>>

CountHour(t) ==
    /\ task[t].step = "count"
    /\ \E h \in task[t].hours :
          task' = [task EXCEPT ![t].step = "store", ![t].left = {h}, ![t].counted = CountsOf(h)]
    /\ UNCHANGED <<active, post, feed, broker, jobs, dead, window, restarts, moodVars>>

\* The row is written; after the last hour the message is acknowledged.
StoreHour(t) ==
    /\ task[t].step = "store"
    /\ \E h \in task[t].left :
          /\ window' = [window EXCEPT ![h] =
                 [engine |-> "social", counts |-> task[t].counted]]
          /\ task' = [task EXCEPT ![t] =
                 IF task[t].hours = {h} THEN IdleTask
                 ELSE [@ EXCEPT !.step = "count", !.hours = task[t].hours \ {h}, !.left = {},
                                !.counted = {}]]
    /\ UNCHANGED <<active, post, feed, broker, jobs, dead, restarts, moodVars>>

Redelivered(t) == [posts |-> task[t].posts, again |-> TRUE]

\* (Mutant: a failed job is acknowledged, as in the queue of photos.)
FailAcknowledged(t) ==
    /\ task[t] # IdleTask
    /\ task' = [task EXCEPT ![t] = IdleTask]
    /\ UNCHANGED <<active, post, feed, broker, jobs, dead, window, restarts, moodVars>>

\* The database fails: the message is put back once, then dead-lettered.  A job in the
\* process is lost.
AnalysisFails(t) ==
    /\ task[t] # IdleTask
    /\ task' = [task EXCEPT ![t] = IdleTask]
    /\ dead' = IF broker /\ task[t].again THEN dead \cup task[t].posts ELSE dead
    /\ jobs' = IF broker /\ ~task[t].again THEN <<Redelivered(t)>> \o jobs ELSE jobs
    /\ UNCHANGED <<active, post, feed, broker, window, restarts, moodVars>>

\* The process restarts; what was not acknowledged is delivered again, marked as such.
SocialRestarts ==
    /\ restarts < MaxRestarts
    /\ restarts' = restarts + 1
    /\ task' = [t \in Analyses |-> IdleTask]
    /\ LET held == {t \in Analyses : task[t] # IdleTask}
       IN  jobs' = IF broker /\ held # {} THEN <<Redelivered(CHOOSE t \in held : TRUE)>> \o jobs ELSE jobs
    /\ feed' = {} /\ pull' = NoPull
    /\ UNCHANGED <<active, post, broker, dead, window, reading, hour>>

-----------------------------------------------------------------------------
\* sync: what Pulseforge has of states and of LGAs is read.  A key that is refused or a
\* request that fails ends the sync.  No hour before 0 is written (bound).
Pull(answer) ==
    /\ pull = NoPull /\ hour >= Back
    /\ pull' = [step |-> "states", states |-> answer.states, lgas |-> answer.lgas, at |-> hour]
    /\ UNCHANGED <<postVars, window, reading, hour>>

\* syncStates: names that are no state are left out, the national row among them.
SyncStates ==
    /\ pull.step = "states"
    /\ reading' = [x \in DOMAIN reading |->
           IF \E r \in pull.states : <<r.state>> = x
           THEN LET r == CHOOSE r \in pull.states : <<r.state>> = x
                IN  [counts |-> r.counts, of |-> {r.at}]
           ELSE reading[x]]
    /\ pull' = [pull EXCEPT !.step = "lgas"]
    /\ UNCHANGED <<postVars, window, hour>>

\* (Mutant: a bare name that two states have goes to one of them.)
PlaceOfFirst(r) ==
    {x \in LGAs : x = CHOOSE y \in LGAs : y[2] = r.lga}

\* syncLgas: a row goes to the LGA of its state, else to the only LGA of that name.
PlaceOf(r) ==
    LET qualified == {x \in LGAs : x = <<r.state, r.lga>>}
        bare == {x \in LGAs : x[2] = r.lga}
    IN  IF qualified # {} THEN qualified
        ELSE IF Cardinality(bare) = 1 THEN bare ELSE {}

SyncLgas ==
    /\ pull.step = "lgas"
    /\ reading' = [x \in DOMAIN reading |->
           LET rows == {r \in pull.lgas : x \in PlaceOf(r)}
           IN  IF x \in LGAs /\ rows # {}
               THEN LET r == CHOOSE r \in rows : TRUE IN [counts |-> r.counts, of |-> {r.at}]
               ELSE reading[x]]
    /\ pull' = [pull EXCEPT !.step = "campaign"]
    /\ UNCHANGED <<postVars, window, hour>>

SumOver(f(_), S) == Cardinality(UNION {{x} \X (1 .. f(x)) : x \in S})

\* Of a row of counts, which is a singleton.
Of(counts, field) == IF counts = {} THEN 0 ELSE (CHOOSE c \in counts : TRUE)[field]

AddCounts(rows) ==
    LET sum(field) == SumOver(LAMBDA r : Of(r.counts, field), rows)
    IN  {[total |-> sum("total"), negative |-> sum("negative"), unknown |-> sum("unknown")]}

\* syncCampaign: all rows of states, the national one too, are summed; the row is that of
\* the hour the sync goes back to from when it began.
SyncCampaign ==
    /\ pull.step = "campaign"
    /\ window' = IF pull.states = {} THEN window
                 ELSE [window EXCEPT ![pull.at - Back] =
                     [engine |-> "pulseforge", counts |-> AddCounts(pull.states)]]
    /\ pull' = NoPull
    /\ UNCHANGED <<postVars, reading, hour>>

Tick ==
    /\ hour < LastHour
    /\ hour' = hour + 1
    /\ UNCHANGED <<postVars, window, reading, pull>>

\* sync: one part after the other.
Sync == (\E answer \in Moods : Pull(answer)) \/ SyncStates \/ SyncLgas \/ SyncCampaign

TaskStep(t) ==
    \/ ConsumeJob(t) \/ WritePost(t) \/ CountHour(t) \/ StoreHour(t)
    \/ \E answered \in SUBSET task[t].posts : ClassifyPosts(t, answered)

SocialNext ==
    \/ \E batch \in SUBSET Posts \ {{}} : Ingest(batch)
    \/ Queue
    \/ \E a \in Accounts : Toggle(a)
    \/ \E t \in Analyses : TaskStep(t) \/ AnalysisFails(t)
    \/ SocialRestarts
    \/ Sync \/ Tick

-----------------------------------------------------------------------------
\* stateMood: the LGAs of a state that have a reading.
StateMood(s) == {l \in LGAs : l[1] = s[1] /\ reading[l] # NoReading}

SocialFairness == \A t \in Analyses : WF_socialVars(TaskStep(t))

SocialSpec == SocialInit /\ [][SocialNext]_socialVars /\ SocialFairness

\* A post in the broker's hands.
Kept(p) ==
    \/ \E i \in DOMAIN jobs : p \in jobs[i].posts
    \/ broker /\ \E t \in Analyses : p \in task[t].posts

\* "Bounded retry, and nothing vanishes": a post that is in the queue comes to be analysed
\* or to lie in the dead-letter queue, whatever fails or restarts on the way.
QueuedSettles == \A p \in Posts : Kept(p) ~> Analysed(p) \/ p \in dead

\* "Recomputes hourly snapshots by querying the window": once the queue is empty the hours
\* whose posts are all analysed are counted to the last post, however jobs were repeated
\* and however their batches cut across the hours.  Pulseforge may have put its own row in
\* the place of one.  Without RabbitMQ two analyses may overlap and the older count stay.
HoursAreCounted ==
    (broker /\ jobs = <<>> /\ \A t \in Analyses : task[t] = IdleTask) =>
        \A h \in Hours :
            LET posts == Stored(h)
            IN  (posts # {} /\ posts \cap dead = {} /\ \A p \in posts : Analysed(p)) =>
                    window[h].engine = "pulseforge" \/ window[h].counts = CountsOf(h)

\* A negativity spike in one LGA moves that LGA and leaves its neighbours alone: what a
\* place is shown with was said of that place, also where states share a name of an LGA.
ReadingsOfTheirPlace ==
    /\ \A x \in States \cup LGAs : reading[x] # NoReading => reading[x].of = {x}
    /\ \A s \in States, l \in LGAs : l \in StateMood(s) => \A x \in reading[l].of : x[1] = s[1]
=============================================================================
