------------------------------- MODULE MCPulse -------------------------------
\* Small instances of Pulse: one report of every kind, and of the agent's own
\* one that gives the totals seen, one that takes the unit back to the voting.
EXTENDS Pulse

CONSTANT u1

Of(source, phase, bvas, observed) ==
    [source |-> source, phase |-> phase, observed |-> observed,
     says |-> [f \in Fields |-> IF f = "bvas" THEN bvas ELSE "NONE"]]

CheckIn == Of("CHECK_IN", "CHECKED_IN", "NONE", "NONE")
Beat == Of("HEARTBEAT", "NONE", "NONE", "NONE")
Vote == Of("MANUAL", "VOTING", "FINE", "NONE")
Remark == [Of("MANUAL", "NONE", "NONE", "NONE") EXCEPT !.says["queue"] = "ALARM"]
Count == Of("MANUAL", "COUNTING", "NONE", "RIVAL")
Seen == Of("MANUAL", "NONE", "NONE", "US")
Trouble == Of("INCIDENT", "NONE", "ALARM", "NONE")
Sheet == Of("RESULT", "COUNTING", "NONE", "US")

AllReports == {CheckIn, Beat, Vote, Remark, Count, Seen, Trouble, Sheet}

TwoFields == {"bvas", "queue"}
=============================================================================
