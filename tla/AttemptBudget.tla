---------------------------- MODULE AttemptBudget ----------------------------
(* AttemptBudget of tools/weather_collect_hosted.py: before every request to  *)
(* KMA a process reserves an attempt in the object of the day, which it       *)
(* replaces only if its ETag is the one it has read.  Processes may overlap:  *)
(* a cancelled job that is still at work, or a manual run.                    *)
(*                                                                            *)
(* The clock counts a fraction of the 40 s of headroom before midnight.       *)
EXTENDS Naturals, FiniteSets

CONSTANTS
    Process,        \* finitely many
    DayLength,      \* in ticks
    Days,           \* bound: days until the clock stops
    Headroom,       \* 40 s, in ticks
    SendDelay,      \* the longest time from a reservation to its request
    DailyLimit,     \* DAILY_ATTEMPT_LIMIT
    RunLimit,       \* RUN_ATTEMPT_LIMIT
    Tries,          \* 5
    None

BudgetAssumption ==
    /\ IsFiniteSet(Process)
    /\ {DayLength, Days, Tries} \subseteq Nat \ {0}
    /\ {Headroom, SendDelay, DailyLimit, RunLimit} \subseteq Nat
    /\ SendDelay < Headroom

VARIABLES
    now,
    budget,     \* per day: attempts in its object, 0 when there is none
    process,    \* per process: its step, what it has read, its tries and attempts
    sent        \* per day: the requests that KMA has got

vars == <<now, budget, process, sent>>

Day == 0..(Days - 1)
DayOf(t) == t \div DayLength
Midnight(t) == (DayOf(t) + 1) * DayLength
BeforeMidnight(t) == Midnight(t) - t >= Headroom

Fresh == [pc |-> "idle", day |-> None, count |-> None, at |-> None, tries |-> Tries, attempts |-> 0]

Init ==
    /\ now = 0
    /\ budget = [d \in Day |-> 0]
    /\ process = [p \in Process |-> Fresh]
    /\ sent = [d \in Day |-> 0]

At(p, pc) == process[p].pc = pc
Stop(p) == process' = [process EXCEPT ![p].pc = "stopped"]

\* The next of the five rounds, or budget_conflict_exhausted.
Again(p) ==
    IF process[p].tries > 1
    THEN process' = [process EXCEPT ![p] = [@ EXCEPT !.pc = "read", !.tries = process[p].tries - 1]]
    ELSE Stop(p)

Reserve(p) ==
    /\ At(p, "idle") /\ process[p].attempts < RunLimit
    /\ process' = [process EXCEPT ![p] = [@ EXCEPT !.pc = "read", !.tries = Tries]]
    /\ UNCHANGED <<now, budget, sent>>

ReadBudget(p) ==
    /\ At(p, "read")
    /\ IF BeforeMidnight(now) /\ budget[DayOf(now)] < DailyLimit
       THEN process' = [process EXCEPT ![p] = [@ EXCEPT !.pc = "put", !.day = DayOf(now), !.count = budget[DayOf(now)]]]
       ELSE Stop(p)
    /\ UNCHANGED <<now, budget, sent>>

\* The object is replaced whatever its ETag.
Matches_Any(p) == TRUE

\* IfMatch, or IfNoneMatch when there was no object. The count only grows, so
\* it stands for the ETag.
Matches(p) == budget[process[p].day] = process[p].count

Charge(p) == budget' = [budget EXCEPT ![process[p].day] = process[p].count + 1]

PutBudget(p) ==
    /\ At(p, "put")
    /\ IF DayOf(now) = process[p].day /\ Matches(p)
       THEN /\ Charge(p)
            /\ process' = [process EXCEPT ![p].pc = "ack"]
       ELSE Again(p) /\ UNCHANGED budget
    /\ UNCHANGED <<now, sent>>

\* The write is applied but its answer is lost: the process gives up, or its
\* client repeats the request and is told of a conflict.
PutUncertain(p) ==
    /\ At(p, "put") /\ DayOf(now) = process[p].day /\ Matches(p)
    /\ Charge(p)
    /\ Stop(p) \/ Again(p)
    /\ UNCHANGED <<now, sent>>

Acknowledge(p) ==
    /\ At(p, "ack")
    /\ IF DayOf(now) = process[p].day /\ BeforeMidnight(now)
       THEN process' = [process EXCEPT ![p] = [@ EXCEPT !.pc = "send", !.at = now, !.attempts = process[p].attempts + 1]]
       ELSE Stop(p)
    /\ UNCHANGED <<now, budget, sent>>

\* The request reaches KMA some time later.
Send(p) ==
    /\ At(p, "send")
    /\ sent' = [sent EXCEPT ![DayOf(now)] = @ + 1]
    /\ process' = [process EXCEPT ![p] = [Fresh EXCEPT !.attempts = process[p].attempts]]
    /\ UNCHANGED <<now, budget>>

Dies(p) ==
    /\ process[p].pc \notin {"idle", "stopped"}
    /\ Stop(p)
    /\ UNCHANGED <<now, budget, sent>>

\* A request does not take longer than SendDelay to leave.
Tick ==
    /\ now < Days * DayLength - 1
    /\ \A p \in Process : At(p, "send") => now - process[p].at < SendDelay
    /\ now' = now + 1
    /\ UNCHANGED <<budget, process, sent>>

Next ==
    \/ \E p \in Process :
        \/ Reserve(p) \/ ReadBudget(p) \/ PutBudget(p) \/ PutUncertain(p) \/ Acknowledge(p) \/ Send(p) \/ Dies(p)
    \/ Tick

Spec == Init /\ [][Next]_vars

-----------------------------------------------------------------------------
\* KMA never gets more requests on a day than its object has reserved, nor more
\* than the limit: whatever processes overlap, die, lose an answer or cross
\* midnight between the reservation and the request.
NeverOverBudget == \A d \in Day : sent[d] <= budget[d] /\ budget[d] <= DailyLimit
=============================================================================
