-------------------------- MODULE MCRecoveryLease --------------------------
(* Two coordinators with one process each race for the lease of a job.  And    *)
(* the plan that such a coordinator's document asks for, up to its dispatch,   *)
(* with candidates of three slots: replays with a whole and with a cut         *)
(* manifest, historical queries, and a collection that is still running.  The  *)
(* planner takes no lease, so either part moves while the other stands at its  *)
(* start.                                                                      *)
EXTENDS RecoveryLease, Sequences, TLC

CONSTANTS w1, w2, A, B

VARIABLES given, stage, plan, requests, runs, seen, decisions, early

OneProcessEach == (w1 :> A) @@ (w2 :> B)

C(slot, ts, size, covered, verified, running) ==
    [slot |-> slot, at |-> ts, deadline |-> ts + 1, size |-> size, covered |-> covered, verified |-> verified,
     historical |-> TRUE, running |-> running, blocking |-> FALSE]

MCCandidates ==
    {C(1, 2, 1, 1, TRUE, FALSE), C(2, 1, 2, 2, TRUE, FALSE), C(2, 1, 2, 1, TRUE, FALSE),
     C(3, 2, 1, 0, FALSE, FALSE), C(1, 1, 1, 0, FALSE, FALSE), C(3, 2, 1, 0, FALSE, TRUE), C(2, 1, 1, 2, TRUE, FALSE)}

MCDag == {"weather_vilage_fcst_transform", "weather_iceberg_maintenance"}

Dispatch == INSTANCE RecoveryDispatch WITH
    Candidates <- MCCandidates, MaxCandidates <- 3, Now <- 3, MaxJobs <- 2, MaxApiJobs <- 1, MaxAge <- 3,
    MaxDispatches <- 1, Dag <- MCDag

dispatchVars == <<given, stage, plan, requests, runs, seen, decisions, early>>

DispatchRests ==
    /\ given = << C(1, 2, 1, 1, TRUE, FALSE) >> /\ stage = "given" /\ early = {}
    /\ UNCHANGED dispatchVars
LeaseRests == clock = 0 /\ Init /\ UNCHANGED vars

MCInit == Init /\ Dispatch!Init

MCNext ==
    \/ DispatchRests /\ Tick
    \/ \E w \in Workers :
        \/ DispatchRests /\ Claim(w)
        \/ DispatchRests /\ ClaimRead(w)
        \/ DispatchRests /\ ClaimCreate(w)
        \/ DispatchRests /\ ClaimTakeover(w)
        \/ DispatchRests /\ ClaimLatest(w)
        \/ DispatchRests /\ MarkRunning(w)
        \/ DispatchRests /\ MarkTerminal(w)
        \/ DispatchRests /\ Renew(w)
        \/ DispatchRests /\ CompareAndSwap(w)
        \/ DispatchRests /\ Crash(w)
        \/ DispatchRests /\ Restart(w)
    \/ LeaseRests /\ Dispatch!MakePlan
    \/ LeaseRests /\ Dispatch!Compile
    \/ LeaseRests /\ Dispatch!ReadRuns
    \/ LeaseRests /\ Dispatch!Admit
    \/ \E d \in MCDag : LeaseRests /\ Dispatch!RunMoves(d)

MCSpec == MCInit /\ [][MCNext]_<<vars, dispatchVars>> /\ Scheduling

\* A plan does not depend on where its candidates stood in the document.
OrderNeverMatters == Dispatch!OrderNeverMatters

\* What is admitted was due and is covered, and no run of the tables it writes
\* has been active since before the snapshot.
AdmittedIsSafe == Dispatch!AdmittedIsSafe
=============================================================================
