--------------------------- MODULE RecoveryLease ---------------------------
(***************************************************************************)
(* The fenced recovery lease of one recovery job (one job_key):            *)
(* RecoveryLeaseRegistry in dags/common/recovery/lease.py over the atomic  *)
(* backend operations of dags/common/recovery/postgres.py.                 *)
(*                                                                         *)
(* Every registry call is given the caller's `now` once and then makes its *)
(* backend calls one at a time, so a call's clock reading can be old when  *)
(* its compare-and-swap runs.  A backend call is one transaction, hence    *)
(* one step here; any other worker may step between two of them.  The      *)
(* outcome of a committed write may fail to reach the worker, and a worker *)
(* may die anywhere and lose the copy of the lease it was holding.         *)
(***************************************************************************)
EXTENDS Integers

CONSTANTS
  Workers,      \* processes that call the registry
  Owners,       \* values of owner_id
  OwnerOf,      \* OwnerOf[w] is the owner_id worker w passes
  TTL,          \* lease_ttl, in ticks
  MaxTime,      \* bound: the clock stops here
  NoLease       \* the value of an absent lease

ASSUME OwnerAssumption == OwnerOf \in [Workers -> Owners]
ASSUME TTLAssumption == TTL \in Nat \ {0}
ASSUME MaxTimeAssumption == MaxTime \in Nat

ACTIVE_STATES == {"leased", "running"}
TERMINAL_STATES == {"succeeded", "skipped", "unrecoverable", "blocked"}
LEASE_STATES == ACTIVE_STATES \cup TERMINAL_STATES

\* The stored document.  updated_at and the evidence decide nothing and are
\* left out; job_key, plan_id and action are those of the one job.
RecoveryLeaseDoc ==
  [owner: Owners, state: LEASE_STATES, acquired: Nat, expires: Nat,
   attempt: Nat \ {0}]

ASSUME NoLeaseAssumption == NoLease \notin RecoveryLeaseDoc

VARIABLES
  clock,   \* wall clock
  row,     \* the backend's document for the job, or NoLease
  held,    \* held[w]: the lease copy worker w believes it owns, or NoLease
  pc,      \* pc[w]: the backend call worker w makes next, "idle" or "down"
  at,      \* at[w]: the `now` given to the call in progress
  doc      \* doc[w]: the lease the call works with: the one read by claim,
           \* or the one a transition is about to write

vars == <<clock, row, held, pc, at, doc>>

PCs == {"idle", "down", "read", "create", "reread", "takeover", "latest", "cas"}

-----------------------------------------------------------------------------
\* The lease_id is a digest of job, plan, owner, now and attempt_count: two
\* documents carry the same id exactly when these agree.
LeaseId(l) == <<l.owner, l.acquired, l.attempt>>

\* Mutant: the expiry is forgotten.
IsActiveAt_NoExpiry(l, now) == l.state \in ACTIVE_STATES

IsActiveAt(l, now) == l.state \in ACTIVE_STATES /\ l.expires > now

NewLease(w, now, attempt_count) ==
  [owner |-> OwnerOf[w], state |-> "leased", acquired |-> now,
   expires |-> now + TTL, attempt |-> attempt_count]

\* Mutant: the swap tests only the fence.
ReplaceIfExpired_FenceOnly(expected, now) ==
  row # NoLease /\ LeaseId(row) = LeaseId(expected) /\ row.state \in ACTIVE_STATES

\* The guards of the backend's two conditional replacements.
ReplaceIfExpired(expected, now) ==
  /\ row # NoLease
  /\ LeaseId(row) = LeaseId(expected)
  /\ row.state \in ACTIVE_STATES /\ row.expires <= now

ReplaceIfOwner(expected, owner, now) ==
  /\ row # NoLease
  /\ LeaseId(row) = LeaseId(expected)
  /\ row.owner = owner
  /\ IsActiveAt(row, now)

-----------------------------------------------------------------------------
Init ==
  /\ clock = 0
  /\ row = NoLease
  /\ held = [w \in Workers |-> NoLease]
  /\ pc = [w \in Workers |-> "idle"]
  /\ at = [w \in Workers |-> 0]
  /\ doc = [w \in Workers |-> NoLease]

\* Control passes to the backend call `next` of w's registry call.
Goto(w, next) == pc' = [pc EXCEPT ![w] = next]

\* The registry call of w ends, and with it the locals of the call.
Return(w) ==
  /\ Goto(w, "idle")
  /\ at' = [at EXCEPT ![w] = 0]
  /\ doc' = [doc EXCEPT ![w] = NoLease]

\* The call returns and hands w the lease l.
ReturnLease(w, l) == Return(w) /\ held' = [held EXCEPT ![w] = l]

\* The call returns no usable lease, or raises, or its outcome is lost on the
\* way: w keeps whatever copy it had.
ReturnNothing(w) == Return(w) /\ UNCHANGED held

\* claim: `now` is fixed when the call is made.
Claim(w) ==
  /\ pc[w] = "idle"
  /\ at' = [at EXCEPT ![w] = clock]
  /\ Goto(w, "read")
  /\ UNCHANGED <<clock, row, held, doc>>

\* claim's read of the document, and the read repeated after a lost create
\* race: terminal and held leases end the call, the caller's own active lease
\* is handed back, an expired one is remembered for the takeover.
ClaimRead(w) ==
  /\ pc[w] \in {"read", "reread"}
  /\ \/ /\ row = NoLease
        /\ IF pc[w] = "read"
             THEN Goto(w, "create") /\ UNCHANGED <<held, at, doc>>
             ELSE ReturnNothing(w)
     \/ /\ row # NoLease
        /\ row.state \in TERMINAL_STATES
        /\ ReturnNothing(w)
     \/ /\ row # NoLease
        /\ IsActiveAt(row, at[w])
        /\ IF row.owner = OwnerOf[w] THEN ReturnLease(w, row) ELSE ReturnNothing(w)
     \/ /\ row # NoLease
        /\ row.state \in ACTIVE_STATES
        /\ ~IsActiveAt(row, at[w])
        /\ Goto(w, "takeover")
        /\ doc' = [doc EXCEPT ![w] = row]
        /\ UNCHANGED <<held, at>>
  /\ UNCHANGED <<clock, row>>

\* create_if_absent, and claim's two continuations.
ClaimCreate(w) ==
  /\ pc[w] = "create"
  /\ IF row = NoLease
       THEN LET new == NewLease(w, at[w], 1) IN
            /\ row' = new
            /\ ReturnLease(w, new) \/ ReturnNothing(w)
       ELSE Goto(w, "reread") /\ UNCHANGED <<row, held, at, doc>>
  /\ UNCHANGED clock

\* replace_if_expired, and claim's two continuations.
ClaimTakeover(w) ==
  /\ pc[w] = "takeover"
  /\ IF ReplaceIfExpired(doc[w], at[w])
       THEN LET new == NewLease(w, at[w], doc[w].attempt + 1) IN
            /\ row' = new
            /\ ReturnLease(w, new) \/ ReturnNothing(w)
       ELSE Goto(w, "latest") /\ UNCHANGED <<row, held, at, doc>>
  /\ UNCHANGED clock

\* The read after a lost takeover race; only an active lease of the caller's
\* own owner_id is handed back.
ClaimLatest(w) ==
  /\ pc[w] = "latest"
  /\ IF row # NoLease /\ row.owner = OwnerOf[w] /\ IsActiveAt(row, at[w])
       THEN ReturnLease(w, row)
       ELSE ReturnNothing(w)
  /\ UNCHANGED <<clock, row>>

\* The part of mark_running, mark_terminal and renew before the backend call:
\* the worker's own copy is validated and the replacement document is made
\* from that copy.
Prepare(w, l) ==
  /\ pc[w] = "idle"
  /\ held[w] # NoLease
  /\ held[w].owner = OwnerOf[w]
  /\ IsActiveAt(held[w], clock)
  /\ at' = [at EXCEPT ![w] = clock]
  /\ doc' = [doc EXCEPT ![w] = l]
  /\ Goto(w, "cas")
  /\ UNCHANGED <<clock, row, held>>

MarkRunning(w) ==
  /\ held[w] # NoLease
  /\ held[w].state = "leased"
  /\ Prepare(w, [held[w] EXCEPT !.state = "running"])

MarkTerminal(w) ==
  /\ held[w] # NoLease
  /\ \E state \in TERMINAL_STATES : Prepare(w, [held[w] EXCEPT !.state = state])

Renew(w) ==
  /\ held[w] # NoLease
  /\ Prepare(w, [held[w] EXCEPT !.expires = clock + TTL])

\* replace_if_owner; a refused swap is LeaseLostError.
CompareAndSwap(w) ==
  /\ pc[w] = "cas"
  /\ IF ReplaceIfOwner(doc[w], OwnerOf[w], at[w])
       THEN /\ row' = doc[w]
            /\ ReturnLease(w, doc[w]) \/ ReturnNothing(w)
       ELSE ReturnNothing(w) /\ UNCHANGED row
  /\ UNCHANGED clock

\* The worker's process dies: its call and its copy are gone.
Crash(w) ==
  /\ pc[w] # "down"
  /\ Goto(w, "down")
  /\ at' = [at EXCEPT ![w] = 0]
  /\ doc' = [doc EXCEPT ![w] = NoLease]
  /\ held' = [held EXCEPT ![w] = NoLease]
  /\ UNCHANGED <<clock, row>>

\* The scheduler starts the worker's process again.
Restart(w) ==
  /\ pc[w] = "down"
  /\ Goto(w, "idle")
  /\ UNCHANGED <<clock, row, held, at, doc>>

Tick ==
  /\ clock < MaxTime
  /\ clock' = clock + 1
  /\ UNCHANGED <<row, held, pc, at, doc>>

ClaimStep(w) == ClaimRead(w) \/ ClaimCreate(w) \/ ClaimTakeover(w) \/ ClaimLatest(w)

Next ==
  \/ Tick
  \/ \E w \in Workers :
       \/ Claim(w) \/ ClaimStep(w)
       \/ MarkRunning(w) \/ MarkTerminal(w) \/ Renew(w) \/ CompareAndSwap(w)
       \/ Crash(w) \/ Restart(w)

Spec == Init /\ [][Next]_vars

\* Coordinators keep claiming: every worker's calls run to their end, an idle
\* worker claims again, a dead one is restarted, and the processes do not keep
\* dying forever.
Scheduling ==
  /\ <>[][\A w \in Workers : ~Crash(w)]_vars
  /\ WF_vars(Tick)
  /\ \A w \in Workers :
       /\ WF_vars(Claim(w)) /\ WF_vars(ClaimStep(w)) /\ WF_vars(CompareAndSwap(w))
       /\ WF_vars(Restart(w))

FairSpec == Spec /\ Scheduling

-----------------------------------------------------------------------------
(* Properties *)

\* The stored document, every worker's copy and every call in progress have
\* their types; a call past its read works with a lease document.
TypeOK ==
  /\ clock \in 0..MaxTime
  /\ row \in RecoveryLeaseDoc \cup {NoLease}
  /\ held \in [Workers -> RecoveryLeaseDoc \cup {NoLease}]
  /\ pc \in [Workers -> PCs]
  /\ at \in [Workers -> 0..MaxTime]
  /\ doc \in [Workers -> RecoveryLeaseDoc \cup {NoLease}]
  /\ \A w \in Workers : pc[w] \in {"takeover", "cas"} => doc[w] # NoLease

\* A worker believes it owns the job: its copy is active at the present time.
BelievesOwner(w) == held[w] # NoLease /\ IsActiveAt(held[w], clock)

\* "Exactly one coordinator must own a recovery job" (lease.py, module
\* docstring): no two workers of different owner_ids hold copies that are both
\* unexpired, whatever the races between claim, renewal and takeover.
MutualExclusion ==
  \A v, w \in Workers :
    BelievesOwner(v) /\ BelievesOwner(w) => OwnerOf[v] = OwnerOf[w]

\* The fence: the stored lease passes to another lease only when the wall
\* clock has reached its expiry and it has no recorded outcome, although the
\* takeover decides with a `now` read earlier; the attempt count then grows
\* by exactly one.
FencedTakeover ==
  [][ row # NoLease /\ (row' = NoLease \/ LeaseId(row') # LeaseId(row)) =>
        /\ row' # NoLease
        /\ row.state \in ACTIVE_STATES
        /\ row.expires <= clock
        /\ row'.attempt = row.attempt + 1 ]_vars

\* A recorded outcome is final: once mark_terminal has been stored, no claim,
\* renewal or late transition changes the document again.
OutcomeIsFinal ==
  [][ row # NoLease /\ row.state \in TERMINAL_STATES => row' = row ]_vars

\* The stored lease is active and past its expiry.
Expired == row # NoLease /\ row.state \in ACTIVE_STATES /\ row.expires <= clock

\* An abandoned lease does not hold the job forever: once it has expired, it
\* is eventually taken over by a claim (lease.py, claim: a stale lease is
\* replaced through replace_if_expired).
AbandonedJobRecovered == Expired ~> ~Expired
=============================================================================
