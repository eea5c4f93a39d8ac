--------------------------- MODULE RecoveryProofs ---------------------------
(***************************************************************************)
(* Theorems about the recovery lease: its types, the fence, the finality   *)
(* of outcomes, and mutual exclusion of coordinators that run one process  *)
(* per owner_id.  And about the planner: that its plans are sound over     *)
(* whatever receipts the collecting runs and the reconciliation left.      *)
(***************************************************************************)
EXTENDS RecoveryLease, RecoveryPlanning, TLAPS

USE OwnerAssumption, TTLAssumption, MaxTimeAssumption, NoLeaseAssumption

-----------------------------------------------------------------------------
(* What the building blocks return. *)

\* _new_lease makes a lease document.
LEMMA NewLeaseType ==
  ASSUME NEW w \in Workers, NEW t \in Nat, NEW n \in Nat \ {0}
  PROVE  /\ NewLease(w, t, n) \in RecoveryLeaseDoc
         /\ NewLease(w, t, n) # NoLease
BY DEF NewLease, RecoveryLeaseDoc, LEASE_STATES, ACTIVE_STATES

\* The documents that mark_running, mark_terminal and renew write.
LEMMA TransitionType ==
  ASSUME NEW l \in RecoveryLeaseDoc, NEW s \in LEASE_STATES, NEW e \in Nat
  PROVE  /\ [l EXCEPT !.state = s] \in RecoveryLeaseDoc
         /\ [l EXCEPT !.expires = e] \in RecoveryLeaseDoc
         /\ [l EXCEPT !.state = s] # NoLease
         /\ [l EXCEPT !.expires = e] # NoLease
BY DEF RecoveryLeaseDoc

-----------------------------------------------------------------------------
LEMMA InitType == Init => TypeOK
BY DEF Init, TypeOK, PCs

LEMMA NextType == TypeOK /\ [Next]_vars => TypeOK'
<1> SUFFICES ASSUME TypeOK, [Next]_vars PROVE TypeOK'
  OBVIOUS
<1> USE DEF TypeOK
<1>1. CASE UNCHANGED vars
  BY <1>1 DEF vars
<1>2. CASE Tick
  BY <1>2 DEF Tick
<1>3. ASSUME NEW w \in Workers, Claim(w) PROVE TypeOK'
  BY <1>3 DEF Claim, Goto, PCs
<1>4. ASSUME NEW w \in Workers, ClaimRead(w) PROVE TypeOK'
  BY <1>4 DEF ClaimRead, Goto, Return, ReturnLease, ReturnNothing, PCs
<1>5. ASSUME NEW w \in Workers, ClaimCreate(w) PROVE TypeOK'
  <2> at[w] \in Nat
    OBVIOUS
  <2> NewLease(w, at[w], 1) \in RecoveryLeaseDoc
    BY NewLeaseType
  <2> QED
    BY <1>5 DEF ClaimCreate, Goto, Return, ReturnLease, ReturnNothing, PCs
<1>6. ASSUME NEW w \in Workers, ClaimTakeover(w) PROVE TypeOK'
  <2>1. doc[w] \in RecoveryLeaseDoc
    BY <1>6 DEF ClaimTakeover
  <2>2. NewLease(w, at[w], doc[w].attempt + 1) \in RecoveryLeaseDoc
    BY <2>1, NewLeaseType DEF RecoveryLeaseDoc
  <2> QED
    BY <1>6, <2>2 DEF ClaimTakeover, Goto, Return, ReturnLease, ReturnNothing, PCs
<1>7. ASSUME NEW w \in Workers, ClaimLatest(w) PROVE TypeOK'
  BY <1>7 DEF ClaimLatest, Goto, Return, ReturnLease, ReturnNothing, PCs
<1>8. ASSUME NEW w \in Workers, NEW l \in RecoveryLeaseDoc, Prepare(w, l) PROVE TypeOK'
  BY <1>8 DEF Prepare, Goto, PCs
<1>9. ASSUME NEW w \in Workers, MarkRunning(w) PROVE TypeOK'
  BY <1>8, <1>9, TransitionType DEF MarkRunning, LEASE_STATES, ACTIVE_STATES
<1>10. ASSUME NEW w \in Workers, MarkTerminal(w) PROVE TypeOK'
  BY <1>8, <1>10, TransitionType DEF MarkTerminal, LEASE_STATES
<1>11. ASSUME NEW w \in Workers, Renew(w) PROVE TypeOK'
  <2> clock + TTL \in Nat
    OBVIOUS
  <2> QED
    BY <1>8, <1>11, TransitionType DEF Renew, LEASE_STATES, ACTIVE_STATES
<1>12. ASSUME NEW w \in Workers, CompareAndSwap(w) PROVE TypeOK'
  BY <1>12 DEF CompareAndSwap, Goto, Return, ReturnLease, ReturnNothing, PCs
<1>13. ASSUME NEW w \in Workers, Crash(w) \/ Restart(w) PROVE TypeOK'
  BY <1>13 DEF Crash, Restart, Goto, PCs
<1>14. QED
  BY <1>1, <1>2, <1>3, <1>4, <1>5, <1>6, <1>7, <1>9, <1>10, <1>11, <1>12, <1>13
     DEF Next, ClaimStep

\* The stored document, every copy and every call in progress keep their
\* types, for any number of workers and any lease duration.
THEOREM TypeCorrect == Spec => []TypeOK
BY InitType, NextType, PTL DEF Spec

-----------------------------------------------------------------------------
(* The fence and the outcome need one fact about time: a call's `now` is    *)
(* never ahead of the clock.                                                *)

NowIsPast == \A w \in Workers : at[w] <= clock

LEMMA NowIsPastInvariant == Spec => []NowIsPast
<1>1. Init => NowIsPast
  <2> SUFFICES ASSUME Init, NEW w \in Workers PROVE at[w] <= clock
    BY DEF NowIsPast
  <2>1. at[w] = 0 /\ clock = 0
    BY DEF Init
  <2>2. QED
    BY <2>1
<1>2. TypeOK /\ NowIsPast /\ [Next]_vars => NowIsPast'
  <2> SUFFICES ASSUME TypeOK, NowIsPast, [Next]_vars PROVE NowIsPast'
    OBVIOUS
  <2>1. clock \in Nat /\ at \in [Workers -> Nat]
    BY DEF TypeOK
  <2>2. /\ clock' \in Nat /\ clock' >= clock
        /\ \/ at' = at
           \/ \E w \in Workers : at' = [at EXCEPT ![w] = clock]
           \/ \E w \in Workers : at' = [at EXCEPT ![w] = 0]
    BY <2>1 DEF Next, vars, Tick, Claim, ClaimStep, ClaimRead, ClaimCreate,
         ClaimTakeover, ClaimLatest, MarkRunning, MarkTerminal, Renew, Prepare,
         CompareAndSwap, Crash, Restart, ReturnLease, ReturnNothing, Return
  <2>3. QED
    BY <2>1, <2>2 DEF NowIsPast
<1>3. QED
  BY <1>1, <1>2, TypeCorrect, PTL DEF Spec

\* How a step may change the stored lease.
LEMMA RowSteps ==
  ASSUME TypeOK, [Next]_vars
  PROVE  \/ row' = row
         \/ row = NoLease /\ row' \in RecoveryLeaseDoc
         \/ \E w \in Workers :
              /\ pc[w] = "takeover"
              /\ doc[w] \in RecoveryLeaseDoc
              /\ ReplaceIfExpired(doc[w], at[w])
              /\ row' = NewLease(w, at[w], doc[w].attempt + 1)
         \/ \E w \in Workers :
              /\ pc[w] = "cas"
              /\ ReplaceIfOwner(doc[w], OwnerOf[w], at[w])
              /\ doc[w] \in RecoveryLeaseDoc
              /\ row' = doc[w]
<1>1. ASSUME NEW w \in Workers, ClaimCreate(w)
      PROVE  row' = row \/ (row = NoLease /\ row' \in RecoveryLeaseDoc)
  <2> at[w] \in Nat
    BY DEF TypeOK
  <2> QED
    BY <1>1, NewLeaseType DEF ClaimCreate
<1>2. ASSUME NEW w \in Workers, pc[w] \in {"takeover", "cas"}
      PROVE  doc[w] \in RecoveryLeaseDoc
  BY <1>2 DEF TypeOK
<1>3. QED
  BY <1>1, <1>2 DEF Next, vars, Tick, Claim, ClaimStep, ClaimRead, ClaimTakeover,
       ClaimLatest, MarkRunning, MarkTerminal, Renew, Prepare, CompareAndSwap,
       Crash, Restart

\* The fence of lease.py and postgres.py, for any number of processes per
\* owner: the stored lease is only ever replaced after its expiry, never when
\* it has an outcome, and each takeover counts one attempt.
THEOREM FenceHolds == Spec => FencedTakeover
<1> DEFINE Fence ==
      row # NoLease /\ (row' = NoLease \/ LeaseId(row') # LeaseId(row)) =>
        /\ row' # NoLease
        /\ row.state \in ACTIVE_STATES
        /\ row.expires <= clock
        /\ row'.attempt = row.attempt + 1
<1>1. TypeOK /\ NowIsPast /\ [Next]_vars => Fence
  <2> SUFFICES ASSUME TypeOK, NowIsPast, [Next]_vars,
                      row # NoLease, row' = NoLease \/ LeaseId(row') # LeaseId(row)
               PROVE  /\ row' # NoLease
                      /\ row.state \in ACTIVE_STATES
                      /\ row.expires <= clock
                      /\ row'.attempt = row.attempt + 1
    OBVIOUS
  <2>1. \A w \in Workers : ~(row' = doc[w] /\ doc[w] \in RecoveryLeaseDoc
                              /\ ReplaceIfOwner(doc[w], OwnerOf[w], at[w]))
    BY DEF ReplaceIfOwner
  <2>2. PICK w \in Workers :
          /\ doc[w] \in RecoveryLeaseDoc
          /\ ReplaceIfExpired(doc[w], at[w])
          /\ row' = NewLease(w, at[w], doc[w].attempt + 1)
    BY <2>1, RowSteps
  <2>3. /\ row \in RecoveryLeaseDoc
        /\ clock \in Nat /\ at[w] \in Nat /\ at[w] <= clock
    BY DEF TypeOK, NowIsPast
  <2>4. row.attempt = doc[w].attempt /\ row.state \in ACTIVE_STATES /\ row.expires <= at[w]
    BY <2>2 DEF ReplaceIfExpired, LeaseId
  <2>5. row' # NoLease /\ row'.attempt = doc[w].attempt + 1
    BY <2>2, <2>3, NewLeaseType DEF NewLease, RecoveryLeaseDoc
  <2>6. QED
    BY <2>3, <2>4, <2>5 DEF RecoveryLeaseDoc
<1>2. QED
  BY <1>1, TypeCorrect, NowIsPastInvariant, PTL DEF Spec, FencedTakeover

\* A recorded outcome is final, whatever claims, renewals and late
\* transitions are still under way when it is stored.
THEOREM OutcomesAreFinal == Spec => OutcomeIsFinal
<1>1. TypeOK /\ [Next]_vars
        => (row # NoLease /\ row.state \in TERMINAL_STATES => row' = row)
  BY RowSteps DEF ReplaceIfExpired, ReplaceIfOwner, IsActiveAt, ACTIVE_STATES,
       TERMINAL_STATES
<1>2. QED
  BY <1>1, TypeCorrect, PTL DEF Spec, OutcomeIsFinal

-----------------------------------------------------------------------------
(* Mutual exclusion.  A worker's copy is either a copy of the stored lease  *)
(* that does not outlive it, or has expired.  That is inductive only with   *)
(* what a pending compare-and-swap will write, with the attempt counts      *)
(* (which keep a lease id from ever coming back), and with bounds on every  *)
(* expiry (a renewal must not shorten the copy).                            *)

CopyFollowsRow ==
  \A w \in Workers : held[w] # NoLease =>
    /\ row # NoLease
    /\ held[w].owner = OwnerOf[w]
    /\ held[w].attempt <= row.attempt
    /\ held[w].expires <= clock + TTL
    /\ \/ LeaseId(held[w]) = LeaseId(row) /\ held[w].expires <= row.expires
       \/ LeaseId(held[w]) # LeaseId(row) /\ held[w].expires <= clock

SwapExtendsCopy ==
  \A w \in Workers : pc[w] = "cas" =>
    /\ held[w] # NoLease
    /\ LeaseId(doc[w]) = LeaseId(held[w])
    /\ held[w].expires <= doc[w].expires
    /\ doc[w].expires <= clock + TTL

RowExpiresSoon == row # NoLease => row.expires <= clock + TTL

Ownership == CopyFollowsRow /\ SwapExtendsCopy /\ RowExpiresSoon

\* One process per owner_id.
OneProcessPerOwner == \A v, w \in Workers : OwnerOf[v] = OwnerOf[w] => v = w

LEMMA NewLeaseFields ==
  ASSUME NEW w \in Workers, NEW t \in Nat, NEW n \in Nat \ {0}
  PROVE  /\ NewLease(w, t, n).owner = OwnerOf[w]
         /\ NewLease(w, t, n).expires = t + TTL
         /\ NewLease(w, t, n).attempt = n
BY DEF NewLease

LEMMA SameLease ==
  ASSUME NEW l \in RecoveryLeaseDoc, NEW m \in RecoveryLeaseDoc, LeaseId(l) = LeaseId(m)
  PROVE  l.owner = m.owner /\ l.acquired = m.acquired /\ l.attempt = m.attempt
BY DEF LeaseId

\* Steps that write no lease and only shorten what is held.
LEMMA QuietStep ==
  ASSUME TypeOK, TypeOK', Ownership, row' = row, clock' >= clock,
         \A w \in Workers :
           /\ held'[w] \in {held[w], NoLease}
           /\ pc'[w] = "cas" => pc[w] = "cas" /\ doc'[w] = doc[w] /\ held'[w] = held[w]
  PROVE  Ownership'
<1>1. clock \in Nat /\ clock' \in Nat
  BY DEF TypeOK
<1>2. \A w \in Workers :
        /\ held[w] # NoLease => held[w] \in RecoveryLeaseDoc
        /\ pc[w] = "cas" => doc[w] \in RecoveryLeaseDoc
  BY DEF TypeOK
<1>3. \A l \in RecoveryLeaseDoc : l.expires \in Nat
  BY DEF RecoveryLeaseDoc
<1>4. row # NoLease => row \in RecoveryLeaseDoc
  BY DEF TypeOK
<1>5. CopyFollowsRow'
  BY <1>1, <1>2, <1>3 DEF Ownership, CopyFollowsRow, LeaseId
<1>6. SwapExtendsCopy'
  BY <1>1, <1>2, <1>3 DEF Ownership, SwapExtendsCopy, LeaseId
<1>7. RowExpiresSoon'
  BY <1>1, <1>3, <1>4 DEF Ownership, RowExpiresSoon
<1>8. QED
  BY <1>5, <1>6, <1>7 DEF Ownership

\* Worker w is handed the stored lease itself: claim finding its own.
LEMMA ReclaimStep ==
  ASSUME TypeOK, TypeOK', Ownership, UNCHANGED <<clock, row>>,
         NEW w \in Workers, row # NoLease, row.owner = OwnerOf[w], ReturnLease(w, row)
  PROVE  Ownership'
<1>1. /\ held' = [held EXCEPT ![w] = row]
      /\ pc' = [pc EXCEPT ![w] = "idle"]
      /\ doc' = [doc EXCEPT ![w] = NoLease]
  BY DEF ReturnLease, Return, Goto
<1>2. row \in RecoveryLeaseDoc /\ row.expires \in Nat /\ row.attempt \in Nat
  BY DEF TypeOK, RecoveryLeaseDoc
<1>3. CopyFollowsRow'
  BY <1>1, <1>2 DEF Ownership, CopyFollowsRow, RowExpiresSoon, TypeOK, LeaseId
<1>4. SwapExtendsCopy'
  BY <1>1 DEF Ownership, SwapExtendsCopy, TypeOK, LeaseId
<1>5. RowExpiresSoon'
  BY DEF Ownership, RowExpiresSoon
<1>6. QED
  BY <1>3, <1>4, <1>5 DEF Ownership

\* A lease is created or taken over: every older copy has expired and can
\* never match the new lease id, because the attempt count has grown.
LEMMA NewLeaseStep ==
  ASSUME TypeOK, TypeOK', Ownership, NowIsPast, UNCHANGED clock,
         NEW w \in Workers, NEW n \in Nat \ {0}, row' = NewLease(w, at[w], n),
         \/ row = NoLease
         \/ row # NoLease /\ row.expires <= clock /\ n = row.attempt + 1,
         pc[w] # "cas",
         ReturnLease(w, row') \/ ReturnNothing(w)
  PROVE  Ownership'
<1>1. /\ held' = held \/ held' = [held EXCEPT ![w] = row']
      /\ pc' = [pc EXCEPT ![w] = "idle"]
      /\ doc' = [doc EXCEPT ![w] = NoLease]
  BY DEF ReturnLease, ReturnNothing, Return, Goto
<1>2. clock \in Nat /\ at[w] \in Nat /\ at[w] <= clock
  BY DEF TypeOK, NowIsPast
<1>3. /\ row' \in RecoveryLeaseDoc /\ row' # NoLease
      /\ row'.owner = OwnerOf[w]
      /\ row'.expires = at[w] + TTL
      /\ row'.attempt = n
  BY <1>2, NewLeaseType, NewLeaseFields
<1>4. ASSUME NEW v \in Workers, held[v] # NoLease
      PROVE  /\ held[v] \in RecoveryLeaseDoc
             /\ held[v].owner = OwnerOf[v]
             /\ held[v].expires \in Nat /\ held[v].attempt \in Nat
             /\ held[v].expires <= clock
             /\ held[v].attempt < n
             /\ LeaseId(held[v]) # LeaseId(row')
  <2>1. /\ held[v] \in RecoveryLeaseDoc
        /\ held[v].expires \in Nat /\ held[v].attempt \in Nat
    BY <1>4 DEF TypeOK, RecoveryLeaseDoc
  <2>2. row # NoLease /\ held[v].attempt <= row.attempt /\ held[v].owner = OwnerOf[v]
    BY <1>4 DEF Ownership, CopyFollowsRow
  <2>3. row.expires \in Nat /\ row.attempt \in Nat
    BY <2>2 DEF TypeOK, RecoveryLeaseDoc
  <2>4. held[v].expires <= clock
    BY <1>2, <1>4, <2>1, <2>2, <2>3 DEF Ownership, CopyFollowsRow
  <2>5. held[v].attempt < n
    BY <2>1, <2>2, <2>3
  <2>6. LeaseId(held[v]) # LeaseId(row')
    BY <1>3, <2>1, <2>5 DEF LeaseId
  <2>7. QED
    BY <2>1, <2>2, <2>4, <2>5, <2>6
<1>5. ASSUME NEW v \in Workers, held'[v] # NoLease
      PROVE  /\ row' # NoLease
             /\ held'[v].owner = OwnerOf[v]
             /\ held'[v].attempt <= row'.attempt
             /\ held'[v].expires <= clock' + TTL
             /\ \/ LeaseId(held'[v]) = LeaseId(row') /\ held'[v].expires <= row'.expires
                \/ LeaseId(held'[v]) # LeaseId(row') /\ held'[v].expires <= clock'
  <2>1. CASE held'[v] = held[v]
    BY <1>2, <1>3, <1>4, <1>5, <2>1
  <2>2. CASE v = w /\ held'[v] = row'
    BY <1>2, <1>3, <2>2
  <2>3. QED
    BY <1>1, <2>1, <2>2 DEF TypeOK
<1>6. CopyFollowsRow'
  BY <1>5 DEF CopyFollowsRow, LeaseId
<1>7. SwapExtendsCopy'
  BY <1>1 DEF Ownership, SwapExtendsCopy, TypeOK, LeaseId
<1>8. RowExpiresSoon'
  BY <1>2, <1>3 DEF RowExpiresSoon
<1>9. QED
  BY <1>6, <1>7, <1>8 DEF Ownership

\* A transition starts: what it will write carries the copy's lease id and
\* expires no earlier than the copy.
LEMMA PrepareStep ==
  ASSUME TypeOK, TypeOK', Ownership, NEW w \in Workers, NEW l \in RecoveryLeaseDoc,
         Prepare(w, l), LeaseId(l) = LeaseId(held[w]),
         held[w].expires <= l.expires, l.expires <= clock + TTL
  PROVE  Ownership'
<1>1. /\ UNCHANGED <<clock, row, held>>
      /\ pc' = [pc EXCEPT ![w] = "cas"]
      /\ doc' = [doc EXCEPT ![w] = l]
      /\ held[w] # NoLease
  BY DEF Prepare, Goto
<1>2. CopyFollowsRow' /\ RowExpiresSoon'
  BY <1>1 DEF Ownership, CopyFollowsRow, RowExpiresSoon, LeaseId
<1>3. SwapExtendsCopy'
  BY <1>1 DEF Ownership, SwapExtendsCopy, TypeOK, LeaseId
<1>4. QED
  BY <1>2, <1>3 DEF Ownership

\* A compare-and-swap commits: only the owner's one process can hold a copy of
\* the lease it rewrites, and that copy does not outlive what is written.
LEMMA SwapStep ==
  ASSUME OneProcessPerOwner, TypeOK, TypeOK', Ownership, UNCHANGED clock,
         NEW w \in Workers, pc[w] = "cas",
         ReplaceIfOwner(doc[w], OwnerOf[w], at[w]), row' = doc[w],
         ReturnLease(w, doc[w]) \/ ReturnNothing(w)
  PROVE  Ownership'
<1>1. /\ held' = held \/ held' = [held EXCEPT ![w] = doc[w]]
      /\ pc' = [pc EXCEPT ![w] = "idle"]
      /\ doc' = [doc EXCEPT ![w] = NoLease]
  BY DEF ReturnLease, ReturnNothing, Return, Goto
<1>2. doc[w] \in RecoveryLeaseDoc /\ doc[w] # NoLease
  BY DEF TypeOK
<1>3. /\ row \in RecoveryLeaseDoc /\ row # NoLease
      /\ LeaseId(row) = LeaseId(doc[w]) /\ row.owner = OwnerOf[w]
  BY DEF ReplaceIfOwner, TypeOK
<1>4. /\ held[w] # NoLease /\ held[w] \in RecoveryLeaseDoc
      /\ LeaseId(doc[w]) = LeaseId(held[w])
      /\ held[w].expires <= doc[w].expires
      /\ doc[w].expires <= clock + TTL
  BY DEF Ownership, SwapExtendsCopy, TypeOK
<1>5. doc[w].attempt = row.attempt /\ doc[w].owner = row.owner
  BY <1>2, <1>3, SameLease
<1>6. clock \in Nat /\ \A l \in RecoveryLeaseDoc : l.expires \in Nat /\ l.attempt \in Nat
  BY DEF TypeOK, RecoveryLeaseDoc
<1>7. ASSUME NEW v \in Workers, held'[v] # NoLease
      PROVE  /\ row' # NoLease
             /\ held'[v].owner = OwnerOf[v]
             /\ held'[v].attempt <= row'.attempt
             /\ held'[v].expires <= clock' + TTL
             /\ \/ LeaseId(held'[v]) = LeaseId(row') /\ held'[v].expires <= row'.expires
                \/ LeaseId(held'[v]) # LeaseId(row') /\ held'[v].expires <= clock'
  <2>1. CASE v = w /\ held'[v] = doc[w]
    BY <1>2, <1>3, <1>4, <1>5, <1>6, <2>1
  <2>2. CASE v = w /\ held'[v] = held[v]
    BY <1>2, <1>3, <1>4, <1>5, <1>6, <2>2 DEF Ownership, CopyFollowsRow
  <2>3. CASE v # w
    <3>1. held'[v] = held[v] /\ held[v] \in RecoveryLeaseDoc
      BY <1>1, <1>7, <2>3 DEF TypeOK
    <3>2. held[v].owner = OwnerOf[v]
      BY <1>7, <3>1 DEF Ownership, CopyFollowsRow
    <3>3. LeaseId(held[v]) # LeaseId(row)
      BY <1>3, <2>3, <3>1, <3>2, SameLease DEF OneProcessPerOwner
    <3>4. held[v].expires <= clock /\ held[v].attempt <= row.attempt
      BY <1>7, <3>1, <3>3 DEF Ownership, CopyFollowsRow
    <3>5. QED
      BY <1>2, <1>3, <1>5, <1>6, <3>1, <3>2, <3>3, <3>4
  <2>4. QED
    BY <1>1, <2>1, <2>2, <2>3 DEF TypeOK
<1>8. CopyFollowsRow'
  BY <1>7 DEF CopyFollowsRow, LeaseId
<1>9. SwapExtendsCopy'
  BY <1>1 DEF Ownership, SwapExtendsCopy, TypeOK, LeaseId
<1>10. RowExpiresSoon'
  BY <1>4 DEF RowExpiresSoon
<1>11. QED
  BY <1>8, <1>9, <1>10 DEF Ownership

LEMMA OwnershipNext ==
  ASSUME OneProcessPerOwner
  PROVE  TypeOK /\ TypeOK' /\ NowIsPast /\ Ownership /\ [Next]_vars => Ownership'
<1> SUFFICES ASSUME TypeOK, TypeOK', NowIsPast, Ownership, [Next]_vars PROVE Ownership'
  OBVIOUS
<1>1. clock \in Nat
  BY DEF TypeOK
<1>2. ASSUME NEW w \in Workers, held[w] # NoLease
      PROVE  /\ held[w] \in RecoveryLeaseDoc /\ held[w].expires \in Nat
             /\ held[w].expires <= clock + TTL
  BY <1>2 DEF TypeOK, RecoveryLeaseDoc, Ownership, CopyFollowsRow
<1>3. ASSUME NEW w \in Workers, UNCHANGED <<clock, row>>, ReturnNothing(w) PROVE Ownership'
  BY <1>1, <1>3, QuietStep DEF ReturnNothing, Return, Goto, TypeOK
<1>4. CASE UNCHANGED vars
  BY <1>1, <1>4, QuietStep DEF vars
<1>5. CASE Tick
  BY <1>1, <1>5, QuietStep DEF Tick
<1>6. ASSUME NEW w \in Workers, Claim(w) PROVE Ownership'
  BY <1>1, <1>6, QuietStep DEF Claim, Goto, TypeOK
<1>7. ASSUME NEW w \in Workers, ClaimRead(w) PROVE Ownership'
  <2>1. UNCHANGED <<clock, row>>
    BY <1>7 DEF ClaimRead
  <2>2. CASE ReturnNothing(w)
    BY <1>3, <2>1, <2>2
  <2>3. CASE row # NoLease /\ row.owner = OwnerOf[w] /\ ReturnLease(w, row)
    BY <2>1, <2>3, ReclaimStep
  <2>4. CASE Goto(w, "create") /\ UNCHANGED <<held, at, doc>>
    BY <1>1, <2>1, <2>4, QuietStep DEF Goto, TypeOK
  <2>5. CASE Goto(w, "takeover") /\ UNCHANGED held /\ doc' = [doc EXCEPT ![w] = row]
    BY <1>1, <2>1, <2>5, QuietStep DEF Goto, TypeOK
  <2>6. QED
    BY <1>7, <2>2, <2>3, <2>4, <2>5 DEF ClaimRead
<1>8. ASSUME NEW w \in Workers, ClaimCreate(w) PROVE Ownership'
  <2>1. CASE row = NoLease
    BY <1>8, <2>1, NewLeaseStep DEF ClaimCreate
  <2>2. CASE row # NoLease
    BY <1>1, <1>8, <2>2, QuietStep DEF ClaimCreate, Goto, TypeOK
  <2>3. QED
    BY <2>1, <2>2
<1>9. ASSUME NEW w \in Workers, ClaimTakeover(w) PROVE Ownership'
  <2>1. CASE ReplaceIfExpired(doc[w], at[w])
    <3>1. doc[w] \in RecoveryLeaseDoc /\ pc[w] = "takeover"
      BY <1>9 DEF ClaimTakeover, TypeOK
    <3>2. /\ row # NoLease /\ row \in RecoveryLeaseDoc
          /\ LeaseId(row) = LeaseId(doc[w]) /\ row.expires <= at[w]
      BY <2>1 DEF ReplaceIfExpired, TypeOK
    <3>3. row.attempt = doc[w].attempt /\ row.attempt + 1 \in Nat \ {0}
      BY <3>1, <3>2, SameLease DEF RecoveryLeaseDoc
    <3>4. row.expires <= clock
      BY <1>1, <3>2 DEF NowIsPast, TypeOK, RecoveryLeaseDoc
    <3>5. QED
      BY <1>9, <2>1, <3>1, <3>2, <3>3, <3>4, NewLeaseStep DEF ClaimTakeover
  <2>2. CASE ~ReplaceIfExpired(doc[w], at[w])
    BY <1>1, <1>9, <2>2, QuietStep DEF ClaimTakeover, Goto, TypeOK
  <2>3. QED
    BY <2>1, <2>2
<1>10. ASSUME NEW w \in Workers, ClaimLatest(w) PROVE Ownership'
  BY <1>3, <1>10, ReclaimStep DEF ClaimLatest
<1>11. ASSUME NEW w \in Workers, MarkRunning(w) \/ MarkTerminal(w) PROVE Ownership'
  <2>1. PICK s \in LEASE_STATES : Prepare(w, [held[w] EXCEPT !.state = s])
    BY <1>11 DEF MarkRunning, MarkTerminal, LEASE_STATES, ACTIVE_STATES
  <2>2. held[w] # NoLease
    BY <2>1 DEF Prepare
  <2>3. [held[w] EXCEPT !.state = s] \in RecoveryLeaseDoc
    BY <1>2, <2>2, TransitionType
  <2>4. /\ LeaseId([held[w] EXCEPT !.state = s]) = LeaseId(held[w])
        /\ [held[w] EXCEPT !.state = s].expires = held[w].expires
    BY <1>2, <2>2 DEF LeaseId, RecoveryLeaseDoc
  <2> DEFINE l == [held[w] EXCEPT !.state = s]
  <2>5. /\ l \in RecoveryLeaseDoc /\ Prepare(w, l) /\ LeaseId(l) = LeaseId(held[w])
        /\ held[w].expires <= l.expires /\ l.expires <= clock + TTL
    BY <1>1, <1>2, <2>1, <2>2, <2>3, <2>4
  <2> HIDE DEF l
  <2>6. QED
    BY <2>5, PrepareStep
<1>12. ASSUME NEW w \in Workers, Renew(w) PROVE Ownership'
  <2>1. held[w] # NoLease /\ Prepare(w, [held[w] EXCEPT !.expires = clock + TTL])
    BY <1>12 DEF Renew
  <2>2. clock + TTL \in Nat
    BY <1>1
  <2>3. [held[w] EXCEPT !.expires = clock + TTL] \in RecoveryLeaseDoc
    BY <1>2, <2>1, <2>2 DEF RecoveryLeaseDoc
  <2>4. /\ LeaseId([held[w] EXCEPT !.expires = clock + TTL]) = LeaseId(held[w])
        /\ [held[w] EXCEPT !.expires = clock + TTL].expires = clock + TTL
    BY <1>2, <2>1 DEF LeaseId, RecoveryLeaseDoc
  <2> DEFINE l == [held[w] EXCEPT !.expires = clock + TTL]
  <2>5. /\ l \in RecoveryLeaseDoc /\ Prepare(w, l) /\ LeaseId(l) = LeaseId(held[w])
        /\ held[w].expires <= l.expires /\ l.expires <= clock + TTL
    BY <1>1, <1>2, <2>1, <2>2, <2>3, <2>4
  <2> HIDE DEF l
  <2>6. QED
    BY <2>5, PrepareStep
<1>13. ASSUME NEW w \in Workers, CompareAndSwap(w) PROVE Ownership'
  <2>1. CASE ReplaceIfOwner(doc[w], OwnerOf[w], at[w])
    BY <1>13, <2>1, SwapStep DEF CompareAndSwap
  <2>2. CASE ~ReplaceIfOwner(doc[w], OwnerOf[w], at[w])
    BY <1>3, <1>13, <2>2 DEF CompareAndSwap
  <2>3. QED
    BY <2>1, <2>2
<1>14. ASSUME NEW w \in Workers, Crash(w) \/ Restart(w) PROVE Ownership'
  BY <1>1, <1>14, QuietStep DEF Crash, Restart, Goto, TypeOK
<1>15. QED
  BY <1>4, <1>5, <1>6, <1>7, <1>8, <1>9, <1>10, <1>11, <1>12, <1>13, <1>14
     DEF Next, ClaimStep

\* "Exactly one coordinator must own a recovery job": coordinators with one
\* process per owner_id never both believe in an unexpired lease, for any
\* number of them, any lease duration and any interleaving of backend calls,
\* lost responses and crashes.
THEOREM OneCoordinatorOwns ==
  ASSUME OneProcessPerOwner
  PROVE  Spec => []MutualExclusion
<1>1. Init => Ownership
  BY DEF Init, Ownership, CopyFollowsRow, SwapExtendsCopy, RowExpiresSoon
<1>2. TypeOK /\ Ownership => MutualExclusion
  <2> SUFFICES ASSUME TypeOK, Ownership, NEW v \in Workers, NEW w \in Workers,
                      BelievesOwner(v), BelievesOwner(w)
               PROVE  OwnerOf[v] = OwnerOf[w]
    BY DEF MutualExclusion
  <2>1. ASSUME NEW u \in Workers, BelievesOwner(u)
        PROVE  row \in RecoveryLeaseDoc /\ OwnerOf[u] = row.owner
    <3>1. held[u] \in RecoveryLeaseDoc /\ held[u] # NoLease /\ held[u].expires > clock
      BY <2>1 DEF BelievesOwner, IsActiveAt, TypeOK
    <3>2. clock \in Nat /\ held[u].expires \in Nat
      BY <3>1 DEF TypeOK, RecoveryLeaseDoc
    <3>3. /\ row # NoLease /\ held[u].owner = OwnerOf[u]
          /\ LeaseId(held[u]) = LeaseId(row)
      BY <3>1, <3>2 DEF Ownership, CopyFollowsRow
    <3>4. QED
      BY <3>1, <3>3, SameLease DEF TypeOK
  <2>2. QED
    BY <2>1
<1>3. QED
  BY <1>1, <1>2, OwnershipNext, TypeCorrect, NowIsPastInvariant, PTL DEF Spec

-----------------------------------------------------------------------------
(***************************************************************************)
(* The receipts and the plans made of them.                                *)
(***************************************************************************)

\* A manifest that a receipt of issue i may name: none, or one of the bucket,
\* of that issue.
Names(m, i) == m = None \/ (m \in manifest /\ IssueOf[m] = i)

\* What a run that records has in hand.
Recording(r) ==
  work[r].pc = "record" =>
    work[r].todo \subseteq SlotsOf(IssueOf[r]) /\ (work[r].observed => r \in manifest)

\* What the reconciliation has in hand: the proofs it found when it started.
Reconciling ==
  /\ rec.pc \in {"next", "write"} => rec.todo \subseteq Slot /\ \A i \in Issue : Names(rec.proof[i], i)
  /\ rec.pc = "write" => rec.slot \in Slot

\* The bookkeeping of the runs is a record each.
Works ==
  work = [r \in Run |-> [pc |-> work[r].pc, boundary |-> work[r].boundary,
                         observed |-> work[r].observed, todo |-> work[r].todo]]

ReceiptInv ==
  /\ manifest \subseteq Run
  /\ Works
  /\ rec = [pc |-> rec.pc, now |-> rec.now, todo |-> rec.todo, plan |-> rec.plan,
            proof |-> rec.proof, slot |-> rec.slot]
  /\ \A e \in events : e.slot \in Slot /\ Names(e.manifest, e.slot[1])
  /\ \A r \in Run : Recording(r)
  /\ Reconciling

LEMMA SlotIssue ==
  ASSUME NEW i \in Issue, NEW s \in SlotsOf(i)
  PROVE  s \in Slot /\ s[1] = i
BY DEF SlotsOf, Slot

\* A step that leaves the receipts and only adds manifests keeps what they name.
LEMMA NamesStay ==
  ASSUME NEW m, NEW i, Names(m, i), manifest \subseteq manifest'
  PROVE  Names(m, i)'
BY DEF Names

\* A step that touches the bookkeeping of one run only.
OnlyOf(r) ==
  /\ \A q \in Run \ {r} : work'[q] = work[q]
  /\ work' = [q \in Run |-> work'[q]]
  /\ work'[r] = [pc |-> work'[r].pc, boundary |-> work'[r].boundary,
                 observed |-> work'[r].observed, todo |-> work'[r].todo]

\* A step of one run: it adds at most its own manifest, and receipts that name
\* manifests of the bucket, of their issue.
LEMMA RunKeeps ==
  ASSUME ReceiptInv, NEW r \in Run,
         manifest' \in {manifest, manifest \cup {r}},
         UNCHANGED rec,
         \A e \in events' \ events : e.slot \in Slot /\ Names(e.manifest, e.slot[1]),
         OnlyOf(r),
         Recording(r)'
  PROVE  ReceiptInv'
<1>1. manifest \subseteq manifest' /\ manifest' \subseteq Run
  BY DEF ReceiptInv
<1>2. \A e \in events' : e.slot \in Slot /\ Names(e.manifest, e.slot[1])'
  BY <1>1, NamesStay DEF ReceiptInv
<1>3. ASSUME NEW q \in Run PROVE Recording(q)'
  BY <1>1, <1>3 DEF ReceiptInv, Recording, OnlyOf
<1>4. Reconciling'
  BY <1>1, NamesStay DEF ReceiptInv, Reconciling
<1>5. Works'
  <2>1. \A q \in Run : work'[q] = [pc |-> work'[q].pc, boundary |-> work'[q].boundary,
                                   observed |-> work'[q].observed, todo |-> work'[q].todo]
    BY DEF ReceiptInv, Works, OnlyOf
  <2>2. QED
    BY <2>1 DEF Works, OnlyOf
<1>6. QED
  BY <1>1, <1>2, <1>3, <1>4, <1>5 DEF ReceiptInv

\* What a run records names its own manifest, or none.
LEMMA OutcomeNames ==
  ASSUME ReceiptInv, NEW r \in Run, NEW s \in work[r].todo, work[r].pc = "record"
  PROVE  LET e == RunOutcome(r, s) IN e.slot \in Slot /\ Names(e.manifest, e.slot[1])
<1>1. s \in Slot /\ s[1] = IssueOf[r]
  BY SlotIssue, SlotAssumption DEF ReceiptInv, Recording
<1>2. RunOutcome(r, s).slot = s /\ RunOutcome(r, s).manifest \in {r, ProofOf(r)}
  BY DEF RunOutcome, Outcome
<1>3. work[r].observed => RunOutcome(r, s).manifest = r /\ r \in manifest
  BY DEF RunOutcome, Outcome, ReceiptInv, Recording
<1>4. ~work[r].observed => RunOutcome(r, s).manifest = ProofOf(r)
  BY DEF RunOutcome, Outcome
<1>5. Names(RunOutcome(r, s).manifest, IssueOf[r])
  BY <1>3, <1>4 DEF Names, ProofOf
<1>6. QED
  BY <1>1, <1>2, <1>5

LEMMA SlotWritten ==
  ASSUME Works, NEW r \in Run, NEW s, NEW next, WroteSlot(r, s, next)
  PROVE  /\ OnlyOf(r)
         /\ work'[r].pc \in {next, work[r].pc}
         /\ work'[r].observed = work[r].observed
         /\ work'[r].todo = work[r].todo \ {s}
<1>1. PICK to \in {next, work[r].pc} : work' = [work EXCEPT ![r].todo = @ \ {s}, ![r].pc = to]
  BY Zenon DEF WroteSlot
<1>2. PICK rest : rest = work[r].todo \ {s} /\ work' = [work EXCEPT ![r].todo = rest, ![r].pc = to]
  BY <1>1, Zenon
<1>3. /\ \A q \in Run \ {r} : work'[q] = work[q]
      /\ work' = [q \in Run |-> work'[q]]
  BY <1>2 DEF Works
<1>4. work'[r] = [pc |-> work'[r].pc, boundary |-> work'[r].boundary,
                 observed |-> work'[r].observed, todo |-> work'[r].todo]
  BY <1>2 DEF Works
<1>5. work'[r].pc = to
  <2>1. PICK mid : mid = [work EXCEPT ![r].todo = rest] /\ work' = [mid EXCEPT ![r].pc = to]
    BY <1>2, Zenon
  <2>2. r \in DOMAIN mid
    BY <2>1 DEF Works
  <2>3. mid[r] = [work[r] EXCEPT !.todo = rest]
    BY <2>1 DEF Works
  <2>4. "pc" \in DOMAIN mid[r]
    BY <2>3 DEF Works
  <2>5. work'[r] = [mid[r] EXCEPT !.pc = to]
    BY <2>1, <2>2
  <2>6. QED
    BY <2>4, <2>5
<1>6. work'[r].observed = work[r].observed
  BY <1>2 DEF Works
<1>7. work'[r].todo = rest
  BY <1>2 DEF Works
<1>8. QED
  BY <1>1, <1>2, <1>3, <1>4, <1>5, <1>6, <1>7 DEF OnlyOf

LEMMA RunStepKeeps == ASSUME ReceiptInv, NEW r \in Run, CollectorStep(r) PROVE ReceiptInv'
<1>1. ASSUME NEW to, GoTo(r, to), to # "record", manifest' \in {manifest, manifest \cup {r}},
             UNCHANGED <<rec, events>>
      PROVE  ReceiptInv'
  <2>1. OnlyOf(r) /\ work'[r].pc = to
    BY <1>1 DEF GoTo, ReceiptInv, Works, OnlyOf
  <2>2. QED
    BY <1>1, <2>1, RunKeeps DEF Recording
<1>2. CASE PlanSlots(r)
  <2>1. OnlyOf(r) /\ work'[r].pc = "plan"
    <3>1. \A q \in Run \ {r} : work'[q] = work[q]
      BY <1>2 DEF PlanSlots, ReceiptInv, Works
    <3>2. work' = [q \in Run |-> work'[q]]
      BY <1>2 DEF PlanSlots, ReceiptInv, Works
    <3>3. work'[r] = [pc |-> work'[r].pc, boundary |-> work'[r].boundary,
                     observed |-> work'[r].observed, todo |-> work'[r].todo]
      BY <1>2 DEF PlanSlots, ReceiptInv, Works
    <3>4. work'[r].pc = "plan"
      BY <1>2 DEF PlanSlots, ReceiptInv, Works
    <3>5. QED
      BY <3>1, <3>2, <3>3, <3>4 DEF OnlyOf
  <2>2. UNCHANGED <<rec, events, manifest>>
    BY <1>2 DEF PlanSlots
  <2>3. QED
    BY <2>1, <2>2, RunKeeps DEF Recording
<1>3. CASE DeclareSlot(r)
  <2>1. UNCHANGED <<rec, events, manifest>> /\ work[r].pc = "plan"
    BY <1>3 DEF DeclareSlot
  <2>2. CASE GoTo(r, "ended")
    BY <1>1, <2>1, <2>2
  <2>3. ASSUME NEW s, WroteSlot(r, s, "land") PROVE ReceiptInv'
    BY <2>1, <2>3, SlotWritten, RunKeeps DEF Recording, ReceiptInv
  <2>4. QED
    BY <1>3, <2>2, <2>3 DEF DeclareSlot
<1>4. ASSUME NEW ok \in BOOLEAN, Ends(r, ok), manifest' \in {manifest, manifest \cup {r}},
             ok => r \in manifest', UNCHANGED <<rec, events>>
      PROVE  ReceiptInv'
  <2>1. OnlyOf(r) /\ work'[r].observed = ok /\ work'[r].todo = SlotsOf(IssueOf[r])
    <3>1. \A q \in Run \ {r} : work'[q] = work[q]
      BY <1>4 DEF Ends, ReceiptInv, Works
    <3>2. work' = [q \in Run |-> work'[q]]
      BY <1>4 DEF Ends, ReceiptInv, Works
    <3>3. work'[r] = [pc |-> work'[r].pc, boundary |-> work'[r].boundary,
                     observed |-> work'[r].observed, todo |-> work'[r].todo]
      BY <1>4 DEF Ends, ReceiptInv, Works
    <3>4. work'[r].observed = ok /\ work'[r].todo = SlotsOf(IssueOf[r])
      BY <1>4 DEF Ends, ReceiptInv, Works
    <3>5. QED
      BY <3>1, <3>2, <3>3, <3>4 DEF OnlyOf
  <2>2. QED
    BY <1>4, <2>1, RunKeeps DEF Recording
<1>5. CASE Collect(r)
  BY <1>4, <1>5 DEF Collect
<1>6. CASE RecordOutcome(r)
  <2>1. PICK s \in NextSlot(r) : events' = events \cup {RunOutcome(r, s)} /\ WroteSlot(r, s, "ended")
    BY <1>6 DEF RecordOutcome
  <2>2. s \in work[r].todo /\ work[r].pc = "record" /\ UNCHANGED <<rec, manifest>>
    BY <1>6, <2>1 DEF RecordOutcome, NextSlot
  <2>3. \A e \in events' \ events : e.slot \in Slot /\ Names(e.manifest, e.slot[1])
    BY <2>1, <2>2, OutcomeNames
  <2>4. OnlyOf(r) /\ work'[r].observed = work[r].observed /\ work'[r].todo = work[r].todo \ {s}
    BY <2>1, SlotWritten DEF ReceiptInv
  <2>5. Recording(r)'
    BY <2>2, <2>4 DEF Recording, ReceiptInv
  <2>6. QED
    BY <2>2, <2>3, <2>4, <2>5, RunKeeps
<1>7. CASE RecordFails(r)
  BY <1>4, <1>7 DEF RecordFails
<1>8. CASE RunDies(r)
  BY <1>1, <1>8 DEF RunDies
<1>9. CASE ReplayRaw(r)
  BY <1>1, <1>9 DEF ReplayRaw
<1>10. QED
  BY <1>2, <1>3, <1>5, <1>6, <1>7, <1>8, <1>9 DEF CollectorStep

\* A step of the reconciliation: it adds receipts that name a proof it found.
LEMMA ReconcileKeeps ==
  ASSUME ReceiptInv, Reconcile \/ ReconcilerDies
  PROVE  ReceiptInv'
<1>1. UNCHANGED <<manifest, work>>
  BY DEF Reconcile, StartReconciliation, CheckSlot, WriteMissing, ReconcilerDies
<1>2. ASSUME \A e \in events' \ events : e.slot \in Slot /\ Names(e.manifest, e.slot[1]), Reconciling',
             rec' = [pc |-> rec'.pc, now |-> rec'.now, todo |-> rec'.todo, plan |-> rec'.plan,
                     proof |-> rec'.proof, slot |-> rec'.slot]
      PROVE  ReceiptInv'
  BY <1>1, <1>2 DEF ReceiptInv, Works, Names, Recording
<1>3. CASE rec' = NoReconciliation /\ UNCHANGED events
  BY <1>2, <1>3 DEF NoReconciliation, Reconciling
<1>4. CASE StartReconciliation
  <2>1. /\ rec'.todo = Known(Candidates)
        /\ rec'.proof = [i \in Issue |-> IF Proves(i, Candidates) = {} THEN None
                                         ELSE CHOOSE r \in Proves(i, Candidates) : TRUE]
        /\ rec' = [pc |-> rec'.pc, now |-> rec'.now, todo |-> rec'.todo, plan |-> rec'.plan,
                   proof |-> rec'.proof, slot |-> rec'.slot]
        /\ rec'.pc = "next" /\ UNCHANGED <<events, manifest>>
    BY <1>4 DEF StartReconciliation
  <2>2. ASSUME NEW i \in Issue PROVE Names(rec'.proof[i], i)
    <3>1. CASE Proves(i, Candidates) = {}
      BY <2>1, <3>1 DEF Names
    <3>2. CASE Proves(i, Candidates) # {}
      <4>1. rec'.proof[i] \in Proves(i, Candidates)
        BY <2>1, <3>2
      <4>2. QED
        BY <4>1 DEF Names, Proves
    <3>3. QED
      BY <3>1, <3>2
  <2>3. Reconciling'
    BY <2>1, <2>2 DEF Reconciling, Known, Names
  <2>4. QED
    BY <1>2, <2>1, <2>3
<1>5. CASE CheckSlot
  <2>1. rec.pc = "next" /\ UNCHANGED events
    BY <1>5 DEF CheckSlot
  <2>2. CASE rec' = NoReconciliation
    BY <1>3, <2>1, <2>2
  <2>3. ASSUME NEW s \in Oldest,
               \/ rec' = [rec EXCEPT !.todo = @ \ {s}]
               \/ rec' = [rec EXCEPT !.pc = "write", !.slot = s]
        PROVE  ReceiptInv'
    <3>1. s \in rec.todo
      BY DEF Oldest
    <3>2. CASE rec' = [rec EXCEPT !.todo = @ \ {s}]
      <4>1. rec' = [pc |-> "next", now |-> rec.now, todo |-> rec.todo \ {s}, plan |-> rec.plan,
                    proof |-> rec.proof, slot |-> rec.slot]
        BY <2>1, <3>2 DEF ReceiptInv
      <4>2. Reconciling'
        BY <1>1, <2>1, <4>1 DEF Reconciling, Names, ReceiptInv
      <4>3. QED
        BY <1>2, <2>1, <4>1, <4>2
    <3>3. CASE rec' = [rec EXCEPT !.pc = "write", !.slot = s]
      <4>1. rec' = [pc |-> "write", now |-> rec.now, todo |-> rec.todo, plan |-> rec.plan,
                    proof |-> rec.proof, slot |-> s]
        BY <2>1, <3>3 DEF ReceiptInv
      <4>2. Reconciling'
        BY <1>1, <2>1, <3>1, <4>1 DEF Reconciling, Names, ReceiptInv
      <4>3. QED
        BY <1>2, <2>1, <4>1, <4>2
    <3>4. QED
      BY <2>3, <3>2, <3>3
  <2>4. QED
    BY <1>5, <2>2, <2>3 DEF CheckSlot
<1>6. CASE WriteMissing
  <2>1. rec.pc = "write" /\ rec.slot \in Slot /\ Names(rec.proof[rec.slot[1]], rec.slot[1])
    BY <1>6 DEF WriteMissing, ReceiptInv, Reconciling, Slot
  <2>2. MissingOutcome.slot = rec.slot /\ MissingOutcome.manifest = rec.proof[rec.slot[1]]
    BY DEF MissingOutcome, Outcome
  <2>3. \A e \in events' \ events : e.slot \in Slot /\ Names(e.manifest, e.slot[1])
    BY <1>6, <2>1, <2>2 DEF WriteMissing
  <2>4. CASE rec' = NoReconciliation
    BY <1>2, <2>3, <2>4 DEF NoReconciliation, Reconciling
  <2>5. CASE rec' = [rec EXCEPT !.pc = "next", !.todo = @ \ {rec.slot}, !.slot = None]
    <3>1. rec' = [pc |-> "next", now |-> rec.now, todo |-> rec.todo \ {rec.slot}, plan |-> rec.plan,
                  proof |-> rec.proof, slot |-> None]
      BY <2>5 DEF ReceiptInv
    <3>2. Reconciling'
      BY <1>1, <2>1, <3>1 DEF Reconciling, Names, ReceiptInv
    <3>3. QED
      BY <1>2, <2>3, <3>1, <3>2
  <2>6. QED
    BY <1>6, <2>4, <2>5 DEF WriteMissing
<1>7. CASE ReconcilerDies
  BY <1>3, <1>7 DEF ReconcilerDies
<1>8. QED
  BY <1>4, <1>5, <1>6, <1>7 DEF Reconcile

LEMMA ReceiptNext == ReceiptInv /\ [ReceiptStep]_receiptVars => ReceiptInv'
<1> SUFFICES ASSUME ReceiptInv, [ReceiptStep]_receiptVars PROVE ReceiptInv'
  OBVIOUS
<1>1. CASE UNCHANGED <<events, manifest, work, rec>>
  BY <1>1 DEF ReceiptInv, Works, Names, Recording, Reconciling
<1>2. ASSUME NEW r \in Run, CollectorStep(r) PROVE ReceiptInv'
  BY <1>2, RunStepKeeps
<1>3. CASE Advance \/ ChangePolicy \/ UNCHANGED receiptVars
  BY <1>1, <1>3 DEF Advance, ChangePolicy, receiptVars
<1>4. QED
  BY <1>2, <1>3, ReconcileKeeps DEF ReceiptStep

\* The planner lists the receipts of a state that satisfies the invariant: what
\* is pending was observed by nobody, and what a replay is planned over names
\* one manifest of the bucket.
LEMMA PlansOfReceipts == ReceiptInv => PlansAreSound
<1> SUFFICES ASSUME ReceiptInv, NEW p \in Plans
             PROVE  /\ \A i \in DOMAIN p.replay : \A s \in p.replay[i] : ~Observed(s)
                    /\ \A i \in DOMAIN p.recollect : \A s \in p.recollect[i] : ~Observed(s)
                    /\ \A i \in DOMAIN p.replay :
                         \E r \in manifest : IssueOf[r] = i /\ \A s \in p.replay[i] : Cites(s, r)
  BY DEF PlansAreSound
<1>0. PICK listed \in SUBSET Declared : \E pick \in LatestPicks(listed) : p = PlanOf(listed, pick)
  BY DEF Plans
<1>1. PICK pick \in LatestPicks(listed) : p = PlanOf(listed, pick)
  BY <1>0
<1> DEFINE eligible == {i \in Issue : Eligible(i, listed)}
           replayable == {i \in eligible : Replayable(Pending(i, listed), pick)}
           recollectable == {i \in eligible \ replayable : Recollectable(Pending(i, listed), pick)}
           replay == FirstOf(replayable, MaxJobs)
           room == MaxJobs - Cardinality(replay)
           recollect == FirstOf(recollectable, IF room < MaxApiJobs THEN room ELSE MaxApiJobs)
<1>2. /\ p.replay = [i \in replay |-> Pending(i, listed)]
      /\ p.recollect = [i \in recollect |-> Pending(i, listed)]
  BY <1>1 DEF PlanOf
<1>3. replay \subseteq replayable
  BY DEF FirstOf
<1>4. ASSUME NEW i, NEW s \in Pending(i, listed) PROVE ~Observed(s)
  BY DEF Pending, Collected, Observed, EventsOf
<1>5. ASSUME NEW i \in replay
      PROVE  \E r \in manifest : IssueOf[r] = i /\ \A s \in Pending(i, listed) : Cites(s, r)
  <2>1. i \in Issue /\ Pending(i, listed) # {} /\ Replayable(Pending(i, listed), pick)
    BY <1>3 DEF Eligible
  <2>2. PICK r \in Run : \A s \in Pending(i, listed) : s \in DOMAIN pick /\ pick[s].manifest = r
    BY <2>1 DEF Replayable, AllOf
  <2>3. ASSUME NEW s \in Pending(i, listed)
        PROVE  Cites(s, r) /\ r \in manifest /\ IssueOf[r] = i
    <3>1. pick[s] \in events /\ pick[s].slot = s /\ pick[s].manifest = r
      BY <2>2 DEF LatestPicks, Latest, EventsOf
    <3>2. s[1] = i
      BY <2>1, SlotIssue DEF Pending
    <3>3. Names(r, i)
      BY <3>1, <3>2 DEF ReceiptInv
    <3>4. QED
      BY <3>1, <3>3, SlotAssumption DEF Names, Cites
  <2>4. QED
    BY <2>1, <2>3
<1>6. QED
  BY <1>2, <1>4, <1>5

\* A coordinator that lists the receipts at any moment, of any runs that record
\* and fail and are replayed beside the reconciliation, plans a recovery only of
\* slots that nobody has observed, and a replay only over one manifest of the
\* bucket, of the same issue, that each of its slots names.
THEOREM PlansSound == ReceiptSpec => []PlansAreSound
<1>1. ReceiptInit => ReceiptInv
  BY DEF ReceiptInit, ReceiptInv, Works, Recording, Reconciling, FreshWork, NoReconciliation
<1>2. QED
  BY <1>1, ReceiptNext, PlansOfReceipts, PTL DEF ReceiptSpec
=============================================================================
