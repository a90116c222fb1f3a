---------------------------- MODULE LeasesProofs ----------------------------
(***************************************************************************)
(* The two promises of runtime/leases.ts, for any number of jobs, hosts and *)
(* runs and any lease time.  A belief in a lease never outlives the row that*)
(* backs it.  A belief in a lock may, since a run's lock can be deleted by  *)
(* another run of its job: what holds is that a lock in the name of a job   *)
(* is never shorter than the belief of any run of that job.                 *)
(***************************************************************************)
EXTENDS Leases, TLAPS

\* The rows back the leases: as long as a run may believe in its lease the row
\* is its own and expires no earlier.
LeaseBacked ==
  \A o \in Owners : Holds(o) =>
    /\ lease[JobOf[o]] # NoRow
    /\ lease[JobOf[o]].owner = o
    /\ held[o] <= lease[JobOf[o]].expires

\* A lock in the name of a job lasts as long as any run of the job was told.
LockCovers ==
  \A o \in Owners, h \in Hosts :
    LockedFor(h, JobOf[o]) => promised[o][h] <= lock[h].expires

\* Nobody is ever told more than a lease time ahead.
ToldAhead == \A o \in Owners, h \in Hosts : promised[o][h] <= now + TTL

\* A lock names the job of the run that took it.
LockOfOwner ==
  \A h \in Hosts : lock[h] # NoRow => lock[h].job = JobOf[lock[h].owner]

LeasesInv ==
  LeasesTypeOK /\ LeaseBacked /\ LockCovers /\ ToldAhead /\ LockOfOwner

\* The missing row is no row of either table.
LEMMA NoRowApart == NoRow \notin LeaseRow /\ NoRow \notin LockRow
BY DEF NoRow, LeaseRow, LockRow

LEMMA LeasesInitInv == LeasesInit => LeasesInv
BY LeaseConstants
DEF LeasesInit, LeasesInv, LeasesTypeOK, LeaseBacked, LockCovers, ToldAhead,
    LockOfOwner, LockedFor, Holds, Nobody, Nowhere

\* A step of the lease table by run o leaves every belief backed: it was let
\* in only when nobody else still believed.
LEMMA LeaseStepKeepsInv ==
  ASSUME LeasesInv, NEW o \in Owners, LeaseStep(o)
  PROVE  LeasesInv'
<1> DEFINE j == JobOf[o]
<1>0. j \in Jobs /\ now + TTL \in Nat /\ now \in Nat
  BY LeaseConstants DEF LeasesInv, LeasesTypeOK
<1> USE DEF LeasesInv, LeasesTypeOK
<1>1. UNCHANGED <<now, lock, promised>>
  BY DEF LeaseStep, AcquireJobLease, HeartbeatJobLease, ReleaseJobLease
<1>2. LockCovers' /\ ToldAhead' /\ LockOfOwner'
  BY <1>1 DEF LockCovers, ToldAhead, LockOfOwner, LockedFor
<1>3. CASE AcquireJobLease(o)
  <2>1. [owner |-> o, expires |-> now + TTL, state |-> "RUNNING"] \in LeaseRow
    BY <1>0 DEF LeaseRow, LeaseStates
  <2>2. LeasesTypeOK'
    BY <1>0, <1>1, <1>3, <2>1 DEF AcquireJobLease
  <2>3. ASSUME NEW p \in Owners, p # o, JobOf[p] = j PROVE ~Holds(p)
    BY <1>0, <1>3, <2>3, LeaseConstants
    DEF AcquireJobLease, WorkerLeaseHeld, LeaseBacked, Holds, LeaseRow
  <2>4. LeaseBacked'
    <3> SUFFICES ASSUME NEW p \in Owners, Holds(p)'
                 PROVE  /\ lease'[JobOf[p]] # NoRow
                        /\ lease'[JobOf[p]].owner = p
                        /\ held'[p] <= lease'[JobOf[p]].expires
      BY DEF LeaseBacked
    <3>1. CASE p = o
      <4>1. lease'[j] = [owner |-> o, expires |-> now + TTL,
                         state |-> "RUNNING"]
        BY <1>0, <1>3 DEF AcquireJobLease
      <4>2. held'[o] = now + TTL
        BY <1>3 DEF AcquireJobLease
      <4> QED BY <3>1, <4>1, <4>2, <2>1, <1>0, NoRowApart
    <3>2. CASE p # o
      <4>1. Holds(p)
        BY <3>2, <1>3 DEF AcquireJobLease, Holds
      <4>2. JobOf[p] # j
        BY <3>2, <4>1, <2>3
      <4> QED
        BY <4>1, <4>2, <1>0, <1>3, LeaseConstants
        DEF AcquireJobLease, LeaseBacked
    <3> QED BY <3>1, <3>2
  <2> QED BY <1>2, <2>2, <2>4
<1>4. CASE HeartbeatJobLease(o) /\ HeartbeatOk(o)
  <2>1. lease[j] \in LeaseRow /\ lease[j].owner = o
    BY <1>0, <1>4 DEF HeartbeatOk
  <2>2. LeasesTypeOK'
    <3>1. [lease[j] EXCEPT !.expires = now + TTL] \in LeaseRow
      BY <1>0, <2>1 DEF LeaseRow
    <3> QED BY <1>0, <1>1, <1>4, <3>1 DEF HeartbeatJobLease
  <2>3. LeaseBacked'
    <3> SUFFICES ASSUME NEW p \in Owners, Holds(p)'
                 PROVE  /\ lease'[JobOf[p]] # NoRow
                        /\ lease'[JobOf[p]].owner = p
                        /\ held'[p] <= lease'[JobOf[p]].expires
      BY DEF LeaseBacked
    <3>1. CASE p = o
      <4>1. lease'[j] = [lease[j] EXCEPT !.expires = now + TTL]
        BY <1>0, <1>4 DEF HeartbeatJobLease
      <4>2. lease'[j] \in LeaseRow /\ lease'[j].owner = o
            /\ lease'[j].expires = now + TTL
        BY <4>1, <1>0, <2>1 DEF LeaseRow
      <4>3. held'[o] = now + TTL
        BY <1>4 DEF HeartbeatJobLease
      <4> QED BY <3>1, <4>2, <4>3, <1>0, NoRowApart
    <3>2. CASE p # o
      <4>1. Holds(p)
        BY <3>2, <1>4 DEF HeartbeatJobLease, Holds
      <4>2. JobOf[p] # j
        BY <3>2, <4>1, <2>1 DEF LeaseBacked
      <4> QED
        BY <4>1, <4>2, <1>0, <1>4, LeaseConstants
        DEF HeartbeatJobLease, LeaseBacked
    <3> QED BY <3>1, <3>2
  <2> QED BY <1>2, <2>2, <2>3
<1>5. CASE HeartbeatJobLease(o) /\ ~HeartbeatOk(o)
  BY <1>1, <1>2, <1>5 DEF HeartbeatJobLease, LeaseBacked, Holds
<1>6. ASSUME NEW s \in LeaseStates, ReleaseJobLease(o, s) PROVE LeasesInv'
  <2>1. LeasesTypeOK'
    BY <1>0, <1>1, <1>6 DEF ReleaseJobLease, LeaseRow
  <2>2. LeaseBacked'
    <3> SUFFICES ASSUME NEW p \in Owners, Holds(p)'
                 PROVE  /\ lease'[JobOf[p]] # NoRow
                        /\ lease'[JobOf[p]].owner = p
                        /\ held'[p] <= lease'[JobOf[p]].expires
      BY DEF LeaseBacked
    <3>1. p # o
      BY <1>0, <1>6 DEF ReleaseJobLease, Holds
    <3>2. Holds(p)
      BY <3>1, <1>6 DEF ReleaseJobLease, Holds
    <3>3. lease'[JobOf[p]] = lease[JobOf[p]]
      BY <3>1, <3>2, <1>0, <1>6, LeaseConstants
      DEF ReleaseJobLease, LeaseBacked
    <3> QED BY <3>1, <3>2, <3>3, <1>6 DEF ReleaseJobLease, LeaseBacked
  <2> QED BY <1>2, <2>1, <2>2
<1> QED BY <1>3, <1>4, <1>5, <1>6 DEF LeaseStep

LEMMA LockStepKeepsInv ==
  ASSUME LeasesInv, NEW h \in Hosts, LockStep(h)
  PROVE  LeasesInv'
<1> USE DEF LeasesInv, LeasesTypeOK
<1>0. now + TTL \in Nat /\ now \in Nat
  BY LeaseConstants
<1>1. UNCHANGED <<now, lease, held>>
  BY DEF LockStep, AcquireDestinationWriteLock, ReleaseDestinationWriteLock
<1>2. LeaseBacked'
  BY <1>1 DEF LeaseBacked, Holds
<1>3. ASSUME NEW o \in Owners, AcquireDestinationWriteLock(h, o)
      PROVE  LeasesInv'
  <2>0. JobOf[o] \in Jobs
    BY LeaseConstants
  <2>1. [job |-> JobOf[o], owner |-> o, expires |-> now + TTL] \in LockRow
    BY <1>0, <2>0 DEF LockRow
  <2>2. LeasesTypeOK'
    BY <1>0, <1>1, <1>3, <2>0, <2>1 DEF AcquireDestinationWriteLock
  <2>3. LockOfOwner'
    BY <1>3, <2>0 DEF AcquireDestinationWriteLock, LockOfOwner
  <2>4. ToldAhead'
    <3> SUFFICES ASSUME NEW p \in Owners, NEW g \in Hosts
                 PROVE  promised'[p][g] <= now + TTL
      BY <1>1 DEF ToldAhead
    <3>1. promised'[p][g] \in {promised[p][g], now + TTL}
      BY <1>3 DEF AcquireDestinationWriteLock
    <3> QED BY <3>1, <1>0 DEF ToldAhead
  <2>5. LockCovers'
    <3> SUFFICES ASSUME NEW p \in Owners, NEW g \in Hosts, LockedFor(g, JobOf[p])'
                 PROVE  promised'[p][g] <= lock'[g].expires
      BY DEF LockCovers
    <3>1. CASE g = h
      <4>1. lock'[h].expires = now + TTL
        BY <1>3 DEF AcquireDestinationWriteLock
      <4> QED BY <3>1, <4>1, <2>4, <1>1 DEF ToldAhead
    <3>2. CASE g # h
      BY <3>2, <1>3 DEF AcquireDestinationWriteLock, LockCovers, LockedFor
    <3> QED BY <3>1, <3>2
  <2> QED BY <1>2, <2>2, <2>3, <2>4, <2>5
<1>4. ASSUME NEW o \in Owners, ReleaseDestinationWriteLock(h, o)
      PROVE  LeasesInv'
  <2>1. LeasesTypeOK'
    BY <1>1, <1>4 DEF ReleaseDestinationWriteLock
  <2>2. LockOfOwner'
    BY <1>4 DEF ReleaseDestinationWriteLock, LockOfOwner
  <2>3. ASSUME NEW p \in Owners, NEW g \in Hosts
        PROVE  promised'[p][g] \in {0, promised[p][g]}
    BY <1>4 DEF ReleaseDestinationWriteLock
  <2>4. ToldAhead'
    BY <1>0, <1>1, <2>3 DEF ToldAhead
  <2>5. LockCovers'
    <3> SUFFICES ASSUME NEW p \in Owners, NEW g \in Hosts, LockedFor(g, JobOf[p])'
                 PROVE  promised'[p][g] <= lock'[g].expires
      BY DEF LockCovers
    <3>1. lock'[g] = lock[g] /\ LockedFor(g, JobOf[p])
      BY <1>4 DEF ReleaseDestinationWriteLock, LockedFor
    <3>2. promised[p][g] <= lock[g].expires /\ lock[g].expires \in Nat
      BY <3>1 DEF LockCovers, LockedFor, LockRow
    <3> QED BY <3>1, <3>2, <2>3
  <2> QED BY <1>2, <2>1, <2>2, <2>4, <2>5
<1> QED BY <1>3, <1>4 DEF LockStep

\* The clock, a restart's reclaiming and the death of the process change no
\* row a belief rests on.
LEMMA OtherStepsKeepInv ==
  ASSUME LeasesInv, Tick \/ ReclaimExpiredLeases \/ OwnersDie
  PROVE  LeasesInv'
<1> USE DEF LeasesInv, LeasesTypeOK
<1>1. CASE Tick
  BY <1>1, LeaseConstants
  DEF Tick, LeaseBacked, LockCovers, ToldAhead, LockOfOwner, LockedFor, Holds
<1>2. CASE OwnersDie
  <2>1. LeasesTypeOK' /\ LeaseBacked' /\ LockOfOwner'
    BY <1>2 DEF OwnersDie, LeaseBacked, LockOfOwner, Holds, Nobody, Nowhere
  <2>2. LockCovers' /\ ToldAhead'
    BY <1>2, LeaseConstants
    DEF OwnersDie, LockCovers, ToldAhead, LockedFor, Nowhere, LockRow
  <2> QED BY <2>1, <2>2
<1>3. CASE ReclaimExpiredLeases
  <2>1. LeasesTypeOK'
    BY <1>3 DEF ReclaimExpiredLeases, LeaseRow, LeaseStates, Expired
  <2>2. LeaseBacked'
    <3> SUFFICES ASSUME NEW p \in Owners, Holds(p)'
                 PROVE  /\ lease'[JobOf[p]] # NoRow
                        /\ lease'[JobOf[p]].owner = p
                        /\ held'[p] <= lease'[JobOf[p]].expires
      BY DEF LeaseBacked
    <3>1. Holds(p) /\ held' = held /\ JobOf[p] \in Jobs
      BY <1>3, LeaseConstants DEF ReclaimExpiredLeases, Holds
    <3>2. /\ lease[JobOf[p]] \in LeaseRow /\ lease[JobOf[p]].owner = p
          /\ held[p] <= lease[JobOf[p]].expires
      BY <3>1 DEF LeaseBacked
    <3>3. ~Expired(lease[JobOf[p]])
      BY <3>1, <3>2 DEF Expired, Holds, LeaseRow
    <3> QED BY <3>1, <3>2, <3>3, <1>3 DEF ReclaimExpiredLeases, LeaseBacked
  <2>3. LockCovers' /\ ToldAhead' /\ LockOfOwner'
    BY <1>3 DEF ReclaimExpiredLeases, LockCovers, ToldAhead, LockOfOwner, LockedFor
  <2> QED BY <2>1, <2>2, <2>3
<1> QED BY <1>1, <1>2, <1>3

LEMMA LeasesNextInv == LeasesInv /\ [LeasesNext]_leaseVars => LeasesInv'
<1> SUFFICES ASSUME LeasesInv, [LeasesNext]_leaseVars PROVE LeasesInv'
  OBVIOUS
<1>1. CASE UNCHANGED leaseVars
  BY <1>1 DEF leaseVars, LeasesInv, LeasesTypeOK, LeaseBacked, LockCovers,
              ToldAhead, LockOfOwner, LockedFor, Holds
<1>2. CASE LeasesNext
  BY <1>2, LeaseStepKeepsInv, LockStepKeepsInv, OtherStepsKeepInv
  DEF LeasesNext
<1> QED BY <1>1, <1>2

\* Every reachable state is typed and backs the beliefs by its rows.
THEOREM LeasesInvariant == LeasesSpec => []LeasesInv
BY LeasesInitInv, LeasesNextInv, PTL DEF LeasesSpec

\* No two runs ever hold the lease of one job (acquireJobLease,
\* heartbeatJobLease): both would own the one row.
THEOREM JobLeaseExclusive == LeasesSpec => []OneHolderPerJob
<1>1. LeasesInv => OneHolderPerJob
  BY DEF LeasesInv, LeaseBacked, OneHolderPerJob
<1> QED BY <1>1, LeasesInvariant, PTL

\* A step in which a job loses a lock that one of its runs may believe in is a
\* release by a run of the same job: the row is younger than the belief, so it
\* is neither taken over nor reclaimed.
LEMMA LockLost ==
  ASSUME LeasesInv, [LeasesNext]_leaseVars, NEW o \in Owners, NEW h \in Hosts,
         Promised(o, h), LockedFor(h, JobOf[o]), ~LockedFor(h, JobOf[o])'
  PROVE  \E p \in Owners : JobOf[p] = JobOf[o] /\ ReleaseDestinationWriteLock(h, p)
<1> USE DEF LeasesInv, LeasesTypeOK
<1>1. lock[h] \in LockRow /\ lock[h] # NoRow /\ lock[h].job = JobOf[o]
  BY DEF LockedFor
<1>2. lock[h].expires > now
  BY <1>1 DEF LockCovers, Promised, LockRow
<1>3. lock'[h] # lock[h]
  BY DEF LockedFor
<1>4. ~(Tick \/ OwnersDie \/ UNCHANGED leaseVars)
  BY <1>3 DEF Tick, OwnersDie, leaseVars
<1>5. ~ReclaimExpiredLeases
  BY <1>1, <1>2, <1>3 DEF ReclaimExpiredLeases, Expired, LockRow
<1>6. ASSUME NEW p \in Owners PROVE ~LeaseStep(p)
  BY <1>3 DEF LeaseStep, AcquireJobLease, HeartbeatJobLease, ReleaseJobLease
<1>7. PICK g \in Hosts : LockStep(g)
  BY <1>4, <1>5, <1>6 DEF LeasesNext
<1>8. g = h
  BY <1>3, <1>7
  DEF LockStep, AcquireDestinationWriteLock, ReleaseDestinationWriteLock
<1>9. PICK p \in Owners : \/ AcquireDestinationWriteLock(h, p)
                         \/ ReleaseDestinationWriteLock(h, p)
  BY <1>7, <1>8 DEF LockStep
<1>10. ASSUME AcquireDestinationWriteLock(h, p) PROVE FALSE
  <2>1. JobOf[p] = JobOf[o]
    BY <1>1, <1>2, <1>10 DEF AcquireDestinationWriteLock, DestinationWriteLocked,
      LockOfOwner
  <2>2. lock'[h] = [job |-> JobOf[p], owner |-> p, expires |-> now + TTL]
    BY <1>10 DEF AcquireDestinationWriteLock
  <2>3. lock'[h] \in LockRow /\ lock'[h].job = JobOf[p]
    BY <2>2, LeaseConstants DEF LockRow
  <2> QED BY <2>1, <2>3, NoRowApart DEF LockedFor
<1>11. ReleaseDestinationWriteLock(h, p) /\ JobOf[p] = JobOf[o]
  BY <1>1, <1>3, <1>9, <1>10 DEF ReleaseDestinationWriteLock
<1> QED BY <1>11

\* A run that may believe in its lock loses the row only to a run of its own job
\* (acquireDestinationWriteLock, releaseDestinationWriteLock, reclaimExpiredLeases).
THEOREM LockIsKept == LeasesSpec => OnlyItsJobLosesLock
<1>1. LeasesInv /\ [LeasesNext]_leaseVars =>
        \A o \in Owners, h \in Hosts :
          Promised(o, h) /\ LockedFor(h, JobOf[o]) =>
            \/ LockedFor(h, JobOf[o])'
            \/ \E p \in Owners : /\ JobOf[p] = JobOf[o]
                                 /\ ReleaseDestinationWriteLock(h, p)
  BY LockLost
<1> QED BY <1>1, LeasesInvariant, PTL DEF LeasesSpec, OnlyItsJobLosesLock
=============================================================================
