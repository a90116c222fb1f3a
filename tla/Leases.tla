------------------------------- MODULE Leases -------------------------------
(***************************************************************************)
(* runtime/leases.ts: the SQLite tables job_leases and                      *)
(* destination_write_locks, one action per exported function.  Each function*)
(* is one synchronous transaction, so each is one step.                     *)
(*                                                                         *)
(* now is the wall clock, in units of which a lease lasts TTL (120 000 ms   *)
(* in the code).  An owner is one run of a worker: newLeaseOwner makes a    *)
(* fresh name for every run, and a run serves one job.                      *)
(*                                                                         *)
(* held and promised are what each run was last told: held[o] is the time   *)
(* until which owner o may believe that it alone works on its job, and      *)
(* promised[o][h] the time until which it may believe that it alone writes  *)
(* to host h (0: never told, or given back).  The tables know nothing of    *)
(* these beliefs; the protocol is there to keep them true.                  *)
(***************************************************************************)
EXTENDS Integers

CONSTANTS Jobs, Hosts, Owners, JobOf, TTL, MaxTime

ASSUME LeaseConstants ==
  /\ JobOf \in [Owners -> Jobs]
  /\ TTL \in Nat \ {0} /\ MaxTime \in Nat

VARIABLES now, lease, lock, held, promised

leaseVars == <<now, lease, lock, held, promised>>

LeaseStates == {"RUNNING", "RELEASED", "DESTINATION_WRITE_LOCKED",
                "WORKER_LEASE_EXPIRED"}

\* No row of the table.
NoRow == [none |-> TRUE]
LeaseRow == [owner : Owners, expires : Nat, state : LeaseStates]
LockRow  == [job : Jobs, owner : Owners, expires : Nat]

Nobody  == [o \in Owners |-> 0]
Nowhere == [o \in Owners |-> [h \in Hosts |-> 0]]

LeasesInit ==
  /\ now = 1
  /\ lease = [j \in Jobs |-> NoRow]
  /\ lock = [h \in Hosts |-> NoRow]
  /\ held = Nobody /\ promised = Nowhere

Tick ==
  /\ now < MaxTime /\ now' = now + 1
  /\ UNCHANGED <<lease, lock, held, promised>>

-----------------------------------------------------------------------------
\* acquireJobLease answers WORKER_LEASE_HELD: another owner's unexpired row.
WorkerLeaseHeld(o) ==
  LET row == lease[JobOf[o]] IN
  row # NoRow /\ row.expires > now /\ row.owner # o

AcquireJobLease(o) ==
  /\ ~WorkerLeaseHeld(o)
  /\ lease' = [lease EXCEPT ![JobOf[o]] =
                 [owner |-> o, expires |-> now + TTL, state |-> "RUNNING"]]
  /\ held' = [held EXCEPT ![o] = now + TTL]
  /\ UNCHANGED <<now, lock, promised>>

\* Mutant of HeartbeatOk: the owner is not compared.
HeartbeatOkAnybody(o) ==
  LET row == lease[JobOf[o]] IN row # NoRow /\ row.expires >= now

\* heartbeatJobLease answers ok.  A lease may still be prolonged at the very
\* moment it expires; one that was taken over or is past its time may not.
HeartbeatOk(o) ==
  LET row == lease[JobOf[o]] IN
  row # NoRow /\ row.owner = o /\ row.expires >= now

HeartbeatJobLease(o) ==
  /\ IF HeartbeatOk(o)
     THEN /\ lease' = [lease EXCEPT ![JobOf[o]].expires = now + TTL]
          /\ held' = [held EXCEPT ![o] = now + TTL]
     ELSE UNCHANGED <<lease, held>>
  /\ UNCHANGED <<now, lock, promised>>

\* releaseJobLease: no effect on a row of somebody else.
ReleaseJobLease(o, state) ==
  /\ LET row == lease[JobOf[o]] IN
     lease' = IF row # NoRow /\ row.owner = o
              THEN [lease EXCEPT ![JobOf[o]].state = state,
                                 ![JobOf[o]].expires = now]
              ELSE lease
  /\ held' = [held EXCEPT ![o] = 0]
  /\ UNCHANGED <<now, lock, promised>>

\* Mutant of DestinationWriteLocked: the comparison of the times is turned.
DestinationWriteLockedLate(h, o) ==
  /\ lock[h] # NoRow /\ lock[h].expires < now
  /\ lock[h].job # JobOf[o] /\ lock[h].owner # o

\* acquireDestinationWriteLock answers DESTINATION_WRITE_LOCKED: an unexpired
\* lock of another job and of another owner.
DestinationWriteLocked(h, o) ==
  /\ lock[h] # NoRow /\ lock[h].expires > now
  /\ lock[h].job # JobOf[o] /\ lock[h].owner # o

AcquireDestinationWriteLock(h, o) ==
  /\ ~DestinationWriteLocked(h, o)
  /\ lock' = [lock EXCEPT ![h] = [job |-> JobOf[o], owner |-> o,
                                  expires |-> now + TTL]]
  /\ promised' = [promised EXCEPT ![o][h] = now + TTL]
  /\ UNCHANGED <<now, lease, held>>

\* Mutant of ReleaseDestinationWriteLock: deletes by host alone.
ReleaseLockOfHost(h, o) ==
  /\ lock' = [lock EXCEPT ![h] = NoRow]
  /\ promised' = [promised EXCEPT ![o][h] = 0]
  /\ UNCHANGED <<now, lease, held>>

\* releaseDestinationWriteLock deletes by host and job, whoever owns the row:
\* another run of the same job loses its lock and is not told.
ReleaseDestinationWriteLock(h, o) ==
  /\ lock' = IF lock[h] # NoRow /\ lock[h].job = JobOf[o]
             THEN [lock EXCEPT ![h] = NoRow] ELSE lock
  /\ promised' = [promised EXCEPT ![o][h] = 0]
  /\ UNCHANGED <<now, lease, held>>

\* reclaimExpiredLeases, run when a PortalStore is constructed.
Expired(row) == row # NoRow /\ row.expires < now

ReclaimExpiredLeases ==
  /\ lease' = [j \in Jobs |->
       IF Expired(lease[j]) /\ lease[j].state = "RUNNING"
       THEN [lease[j] EXCEPT !.state = "WORKER_LEASE_EXPIRED"]
       ELSE lease[j]]
  /\ lock' = [h \in Hosts |-> IF Expired(lock[h]) THEN NoRow ELSE lock[h]]
  /\ UNCHANGED <<now, held, promised>>

\* The process dies and its runs with it: nobody is left to believe anything.
OwnersDie ==
  /\ held' = Nobody /\ promised' = Nowhere
  /\ UNCHANGED <<now, lease, lock>>

LeaseStep(o) ==
  \/ AcquireJobLease(o)
  \/ HeartbeatJobLease(o)
  \/ \E s \in LeaseStates : ReleaseJobLease(o, s)

LockStep(h) ==
  \E o \in Owners :
    AcquireDestinationWriteLock(h, o) \/ ReleaseDestinationWriteLock(h, o)

LeasesNext ==
  \/ Tick \/ ReclaimExpiredLeases \/ OwnersDie
  \/ \E o \in Owners : LeaseStep(o)
  \/ \E h \in Hosts : LockStep(h)

LeasesSpec == LeasesInit /\ [][LeasesNext]_leaseVars

-----------------------------------------------------------------------------
LeasesTypeOK ==
  /\ now \in Nat
  /\ lease \in [Jobs -> LeaseRow \cup {NoRow}]
  /\ lock \in [Hosts -> LockRow \cup {NoRow}]
  /\ held \in [Owners -> Nat]
  /\ promised \in [Owners -> [Hosts -> Nat]]

\* Owner o may believe right now to be the only worker of its job.
Holds(o) == held[o] > now
\* Owner o may believe right now to be the only writer of host h.
Promised(o, h) == promised[o][h] > now

\* Two runs never believe at once to be the only worker of one job, although
\* the clock runs on, heartbeats come late, releases race with takeovers and a
\* restart reclaims rows (acquireJobLease, heartbeatJobLease, releaseJobLease).
OneHolderPerJob ==
  \A o1, o2 \in Owners :
    Holds(o1) /\ Holds(o2) /\ JobOf[o1] = JobOf[o2] => o1 = o2

\* The lock of host h is in the name of job j.
LockedFor(h, j) == lock[h] # NoRow /\ lock[h].job = j

\* A run that may believe in its lock loses the row to no other job, although
\* locks expire, are taken over, prolonged by a second run, reclaimed by a
\* restart and given back late by runs that had lost them.  Only a run of its
\* own job can delete it, since releaseDestinationWriteLock asks for the job and
\* not for the owner; that such runs exclude each other is up to the caller
\* (OneRunPerHost in PortalJobs).
OnlyItsJobLosesLock ==
  [][\A o \in Owners, h \in Hosts :
       Promised(o, h) /\ LockedFor(h, JobOf[o]) =>
         \/ LockedFor(h, JobOf[o])'
         \/ \E p \in Owners : /\ JobOf[p] = JobOf[o]
                              /\ ReleaseDestinationWriteLock(h, p)]_leaseVars
=============================================================================
