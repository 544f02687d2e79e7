------------------------------ MODULE PosixEnv ------------------------------
(***************************************************************************)
(* What LevelDB takes from the operating system (util/env_posix.cc) where  *)
(* threads meet: the lock of a database, in two layers, of threads of two  *)
(* processes; and the queue of the one background thread all databases of  *)
(* a process share.                                                        *)
(***************************************************************************)
EXTENDS Integers, Sequences, FiniteSetsExt

CONSTANTS
    Process,
    Opener,        \* Opener[p]: the threads of process p that open the database, a function
    Database,      \* the databases of the first process, that schedule work
    MaxSchedule,   \* bound: calls of Schedule
    Nobody

VARIABLES
    locked_files_,   \* the processes whose locks_ has the file
    owner,           \* the process whose lock the kernel holds on the file
    opener,          \* what each opener does
    queue_,          \* the databases whose work waits
    bgthread_,
    scheduled

lockVars == <<locked_files_, owner, opener>>
queueVars == <<queue_, bgthread_, scheduled>>
envVars == <<locked_files_, owner, opener, queue_, bgthread_, scheduled>>

EnvInit ==
    /\ locked_files_ = {} /\ owner = Nobody
    /\ opener = [p \in Process |-> [t \in Opener[p] |-> "closed"]]
    /\ queue_ = <<>> /\ bgthread_ = "none" /\ scheduled = 0

-----------------------------------------------------------------------------
(* LockFile and UnlockFile, call by call.  The kernel drops a process's    *)
(* lock of a file when the process closes any descriptor of it.            *)

Goes(p, t, from, to) == opener[p][t] = from /\ opener' = [opener EXCEPT ![p][t] = to]
KernelDrops(p) == owner' = IF owner = p THEN Nobody ELSE owner

OpenLockFile(p, t) == Goes(p, t, "closed", "opened") /\ UNCHANGED <<locked_files_, owner>>

\* (mutant of InsertFails: the error path takes the name out of locks_)
InsertFailsRemoves(p, t) ==
    /\ p \in locked_files_ /\ Goes(p, t, "opened", "failed")
    /\ locked_files_' = locked_files_ \ {p} /\ UNCHANGED owner

InsertFails(p, t) ==
    /\ p \in locked_files_ /\ Goes(p, t, "opened", "failed")
    /\ UNCHANGED <<locked_files_, owner>>

CloseFailed(p, t) ==
    /\ Goes(p, t, "failed", "closed")
    /\ KernelDrops(p) /\ UNCHANGED locked_files_

InsertName(p, t) ==
    /\ p \notin locked_files_ /\ Goes(p, t, "opened", "inserted")
    /\ locked_files_' = locked_files_ \union {p} /\ UNCHANGED owner

\* fcntl(F_SETLK) on the whole file.
LockSucceeds(p, t) ==
    /\ owner \in {p, Nobody} /\ Goes(p, t, "inserted", "locked")
    /\ owner' = p /\ UNCHANGED locked_files_
LockFails(p, t) ==
    /\ owner \notin {p, Nobody} /\ Goes(p, t, "inserted", "refused")
    /\ KernelDrops(p) /\ UNCHANGED locked_files_
RemoveRefused(p, t) ==
    /\ Goes(p, t, "refused", "closed")
    /\ locked_files_' = locked_files_ \ {p} /\ UNCHANGED owner

Unlock(p, t) == Goes(p, t, "locked", "unlocked") /\ KernelDrops(p) /\ UNCHANGED locked_files_
RemoveName(p, t) ==
    /\ Goes(p, t, "unlocked", "removed")
    /\ locked_files_' = locked_files_ \ {p} /\ UNCHANGED owner
CloseUnlocked(p, t) == Goes(p, t, "removed", "closed") /\ KernelDrops(p) /\ UNCHANGED locked_files_

LockStep ==
    \E p \in Process : \E t \in Opener[p] :
        \/ OpenLockFile(p, t) \/ InsertFails(p, t) \/ CloseFailed(p, t) \/ InsertName(p, t)
        \/ LockSucceeds(p, t) \/ LockFails(p, t) \/ RemoveRefused(p, t)
        \/ Unlock(p, t) \/ RemoveName(p, t) \/ CloseUnlocked(p, t)

-----------------------------------------------------------------------------
(* Schedule and BGThread, each critical section of mu_ a step              *)

\* A signal wakes the thread if it waits.
Schedule(d) ==
    /\ scheduled < MaxSchedule
    /\ scheduled' = scheduled + 1
    /\ bgthread_' = CASE bgthread_ = "none" -> "runs"
                      [] bgthread_ = "waits" /\ queue_ = <<>> -> "runs"
                      [] OTHER -> bgthread_
    /\ queue_' = Append(queue_, d)

\* pthread_cond_wait while the queue is empty, from which it may wake for nothing.
Wait == bgthread_ = "runs" /\ queue_ = <<>> /\ bgthread_' = "waits" /\ UNCHANGED <<queue_, scheduled>>
WakesForNothing == bgthread_ = "waits" /\ bgthread_' = "runs" /\ UNCHANGED <<queue_, scheduled>>
Call ==
    /\ bgthread_ = "runs" /\ queue_ # <<>>
    /\ bgthread_' = "calls" /\ queue_' = Tail(queue_) /\ UNCHANGED scheduled
CallEnds == bgthread_ = "calls" /\ bgthread_' = "runs" /\ UNCHANGED <<queue_, scheduled>>

QueueStep == (\E d \in Database : Schedule(d)) \/ Wait \/ WakesForNothing \/ Call \/ CallEnds

EnvNext ==
    \/ LockStep /\ UNCHANGED queueVars
    \/ QueueStep /\ UNCHANGED lockVars

EnvSpec == EnvInit /\ [][EnvNext]_envVars

-----------------------------------------------------------------------------
Holders(p) == {t \in Opener[p] : opener[p][t] = "locked"}

\* Whatever threads of a process try, fail and give back between each other's calls, at most
\* one of them holds the lock of the database; and the background thread never sleeps on work
\* that some database scheduled.
ThreadsAreKeptApart ==
    /\ \A p \in Process : /\ \A s, t \in Holders(p) : s = t
                           /\ Holders(p) # {} => p \in locked_files_
    /\ bgthread_ = "waits" => queue_ = <<>>

\* "A database may only be opened by one process at a time."
OneProcessHolds == Cardinality({p \in Process : Holders(p) # {}}) <= 1
=============================================================================
