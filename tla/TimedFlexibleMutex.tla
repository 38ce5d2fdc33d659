------------------------- MODULE TimedFlexibleMutex -------------------------
(***************************************************************************)
(* The timed calls of the condition-variable Mutex (mutex.hpp), next to    *)
(* those of FlexibleMutex.  tryLockUntil and tryUpgradeUntil wait as lock  *)
(* and upgrade do; tryLockSharedUntil has a wait of its own, on blocker_.  *)
(* The body of tryLockUntil that prefers exclusives names a member that    *)
(* does not exist, so no program can call it.                              *)
(***************************************************************************)
EXTENDS FlexibleMutex

VARIABLE timed   \* the threads whose call has a deadline

timedVars == <<vars, timed>>

TimedInit == Init /\ timed = {}

CallTryLockUntil(t) ==
    /\ ~PreferExclusive /\ Between(t, "idle") /\ Goto(t, "lock")
CallTryLockSharedUntil(t) ==
    /\ Between(t, "idle") /\ Goto(t, "lockSharedUntil")
CallTryUpgradeUntil(t) ==
    /\ Upgradeable /\ Between(t, "sharedLocked") /\ UpgradeFree(t)
    /\ Goto(t, "upgrade")
CallUntil(t) ==
    /\ CallTryLockUntil(t) \/ CallTryLockSharedUntil(t) \/ CallTryUpgradeUntil(t)
    /\ timed' = timed \cup {t}
    /\ UNCHANGED <<statusCount, own, condvars>>

\* tryLockSharedUntil: wait_until on blocker_ until there is room to share.
SleepSharedUntil(t) ==
    /\ pc[t] = "lockSharedUntil" /\ t \notin Asleep /\ statusCount >= exclusive
    /\ blocker' = blocker \cup {t}
    /\ UNCHANGED <<statusCount, own, pc, shareBlocker, timed>>
\* Mutant of LockSharedUntil: shares a mutex that is exclusively owned.
LockSharedUntilOneMore(t) ==
    /\ pc[t] = "lockSharedUntil" /\ t \notin Asleep /\ statusCount <= exclusive
    /\ statusCount' = statusCount + 1
    /\ Return(t, "sharedLocked")
    /\ timed' = timed \ {t} /\ UNCHANGED condvars
LockSharedUntil(t) ==
    /\ pc[t] = "lockSharedUntil" /\ t \notin Asleep /\ statusCount < exclusive
    /\ statusCount' = statusCount + 1
    /\ Return(t, "sharedLocked")
    /\ timed' = timed \ {t} /\ UNCHANGED condvars

\* Mutant of TimeOut: the share is counted before the call gives up.
TimeOutCounting(t) ==
    /\ t \in timed
    /\ IF pc[t] = "lockSharedUntil" THEN statusCount >= exclusive ELSE ~Admits(pc[t])
    /\ blocker' = blocker \ {t} /\ timed' = timed \ {t}
    /\ Goto(t, "ready")
    /\ statusCount' = statusCount + 1
    /\ UNCHANGED <<own, shareBlocker>>

\* wait_until comes to its deadline, asleep or awake, finds the predicate false
\* once more, and the call returns false.  An order that tryUpgradeUntil has
\* placed stays where it is.
TimeOut(t) ==
    /\ t \in timed
    /\ IF pc[t] = "lockSharedUntil" THEN statusCount >= exclusive ELSE ~Admits(pc[t])
    /\ blocker' = blocker \ {t} /\ timed' = timed \ {t}
    /\ Goto(t, "ready")
    /\ UNCHANGED <<statusCount, own, shareBlocker>>

TimedNext ==
    \/ Next /\ timed' = {t \in timed : pc'[t] # "ready"}
    \/ \E t \in Threads :
          CallUntil(t) \/ SleepSharedUntil(t) \/ LockSharedUntil(t) \/ TimeOut(t)

TimedSpec == TimedInit /\ [][TimedNext]_timedVars
=============================================================================
