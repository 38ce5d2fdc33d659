----------------------------- MODULE QuickTimer -----------------------------
(***************************************************************************)
(* service/timer.hpp: a thread of its own performs an action when a period *)
(* has passed, and again as long as the action asks for it.  The quick     *)
(* build waits for the deadline on a condition variable that stop          *)
(* notifies; the minimal build sleeps until the deadline.                  *)
(*                                                                         *)
(* stop locks nothing.  mutex_ is the performer's alone, so it does not    *)
(* appear here: the performer's look at the stop token and its sleep are   *)
(* two steps for whoever stops the timer.  An action that calls stop takes *)
(* the same steps as an owner that does so while the action runs.          *)
(***************************************************************************)
EXTENDS Naturals

CONSTANTS
    Duration,   \* duration_, in ticks of the clock
    Horizon     \* the clock is exact before it; at Horizon the time is Horizon or later

ASSUME DurationAssumption == Duration \in Nat \ {0}
ASSUME HorizonAssumption == Horizon \in Nat /\ Duration <= Horizon

VARIABLES
    quick,          \* quickStop_
    now,            \* steady_clock
    nextTime,       \* nextTime_ of the performer
    stopRequested,  \* the stop state of m_performer_
    performer,      \* where the performer is; "none" if m_performer_ is not joinable
    owner,          \* where the owner is in its calls
    begun,          \* how many actions have begun before Horizon (history)
    late            \* how many of all actions after a stop was requested, 2 for more (history)

timerVars == <<quick, now, nextTime, stopRequested, performer, owner, begun, late>>

\* "drowsy": has found that nobody asked it to stop, and is about to sleep.
PerformerPoints == {"none", "look", "drowsy", "asleep", "awake", "due", "acting", "ended"}
OwnerPoints == {"out", "notify", "waiting", "last notify", "join", "gone"}

\* A time as the clock shows it.
Shown(time) == IF time <= Horizon THEN time ELSE Horizon

\* A timer that was given an action, or none.
TimerInit ==
    /\ quick \in BOOLEAN
    /\ now = 0
    /\ nextTime = Duration
    /\ stopRequested = FALSE
    /\ performer \in {"none", "look"}
    /\ owner = "out"
    /\ begun = 0
    /\ late = 0

-----------------------------------------------------------------------------
(* The performer                                                           *)

Perform(from, to) == performer = from /\ performer' = to

\* The predicate of wait_until, or stop_requested before sleep_until.
Look ==
    /\ Perform("look", IF stopRequested THEN "ended" ELSE "drowsy")
    /\ UNCHANGED <<quick, now, nextTime, stopRequested, owner, begun, late>>

Sleep ==
    /\ Perform("drowsy", "asleep")
    /\ UNCHANGED <<quick, now, nextTime, stopRequested, owner, begun, late>>

\* The condition variable wakes without a notification.
WakeSpuriously ==
    /\ quick /\ Perform("asleep", "look")
    /\ UNCHANGED <<quick, now, nextTime, stopRequested, owner, begun, late>>

\* Mutant of Deadline: the quick build waits for the notification alone.
DeadlineOfMinimal ==
    /\ ~quick /\ now >= nextTime /\ Perform("asleep", "awake")
    /\ UNCHANGED <<quick, now, nextTime, stopRequested, owner, begun, late>>

Deadline ==
    /\ now >= nextTime /\ Perform("asleep", "awake")
    /\ UNCHANGED <<quick, now, nextTime, stopRequested, owner, begun, late>>

\* Once more after the deadline.
LookAgain ==
    /\ Perform("awake", IF stopRequested THEN "ended" ELSE "due")
    /\ UNCHANGED <<quick, now, nextTime, stopRequested, owner, begun, late>>

Act ==
    /\ Perform("due", "acting")
    /\ begun' = IF now < Horizon THEN begun + 1 ELSE begun
    /\ late' = IF stopRequested /\ late < 2 THEN late + 1 ELSE late
    /\ UNCHANGED <<quick, now, nextTime, stopRequested, owner>>

\* Mutant of Again: an action whose time has come is repeated without a look at the token.
AgainAtOnce(base) ==
    /\ Perform("acting", IF now >= Shown(base + Duration) THEN "due" ELSE "look")
    /\ nextTime' = Shown(base + Duration)
    /\ UNCHANGED <<quick, now, stopRequested, owner, begun, late>>

\* repeat: a period after the last deadline, which may be in the past; reset: a period from now.
\* Nothing but a stop or the action's answer ends a timer.
Again(base) ==
    /\ Perform("acting", "look")
    /\ nextTime' = Shown(base + Duration)
    /\ UNCHANGED <<quick, now, stopRequested, owner, begun, late>>

Finish ==
    /\ Perform("acting", "ended")
    /\ UNCHANGED <<quick, now, nextTime, stopRequested, owner, begun, late>>

ActionEnds == Again(nextTime) \/ Again(now) \/ Finish

-----------------------------------------------------------------------------
(* The owner                                                               *)

Step(from, to) == owner = from /\ owner' = to

RequestStop(to) ==
    /\ Step("out", to)
    /\ stopRequested' = TRUE
    /\ UNCHANGED <<quick, now, nextTime, performer, begun, late>>

\* notify_one of stop; the notification is lost if nobody sleeps.
Notify(from, to) ==
    /\ Step(from, to)
    /\ performer' = IF performer = "asleep" THEN "look" ELSE performer
    /\ UNCHANGED <<quick, now, nextTime, stopRequested, begun, late>>

Stop == RequestStop(IF quick THEN "notify" ELSE "out")
StopNotify == Notify("notify", "out")

\* waitUntilDone joins the performer, and none is left to join.
WaitUntilDone ==
    /\ performer # "none"
    /\ Step("out", "waiting")
    /\ UNCHANGED <<quick, now, nextTime, stopRequested, performer, begun, late>>

Joined ==
    /\ Step("waiting", "out")
    /\ Perform("ended", "none")
    /\ UNCHANGED <<quick, now, nextTime, stopRequested, begun, late>>

\* The destructor stops the timer, and that of m_performer_, declared after m_helper_, joins.
Destroy == RequestStop(IF quick THEN "last notify" ELSE "join")
DestroyNotify == Notify("last notify", "join")

Destroyed ==
    /\ Step("join", "gone")
    /\ performer \in {"none", "ended"} /\ performer' = "none"
    /\ UNCHANGED <<quick, now, nextTime, stopRequested, begun, late>>

-----------------------------------------------------------------------------
(* Everybody                                                               *)

\* Nobody but the performer looks at the clock.
Tick ==
    /\ now < Horizon /\ performer # "none"
    /\ now' = now + 1
    /\ UNCHANGED <<quick, nextTime, stopRequested, performer, owner, begun, late>>

Performing == Look \/ Sleep \/ Deadline \/ LookAgain \/ Act \/ ActionEnds
Owning == StopNotify \/ DestroyNotify \/ Joined \/ Destroyed

TimerNext ==
    \/ Performing \/ WakeSpuriously
    \/ Stop \/ WaitUntilDone \/ Destroy \/ Owning
    \/ Tick

TimerSpec == TimerInit /\ [][TimerNext]_timerVars

\* The threads run, actions end and time passes.  Nothing is assumed of unasked wakeups, nor
\* that the timer is ever stopped or destroyed.
TimerFairness ==
    /\ WF_timerVars(Performing)
    /\ WF_timerVars(Owning)
    /\ WF_timerVars(Tick)

-----------------------------------------------------------------------------
(* Properties                                                              *)

TimerTypeOK ==
    /\ quick \in BOOLEAN /\ stopRequested \in BOOLEAN
    /\ now \in 0 .. Horizon /\ nextTime \in Duration .. Horizon
    /\ performer \in PerformerPoints /\ owner \in OwnerPoints
    /\ begun \in Nat /\ late \in 0 .. 2

\* However late the performer wakes, how often it is woken without a deadline and whatever mix of
\* repeat and reset its actions ask for, n actions have not begun before n periods have passed, as
\* long as the clock is exact.
NeverEarly == begun * Duration <= now

\* Between its last look at the token and the action the performer does not look again, so stop
\* may return with one action still to begin, and there is never a second one.
OneMoreAtMost == late <= 1

\* What the performer may do after it was told to stop, and before its time (makePerformer_).
TimerInv == TimerTypeOK /\ NeverEarly /\ OneMoreAtMost

\* A timer whose actions ask for one more for ever ends once it was told to stop, whatever the
\* performer was about to do, the notification that reached nobody included, and the destructor of its timer returns (stop, makePerformer_).
TimerStops ==
    /\ stopRequested ~> performer \in {"none", "ended"}
    /\ owner \in {"last notify", "join"} ~> owner = "gone"
=============================================================================
