----------------------------- MODULE MCServices -----------------------------
(***************************************************************************)
(* Instances of OnceInvoker and QuickTimer for TLC: a behaviour is one of  *)
(* either, while the other one stays as it begins.                         *)
(***************************************************************************)
EXTENDS OnceInvoker, QuickTimer

VARIABLE part

serviceVars == <<part, vars, timerVars>>

\* Where nobody uses the timer it has no action.
ServicesInit ==
    /\ Init /\ TimerInit
    /\ \/ part = "once" /\ performer = "none" /\ quick
       \/ part = "timer" /\ strategy = "busy"

ServicesNext ==
    /\ UNCHANGED part
    /\ \/ part = "once" /\ Next /\ UNCHANGED timerVars
       \/ part = "timer" /\ TimerNext /\ UNCHANGED vars
       \/ part = "timer" /\ owner = "gone" /\ UNCHANGED <<timerVars, vars>>

ServicesSpec == ServicesInit /\ [][ServicesNext]_serviceVars

FairServices == ServicesSpec /\ Fairness /\ TimerFairness
=============================================================================
