---------------------------- MODULE CountContract ----------------------------
(***************************************************************************)
(* What a semaphore and a latch promise.  A semaphore lets a thread pass   *)
(* in exchange for the permits it asks for; a latch lets everyone pass     *)
(* once all arrivals have been counted.  A thread that does not wait for   *)
(* ever may give up, but only while it would have to wait.                 *)
(***************************************************************************)
EXTENDS Naturals

CONSTANT Threads

VARIABLES kind, count, asking, need, patience

vars == <<kind, count, asking, need, patience>>

Init ==
    /\ kind \in {"semaphore", "latch"}
    /\ count \in Nat
    /\ asking = {}
    /\ need \in [Threads -> Nat]
    /\ patience \in [Threads -> {"never", "deadline", "forever"}]

Admitted(t) == IF kind = "semaphore" THEN count >= need[t] ELSE count = 0

Ask(t) ==
    /\ t \notin asking
    /\ asking' = asking \cup {t}
    /\ need'[t] \in Nat /\ need' = [need EXCEPT ![t] = need'[t]]
    /\ \E p \in {"never", "deadline", "forever"} : patience' = [patience EXCEPT ![t] = p]

Begin(t) == Ask(t) /\ UNCHANGED <<kind, count>>

\* The call ends; what it asked for is of no interest any more.
End(t) ==
    /\ asking' = asking \ {t}
    /\ need'[t] \in Nat /\ need' = [need EXCEPT ![t] = need'[t]]
    /\ \E p \in {"never", "deadline", "forever"} : patience' = [patience EXCEPT ![t] = p]

Pass(t) ==
    /\ t \in asking /\ Admitted(t)
    /\ End(t)
    /\ count' = IF kind = "semaphore" THEN count - need[t] ELSE count
    /\ UNCHANGED kind

GiveUp(t) ==
    /\ t \in asking /\ ~Admitted(t) /\ patience[t] # "forever"
    /\ End(t)
    /\ UNCHANGED <<kind, count>>

\* Permits are added, or arrivals counted by a thread that may go on to wait.
Change(t) ==
    /\ t \notin asking
    /\ count' \in Nat /\ count' # count
    /\ kind = "semaphore" <=> count' > count
    /\ UNCHANGED kind
    /\ \/ UNCHANGED <<asking, need, patience>>
       \/ kind = "latch" /\ count' # 0 /\ Ask(t)

Next == \E t \in Threads : Begin(t) \/ Pass(t) \/ GiveUp(t) \/ Change(t)

Spec == Init /\ [][Next]_vars
=============================================================================
