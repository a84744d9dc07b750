---------------------------- MODULE TimerService ----------------------------
(***************************************************************************)
(* What a timer promises to those who schedule events on it: an event is   *)
(* fired once for each time it was scheduled, never before it is due, and  *)
(* a repeated one is scheduled again, a whole interval later, by the very  *)
(* step that fires it.  Times are relative to the present: an event is due *)
(* when its number has come down to 0 or below.                            *)
(***************************************************************************)
EXTENDS Integers

CONSTANTS Events, Interval

VARIABLES due,        \* per event, the time left
          repeated,   \* per event, whether firing it schedules it again
          scheduled,  \* the events that will be fired
          ran         \* per event, the parity of the times it was fired

vars == <<due, repeated, scheduled, ran>>

Init ==
  /\ due \in [Events -> Int]
  /\ repeated \in [Events -> BOOLEAN]
  /\ scheduled = {}
  /\ ran = [e \in Events |-> 0]

Schedule(e) ==
  /\ e \notin scheduled
  /\ scheduled' = scheduled \cup {e}
  /\ due' = [due EXCEPT ![e] = due'[e]]
  /\ due'[e] \in Int /\ due'[e] <= Interval[e]
  /\ repeated' \in {repeated, [repeated EXCEPT ![e] = TRUE],
                    [repeated EXCEPT ![e] = FALSE]}
  /\ UNCHANGED ran

Fire(e) ==
  /\ e \in scheduled
  /\ due[e] <= 0
  /\ ran' = [ran EXCEPT ![e] = 1 - @]
  /\ UNCHANGED repeated
  /\ \/ /\ repeated[e]
        /\ due' = [due EXCEPT ![e] = Interval[e]]
        /\ UNCHANGED scheduled
     \/ /\ ~repeated[e]
        /\ scheduled' = scheduled \ {e}
        /\ UNCHANGED due

\* Time passes, or the clock is set back: an event that is not due becomes
\* due by the first only, one that is due may stay due in the second.
Clock ==
  /\ \E d \in {-1, 1} :
       /\ due' \in [Events -> Int]
       /\ \A e \in Events : due'[e] \in {due[e], due[e] + d}
  /\ UNCHANGED <<repeated, scheduled, ran>>

\* A client changes its mind about an event.
Change(e) ==
  /\ repeated' \in {[repeated EXCEPT ![e] = b] : b \in BOOLEAN}
  /\ UNCHANGED <<due, scheduled, ran>>

Next == Clock \/ \E e \in Events : Schedule(e) \/ Fire(e) \/ Change(e)

Spec == Init /\ [][Next]_vars
=============================================================================
