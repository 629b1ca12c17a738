---------------------------- MODULE Occurrences ----------------------------
(***************************************************************************)
(* What the scheduler promises about the occurrences of each schedule,     *)
(* without ticks, sessions or devices.                                     *)
(*                                                                         *)
(* A schedule has one next occurrence, or none.  An occurrence is settled  *)
(* (fired or skipped, and logged) no earlier than its time, and settling   *)
(* it moves next past it; so occurrences are settled in increasing order,  *)
(* at most once each.  The hour that clocks show a second time when they   *)
(* are set back is the exception: next may go back to an occurrence of     *)
(* it, which is then settled again.  Clients may move next anywhere in the *)
(* future or into that hour, or drop the schedule.                         *)
(***************************************************************************)
EXTENDS Integers

CONSTANTS Schedules, ShownTwice, NULL

VARIABLES
    now,
    next,       \* [Schedules -> Nat \cup {NULL}]
    settled     \* [Schedules -> SUBSET Nat]: occurrences in the log

vars == <<now, next, settled>>

\* o is strictly later than t or shown twice, or there is no o at all.
After(o, t) == o = NULL \/ (o \in Nat /\ (o > t \/ o \in ShownTwice))

Init ==
    /\ now \in Nat
    /\ \A s \in Schedules : After(next[s], now)
    /\ settled = [s \in Schedules |-> {}]

\* One transaction settles the occurrences of any number of schedules.
Settle ==
    /\ \A s \in Schedules :
          \/ settled'[s] = settled[s] /\ next'[s] = next[s]
          \/ \E o \in settled'[s] :
                /\ o \in 0..now
                /\ (\A p \in settled[s] : p < o) \/ o \in ShownTwice
                /\ settled'[s] = settled[s] \cup {o}
                /\ After(next'[s], o)
    /\ DOMAIN settled' = Schedules
    /\ now' = now

\* A client creates or edits s.
Reschedule ==
    /\ \E s \in Schedules :
          /\ After(next'[s], now)
          /\ \A t \in Schedules \ {s} : next'[t] = next[t]
    /\ UNCHANGED <<now, settled>>

\* A client deletes s, and its log with it.
Forget ==
    /\ \E s \in Schedules :
          /\ next'[s] = NULL
          /\ settled' = [settled EXCEPT ![s] = {}]
          /\ \A t \in Schedules \ {s} : next'[t] = next[t]
    /\ now' = now

Elapse == now' = now + 1 /\ UNCHANGED <<next, settled>>

Next == Settle \/ Reschedule \/ Forget \/ Elapse

Spec == Init /\ [][Next]_vars

=============================================================================
