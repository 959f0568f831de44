--------------------------- MODULE ElevatorOrder ---------------------------
(***************************************************************************)
(* What the smart-deadline elevator promises of the order in which it      *)
(* hands requests to the driver, without its lists, trees and counters:    *)
(* a request of the high queue goes first; within a queue the requests put *)
(* back at its head go first, and after them the one that has waited       *)
(* longest, reads and writes alike.  A request that takes in another one   *)
(* inherits its place when that is the earlier one.                        *)
(***************************************************************************)
EXTENDS Naturals, Sequences

CONSTANTS Requests,     \* the requests of the queue's tag sets
          MaxJiffies    \* bound of the clock

Prios == {"HP", "RT", "BE"}

VARIABLES waiting,      \* per queue: the requests that wait by arrival
          urgent,       \* per queue: the requests put back at its head
          served,       \* requests the driver has been given
          arrival,      \* per request: when it arrived
          now           \* the clock

orderVars == <<waiting, urgent, served, arrival, now>>

OrderInit ==
  /\ waiting = [p \in Prios |-> {}]
  /\ urgent = [p \in Prios |-> << >>]
  /\ served = {}
  /\ arrival = [r \in Requests |-> 0]
  /\ now = 0

Waits(p) == waiting[p] # {} \/ urgent[p] # << >>

Arrive(r, p) ==
  /\ \A q \in Prios : r \notin waiting[q]
  /\ waiting' = [waiting EXCEPT ![p] = @ \cup {r}]
  /\ arrival' = [arrival EXCEPT ![r] = now]
  /\ UNCHANGED <<urgent, served, now>>

Return(r, p) ==
  /\ \A q \in Prios : r \notin waiting[q]
  /\ urgent' = [urgent EXCEPT ![p] = <<r>> \o @]
  /\ arrival' = [arrival EXCEPT ![r] = now]
  /\ UNCHANGED <<waiting, served, now>>

\* s becomes part of r and stops waiting on its own.
Absorb(r, s, p) ==
  /\ r # s
  /\ {r, s} \subseteq waiting[p]
  /\ waiting' = [waiting EXCEPT ![p] = @ \ {s}]
  /\ arrival' = [arrival EXCEPT
       ![r] = IF arrival[s] < arrival[r] THEN arrival[s] ELSE arrival[r]]
  /\ UNCHANGED <<urgent, served, now>>

\* The driver is done with r or could not take it.
Release(r) ==
  /\ served' = served \ {r}
  /\ UNCHANGED <<waiting, urgent, arrival, now>>

ServeUrgent(p) ==
  /\ p = "HP" \/ ~Waits("HP")
  /\ urgent[p] # << >>
  /\ urgent' = [urgent EXCEPT ![p] = Tail(@)]
  /\ served' = served \cup {Head(urgent[p])}
  /\ UNCHANGED <<waiting, arrival, now>>

ServeOldest(r, p) ==
  /\ p = "HP" \/ ~Waits("HP")
  /\ urgent[p] = << >>
  /\ r \in waiting[p]
  /\ \A s \in waiting[p] : arrival[r] <= arrival[s]
  /\ served' = served \cup {r}
  /\ waiting' = [waiting EXCEPT ![p] = @ \ {r}]
  /\ UNCHANGED <<urgent, arrival, now>>

OrderTick ==
  /\ now < MaxJiffies
  /\ now' = now + 1
  /\ UNCHANGED <<waiting, urgent, served, arrival>>

OrderNext ==
  \/ \E p \in Prios :
       \/ ServeUrgent(p)
       \/ \E r \in Requests :
            \/ Arrive(r, p)
            \/ Return(r, p)
            \/ Release(r)
            \/ ServeOldest(r, p)
            \/ \E s \in Requests : Absorb(r, s, p)
  \/ OrderTick

OrderSpec == OrderInit /\ [][OrderNext]_orderVars
=============================================================================
