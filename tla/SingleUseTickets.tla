-------------------------- MODULE SingleUseTickets --------------------------
(***************************************************************************)
(* What a server-backed state store promises to rp.AuthorizationURL and    *)
(* rp.HandleCallback: everything that was saved is a ticket, a ticket is   *)
(* handed out at most once, and a ticket issued to a browser is handed     *)
(* out only to that browser.  A ticket may disappear at any time (expiry,  *)
(* eviction, deletion, replacement); it never comes back.                  *)
(***************************************************************************)
EXTENDS Naturals

CONSTANTS
  Tickets,     \* one per value ever saved
  Browsers,    \* user agents
  NoBrowser    \* a save or a request that carries no HTTP exchange

VARIABLES
  ticket,      \* ticket[i]: the life cycle of ticket i
  holder,      \* holder[i]: the browser ticket i was issued to
  taker        \* taker[i]: who was handed ticket i

vars == <<ticket, holder, taker>>

Agents == Browsers \cup {NoBrowser}

Open == {i \in Tickets : ticket[i] = "open"}
Unissued == {i \in Tickets : ticket[i] = "none"}

Init ==
  /\ ticket = [i \in Tickets |-> "none"]
  /\ holder = [i \in Tickets |-> NoBrowser]
  /\ taker = [i \in Tickets |-> NoBrowser]

\* Ticket i is issued to b; the tickets of D disappear, i itself possibly
\* among them when the store is full.
Issue(i, b, D) ==
  /\ i \in Unissued
  /\ D \subseteq Open \cup {i}
  /\ ticket' = [j \in Tickets |-> IF j \in D THEN "gone"
                                  ELSE IF j = i THEN "open" ELSE ticket[j]]
  /\ holder' = [holder EXCEPT ![i] = b]
  /\ UNCHANGED taker

\* Ticket i is handed to b; the tickets of D disappear with it.
Take(i, b, D) ==
  /\ i \in Open
  /\ holder[i] \in {NoBrowser, b}
  /\ D \subseteq Open \ {i}
  /\ ticket' = [j \in Tickets |-> IF j \in D THEN "gone"
                                  ELSE IF j = i THEN "taken" ELSE ticket[j]]
  /\ taker' = [taker EXCEPT ![i] = b]
  /\ UNCHANGED holder

Drop(D) ==
  /\ D \subseteq Open
  /\ ticket' = [j \in Tickets |-> IF j \in D THEN "gone" ELSE ticket[j]]
  /\ UNCHANGED <<holder, taker>>

Next ==
  \/ \E i \in Unissued, b \in Agents :
       \E D \in SUBSET (Open \cup {i}) : Issue(i, b, D)
  \/ \E i \in Open, b \in Agents :
       \E D \in SUBSET (Open \ {i}) : Take(i, b, D)
  \/ \E D \in SUBSET Open : Drop(D)

Spec == Init /\ [][Next]_vars
=============================================================================
