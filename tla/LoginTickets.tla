----------------------------- MODULE LoginTickets -----------------------------
(***************************************************************************)
(* What an OAuth2 login promises: a state value handed to a browser is a    *)
(* ticket that opens at most one session.  Presenting it takes it out of    *)
(* circulation first; it then becomes a session or is void, and neither     *)
(* ever becomes a ticket again.                                             *)
(***************************************************************************)
CONSTANT Tickets

VARIABLE ticket

TicketsInit == ticket = [s \in Tickets |-> "unissued"]

Move(s, from, to) ==
  /\ ticket[s] = from
  /\ ticket' = [ticket EXCEPT ![s] = to]

Issue(s)   == Move(s, "unissued", "open")
Present(s) == Move(s, "open", "presented")
Redeem(s)  == Move(s, "presented", "session")

\* Tickets lapse, fail at the provider, or are lost with the memory they are in.
Void(S) ==
  /\ \A s \in S : ticket[s] \in {"open", "presented"}
  /\ ticket' = [s \in Tickets |-> IF s \in S THEN "void" ELSE ticket[s]]

TicketsNext ==
  \/ \E s \in Tickets : Issue(s) \/ Present(s) \/ Redeem(s)
  \/ \E S \in SUBSET Tickets : Void(S)

TicketsSpec == TicketsInit /\ [][TicketsNext]_ticket
===============================================================================
