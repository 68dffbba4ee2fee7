----------------------------- MODULE MCMoqLink -----------------------------
(* Instances of MoqLink. *)
EXTENDS MoqLink

Known == {<<"client", 1>>}
None == [dials |-> 0, sends |-> 0, drops |-> 0, cuts |-> 0, damages |-> 0, freezes |-> 0, restarts |-> 0,
         rekeys |-> 0, ticks |-> 0, packets |-> 0, early |-> TRUE, trusted |-> TRUE, pins |-> Known]

(* Three connections of one client, with its tickets; a ticket, then a
   cookie, that expires; a restart of the server. *)
Tickets == [None EXCEPT !.dials = 3, !.ticks = 1]
Expiry == [None EXCEPT !.dials = 2, !.ticks = 2]
Cookies == [None EXCEPT !.dials = 1, !.ticks = 3]
Restarts == [None EXCEPT !.dials = 2, !.restarts = 1]
(* A frame is damaged, with and without early data. *)
Damages == [None EXCEPT !.dials = 2, !.damages = 1]
DamagesBare == [Damages EXCEPT !.early = FALSE]
(* A frame is damaged with messages behind it, and the connection is lost. *)
Stalls == [None EXCEPT !.dials = 1, !.damages = 1, !.sends = 2, !.cuts = 1]
(* Messages both ways, a lost connection, a receiver dropped. *)
Messages == [None EXCEPT !.dials = 1, !.sends = 3, !.cuts = 1, !.drops = 1]
(* A client that stops. *)
Stops == [None EXCEPT !.dials = 2, !.freezes = 1, !.cuts = 1]
(* Keys that one side does not know. *)
Strangers == [None EXCEPT !.dials = 1, !.trusted = FALSE]
Unpinned == [None EXCEPT !.dials = 1, !.pins = {}]
Rekeyed == [None EXCEPT !.dials = 2, !.rekeys = 1, !.pins = Known \cup {<<"client", 2>>}]
(* A bare session over datagrams. *)
Datagrams == [None EXCEPT !.packets = 5]

MCBudgets ==
  {Tickets, Expiry, Cookies, Restarts, Damages, DamagesBare, Stalls, Messages, Stops, Strangers, Unpinned, Rekeyed,
   Datagrams}
MCConns == 1 .. 3
=============================================================================
