-------------------------------- MODULE Lease ---------------------------------
(***************************************************************************)
(* What the locks of framework/lock promise: a lease.  One client at a     *)
(* time has it, and it ends while nobody works under it: its client gave   *)
(* it back, or its time was up.  The client that has it need not know,     *)
(* because the reply that told it may be lost.                             *)
(***************************************************************************)
CONSTANTS
    Clients,
    NoOne

VARIABLES
    holder,         \* the client that has the lease, or NoOne
    inside          \* the clients that work under it

vars == <<holder, inside>>

Init ==
    /\ holder = NoOne
    /\ inside = {}

(* A client is given the lease, and may go to work in the same step. *)
Grant(c) ==
    /\ holder = NoOne
    /\ holder' = c
    /\ inside' \in {inside, inside \cup {c}}

Enter(c) ==
    /\ holder = c
    /\ inside' = inside \cup {c}
    /\ UNCHANGED holder

Leave(c) ==
    /\ c \in inside
    /\ inside' = inside \ {c}
    /\ UNCHANGED holder

Lapse ==
    /\ holder # NoOne /\ holder \notin inside
    /\ holder' = NoOne
    /\ UNCHANGED inside

Next ==
    \/ \E c \in Clients : Grant(c) \/ Enter(c) \/ Leave(c)
    \/ Lapse

Spec == Init /\ [][Next]_vars

-----------------------------------------------------------------------------
(* Nobody works without the lease, and so no two at once. *)
OneInside == inside \subseteq {holder} \ {NoOne}

(* The lease of a client that does not work under it ends. *)
Abandoned == \A c \in Clients : holder = c ~> holder # c \/ c \in inside
=============================================================================
