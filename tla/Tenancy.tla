------------------------------ MODULE Tenancy -------------------------------
(***************************************************************************)
(* What an escrow promises about its seat, without prices, schedules or    *)
(* clock: one tenant at a time, at most one challenger in line behind a    *)
(* tenant, a successor taken only from that line, no cap seated twice, and *)
(* a retirement after which nobody is seated again.                        *)
(***************************************************************************)
EXTENDS Naturals

CONSTANTS
  Cap,   \* the caps that may be handed out
  None   \* no cap: not a member of Cap

VARIABLES
  tenant,      \* the cap in the seat, or None
  challenger,  \* the cap waiting for the seat, or None
  issued,      \* caps handed out
  retired      \* no more tenants, ever

seatVars == <<tenant, challenger, issued, retired>>

SeatInit == tenant = None /\ challenger = None /\ issued = {} /\ retired = FALSE

Seat(c) ==
  /\ tenant = None /\ ~retired
  /\ c \notin issued
  /\ tenant' = c /\ issued' = issued \cup {c}
  /\ UNCHANGED <<challenger, retired>>

(* A newcomer joins the line, or takes the place of the one in it.           *)
Challenge(c) ==
  /\ tenant # None
  /\ c \notin issued
  /\ challenger' = c /\ issued' = issued \cup {c}
  /\ UNCHANGED <<tenant, retired>>

Succeed ==
  /\ challenger # None
  /\ tenant' = challenger /\ challenger' = None
  /\ UNCHANGED <<issued, retired>>

(* The tenancy runs out, with that of a challenger whose turn came and went  *)
(* before anybody settled; the same settlement may retire the escrow.        *)
Vacate ==
  /\ tenant # None
  /\ tenant' = None /\ challenger' = None
  /\ retired' \in BOOLEAN
  /\ UNCHANGED issued

Close ==
  /\ tenant = None
  /\ retired' = TRUE
  /\ UNCHANGED <<tenant, challenger, issued>>

SeatNext ==
  \/ \E c \in Cap : Seat(c) \/ Challenge(c)
  \/ Succeed
  \/ Vacate
  \/ Close

SeatSpec == SeatInit /\ [][SeatNext]_seatVars
=============================================================================
