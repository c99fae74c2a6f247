----------------------------- MODULE LeaveLedger ----------------------------
(***************************************************************************)
(* What ReadyOn promises about hours, whatever the tables, the outbox and  *)
(* the HCM do meanwhile: a request books its hours once, only if they are  *)
(* still free; the booking is first a reservation, then taken for good;    *)
(* and hours that come back are never booked for that request again.       *)
(*                                                                         *)
(* OutboxProcessor implements this specification (Ledger there).           *)
(***************************************************************************)
EXTENDS Integers, FiniteSetsExt

CONSTANTS
  Request,          \* who may book
  Account,          \* what hours are booked from
  Hours             \* how many hours a booking may have

VARIABLES
  capacity,         \* the hours of each account; nobody changes them
  booking           \* request -> its booking, or Unbooked

ledger == <<capacity, booking>>

Unbooked == [phase |-> "unbooked"]

Booking(a, h, phase) == [account |-> a, hours |-> h, phase |-> phase]

\* The requests whose hours are not free.
Booked(a) ==
  { r \in Request :
      /\ booking[r].phase \in {"reserved", "taken"}
      /\ booking[r].account = a }

HoursBooked(a) == MapThenSumSet(LAMBDA r : booking[r].hours, Booked(a))

LedgerInit ==
  /\ capacity \in [Account -> Nat]
  /\ booking = [r \in Request |-> Unbooked]

Reserve(r, a, h) ==
  /\ booking[r] = Unbooked
  /\ HoursBooked(a) + h <= capacity[a]
  /\ booking' = [booking EXCEPT ![r] = Booking(a, h, "reserved")]
  /\ UNCHANGED capacity

Move(r, from, to) ==
  /\ booking[r].phase = from
  /\ booking' = [booking EXCEPT ![r].phase = to]
  /\ UNCHANGED capacity

Take(r)    == Move(r, "reserved", "taken")
Release(r) == Move(r, "reserved", "freed")
Refund(r)  == Move(r, "taken", "freed")

LedgerNext ==
  \/ \E r \in Request, a \in Account, h \in Hours : Reserve(r, a, h)
  \/ \E r \in Request : Take(r) \/ Release(r) \/ Refund(r)

LedgerSpec == LedgerInit /\ [][LedgerNext]_ledger
=============================================================================
