-------------------------------- MODULE In3Usn --------------------------------
(***************************************************************************)
(* Devices that are rented through a contract (api/usn/usn_api.c).          *)
(*                                                                         *)
(* The application calls usn_update_state again and again; it handles the    *)
(* bookings that have begun or ended (check_actions), asks the contract for  *)
(* what is new (usn_update_bookings: everything at first, the contract's     *)
(* events since the last checked block later) and handles bookings again.    *)
(* The chain goes on between its calls, each of which may fail.              *)
(* usn_verify_message lets the holder of a booking use a device.             *)
(*                                                                         *)
(* The contract is modelled from what the code asks it: a device's bookings  *)
(* do not overlap, and returning one ends it now.                           *)
(***************************************************************************)
EXTENDS Integers, Sequences, FiniteSets, SequencesExt, In3None

CONSTANTS
  Devices,      \* their places in the list the application registered
  Users,
  Horizon,      \* bound: the last time
  MaxLog        \* bound: events of the contract

VARIABLES
  now,      \* conf->now, and the time of the chain
  onChain,  \* the contract: device |-> Seq([from, until, who])
  log,      \* its events; the k-th is in block k + 1
  bookings, \* device |-> Seq([from, until, who]), as this program knows them
  current,  \* device |-> current_booking, 0 for none
  checked,  \* last_checked_block
  update,   \* where usn_update_state is, [at, number, left, next]
  fresh,    \* nothing has changed since a complete usn_update_state
  receipt,  \* last_receipt: the event of its transaction, 0 before the first
  granted   \* the message accepted last: [device, who, event, at]
usnVars == <<now, onChain, log, bookings, current, checked, update, fresh, receipt, granted>>

Block == Len(log) + 1
Idle == [at |-> "idle", number |-> 0, left |-> {}, next |-> 0]
Booking(from, until, who) == [from |-> from, until |-> until, who |-> who]
Covers(b, t) == b.from <= t /\ t < b.until

-----------------------------------------------------------------------------
(* The contract *)

Logged(kind, d, b) == Append(log, [kind |-> kind, device |-> d, from |-> b.from, until |-> b.until, who |-> b.who])

Rent(d, b) ==
  /\ Len(log) < MaxLog
  /\ now <= b.from /\ b.from < b.until
  /\ \A i \in DOMAIN onChain[d] : onChain[d][i].until <= b.from \/ b.until <= onChain[d][i].from
  /\ onChain' = [onChain EXCEPT ![d] = Append(@, b)]
  /\ log' = Logged("rented", d, b)
  /\ fresh' = FALSE
  /\ UNCHANGED <<now, bookings, current, checked, update, receipt, granted>>

Return(d, i) ==
  LET b == onChain[d][i]
  IN  /\ Len(log) < MaxLog
      /\ Covers(b, now) /\ b.from < now
      /\ onChain' = [onChain EXCEPT ![d][i].until = now]
      /\ log' = Logged("returned", d, [b EXCEPT !.until = now])
      /\ fresh' = FALSE
      /\ UNCHANGED <<now, bookings, current, checked, update, receipt, granted>>

-----------------------------------------------------------------------------
(* usn_get_next_event, usn_event_handled, check_actions *)

\* what the bookings of a device ask for: every one ends, and one begins in the future or,
\* if none is under way, now
Stops(d) == {[ts |-> bookings[d][n].until, device |-> d, n |-> n, kind |-> "stop"] : n \in DOMAIN bookings[d]}
Begins(b, idle) == b.from > now \/ (idle /\ b.until > now)
Starts(d) == {[ts |-> bookings[d][n].from, device |-> d, n |-> n, kind |-> "start"] :
                n \in {m \in DOMAIN bookings[d] : Begins(bookings[d][m], current[d] = 0)}}
Events == UNION {Stops(d) \union Starts(d) : d \in Devices}

Earlier(e, f) ==
  \/ e.ts < f.ts
  \/ e.ts = f.ts /\ e.device < f.device
  \/ e.ts = f.ts /\ e.device = f.device /\ e.n < f.n
  \/ e.ts = f.ts /\ e.device = f.device /\ e.n = f.n /\ e.kind = "stop" /\ f.kind = "start"

NextEvent == CHOOSE e \in Events : \A f \in Events \ {e} : Earlier(e, f)
Due == Events # {} /\ NextEvent.ts <= now

\* Mutant of Started: the device does not remember the booking.
StartedForgotten(e) == current

Started(e) == [current EXCEPT ![e.device] = SelectInSeq(bookings[e.device], LAMBDA b : b.from = e.ts)]

Stopped(e) == [bookings EXCEPT ![e.device] = RemoveAt(@, SelectInSeq(@, LAMBDA b : b.until = e.ts))]

Act ==
  LET e == NextEvent
  IN  /\ update.at \in {"before", "after"} /\ Due
      /\ IF e.kind = "start" THEN current' = Started(e) /\ UNCHANGED bookings
         ELSE bookings' = Stopped(e) /\ current' = [current EXCEPT ![e.device] = 0]
      /\ UNCHANGED <<now, onChain, log, checked, update, fresh, receipt, granted>>

-----------------------------------------------------------------------------
(* usn_update_bookings *)

\* A call that failed ends it without another word.
UpdateFailed ==
  /\ update' = [Idle EXCEPT !.at = "after"]
  /\ UNCHANGED <<now, onChain, log, bookings, current, checked, fresh, receipt, granted>>

\* usn_update_state
Update ==
  /\ update = Idle
  /\ update' = [Idle EXCEPT !.at = "before"]
  /\ UNCHANGED <<now, onChain, log, bookings, current, checked, fresh, receipt, granted>>

\* eth_blockNumber
BlockNumber ==
  /\ update.at = "before" /\ ~Due
  /\ \/ /\ update' = [at |-> IF checked = Block THEN "after" ELSE IF checked = 0 THEN "load" ELSE "logs",
                      number |-> Block, left |-> IF checked = 0 THEN Devices ELSE {}, next |-> checked]
        /\ UNCHANGED <<now, onChain, log, bookings, current, checked, fresh, receipt, granted>>
     \/ UpdateFailed

\* The number of a device's bookings and each of them; a call that fails leaves those before
\* it.  current_booking is left alone.
Load ==
  LET d == CHOOSE d \in update.left : \A e \in update.left : d <= e
      first(n) == [bookings EXCEPT ![d] = SubSeq(onChain[d], 1, n)]
  IN  /\ update.at = "load" /\ update.left # {}
      /\ \/ /\ bookings' = first(Len(onChain[d]))
            /\ update' = [update EXCEPT !.left = @ \ {d}]
         \/ /\ bookings' \in {bookings} \union {first(n) : n \in 0 .. Len(onChain[d]) - 1}
            /\ update' = [Idle EXCEPT !.at = "after"]
      /\ UNCHANGED <<now, onChain, log, current, checked, fresh, receipt, granted>>

\* Mutant of AddBooking: every event is a booking.
AddBookingAgain(list, e) == Append(list, Booking(e.from, e.until, e.who))

\* usn_add_booking: a booking is known by its rented_from
AddBooking(list, e) ==
  LET i == SelectInSeq(list, LAMBDA b : b.from = e.from)
  IN  IF i # 0 THEN [list EXCEPT ![i].until = e.until] ELSE Append(list, Booking(e.from, e.until, e.who))

\* eth_getLogs between the last checked block and the one asked for; the k-th event is in block k + 1
Logs ==
  /\ update.at = "logs"
  /\ \/ /\ update' = [update EXCEPT !.at = "events"]
        /\ UNCHANGED <<now, onChain, log, bookings, current, checked, fresh, receipt, granted>>
     \/ UpdateFailed

\* The loop over the events found
TakeEvent ==
  LET e == log[update.next]
  IN  /\ update.at = "events" /\ update.next < update.number
      /\ bookings' = [bookings EXCEPT ![e.device] = AddBooking(@, e)]
      /\ update' = [update EXCEPT !.next = @ + 1]
      /\ UNCHANGED <<now, onChain, log, current, checked, fresh, receipt, granted>>

\* Everything was loaded or added: last_checked_block
Checked ==
  /\ \/ update.at = "load" /\ update.left = {}
     \/ update.at = "events" /\ update.next = update.number
  /\ checked' = update.number
  /\ update' = [update EXCEPT !.at = "after"]
  /\ UNCHANGED <<now, onChain, log, bookings, current, fresh, receipt, granted>>

\* The second check_actions is over.
Updated ==
  /\ update.at = "after" /\ ~Due
  /\ update' = Idle
  /\ fresh' = (checked = Block)
  /\ UNCHANGED <<now, onChain, log, bookings, current, checked, receipt, granted>>

Tick ==
  /\ update = Idle /\ now < Horizon
  /\ now' = now + 1
  /\ fresh' = FALSE
  /\ UNCHANGED <<onChain, log, bookings, current, checked, update, receipt, granted>>

-----------------------------------------------------------------------------
(* usn_verify_message *)

InTime(e, k, who) == e.from < e.until /\ e.from <= now /\ now <= e.until /\ who = e.who

\* With a transaction: its receipt holds the booking.  The one kept from the last message is
\* not compared with the device again.
VerifyBooked(d, who, k) ==
  /\ update = Idle
  /\ log[k].kind = "rented"
  /\ receipt = k \/ log[k].device = d
  /\ receipt' = k
  /\ granted' = IF InTime(log[k], k, who) THEN [device |-> d, who |-> who, event |-> k, at |-> now] ELSE granted
  /\ UNCHANGED <<now, onChain, log, bookings, current, checked, update, fresh>>

\* Without one the contract is asked; the code compares a pointer where it means the answer, so
\* every answer is taken.
VerifyAccess(d, who) ==
  /\ update = Idle
  /\ granted' = [device |-> d, who |-> who, event |-> 0, at |-> now]
  /\ UNCHANGED <<now, onChain, log, bookings, current, checked, update, fresh, receipt>>
-----------------------------------------------------------------------------
UsnInit ==
  /\ now = 1 /\ log = <<>> /\ checked = 0 /\ update = Idle
  /\ onChain = [d \in Devices |-> <<>>] /\ bookings = onChain
  /\ current = [d \in Devices |-> 0]
  /\ fresh = FALSE /\ receipt = 0 /\ granted = None

\* what usn_update_state does once it was called
UpdateStep == Act \/ BlockNumber \/ Load \/ Logs \/ TakeEvent \/ Checked \/ Updated

UsnNext ==
  \/ UpdateStep
  \/ Update
  \/ Tick
  \/ \E d \in Devices :
       \/ \E from, until \in 1 .. Horizon, who \in Users : Rent(d, Booking(from, until, who))
       \/ \E i \in DOMAIN onChain[d] : Return(d, i)
       \/ \E who \in Users : VerifyAccess(d, who) \/ \E k \in DOMAIN log : VerifyBooked(d, who, k)

\* usn_update_state is a plain call: once called it goes on.
UsnSpec == UsnInit /\ [][UsnNext]_usnVars /\ WF_usnVars(UpdateStep)
-----------------------------------------------------------------------------
(* Properties *)

UsnTypeOK ==
  /\ now \in 1 .. Horizon /\ checked \in 0 .. Block
  /\ update.at \in {"idle", "before", "load", "logs", "events", "after"}
  /\ update.number \in 0 .. Block /\ update.next \in 0 .. update.number /\ update.left \subseteq Devices
  /\ \A d \in Devices : current[d] \in Nat

\* After a complete update the device is rented exactly if a booking of the contract covers
\* this moment, however bookings began, ended, were returned or were missed before, and
\* every booking to come is known with its end.
RentedAsBooked ==
  fresh => \A d \in Devices :
    /\ current[d] # 0 <=> \E i \in DOMAIN onChain[d] : Covers(onChain[d][i], now)
    /\ {<<b.from, b.until>> : b \in {c \in Range(onChain[d]) : c.until > now}}
         = {<<b.from, b.until>> : b \in Range(bookings[d])}

\* A message that names a transaction is accepted from the user who rented with it, in the
\* time rented, whether its receipt was asked for or kept.
AcceptedIsBooked ==
  (granted # None /\ granted.event # 0) =>
    LET e == log[granted.event] IN granted.who = e.who /\ e.from <= granted.at /\ granted.at <= e.until

\* A device is rented while the contract says so, and a message that names a booking is accepted
\* from who made it while it lasts (usn_update_state, usn_verify_message).
DevicesFollowContract == UsnTypeOK /\ RentedAsBooked /\ AcceptedIsBooked

\* usn_update_state returns: its two loops over the bookings handle each only so often.
UpdatesEnd == update # Idle ~> update = Idle
==============================================================================
