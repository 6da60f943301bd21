----------------------------- MODULE Lifecycle -----------------------------
(***************************************************************************)
(* The option rules of lifecycle.py and the session rule of calendar.py.   *)
(* Times are hours, days are times divided by the length of a day, prices  *)
(* are cents.                                                              *)
(***************************************************************************)
EXTENDS Integers, Sequences

CONSTANTS
    NoDate,        \* None
    NoCalendar     \* no calendar evidence was given

Decision(action, effective) == [action |-> action, effective |-> effective]

Hold == Decision("hold", NoDate)
Close == Decision("close", NoDate)
Assign == Decision("physical_assignment", NoDate)
AssignLater == Decision("assign_next_reconciliation", NoDate)
Quarantine == Decision("quarantine", NoDate)
Morning(day) == Decision("reconcile_next_business_morning", day)

(* The sessions are those of the coverage, sorted in the code *)
IsCalendar(c) ==
    /\ c.start <= c.end
    /\ \A d \in c.sessions : c.start <= d /\ d <= c.end

Earliest(days) == CHOOSE d \in days : \A other \in days : d <= other

(* Faulty variant: evidence that begins later is taken to cover the day *)
NextSessionAfterUncovered(c, day, asOf) ==
    LET later == {d \in c.sessions : d > day} IN
    IF ~c.verified \/ c.observed > asOf \/ day >= c.end \/ later = {} THEN NoDate
    ELSE Earliest(later)

NextSessionAfter(c, day, asOf) ==
    LET later == {d \in c.sessions : d > day} IN
    IF ~c.verified \/ c.observed > asOf \/ day < c.start \/ day >= c.end \/ later = {}
    THEN NoDate
    ELSE Earliest(later)

Intrinsic(option, spot) ==
    IF option.right = "call" THEN spot - option.strike ELSE option.strike - spot

InTheMoney(option, spot) == Intrinsic(option, spot) >= 1

(* At or before the close, at most an hour from it *)
FinalHour(now, close) == now <= close /\ close - now <= 1

Pinned(option, spot) ==
    LET gap == spot - option.strike IN
    gap * 100 <= option.strike /\ -gap * 100 <= option.strike

(* Faulty variant: a morning is promised although no session is known *)
ExpiryInstructionUnknown(option, spot, now, close, evidence) ==
    LET next == IF evidence.calendar = NoCalendar THEN NoDate
                ELSE NextSessionAfter(evidence.calendar, option.expiry, now)
    IN  CASE ~evidence.verified \/ ~evidence.complete -> Quarantine
          [] FinalHour(now, close) /\ Pinned(option, spot) -> Close
          [] evidence.pending -> Morning(next)
          [] InTheMoney(option, spot) -> Assign
          [] OTHER -> Hold

(* evidence: the contract is verified, the spot is complete, the answer of *)
(* the clearing house is still pending, and a calendar                     *)
ExpiryInstruction(option, spot, now, close, evidence) ==
    LET next == IF evidence.calendar = NoCalendar THEN NoDate
                ELSE NextSessionAfter(evidence.calendar, option.expiry, now)
    IN  CASE ~evidence.verified \/ ~evidence.complete -> Quarantine
          [] FinalHour(now, close) /\ Pinned(option, spot) -> Close
          [] evidence.pending -> IF next = NoDate THEN Quarantine ELSE Morning(next)
          [] InTheMoney(option, spot) -> Assign
          [] OTHER -> Hold

(* The extrinsic value and the dividend are in cents per share; closed: the *)
(* call was bought back ahead of the date                                   *)
ExDividendInstruction(option, spot, extrinsic, dividend, exDate, today, saleFloor, closed) ==
    IF /\ ~closed
       /\ option.right = "call" /\ spot > option.strike
       /\ today < exDate /\ dividend > extrinsic
    THEN IF option.strike < saleFloor THEN Close ELSE Assign
    ELSE Hold

(* At five days to expiry or less, with five cents of extrinsic or less *)
DeepItmInstruction(option, ask, spot, today) ==
    LET intrinsic == Intrinsic(option, spot)
        left == option.expiry - today
    IN  IF /\ option.right = "put" /\ intrinsic > 0
           /\ 0 <= left /\ left <= 5
           /\ ask - intrinsic <= 5
        THEN AssignLater ELSE Hold
=============================================================================
