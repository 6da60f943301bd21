--------------------------- MODULE PaperAccount ---------------------------
(***************************************************************************)
(* A share and one option written on it, in a PaperLedger, from the first  *)
(* trades to the days after the expiry: fills (execution.py), the options' *)
(* rules (Lifecycle), the three events of an assignment, appended one by   *)
(* one by a caller that may be interrupted between any two of them, and a  *)
(* copy of the ledger that is read back from a sink.                       *)
(*                                                                         *)
(* Nothing in src/ calls these functions but the tests: the caller is the  *)
(* environment, and does what their arguments and messages ask for.        *)
(***************************************************************************)
EXTENDS PaperLedger, Lifecycle, FiniteSets

CONSTANTS
    Share, Option,     \* the two instruments
    Strike, Multiplier, Expiry,
    DayLength,         \* hours of a day
    CloseAt,           \* the hour of the day at which the market closes
    Instants,          \* times at which something happens, 0 the first
    Sessions,          \* the days on which the market is open
    Calendar,          \* calendar evidence
    Spot,              \* prices of the share
    Spread,            \* ask minus bid
    Extrinsic,         \* extrinsic values of the option at the ask
    Dividend, SaleFloor,
    Premium,           \* extrinsic value at which the option is traded
    Secured,           \* the caller keeps written options secured
    Altered,           \* the sink may give a first, altered version of an event
    MaxFills,          \* bound
    MaxInterrupts      \* bound

VARIABLES
    now, spot,
    option,      \* the contract
    events,      \* the ledger
    told,        \* the last instruction
    legs,        \* events of an assignment that are still to be appended
    interrupts,
    copy         \* what the sink returned, or the ledger itself so far

vars == <<now, spot, option, events, told, legs, interrupts, copy>>

ASSUME AccountAssumption ==
    /\ Instrument = {Share, Option} /\ Share # Option /\ NoInstrument \notin Instrument
    /\ 0 \in Instants /\ 0 \in Sessions
    /\ {Strike, Multiplier, Expiry, Spread, Premium} \subseteq Nat
    /\ Instants \cup Sessions \cup Spot \cup Extrinsic \subseteq Nat
    /\ NoDate \notin Sessions /\ NoCalendar \notin Calendar
    /\ MaxInterrupts \in Nat /\ StartingCash \in Int

(* Verified evidence tells the truth about the days that it covers *)
ASSUME CalendarAssumption ==
    \A c \in Calendar :
        /\ c.start \in Int /\ c.end \in Int /\ IsCalendar(c)
        /\ c.verified => c.sessions = {d \in Sessions : c.start <= d /\ d <= c.end}

Day(time) == time \div DayLength

CloseOfExpiry == Expiry * DayLength + CloseAt

Short == -Quantity(events, Option)

Shares == Quantity(events, Share)

Fills == {e \in ToSet(events) : e.id[1] = "fill"}

NewFill == <<"fill", Cardinality(Fills) + 1>>

(* conservative_fill: the ask is paid and the bid received; cash_value and *)
(* the signs of book_fill                                                  *)
Bought(id, i, quantity, ask, multiplier) ==
    LedgerEvent(id, -ask * quantity * multiplier, i, quantity)

Sold(id, i, quantity, bid, multiplier) ==
    LedgerEvent(id, bid * quantity * multiplier, i, -quantity)

Ask(extrinsic) == extrinsic + (IF InTheMoney(option, spot) THEN Intrinsic(option, spot) ELSE 0)

(* Faulty variant: the share leg has the sign of a call for both rights *)
AssignmentEventsOfCall(prefix, contracts) ==
    LET shares == contracts * Multiplier
        sign == -1
    IN  << LedgerEvent(<<prefix, "option">>, 0, Option, contracts),
           LedgerEvent(<<prefix, "shares">>, 0, Share, sign * shares),
           LedgerEvent(<<prefix, "cash">>, -sign * Strike * shares, NoInstrument, 0) >>

(* assignment_events: a short put takes shares, a short call gives them *)
AssignmentEvents(prefix, contracts) ==
    LET shares == contracts * Multiplier
        sign == IF option.right = "call" THEN -1 ELSE 1
    IN  << LedgerEvent(<<prefix, "option">>, 0, Option, contracts),
           LedgerEvent(<<prefix, "shares">>, 0, Share, sign * shares),
           LedgerEvent(<<prefix, "cash">>, -sign * Strike * shares, NoInstrument, 0) >>

LegKinds == {"option", "shares", "cash"}

(* The caller names its assignments; two, so that the first may be partial *)
Assignments == {"first", "second"}

LegsOf(prefix) == {kind \in LegKinds : <<prefix, kind>> \in Ids(events)}

HalfBooked == {prefix \in Assignments : LegsOf(prefix) \notin {{}, LegKinds}}

(* Between two assignments or fills *)
Settled == HalfBooked = {} /\ legs = <<>>

FreePrefix == IF LegsOf("first") = {} THEN "first" ELSE "second"

Init ==
    /\ now = 0 /\ spot = Strike
    /\ option \in [right : {"put", "call"}, strike : {Strike}, expiry : {Expiry}]
    /\ events = <<>> /\ told = Hold /\ legs = <<>>
    /\ interrupts = 0 /\ copy = <<>>

(* A ledger that has been read back is left alone *)
Live == copy = <<>>

Tick(later, price) ==
    /\ Live /\ legs = <<>>
    /\ later \in Instants /\ now < later
    /\ \A t \in Instants : t <= now \/ later <= t
    /\ now' = later /\ spot' = price
    /\ UNCHANGED <<option, events, told, legs, interrupts, copy>>

Book(e, permittedShort) ==
    /\ Bookable(events, e, permittedShort)
    /\ events' = Appended(events, e)
    /\ UNCHANGED <<now, spot, option, told, legs, interrupts, copy>>

Trading == Live /\ Settled /\ now = 0 /\ Cardinality(Fills) < MaxFills

(* What written options may still cost *)
Collateral(contracts) == IF option.right = "put" THEN contracts * Multiplier * Strike ELSE 0

Cover(contracts) == IF option.right = "call" THEN contracts * Multiplier ELSE 0

StaysSecured(e, contracts) ==
    LET after == Replay(Append(events, e)) IN
    Secured => /\ after.cash >= Collateral(contracts)
               /\ after.position[Share].quantity >= Cover(contracts)

BuyShares(quantity) ==
    LET e == Bought(NewFill, Share, quantity, spot + Spread, 1) IN
    Trading /\ StaysSecured(e, Short) /\ Book(e, FALSE)

SellShares(quantity) ==
    LET e == Sold(NewFill, Share, quantity, spot, 1) IN
    Trading /\ StaysSecured(e, Short) /\ Book(e, FALSE)

WriteOption(contracts) ==
    LET e == Sold(NewFill, Option, contracts, Ask(Premium) - Spread, Multiplier) IN
    Trading /\ StaysSecured(e, Short + contracts) /\ Book(e, TRUE)

(* The same fill is booked a second time *)
BookAgain ==
    \E e \in Fills : Live /\ Settled /\ Book(e, e.instrument = Option)

Instruct(decision) ==
    /\ Live /\ Settled /\ Short > 0
    /\ told' = decision
    /\ UNCHANGED <<now, spot, option, events, legs, interrupts, copy>>

EvaluateExpiry ==
    /\ Day(now) >= Expiry
    /\ \E evidence \in [verified : BOOLEAN, complete : BOOLEAN, pending : BOOLEAN,
                        calendar : Calendar \cup {NoCalendar}] :
          Instruct(ExpiryInstruction(option, spot, now, CloseOfExpiry, evidence))

(* The dividend goes ex on the day of the expiry *)
EvaluateDividend ==
    \E extrinsic \in Extrinsic, dividend \in Dividend, floor \in SaleFloor, closed \in BOOLEAN :
        Instruct(ExDividendInstruction(option, spot, extrinsic, dividend, Expiry, Day(now),
                                       floor, closed))

EvaluateDeepItm ==
    \E extrinsic \in Extrinsic :
        Instruct(DeepItmInstruction(option, Ask(extrinsic), spot, Day(now)))

(* Told to close, the caller buys the options back, all or some *)
CloseOption(contracts) ==
    /\ Live /\ Settled /\ told = Close
    /\ contracts <= Short
    /\ Cardinality(Fills) < 2 * MaxFills
    /\ Book(Bought(NewFill, Option, contracts, Ask(Premium), Multiplier), TRUE)

Assigning == {"physical_assignment", "assign_next_reconciliation"}

BeginAssignment(contracts) ==
    /\ Live /\ Settled /\ told.action \in Assigning
    /\ contracts <= Short
    /\ FreePrefix = "second" => contracts = Short
    /\ LegsOf(FreePrefix) = {}
    /\ legs' = AssignmentEvents(FreePrefix, contracts)
    /\ UNCHANGED <<now, spot, option, events, told, interrupts, copy>>

(* append, which has no guard *)
AppendLeg ==
    /\ legs # <<>>
    /\ events' = Appended(events, Head(legs))
    /\ legs' = Tail(legs)
    /\ UNCHANGED <<now, spot, option, told, interrupts, copy>>

(* The caller is gone, and with it what it had not appended *)
Interrupt ==
    /\ legs # <<>> /\ interrupts < MaxInterrupts
    /\ legs' = <<>> /\ told' = Hold
    /\ interrupts' = interrupts + 1
    /\ UNCHANGED <<now, spot, option, events, copy>>

(* Its successor finds the option leg of an assignment without the others, *)
(* and makes the three events again                                        *)
Recover ==
    /\ Live /\ legs = <<>>
    /\ \E prefix \in HalfBooked :
          \E e \in ToSet(events) :
              /\ e.id = <<prefix, "option">>
              /\ legs' = AssignmentEvents(prefix, e.quantity)
    /\ UNCHANGED <<now, spot, option, events, told, interrupts, copy>>

Later(e) == [e EXCEPT !.amount = @ + 1]

(* A sink may return an event out of turn, twice or not at all *)
Returned(k) ==
    LET e == events[k]
        others == RemoveAt(events, k)
    IN  {others, <<e>> \o others, Append(others, e), <<e>> \o events, Append(events, e)}
            \cup (IF Altered THEN {<<Later(e)>> \o events} ELSE {})

ReadBack ==
    /\ Live /\ Settled /\ told = Hold
    /\ \E k \in DOMAIN events : copy' \in Returned(k) \ {<<>>}
    /\ UNCHANGED <<now, spot, option, events, told, legs, interrupts>>

Next ==
    \/ \E later \in Instants, price \in Spot : Tick(later, price)
    \/ \E quantity \in 1 .. 2 : BuyShares(quantity) \/ SellShares(quantity)
    \/ \E contracts \in 1 .. 2 :
          WriteOption(contracts) \/ CloseOption(contracts) \/ BeginAssignment(contracts)
    \/ BookAgain
    \/ EvaluateExpiry \/ EvaluateDividend \/ EvaluateDeepItm
    \/ AppendLeg \/ Interrupt \/ Recover
    \/ ReadBack

Spec == Init /\ [][Next]_vars
-----------------------------------------------------------------------------
IsEvent(e) ==
    /\ e.amount \in Int /\ e.quantity \in Int
    /\ e.instrument \in Instrument \cup {NoInstrument}
    /\ e.id \in ({"fill"} \X Nat) \cup (Assignments \X LegKinds)

TypeOK ==
    /\ now \in Instants /\ spot \in Spot \cup {Strike}
    /\ \A e \in ToSet(events) \cup ToSet(legs) \cup ToSet(copy) : IsEvent(e)
    /\ told.effective \in Sessions \cup {NoDate}
    /\ (told.effective # NoDate) = (told.action = "reconcile_next_business_morning")
    /\ interrupts \in 0 .. MaxInterrupts

(* "margin, leverage and short shares/options are prohibited in            *)
(* accounting" (accounting.py:67), although assignments are appended       *)
(* without book_fill: whenever no assignment is half booked, cash and      *)
(* shares are there, if the caller keeps what it has written secured.      *)
SettledSolvent ==
    Settled => Replay(events).cash >= 0 /\ Shares >= 0

Legs(kind) == {e \in ToSet(events) : e.id[1] # "fill" /\ e.id[2] = kind}

Quantities(set) == SumFunction([e \in set |-> e.quantity])

Amounts(set) == SumFunction([e \in set |-> e.amount])

(* "Physical share and strike-cash legs; never an option cash settlement": *)
(* whoever was interrupted where, every contract that was assigned has     *)
(* moved its shares at the strike, once, and never more contracts went     *)
(* than were written (lifecycle.py:58-77, accounting.py:50-56).            *)
AssignmentsSettle ==
    /\ Quantity(events, Option) <= 0
    /\ Settled =>
          LET moved == (IF option.right = "call" THEN -1 ELSE 1) * Multiplier
                           * Quantities(Legs("option"))
          IN  /\ Quantities(Legs("shares")) = moved
              /\ Amounts(Legs("cash")) = -Strike * moved

Paid == -Amounts({e \in Fills : e.instrument = Share /\ e.quantity > 0})

(* The cost basis of the shares held stays between nothing and what was    *)
(* paid for shares, through partial sales, assignments (which add shares   *)
(* at no cost) and closed positions (accounting.py:81-88).                 *)
BasisBounded ==
    LET p == Replay(events).position[Share]
    IN  /\ p.basis.num * p.basis.den >= 0
        /\ p.basis.num <= Paid * p.basis.den

(* The morning an instruction names is the first session after the expiry, *)
(* whatever calendar it was taken from (calendar.py:35-42).                *)
EffectiveIsNextSession ==
    told.effective # NoDate =>
        told.effective = Earliest({d \in Sessions : d > Expiry})

(* "Pure replay reconstructs the same state, and reconciliation reports    *)
(* missing, unexpected, or mismatched records": a copy without a           *)
(* difference replays to the same cash and quantities, in whatever order   *)
(* and however often its events come (accounting.py:108-119).              *)
CleanReconcile ==
    copy # <<>> /\ Reconcile(events, copy) = {} =>
        /\ Replay(copy).cash = Replay(events).cash
        /\ \A i \in Instrument : Quantity(copy, i) = Quantity(events, i)
=============================================================================
