---------------------------- MODULE PaperLedger ----------------------------
(***************************************************************************)
(* PaperLedger and reconcile (accounting.py): a list of events, of which   *)
(* everything else is a replay.  Amounts are in units of the fund's        *)
(* currency; a cost basis is a fraction.                                   *)
(***************************************************************************)
EXTENDS Integers, Sequences, SequencesExt

CONSTANTS
    Instrument,
    NoInstrument,   \* a cash-only event
    StartingCash

LedgerEvent(id, amount, instrument, quantity) ==
    [id |-> id, amount |-> amount, instrument |-> instrument, quantity |-> quantity]

Ids(events) == {e.id : e \in ToSet(events)}

(* append: "replaying the same event id is a deterministic no-op" *)
Appended(events, e) == IF e.id \in Ids(events) THEN events ELSE Append(events, e)

NoPosition == [quantity |-> 0, basis |-> [num |-> 0, den |-> 1]]

Opening ==
    [cash |-> StartingCash, position |-> [i \in Instrument |-> NoPosition], seen |-> {}]

(* Faulty variant: a reduction scales the basis by the number that left *)
BasisAfterByDelta(p, e) ==
    CASE e.quantity > 0 -> [p.basis EXCEPT !.num = @ - e.amount * p.basis.den]
      [] p.quantity # 0 -> [num |-> p.basis.num * e.quantity, den |-> p.basis.den * p.quantity]
      [] OTHER -> p.basis

(* What is added costs its amount; what is taken away leaves the basis in   *)
(* proportion, also when the position changes its sign.                     *)
BasisAfter(p, e) ==
    CASE e.quantity > 0 -> [p.basis EXCEPT !.num = @ - e.amount * p.basis.den]
      [] e.quantity < 0 /\ p.quantity # 0 ->
             [num |-> p.basis.num * (p.quantity + e.quantity), den |-> p.basis.den * p.quantity]
      [] OTHER -> p.basis

(* A position that comes to zero is forgotten, and its basis with it *)
PositionAfter(p, e) ==
    IF p.quantity + e.quantity = 0 THEN NoPosition
    ELSE [quantity |-> p.quantity + e.quantity, basis |-> BasisAfter(p, e)]

(* Faulty variant: an id that comes again is counted again *)
ReplayRepeated(state, e) ==
    [state EXCEPT !.cash = @ + e.amount,
                  !.position = [i \in Instrument |->
                      IF i = e.instrument THEN PositionAfter(@[i], e) ELSE @[i]]]

(* One turn of replay's loop *)
ReplayEvent(state, e) ==
    IF e.id \in state.seen THEN state
    ELSE [cash |-> state.cash + e.amount,
          position |-> [i \in Instrument |->
              IF i = e.instrument /\ e.quantity # 0 THEN PositionAfter(state.position[i], e)
              ELSE state.position[i]],
          seen |-> state.seen \cup {e.id}]

Replay(events) == FoldLeft(ReplayEvent, Opening, events)

Quantity(events, i) == Replay(events).position[i].quantity

(* book_fill raises unless this holds of the ledger with the fill *)
Bookable(events, e, permittedShort) ==
    /\ Replay(Append(events, e)).cash >= 0
    /\ Quantity(Append(events, e), e.instrument) >= 0 \/ permittedShort

(* {e.event_id: e for e in events}: the last event of an id is kept *)
ById(events) ==
    [id \in Ids(events) |->
        events[CHOOSE k \in DOMAIN events :
                  /\ events[k].id = id
                  /\ \A j \in DOMAIN events : j > k => events[j].id # id]]

(* reconcile: the ids that are missing, unexpected or mismatched *)
Reconcile(expected, actual) ==
    LET want == ById(expected)
        have == ById(actual)
    IN  {id \in Ids(expected) \cup Ids(actual) :
            \/ id \notin Ids(expected) \cap Ids(actual)
            \/ want[id] # have[id]}
=============================================================================
