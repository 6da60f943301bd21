------------------------- MODULE PaperAccount_proofs -------------------------
(***************************************************************************)
(* The account for any prices, calendars, instants and fills, and callers  *)
(* that are interrupted anywhere.                                          *)
(*                                                                         *)
(* AccountInv adds to the types that an instruction that names a morning   *)
(* names the first session after the expiry of the contract, which is      *)
(* CalendarAssumption's and LeastMember's doing: the days that a calendar  *)
(* covers lie before those that it does not.                               *)
(*                                                                         *)
(* A replay is a fold; that its cash and quantities are sums over the      *)
(* events of distinct ids (BalancesAreSums) makes them independent of      *)
(* order and repetition. LedgerInv says which legs of at most one          *)
(* assignment are booked, and what the balances would be without them:     *)
(* settled, and enough for what is written. BasisInv bounds the cost       *)
(* basis, a fraction, by what was paid for shares.                         *)
(***************************************************************************)
EXTENDS PaperAccount, FiniteSums

EventId == ({"fill"} \X Nat) \cup (Assignments \X LegKinds)

Event == [id : EventId, amount : Int, instrument : Instrument \cup {NoInstrument}, quantity : Int]

Contract == [right : {"put", "call"}, strike : {Strike}, expiry : {Expiry}]

NextSession == Earliest({d \in Sessions : d > Expiry})

(* What the rules may say on the contract *)
Instructions ==
    {Hold, Close, Assign, AssignLater, Quarantine}
        \cup (IF NextSession \in Sessions THEN {Morning(NextSession)} ELSE {})

AccountInv ==
    /\ now \in Instants /\ spot \in Spot \cup {Strike}
    /\ option \in Contract
    /\ events \in Seq(Event) /\ legs \in Seq(Event) /\ copy \in Seq(Event)
    /\ told \in Instructions
    /\ interrupts \in 0 .. MaxInterrupts

-----------------------------------------------------------------------------
(* The earliest of some days is one of them, and no other is before it. *)
LEMMA EarliestIsLeast ==
  ASSUME NEW T \in SUBSET Nat, T # {}
  PROVE  Earliest(T) \in T /\ \A d \in T : Earliest(T) <= d
BY LeastMember DEF Earliest

(* A calendar that answers names the first session of all. *)
LEMMA CalendarsAgree ==
  ASSUME NEW c \in Calendar, NEW asOf, NextSessionAfter(c, Expiry, asOf) # NoDate
  PROVE  NextSessionAfter(c, Expiry, asOf) = NextSession /\ NextSession \in Sessions
<1> DEFINE later == {d \in c.sessions : d > Expiry}
           all == {d \in Sessions : d > Expiry}
<1>1. /\ c.verified /\ ~(Expiry < c.start) /\ ~(Expiry >= c.end) /\ later # {}
      /\ NextSessionAfter(c, Expiry, asOf) = Earliest(later)
  BY DEF NextSessionAfter
<1>2. /\ c.sessions = {d \in Sessions : c.start <= d /\ d <= c.end}
      /\ c.start \in Int /\ c.end \in Int /\ Expiry \in Nat /\ Sessions \subseteq Nat
  BY <1>1, CalendarAssumption, AccountAssumption
<1>3. later \subseteq all /\ later \in SUBSET Nat /\ all \in SUBSET Nat
  BY <1>2
<1>4. Earliest(later) \in later /\ \A d \in later : Earliest(later) <= d
  BY <1>1, <1>3, EarliestIsLeast
<1>5. Earliest(all) \in all /\ \A d \in all : Earliest(all) <= d
  BY <1>1, <1>3, EarliestIsLeast
<1>6. Earliest(all) \in later
  <2>1. /\ Earliest(all) <= Earliest(later)
        /\ Earliest(later) \in Nat /\ Earliest(later) <= c.end
        /\ Earliest(all) \in Nat /\ Earliest(all) > Expiry /\ Earliest(all) \in Sessions
    BY <1>2, <1>3, <1>4, <1>5
  <2> HIDE DEF all, later
  <2>2. c.start <= Earliest(all) /\ Earliest(all) <= c.end
    BY <2>1, <1>1, <1>2
  <2> QED
    BY <2>1, <2>2, <1>2 DEF later
<1>7. Earliest(all) = Earliest(later)
  <2>1. /\ Earliest(all) <= Earliest(later) /\ Earliest(later) <= Earliest(all)
        /\ Earliest(all) \in Nat /\ Earliest(later) \in Nat
    BY <1>3, <1>4, <1>5, <1>6
  <2> HIDE DEF all, later
  <2> QED
    BY <2>1
<1> QED
  BY <1>1, <1>5, <1>7 DEF NextSession

(* Every rule gives one of the instructions. *)
LEMMA ExpiryInstructions ==
  ASSUME option \in Contract, NEW evidence, NEW close,
         evidence.calendar \in Calendar \cup {NoCalendar}
  PROVE  ExpiryInstruction(option, spot, now, close, evidence) \in Instructions
<1> DEFINE next == IF evidence.calendar = NoCalendar THEN NoDate
                   ELSE NextSessionAfter(evidence.calendar, option.expiry, now)
<1>1. next # NoDate => next = NextSession /\ NextSession \in Sessions
  BY CalendarsAgree DEF Contract
<1>2. next # NoDate => Morning(next) \in Instructions
  BY <1>1 DEF Instructions
<1>3. {Hold, Close, Assign, Quarantine} \subseteq Instructions
  BY DEF Instructions
<1> QED
  BY <1>2, <1>3 DEF ExpiryInstruction

LEMMA EarlyInstructions ==
  /\ \A price, extrinsic, dividend, ex, today, floor, closed :
        ExDividendInstruction(option, price, extrinsic, dividend, ex, today, floor, closed)
            \in Instructions
  /\ \A ask, price, today : DeepItmInstruction(option, ask, price, today) \in Instructions
<1>1. {Hold, Close, Assign, AssignLater} \subseteq Instructions
  BY DEF Instructions
<1> QED
  BY <1>1 DEF ExDividendInstruction, DeepItmInstruction

-----------------------------------------------------------------------------
LEMMA MembersAreEvents ==
  ASSUME NEW s \in Seq(Event)
  PROVE  ToSet(s) \subseteq Event
BY DEF ToSet

(* Fills are numbered by their count. *)
LEMMA FillIdIsId ==
  ASSUME events \in Seq(Event)
  PROVE  NewFill \in EventId
<1>1. events \in Surjection(1 .. Len(events), ToSet(events))
  BY DEF Surjection, ToSet
<1>2. IsFiniteSet(1 .. Len(events))
  BY FS_Interval
<1>3. IsFiniteSet(ToSet(events))
  BY <1>1, <1>2, FS_Surjection
<1>4. Cardinality(Fills) \in Nat
  BY <1>3, FS_Subset, FS_CardinalityType DEF Fills
<1> QED
  BY <1>4 DEF NewFill, EventId

(* What is traded is an event. *)
LEMMA TradesAreEvents ==
  ASSUME NEW id \in EventId, NEW i \in Instrument, NEW quantity \in Int,
         NEW price \in Int, NEW multiplier \in Int
  PROVE  Bought(id, i, quantity, price, multiplier) \in Event
         /\ Sold(id, i, quantity, price, multiplier) \in Event
<1>1. -price * quantity * multiplier \in Int /\ price * quantity * multiplier \in Int
      /\ -quantity \in Int
  OBVIOUS
<1> QED
  BY <1>1 DEF Bought, Sold, LedgerEvent, Event

LEMMA AskIsInteger ==
  ASSUME AccountInv, NEW extrinsic \in Nat
  PROVE  Ask(extrinsic) \in Int
<1>1. option.strike \in Int /\ spot \in Int
  BY AccountAssumption DEF AccountInv, Contract
<1> QED
  BY <1>1 DEF Ask, InTheMoney, Intrinsic

(* The three legs of an assignment of any size are events. *)
LEMMA LegsAreEvents ==
  ASSUME option \in Contract, NEW prefix \in Assignments, NEW contracts \in Int
  PROVE  AssignmentEvents(prefix, contracts) \in Seq(Event)
<1> DEFINE shares == contracts * Multiplier
           sign == IF option.right = "call" THEN -1 ELSE 1
<1>1. /\ <<prefix, "option">> \in EventId /\ <<prefix, "shares">> \in EventId
      /\ <<prefix, "cash">> \in EventId
  BY DEF EventId, LegKinds
<1>2. Share \in Instrument /\ Option \in Instrument /\ Multiplier \in Int /\ Strike \in Int
  BY AccountAssumption
<1>3. shares \in Int /\ sign \in Int
  BY <1>2
<1> HIDE DEF shares, sign
<1>4. sign * shares \in Int /\ -sign * Strike * shares \in Int
  BY <1>2, <1>3
<1>5. /\ LedgerEvent(<<prefix, "option">>, 0, Option, contracts) \in Event
      /\ LedgerEvent(<<prefix, "shares">>, 0, Share, sign * shares) \in Event
      /\ LedgerEvent(<<prefix, "cash">>, -sign * Strike * shares, NoInstrument, 0) \in Event
  BY <1>1, <1>2, <1>4 DEF LedgerEvent, Event
<1> QED
  BY <1>5 DEF AssignmentEvents, shares, sign

LEMMA AppendedIsLedger ==
  ASSUME NEW s \in Seq(Event), NEW e \in Event
  PROVE  Appended(s, e) \in Seq(Event)
BY DEF Appended

LEMMA BookKeeps ==
  ASSUME AccountInv, NEW e \in Event, NEW permitted, Book(e, permitted)
  PROVE  AccountInv'
<1>1. events' \in Seq(Event)
  BY AppendedIsLedger DEF Book, AccountInv
<1> QED
  BY <1>1 DEF Book, AccountInv

(* What a sink returns is made of the events it was given. *)
LEMMA ReturnedIsLedger ==
  ASSUME events \in Seq(Event), NEW k \in DOMAIN events
  PROVE  Returned(k) \subseteq Seq(Event)
<1> DEFINE e == events[k]
           others == RemoveAt(events, k)
<1>1. e \in Event /\ k \in 1 .. Len(events)
  OBVIOUS
<1>2. Later(e) \in Event
  BY <1>1 DEF Later, Event
<1>3. others \in Seq(Event)
  <2>1. /\ SubSeq(events, 1, k - 1) \in Seq(Event)
        /\ SubSeq(events, k + 1, Len(events)) \in Seq(Event)
    BY <1>1
  <2> QED
    BY <2>1 DEF RemoveAt
<1> HIDE DEF e, others
<1>4. /\ <<e>> \o others \in Seq(Event) /\ Append(others, e) \in Seq(Event)
      /\ <<e>> \o events \in Seq(Event) /\ Append(events, e) \in Seq(Event)
      /\ <<Later(e)>> \o events \in Seq(Event)
  BY <1>1, <1>2, <1>3
<1> QED
  BY <1>3, <1>4 DEF Returned, e, others

-----------------------------------------------------------------------------
LEMMA AccountInit == Init => AccountInv
<1> SUFFICES ASSUME Init PROVE AccountInv
  OBVIOUS
<1>1. Hold \in Instructions
  BY DEF Instructions
<1>2. 0 \in 0 .. MaxInterrupts /\ 0 \in Instants
  BY AccountAssumption
<1> QED
  BY <1>1, <1>2 DEF Init, AccountInv, Contract

LEMMA InstructKeeps ==
  ASSUME AccountInv, NEW decision \in Instructions, Instruct(decision)
  PROVE  AccountInv'
BY DEF AccountInv, Instruct

(* Trades of a share or of the option, one or two at a time, are events. *)
LEMMA FillsAreEvents ==
  ASSUME AccountInv, NEW quantity \in 1 .. 2
  PROVE  /\ Bought(NewFill, Share, quantity, spot + Spread, 1) \in Event
         /\ Sold(NewFill, Share, quantity, spot, 1) \in Event
         /\ Sold(NewFill, Option, quantity, Ask(Premium) - Spread, Multiplier) \in Event
         /\ Bought(NewFill, Option, quantity, Ask(Premium), Multiplier) \in Event
         /\ NewFill[1] = "fill"
<1>1. /\ Share \in Instrument /\ Option \in Instrument /\ Multiplier \in Int
      /\ Spread \in Int /\ Premium \in Nat /\ spot \in Int /\ quantity \in Int
  BY AccountAssumption DEF AccountInv
<1>2. NewFill \in EventId /\ Ask(Premium) \in Int
  BY <1>1, FillIdIsId, AskIsInteger DEF AccountInv
<1>3. spot + Spread \in Int /\ Ask(Premium) - Spread \in Int /\ 1 \in Int
  BY <1>1, <1>2
<1>4. NewFill[1] = "fill"
  BY DEF NewFill
<1> QED
  BY <1>1, <1>2, <1>3, <1>4, TradesAreEvents

LEMMA FillsKeep ==
  ASSUME AccountInv, NEW quantity \in 1 .. 2,
         \/ BuyShares(quantity) \/ SellShares(quantity)
         \/ WriteOption(quantity) \/ CloseOption(quantity)
  PROVE  AccountInv'
BY FillsAreEvents, BookKeeps DEF BuyShares, SellShares, WriteOption, CloseOption

LEMMA AccountNextKeeps == AccountInv /\ [Next]_vars => AccountInv'
<1> SUFFICES ASSUME AccountInv, [Next]_vars PROVE AccountInv'
  OBVIOUS
<1>0. /\ events \in Seq(Event) /\ legs \in Seq(Event) /\ copy \in Seq(Event)
      /\ option \in Contract
  BY DEF AccountInv
<1>1. ASSUME NEW later \in Instants, NEW price \in Spot, Tick(later, price) PROVE AccountInv'
  BY <1>1 DEF Tick, AccountInv
<1>2. ASSUME NEW quantity \in 1 .. 2, BuyShares(quantity) \/ SellShares(quantity)
      PROVE  AccountInv'
  BY <1>2, FillsKeep
<1>3. ASSUME NEW contracts \in 1 .. 2, WriteOption(contracts) \/ CloseOption(contracts)
      PROVE  AccountInv'
  BY <1>3, FillsKeep
<1>4. ASSUME NEW contracts \in 1 .. 2, BeginAssignment(contracts) PROVE AccountInv'
  <2>1. FreePrefix \in Assignments
    BY DEF FreePrefix, Assignments
  <2>2. legs' \in Seq(Event)
    BY <1>0, <1>4, <2>1, LegsAreEvents DEF BeginAssignment
  <2> QED
    BY <1>4, <2>2 DEF BeginAssignment, AccountInv
<1>5. CASE BookAgain
  <2>1. PICK e \in Fills : Book(e, e.instrument = Option)
    BY <1>5 DEF BookAgain
  <2>2. e \in Event
    BY <1>0, MembersAreEvents DEF Fills
  <2> QED
    BY <2>1, <2>2, BookKeeps
<1>6. CASE EvaluateExpiry
  <2>1. PICK evidence \in [verified : BOOLEAN, complete : BOOLEAN, pending : BOOLEAN,
                           calendar : Calendar \cup {NoCalendar}] :
           Instruct(ExpiryInstruction(option, spot, now, CloseOfExpiry, evidence))
    BY <1>6 DEF EvaluateExpiry
  <2>2. ExpiryInstruction(option, spot, now, CloseOfExpiry, evidence) \in Instructions
    BY <1>0, ExpiryInstructions
  <2> QED
    BY <2>1, <2>2, InstructKeeps
<1>7. CASE EvaluateDividend \/ EvaluateDeepItm
  BY <1>7, EarlyInstructions, InstructKeeps DEF EvaluateDividend, EvaluateDeepItm
<1>8. CASE AppendLeg
  <2>1. Head(legs) \in Event /\ Tail(legs) \in Seq(Event)
    BY <1>0, <1>8 DEF AppendLeg
  <2>2. events' \in Seq(Event) /\ legs' \in Seq(Event)
    BY <1>0, <1>8, <2>1, AppendedIsLedger DEF AppendLeg
  <2> QED
    BY <1>8, <2>2 DEF AppendLeg, AccountInv
<1>9. CASE Interrupt
  <2>1. interrupts' \in 0 .. MaxInterrupts /\ legs' = <<>> /\ told' = Hold
    BY <1>9, AccountAssumption DEF Interrupt, AccountInv
  <2>2. Hold \in Instructions
    BY DEF Instructions
  <2> QED
    BY <1>9, <2>1, <2>2 DEF Interrupt, AccountInv
<1>10. CASE Recover
  <2>1. PICK prefix \in HalfBooked :
           \E e \in ToSet(events) : /\ e.id = <<prefix, "option">>
                                   /\ legs' = AssignmentEvents(prefix, e.quantity)
    BY <1>10 DEF Recover
  <2>2. PICK e \in ToSet(events) : legs' = AssignmentEvents(prefix, e.quantity)
    BY <2>1
  <2>3. e.quantity \in Int /\ prefix \in Assignments
    BY <1>0, <2>2, MembersAreEvents DEF Event, HalfBooked
  <2>4. legs' \in Seq(Event)
    BY <1>0, <2>2, <2>3, LegsAreEvents
  <2> QED
    BY <1>10, <2>4 DEF Recover, AccountInv
<1>11. CASE ReadBack
  <2>1. copy' \in Seq(Event)
    BY <1>0, <1>11, ReturnedIsLedger DEF ReadBack
  <2> QED
    BY <1>11, <2>1 DEF ReadBack, AccountInv
<1>12. CASE UNCHANGED vars
  BY <1>12 DEF vars, AccountInv
<1> QED
  BY <1>1, <1>2, <1>3, <1>4, <1>5, <1>6, <1>7, <1>8, <1>9, <1>10, <1>11, <1>12 DEF Next

LEMMA AccountInvCorrect == Spec => []AccountInv
<1> QED
  BY AccountInit, AccountNextKeeps, PTL DEF Spec

(* Every event is well formed, also those a sink returns, and a morning is *)
(* named exactly by the instruction to reconcile on it.                    *)
THEOREM AccountTypeCorrect == Spec => []TypeOK
<1>1. AccountInv => TypeOK
  <2> SUFFICES ASSUME AccountInv PROVE TypeOK
    OBVIOUS
  <2>1. \A e \in ToSet(events) \cup ToSet(legs) \cup ToSet(copy) : IsEvent(e)
    BY MembersAreEvents DEF AccountInv, Event, EventId, IsEvent
  <2>2. /\ told.effective \in Sessions \cup {NoDate}
        /\ (told.effective # NoDate) = (told.action = "reconcile_next_business_morning")
    BY AccountAssumption
    DEF AccountInv, Instructions, Hold, Close, Assign, AssignLater, Quarantine, Morning, Decision
  <2> QED
    BY <2>1, <2>2 DEF TypeOK, AccountInv
<1> QED
  BY <1>1, AccountInvCorrect, PTL

(* The morning an instruction names is the first session after the expiry, *)
(* from whatever truthful calendar, and whenever it was asked              *)
(* (calendar.py:35-42, lifecycle.py:43-51).                                *)
THEOREM MorningsAreNext == Spec => []EffectiveIsNextSession
<1>1. AccountInv => EffectiveIsNextSession
  BY DEF AccountInv, EffectiveIsNextSession, Instructions, NextSession, Hold, Close, Assign,
         AssignLater, Quarantine, Morning, Decision
<1> QED
  BY <1>1, AccountInvCorrect, PTL
-----------------------------------------------------------------------------
(* What replay makes of a ledger, event by event.                          *)
(*                                                                         *)
(* FoldLeft is a recursive function on the subsets of the positions, each  *)
(* less its last one than the one before: of the prefixes, in the end.     *)
LastOf(s) == CHOOSE x \in s : \A y \in s : x >= y

ReplayStep(ev, f, s) ==
    IF s = {} THEN Opening ELSE ReplayEvent(f[s \ {LastOf(s)}], ev[LastOf(s)])

Replays(ev) == CHOOSE f : f = [s \in SUBSET DOMAIN ev |-> ReplayStep(ev, f, s)]

LEMMA ReplayIsLast ==
  ASSUME NEW ev
  PROVE  Replay(ev) = Replays(ev)[DOMAIN ev]
BY DEF Replay, FoldLeft, MapThenFoldSet, Replays, ReplayStep, LastOf, Max

LEMMA LastIsMember ==
  ASSUME NEW b \in Nat, NEW s \in SUBSET (1 .. b), s # {}
  PROVE  LastOf(s) \in s /\ \A y \in s : LastOf(s) >= y
<1>1. s \in SUBSET (0 .. b)
  OBVIOUS
<1>2. PICK m \in s : \A y \in s : y <= m
  BY <1>1, GreatestMember
<1>3. \A y \in s : m >= y
  BY <1>1, <1>2
<1> QED
  BY <1>2, <1>3 DEF LastOf

(* The recursive function exists, as those of FiniteSums do. *)
LEMMA ReplaysExist ==
  ASSUME NEW S, NEW ev \in Seq(S)
  PROVE  Replays(ev) = [s \in SUBSET DOMAIN ev |-> ReplayStep(ev, Replays(ev), s)]
<1> DEFINE D == DOMAIN ev
           Small(n) == {s \in SUBSET D : Cardinality(s) <= n}
           Solves(f, n) == f = [s \in Small(n) |-> ReplayStep(ev, f, s)]
           G == {n \in Nat : \E f : Solves(f, n)}
<1>dom. D = 1 .. Len(ev) /\ Len(ev) \in Nat /\ IsFiniteSet(D)
  BY FS_Interval
<1> HIDE DEF D
<1>card. \A s \in SUBSET D : IsFiniteSet(s) /\ Cardinality(s) \in Nat
  BY <1>dom, FS_Subset, FS_CardinalityType
<1>less. ASSUME NEW s \in SUBSET D, s # {}
         PROVE  /\ LastOf(s) \in s /\ s \ {LastOf(s)} \in SUBSET D
                /\ Cardinality(s \ {LastOf(s)}) = Cardinality(s) - 1
  <2>1. LastOf(s) \in s
    BY <1>less, <1>dom, LastIsMember
  <2> QED
    BY <2>1, <1>card, FS_RemoveElement
<1>1. 0 \in G
  <2> DEFINE f == [s \in Small(0) |-> Opening]
  <2>1. \A s \in Small(0) : s = {}
    BY <1>card, FS_EmptySet
  <2>2. Solves(f, 0)
    BY <2>1 DEF ReplayStep
  <2> QED BY <2>2
<1>2. ASSUME NEW n \in G PROVE n + 1 \in G
  <2>1. PICK f : Solves(f, n)
    OBVIOUS
  <2> DEFINE h == [s \in Small(n + 1) |-> ReplayStep(ev, f, s)]
  <2>2. ASSUME NEW s \in Small(n + 1) PROVE ReplayStep(ev, h, s) = ReplayStep(ev, f, s)
    <3>1. CASE s = {}
      BY <3>1 DEF ReplayStep
    <3>2. CASE s # {}
      <4> DEFINE t == s \ {LastOf(s)}
      <4>0. /\ t \in SUBSET D /\ Cardinality(t) = Cardinality(s) - 1
            /\ Cardinality(s) \in Nat /\ Cardinality(s) <= n + 1 /\ n \in Nat
        BY <3>2, <1>less, <1>card
      <4>1. t \in Small(n) /\ t \in Small(n + 1)
        <5> HIDE DEF t
        <5> QED BY <4>0
      <4>2. f[t] = ReplayStep(ev, f, t)
        BY <2>1, <4>1
      <4>3. h[t] = ReplayStep(ev, f, t)
        BY <4>1
      <4> QED BY <4>2, <4>3, <3>2 DEF ReplayStep
    <3> QED BY <3>1, <3>2
  <2>3. Solves(h, n + 1)
    BY <2>2
  <2>4. \E k : Solves(k, n + 1)
    <3> HIDE DEF h, Solves
    <3> QED BY <2>3
  <2>5. n + 1 \in Nat
    OBVIOUS
  <2> HIDE DEF Solves
  <2> QED BY <2>4, <2>5
<1>3. G = Nat
  <2>1. G \in SUBSET Nat
    OBVIOUS
  <2> HIDE DEF G
  <2> QED BY <2>1, <1>1, <1>2, NaturalInduction
<1>4. Small(Cardinality(D)) = SUBSET D
  BY <1>dom, FS_Subset
<1>5. Cardinality(D) \in G
  BY <1>3, <1>dom, <1>card
<1>6. \E f : f = [s \in SUBSET D |-> ReplayStep(ev, f, s)]
  BY <1>4, <1>5
<1> QED BY <1>6 DEF Replays, D

LEMMA ReplayOfNothing == Replay(<<>>) = Opening
<1>1. <<>> \in Seq({}) /\ DOMAIN <<>> = {}
  OBVIOUS
<1>2. Replays(<<>>)[{}] = ReplayStep(<<>>, Replays(<<>>), {})
  BY <1>1, ReplaysExist
<1> QED
  BY <1>1, <1>2, ReplayIsLast DEF ReplayStep

(* One event more is one turn of replay's loop more. *)
LEMMA ReplayOfAppend ==
  ASSUME NEW S, NEW ev \in Seq(S), NEW e \in S
  PROVE  Replay(Append(ev, e)) = ReplayEvent(Replay(ev), e)
<1> DEFINE longer == Append(ev, e)
           p == Replays(ev)
           q == Replays(longer)
           G == {n \in Nat : n <= Len(ev) => p[1 .. n] = q[1 .. n]}
<1>1. /\ longer \in Seq(S) /\ Len(ev) \in Nat /\ Len(longer) = Len(ev) + 1
      /\ DOMAIN ev = 1 .. Len(ev) /\ DOMAIN longer = 1 .. Len(ev) + 1
      /\ longer[Len(ev) + 1] = e /\ \A k \in 1 .. Len(ev) : longer[k] = ev[k]
  OBVIOUS
<1>2. /\ \A s \in SUBSET (1 .. Len(ev)) : p[s] = ReplayStep(ev, p, s)
      /\ \A s \in SUBSET (1 .. Len(ev) + 1) : q[s] = ReplayStep(longer, q, s)
  BY <1>1, ReplaysExist
<1> HIDE DEF longer, p, q
<1>3. ASSUME NEW n \in Nat
      PROVE  /\ LastOf(1 .. n + 1) = n + 1 /\ (1 .. n + 1) \ {n + 1} = 1 .. n
             /\ 1 .. n + 1 # {}
  <2>1. 1 .. n + 1 \in SUBSET (1 .. n + 1) /\ n + 1 \in 1 .. n + 1 /\ n + 1 \in Nat
    OBVIOUS
  <2>2. LastOf(1 .. n + 1) \in 1 .. n + 1 /\ LastOf(1 .. n + 1) >= n + 1
    BY <2>1, LastIsMember
  <2> QED
    BY <2>2
<1>4. 0 \in G
  <2>1. 1 .. 0 = {} /\ {} \in SUBSET (1 .. Len(ev)) /\ {} \in SUBSET (1 .. Len(ev) + 1)
    OBVIOUS
  <2>2. p[{}] = Opening /\ q[{}] = Opening
    BY <1>2, <2>1 DEF ReplayStep
  <2> QED
    BY <2>1, <2>2
<1>5. ASSUME NEW n \in G PROVE n + 1 \in G
  <2> SUFFICES ASSUME n + 1 <= Len(ev) PROVE p[1 .. n + 1] = q[1 .. n + 1]
    OBVIOUS
  <2>1. p[1 .. n] = q[1 .. n] /\ ev[n + 1] = longer[n + 1]
    BY <1>1
  <2>2. 1 .. n + 1 \in SUBSET (1 .. Len(ev)) /\ 1 .. n + 1 \in SUBSET (1 .. Len(ev) + 1)
    BY <1>1
  <2>3. /\ p[1 .. n + 1] = ReplayEvent(p[1 .. n], ev[n + 1])
        /\ q[1 .. n + 1] = ReplayEvent(q[1 .. n], longer[n + 1])
    <3> DEFINE s == 1 .. n + 1
    <3>1. s # {} /\ LastOf(s) = n + 1 /\ s \ {n + 1} = 1 .. n
      BY <1>3
    <3>2. p[s] = ReplayStep(ev, p, s) /\ q[s] = ReplayStep(longer, q, s)
      BY <1>2, <2>2
    <3> HIDE DEF s
    <3>3. /\ p[s] = ReplayEvent(p[1 .. n], ev[n + 1])
          /\ q[s] = ReplayEvent(q[1 .. n], longer[n + 1])
      BY <3>1, <3>2 DEF ReplayStep
    <3> QED
      BY <3>3 DEF s
  <2> QED
    BY <2>1, <2>3
<1>6. G = Nat
  <2>1. G \in SUBSET Nat
    OBVIOUS
  <2> HIDE DEF G
  <2> QED
    BY <1>4, <1>5, <2>1, NaturalInduction
<1>7. p[1 .. Len(ev)] = q[1 .. Len(ev)]
  BY <1>1, <1>6
<1>8. q[1 .. Len(ev) + 1] = ReplayEvent(q[1 .. Len(ev)], e)
  <2> DEFINE s == 1 .. Len(ev) + 1
  <2>1. s # {} /\ LastOf(s) = Len(ev) + 1 /\ s \ {Len(ev) + 1} = 1 .. Len(ev)
    BY <1>1, <1>3
  <2>2. q[s] = ReplayStep(longer, q, s)
    BY <1>2
  <2> HIDE DEF s
  <2>3. q[s] = ReplayEvent(q[1 .. Len(ev)], e)
    BY <1>1, <2>1, <2>2 DEF ReplayStep
  <2> QED
    BY <2>3 DEF s
<1> QED
  BY <1>1, <1>7, <1>8, ReplayIsLast DEF p, q, longer

-----------------------------------------------------------------------------
(* The balances a replay gives, and what an event adds to them. *)
Held == [quantity : Int, basis : [num : Int, den : Int]]

Balances == [cash : Int, position : [Instrument -> Held], seen : SUBSET EventId]

LEMMA PositionIsHeld ==
  ASSUME NEW p \in Held, NEW e \in Event
  PROVE  /\ PositionAfter(p, e) \in Held
         /\ PositionAfter(p, e).quantity = p.quantity + e.quantity
<1>1. /\ p.quantity \in Int /\ p.basis \in [num : Int, den : Int]
      /\ p.basis.num \in Int /\ p.basis.den \in Int
      /\ e.quantity \in Int /\ e.amount \in Int
  BY DEF Held, Event
<1>2. /\ p.quantity + e.quantity \in Int
      /\ p.basis.num - e.amount * p.basis.den \in Int
      /\ p.basis.num * (p.quantity + e.quantity) \in Int
      /\ p.basis.den * p.quantity \in Int
  BY <1>1
<1>3. BasisAfter(p, e) \in [num : Int, den : Int]
  BY <1>1, <1>2 DEF BasisAfter
<1>4. CASE p.quantity + e.quantity = 0
  BY <1>4 DEF PositionAfter, NoPosition, Held
<1>5. CASE p.quantity + e.quantity # 0
  BY <1>2, <1>3, <1>5 DEF PositionAfter, Held
<1> QED
  BY <1>4, <1>5

LEMMA EventOnBalances ==
  ASSUME NEW b \in Balances, NEW e \in Event
  PROVE  /\ ReplayEvent(b, e) \in Balances
         /\ ReplayEvent(b, e).seen = b.seen \cup {e.id}
         /\ e.id \notin b.seen =>
               /\ ReplayEvent(b, e).cash = b.cash + e.amount
               /\ \A i \in Instrument :
                     ReplayEvent(b, e).position[i].quantity
                         = b.position[i].quantity + (IF i = e.instrument THEN e.quantity ELSE 0)
<1>1. CASE e.id \in b.seen
  BY <1>1 DEF ReplayEvent
<1>2. CASE e.id \notin b.seen
  <2> DEFINE after(i) == IF i = e.instrument /\ e.quantity # 0
                         THEN PositionAfter(b.position[i], e) ELSE b.position[i]
  <2>1. /\ b.cash \in Int /\ b.position \in [Instrument -> Held] /\ b.seen \in SUBSET EventId
        /\ e.amount \in Int /\ e.quantity \in Int /\ e.id \in EventId
    BY DEF Balances, Event
  <2>2. ASSUME NEW i \in Instrument
        PROVE  /\ after(i) \in Held
               /\ after(i).quantity
                     = b.position[i].quantity + (IF i = e.instrument THEN e.quantity ELSE 0)
    <3>1. b.position[i] \in Held /\ b.position[i].quantity \in Int
      BY <2>1 DEF Held
    <3> QED
      BY <2>1, <3>1, PositionIsHeld
  <2>3. ReplayEvent(b, e) = [cash |-> b.cash + e.amount,
                             position |-> [i \in Instrument |-> after(i)],
                             seen |-> b.seen \cup {e.id}]
    BY <1>2 DEF ReplayEvent
  <2> HIDE DEF after
  <2>4. [i \in Instrument |-> after(i)] \in [Instrument -> Held]
    BY <2>2
  <2> QED
    BY <1>2, <2>1, <2>2, <2>3, <2>4 DEF Balances
<1> QED
  BY <1>1, <1>2

LEMMA MembersOfAppend ==
  ASSUME NEW S, NEW s \in Seq(S), NEW e \in S
  PROVE  ToSet(Append(s, e)) = ToSet(s) \cup {e}
<1>1. /\ DOMAIN Append(s, e) = (1 .. Len(s)) \cup {Len(s) + 1}
      /\ DOMAIN s = 1 .. Len(s) /\ Append(s, e)[Len(s) + 1] = e
      /\ \A k \in 1 .. Len(s) : Append(s, e)[k] = s[k]
  OBVIOUS
<1> QED
  BY <1>1 DEF ToSet

LEMMA IdsOfAppend ==
  ASSUME NEW s \in Seq(Event), NEW e \in Event
  PROVE  Ids(Append(s, e)) = Ids(s) \cup {e.id}
BY MembersOfAppend DEF Ids

(* A replay has seen the ids of its events, and nothing else. *)
LEMMA ReplayIsBalances ==
  \A s \in Seq(Event) : Replay(s) \in Balances /\ Replay(s).seen = Ids(s)
<1> DEFINE G == {s \in Seq(Event) : Replay(s) \in Balances /\ Replay(s).seen = Ids(s)}
<1>1. <<>> \in G
  <2>1. Opening \in Balances /\ Opening.seen = {}
    BY AccountAssumption DEF Opening, Balances, NoPosition, Held
  <2>2. Ids(<<>>) = {} /\ <<>> \in Seq(Event)
    BY DEF Ids, ToSet
  <2> QED
    BY <2>1, <2>2, ReplayOfNothing
<1>2. ASSUME NEW s \in G, NEW e \in Event PROVE Append(s, e) \in G
  <2>1. /\ ReplayEvent(Replay(s), e) \in Balances
        /\ ReplayEvent(Replay(s), e).seen = Replay(s).seen \cup {e.id}
    BY EventOnBalances
  <2>2. Replay(Append(s, e)) = ReplayEvent(Replay(s), e) /\ Append(s, e) \in Seq(Event)
    BY ReplayOfAppend
  <2> QED
    BY <2>1, <2>2, IdsOfAppend
<1>3. G = Seq(Event)
  <2>1. G \in SUBSET Seq(Event)
    OBVIOUS
  <2> HIDE DEF G
  <2> QED
    BY <1>1, <1>2, <2>1, SequenceInduction
<1> QED
  BY <1>3

(* An event whose id is new adds its amount and its quantity, and another  *)
(* instrument's position does not notice.                                  *)
LEMMA BalancesAfter ==
  ASSUME NEW s \in Seq(Event), NEW e \in Event, e.id \notin Ids(s)
  PROVE  /\ Replay(Append(s, e)).cash = Replay(s).cash + e.amount
         /\ \A i \in Instrument :
               Quantity(Append(s, e), i)
                   = Quantity(s, i) + (IF i = e.instrument THEN e.quantity ELSE 0)
BY ReplayIsBalances, ReplayOfAppend, EventOnBalances DEF Quantity

LEMMA BalancesAreIntegers ==
  ASSUME NEW s \in Seq(Event)
  PROVE  Replay(s).cash \in Int /\ \A i \in Instrument : Quantity(s, i) \in Int
BY ReplayIsBalances DEF Balances, Held, Quantity

-----------------------------------------------------------------------------
(* Sums over sets of events. *)
LEMMA SumsAreIntegers ==
  ASSUME NEW T \in SUBSET Event, IsFiniteSet(T)
  PROVE  Quantities(T) \in Int /\ Amounts(T) \in Int
<1>1. [e \in T |-> e.quantity] \in [T -> Int] /\ [e \in T |-> e.amount] \in [T -> Int]
  BY DEF Event
<1> QED
  BY <1>1, TotalIsInteger DEF Quantities, Amounts

LEMMA SumsOfNothing == Quantities({}) = 0 /\ Amounts({}) = 0
<1>1. DOMAIN [e \in {} |-> e.quantity] = {} /\ DOMAIN [e \in {} |-> e.amount] = {}
  OBVIOUS
<1> QED
  BY <1>1, TotalOfNothing DEF Quantities, Amounts

LEMMA SumsWithOneMore ==
  ASSUME NEW T \in SUBSET Event, IsFiniteSet(T), NEW e \in Event, e \notin T
  PROVE  /\ Quantities(T \cup {e}) = Quantities(T) + e.quantity
         /\ Amounts(T \cup {e}) = Amounts(T) + e.amount
<1> DEFINE U == T \cup {e}
           q == [f \in T |-> f.quantity]
           r == [f \in U |-> f.quantity]
           a == [f \in T |-> f.amount]
           b == [f \in U |-> f.amount]
<1>1. /\ q \in [T -> Int] /\ r \in [T \cup {e} -> Int] /\ r[e] = e.quantity
      /\ a \in [T -> Int] /\ b \in [T \cup {e} -> Int] /\ b[e] = e.amount
      /\ \A f \in T : q[f] = r[f] /\ a[f] = b[f]
  BY DEF Event
<1>2. /\ Quantities(U) = SumFunction(r) /\ Quantities(T) = SumFunction(q)
      /\ Amounts(U) = SumFunction(b) /\ Amounts(T) = SumFunction(a)
  BY DEF Quantities, Amounts
<1> HIDE DEF q, r, a, b, U
<1>3. SumFunction(r) = SumFunction(q) + r[e]
  <2>1. q \in [T -> Int]
    BY <1>1
  <2>2. r \in [T \cup {e} -> Int]
    BY <1>1
  <2>3. \A f \in T : q[f] = r[f]
    BY <1>1
  <2> QED
    BY <2>1, <2>2, <2>3, TotalWithOneMore
<1>4. SumFunction(b) = SumFunction(a) + b[e]
  <2>1. a \in [T -> Int]
    BY <1>1
  <2>2. b \in [T \cup {e} -> Int]
    BY <1>1
  <2>3. \A f \in T : a[f] = b[f]
    BY <1>1
  <2> QED
    BY <2>1, <2>2, <2>3, TotalWithOneMore
<1> QED
  BY <1>1, <1>2, <1>3, <1>4 DEF U

LEMMA MembersAreFinite ==
  ASSUME NEW s \in Seq(Event)
  PROVE  IsFiniteSet(ToSet(s)) /\ ToSet(s) \in SUBSET Event
<1>1. s \in Surjection(1 .. Len(s), ToSet(s))
  BY DEF Surjection, ToSet
<1>2. IsFiniteSet(1 .. Len(s))
  BY FS_Interval
<1> QED
  BY <1>1, <1>2, FS_Surjection, MembersAreEvents

-----------------------------------------------------------------------------
(* One event of an id, however often it comes *)
Consistent(s) == \A e, f \in ToSet(s) : e.id = f.id => e = f

EventsOf(i, T) == {e \in T : e.instrument = i}

(* Then a replay is a sum over the events, in no order. *)
LEMMA BalancesAreSums ==
  ASSUME NEW ledger \in Seq(Event), Consistent(ledger)
  PROVE  /\ Replay(ledger).cash = StartingCash + Amounts(ToSet(ledger))
         /\ \A i \in Instrument : Quantity(ledger, i) = Quantities(EventsOf(i, ToSet(ledger)))
<1> DEFINE Sums(s) ==
              /\ Replay(s).cash = StartingCash + Amounts(ToSet(s))
              /\ \A i \in Instrument : Quantity(s, i) = Quantities(EventsOf(i, ToSet(s)))
           G == {s \in Seq(Event) : Consistent(s) => Sums(s)}
<1>1. <<>> \in G
  <2>1. ToSet(<<>>) = {} /\ \A i \in Instrument : EventsOf(i, {}) = {}
    BY DEF ToSet, EventsOf
  <2>2. /\ Replay(<<>>).cash = StartingCash
        /\ \A i \in Instrument : Quantity(<<>>, i) = 0
    BY ReplayOfNothing DEF Opening, NoPosition, Quantity
  <2>3. /\ Amounts(ToSet(<<>>)) = 0
        /\ \A i \in Instrument : Quantities(EventsOf(i, ToSet(<<>>))) = 0
    BY <2>1, SumsOfNothing
  <2>4. Replay(<<>>).cash = StartingCash + Amounts(ToSet(<<>>))
    BY <2>2, <2>3, AccountAssumption
  <2> QED
    BY <2>2, <2>3, <2>4
<1>2. ASSUME NEW s \in G, NEW e \in Event PROVE Append(s, e) \in G
  <2> SUFFICES ASSUME Consistent(Append(s, e)) PROVE Sums(Append(s, e))
    OBVIOUS
  <2>1. ToSet(Append(s, e)) = ToSet(s) \cup {e}
    BY MembersOfAppend
  <2>2. Consistent(s) /\ Sums(s)
    BY <2>1 DEF Consistent
  <2> HIDE DEF Sums
  <2>3. CASE e.id \in Ids(s)
    <3>1. PICK f \in ToSet(s) : f.id = e.id
      BY <2>3 DEF Ids
    <3>2. e \in ToSet(s)
      BY <2>1, <3>1 DEF Consistent
    <3>3. ToSet(Append(s, e)) = ToSet(s)
      BY <2>1, <3>2
    <3>4. Replay(Append(s, e)) = Replay(s)
      BY <2>3, ReplayIsBalances, ReplayOfAppend DEF ReplayEvent
    <3> QED
      BY <2>2, <3>3, <3>4 DEF Sums, Quantity
  <2>4. CASE e.id \notin Ids(s)
    <3>1. e \notin ToSet(s)
      BY <2>4 DEF Ids
    <3>2. /\ Replay(Append(s, e)).cash = Replay(s).cash + e.amount
          /\ \A i \in Instrument :
                Quantity(Append(s, e), i)
                    = Quantity(s, i) + (IF i = e.instrument THEN e.quantity ELSE 0)
      BY <2>4, BalancesAfter
    <3>3. IsFiniteSet(ToSet(s)) /\ ToSet(s) \in SUBSET Event
      BY MembersAreFinite
    <3>4. /\ Amounts(ToSet(s) \cup {e}) = Amounts(ToSet(s)) + e.amount
          /\ Amounts(ToSet(s)) \in Int /\ e.amount \in Int /\ e.quantity \in Int
      BY <3>1, <3>3, SumsWithOneMore, SumsAreIntegers DEF Event
    <3>5. ASSUME NEW i \in Instrument
          PROVE  Quantity(Append(s, e), i) = Quantities(EventsOf(i, ToSet(s) \cup {e}))
      <4> DEFINE T == EventsOf(i, ToSet(s))
      <4>1. T \in SUBSET Event /\ IsFiniteSet(T) /\ e \notin T
        BY <3>1, <3>3, FS_Subset DEF EventsOf
      <4>2. Quantity(s, i) = Quantities(T) /\ Quantities(T) \in Int
        BY <2>2, <4>1, SumsAreIntegers DEF Sums
      <4>3. CASE i = e.instrument
        <5>1. EventsOf(i, ToSet(s) \cup {e}) = T \cup {e}
          BY <4>3 DEF EventsOf
        <5> HIDE DEF T
        <5>2. Quantities(T \cup {e}) = Quantities(T) + e.quantity
          BY <4>1, SumsWithOneMore
        <5> QED
          BY <3>2, <4>2, <4>3, <5>1, <5>2
      <4>4. CASE i # e.instrument
        <5>1. EventsOf(i, ToSet(s) \cup {e}) = T
          BY <4>4 DEF EventsOf
        <5> HIDE DEF T
        <5> QED
          BY <3>2, <4>2, <4>4, <5>1
      <4> QED
        BY <4>3, <4>4
    <3>6. Replay(Append(s, e)).cash = StartingCash + Amounts(ToSet(s) \cup {e})
      BY <2>2, <3>2, <3>4, AccountAssumption DEF Sums
    <3> QED
      BY <2>1, <3>5, <3>6 DEF Sums
  <2> QED
    BY <2>3, <2>4
<1>3. G = Seq(Event)
  <2>1. G \in SUBSET Seq(Event)
    OBVIOUS
  <2> HIDE DEF G
  <2> QED
    BY <1>1, <1>2, <2>1, SequenceInduction
<1> QED
  BY <1>3

(* The event that reconcile keeps of an id is one of that id. *)
LEMMA KeptIsMember ==
  ASSUME NEW s \in Seq(Event), NEW id \in Ids(s)
  PROVE  ById(s)[id] \in ToSet(s) /\ ById(s)[id].id = id
<1> DEFINE K == {k \in DOMAIN s : s[k].id = id}
<1>1. K \in SUBSET (0 .. Len(s)) /\ K # {} /\ Len(s) \in Nat
  BY DEF Ids, ToSet
<1>2. PICK k \in K : \A j \in K : j <= k
  <2> HIDE DEF K
  <2> QED
    BY <1>1, GreatestMember
<1> DEFINE IsLast(j) == s[j].id = id /\ \A l \in DOMAIN s : l > j => s[l].id # id
<1>3. k \in DOMAIN s /\ IsLast(k)
  <2>1. ASSUME NEW l \in DOMAIN s, l > k PROVE s[l].id # id
    <3>1. l \notin K
      BY <1>2, <2>1
    <3> QED
      BY <3>1
  <2> QED
    BY <1>2, <2>1
<1> DEFINE kept == CHOOSE j \in DOMAIN s : IsLast(j)
<1>4. kept \in DOMAIN s /\ IsLast(kept)
  BY <1>3
<1>5. ById(s)[id] = s[kept]
  BY DEF ById
<1> HIDE DEF kept
<1> QED
  BY <1>4, <1>5 DEF ToSet

(* Without a difference, two ledgers of which each has one event of an id  *)
(* hold the same events.                                                   *)
LEMMA ReconciledIsSubset ==
  ASSUME NEW s \in Seq(Event), NEW t \in Seq(Event),
         Consistent(s), Consistent(t), Reconcile(s, t) = {}
  PROVE  ToSet(s) = ToSet(t)
<1>1. Ids(s) = Ids(t) /\ \A id \in Ids(s) : ById(s)[id] = ById(t)[id]
  BY DEF Reconcile
<1>2. ASSUME NEW e \in ToSet(s) PROVE e \in ToSet(t)
  <2>1. e.id \in Ids(s)
    BY DEF Ids
  <2>2. ById(s)[e.id] = e
    BY <2>1, KeptIsMember DEF Consistent
  <2> QED
    BY <1>1, <2>1, <2>2, KeptIsMember
<1>3. ASSUME NEW e \in ToSet(t) PROVE e \in ToSet(s)
  <2>1. e.id \in Ids(t)
    BY DEF Ids
  <2>2. ById(t)[e.id] = e
    BY <2>1, KeptIsMember DEF Consistent
  <2> QED
    BY <1>1, <2>1, <2>2, KeptIsMember
<1> QED
  BY <1>2, <1>3

(* "Pure replay reconstructs the same state" (README.md:55): any two       *)
(* ledgers that reconcile without a difference have the same cash and the  *)
(* same quantities, in whatever order and however often each has its       *)
(* events, if neither has two events of one id.                            *)
THEOREM ReconciledReplayAlike ==
  ASSUME NEW s \in Seq(Event), NEW t \in Seq(Event),
         Consistent(s), Consistent(t), Reconcile(s, t) = {}
  PROVE  /\ Replay(t).cash = Replay(s).cash
         /\ \A i \in Instrument : Quantity(t, i) = Quantity(s, i)
<1>1. ToSet(s) = ToSet(t)
  BY ReconciledIsSubset
<1> QED
  BY <1>1, BalancesAreSums

-----------------------------------------------------------------------------
(* The assignment that is being booked: the first n legs of the assignment *)
(* p of c contracts are in the ledger, and what the caller is still to     *)
(* append, if it was not interrupted, are the legs after the first m.      *)
Contracts == 0 .. 2

Leg(p, c, k) == AssignmentEvents(p, c)[k]

BookedOf(p) == {e \in ToSet(events) : e.id[1] = p}

FirstLegs(p, c, n) == {Leg(p, c, k) : k \in 1 .. n}

Booked(p, c, n) ==
    /\ BookedOf(p) = FirstLegs(p, c, n)
    /\ \A q \in Assignments \ {p} : LegsOf(q) \in {{}, LegKinds}

LegsAfter(p, c, m) ==
    CASE m = 0 -> <<Leg(p, c, 1), Leg(p, c, 2), Leg(p, c, 3)>>
      [] m = 1 -> <<Leg(p, c, 2), Leg(p, c, 3)>>
      [] m = 2 -> <<Leg(p, c, 3)>>

LegsLeft(p, c, n) ==
    \/ legs = <<>>
    \/ \E m \in 0 .. 2 : m <= n /\ legs = LegsAfter(p, c, m)

(* An assignment that is only begun is covered by what is still written *)
Begun(c, n) == n = 0 /\ legs # <<>> => c <= Short

Sign == IF option.right = "call" THEN -1 ELSE 1

(* The ledger as it will be when the assignment is whole *)
CashAhead(c, n) ==
    Replay(events).cash - (IF n \in {1, 2} THEN Sign * Strike * (c * Multiplier) ELSE 0)

SharesAhead(c, n) == Shares + (IF n = 1 THEN Sign * (c * Multiplier) ELSE 0)

(* What was assigned has moved its shares and its cash, but for the rest   *)
(* of the assignment that is being booked.                                 *)
Moved == Sign * (Multiplier * Quantities(Legs("option")))

SettledBut(c, n) ==
    /\ Quantities(Legs("shares"))
            = Moved - (IF n = 1 THEN Sign * (c * Multiplier) ELSE 0)
    /\ Amounts(Legs("cash"))
            = -Strike * Moved + (IF n \in {1, 2} THEN Sign * Strike * (c * Multiplier) ELSE 0)

(* The written options stay secured *)
SecuredBut(c, n) ==
    /\ CashAhead(c, n) >= Collateral(Short)
    /\ SharesAhead(c, n) >= Cover(Short)

(* The caller begins with cash, secures what it writes, and never has to   *)
(* pay more for a put than its strike.                                     *)
CallerSecures ==
    Secured /\ StartingCash >= 0 /\ \A price \in Spot \cup {Strike} : Premium <= price

LedgerInv ==
    /\ Consistent(events)
    /\ copy # <<>> => legs = <<>>
    /\ ~Altered => ToSet(copy) \subseteq ToSet(events)
    /\ Quantity(events, Option) <= 0
    /\ CallerSecures => Shares >= 0
    /\ \E p \in Assignments, c \in Contracts, n \in 0 .. 3 :
          /\ Booked(p, c, n) /\ LegsLeft(p, c, n) /\ Begun(c, n)
          /\ SettledBut(c, n)
          /\ CallerSecures => SecuredBut(c, n)

BasisInv ==
    LET b == Replay(events).position[Share].basis
    IN  Paid >= 0 /\ b.den >= 1 /\ b.num >= 0 /\ b.num <= Paid * b.den

(* The three legs of an assignment. *)
LEMMA LegsAre ==
  ASSUME NEW p, NEW c
  PROVE  /\ Leg(p, c, 1) = LedgerEvent(<<p, "option">>, 0, Option, c)
         /\ Leg(p, c, 2) = LedgerEvent(<<p, "shares">>, 0, Share, Sign * (c * Multiplier))
         /\ Leg(p, c, 3)
               = LedgerEvent(<<p, "cash">>, -Sign * Strike * (c * Multiplier), NoInstrument, 0)
         /\ AssignmentEvents(p, c) = LegsAfter(p, c, 0)
BY DEF Leg, AssignmentEvents, LegsAfter, Sign

LEMMA LegIsEvent ==
  ASSUME option \in Contract, NEW p \in Assignments, NEW c \in Contracts, NEW k \in 1 .. 3
  PROVE  Leg(p, c, k) \in Event
<1>1. AssignmentEvents(p, c) \in Seq(Event) /\ Len(AssignmentEvents(p, c)) = 3
  BY LegsAreEvents DEF AssignmentEvents, Contracts
<1> QED
  BY <1>1 DEF Leg

(* Each leg has an id of its own. *)
LEMMA LegIds ==
  ASSUME NEW p, NEW c
  PROVE  \A k \in 1 .. 3 :
            /\ Leg(p, c, k).id[1] = p
            /\ Leg(p, c, k).id = <<p, Leg(p, c, k).id[2]>>
            /\ Leg(p, c, k).id[2]
                  = IF k = 1 THEN "option" ELSE IF k = 2 THEN "shares" ELSE "cash"
<1> SUFFICES ASSUME NEW k \in 1 .. 3
             PROVE  Leg(p, c, k).id
                       = <<p, IF k = 1 THEN "option" ELSE IF k = 2 THEN "shares" ELSE "cash">>
  OBVIOUS
<1>1. k = 1 \/ k = 2 \/ k = 3
  OBVIOUS
<1> QED
  BY <1>1, LegsAre DEF LedgerEvent

(* What is in the ledger of an assignment is what LegsOf finds. *)
LEMMA LegsOfBooked ==
  ASSUME NEW p \in Assignments, NEW c, NEW n \in 0 .. 3, BookedOf(p) = FirstLegs(p, c, n)
  PROVE  LegsOf(p) = {Leg(p, c, k).id[2] : k \in 1 .. n}
<1>1. ASSUME NEW kind \in LegsOf(p) PROVE kind \in {Leg(p, c, k).id[2] : k \in 1 .. n}
  <2>1. PICK e \in ToSet(events) : e.id = <<p, kind>>
    BY DEF LegsOf, Ids
  <2>2. e \in FirstLegs(p, c, n) /\ e.id[2] = kind
    BY <2>1 DEF BookedOf
  <2> QED
    BY <2>2 DEF FirstLegs
<1>2. ASSUME NEW k \in 1 .. n PROVE Leg(p, c, k).id[2] \in LegsOf(p)
  <2>1. Leg(p, c, k) \in ToSet(events) /\ k \in 1 .. 3
    BY DEF FirstLegs, BookedOf
  <2>2. /\ Leg(p, c, k).id = <<p, Leg(p, c, k).id[2]>>
        /\ Leg(p, c, k).id[2] \in LegKinds
    BY <2>1, LegIds DEF LegKinds
  <2>3. Leg(p, c, k).id \in Ids(events)
    BY <2>1 DEF Ids
  <2> QED
    BY <2>2, <2>3 DEF LegsOf
<1> QED
  BY <1>1, <1>2

(* Between two assignments none is booked in part, and no other than that  *)
(* which is being booked ever is.                                          *)
LEMMA HalfBookedIs ==
  ASSUME NEW p \in Assignments, NEW c, NEW n \in 0 .. 3, Booked(p, c, n)
  PROVE  HalfBooked = IF n \in {1, 2} THEN {p} ELSE {}
<1>1. LegsOf(p) = {Leg(p, c, k).id[2] : k \in 1 .. n}
  BY LegsOfBooked DEF Booked
<1>2. /\ Leg(p, c, 1).id[2] = "option" /\ Leg(p, c, 2).id[2] = "shares"
      /\ Leg(p, c, 3).id[2] = "cash"
  BY LegIds
<1>3. \A q \in HalfBooked : q = p
  BY DEF Booked, HalfBooked
<1>4. CASE n = 0
  BY <1>1, <1>3, <1>4 DEF HalfBooked
<1>5. CASE n = 1
  <2>1. LegsOf(p) = {"option"}
    BY <1>1, <1>2, <1>5
  <2> QED
    BY <1>3, <1>5, <2>1 DEF HalfBooked, LegKinds
<1>6. CASE n = 2
  <2>1. 1 .. n = {1, 2}
    BY <1>6
  <2>2. LegsOf(p) = {"option", "shares"}
    BY <1>1, <1>2, <2>1
  <2> QED
    BY <1>3, <1>6, <2>2 DEF HalfBooked, LegKinds
<1>7. CASE n = 3
  <2>1. 1 .. n = {1, 2, 3}
    BY <1>7
  <2>2. LegsOf(p) = LegKinds
    BY <1>1, <1>2, <2>1 DEF LegKinds
  <2> QED
    BY <1>3, <1>7, <2>2 DEF HalfBooked
<1> QED
  BY <1>4, <1>5, <1>6, <1>7

-----------------------------------------------------------------------------
(* What is said of the ledger is said of events and option. *)
LEMMA LedgerUnchanged ==
  ASSUME UNCHANGED <<events, option>>
  PROVE  /\ \A p, c, n : Booked(p, c, n)' <=> Booked(p, c, n)
         /\ \A c, n : SettledBut(c, n)' <=> SettledBut(c, n)
         /\ \A c, n : SecuredBut(c, n)' <=> SecuredBut(c, n)
         /\ Consistent(events)' <=> Consistent(events)
         /\ Quantity(events, Option)' = Quantity(events, Option)
         /\ Shares' = Shares /\ Short' = Short
         /\ \A p, c, m : LegsAfter(p, c, m)' = LegsAfter(p, c, m)
<1>1. events' = events /\ option' = option
  OBVIOUS
<1>2. \A p, c, k : Leg(p, c, k)' = Leg(p, c, k)
  BY <1>1 DEF Leg, AssignmentEvents
<1>3. \A p, c, n : FirstLegs(p, c, n)' = FirstLegs(p, c, n)
  BY <1>2 DEF FirstLegs
<1>4. \A p : BookedOf(p)' = BookedOf(p) /\ LegsOf(p)' = LegsOf(p)
  BY <1>1 DEF BookedOf, LegsOf
<1>5. \A kind : Legs(kind)' = Legs(kind)
  BY <1>1 DEF Legs
<1>6. Sign' = Sign /\ Shares' = Shares /\ Short' = Short
  BY <1>1 DEF Sign, Shares, Short
<1>7. \A a : Collateral(a)' = Collateral(a) /\ Cover(a)' = Cover(a)
  BY <1>1 DEF Collateral, Cover
<1>8. \A c, n : SettledBut(c, n)' <=> SettledBut(c, n)
  BY <1>5, <1>6 DEF SettledBut, Moved
<1>9. \A c, n : SecuredBut(c, n)' <=> SecuredBut(c, n)
  BY <1>1, <1>6, <1>7 DEF SecuredBut, CashAhead, SharesAhead
<1>10. \A p, c, n : Booked(p, c, n)' <=> Booked(p, c, n)
  BY <1>3, <1>4 DEF Booked
<1>11. \A p, c, m : LegsAfter(p, c, m)' = LegsAfter(p, c, m)
  BY <1>2 DEF LegsAfter
<1> QED
  BY <1>1, <1>6, <1>8, <1>9, <1>10, <1>11

(* The legs of one kind are the events of a set, and finitely many. *)
LEMMA LegsAreFinite ==
  ASSUME events \in Seq(Event), NEW kind
  PROVE  Legs(kind) \in SUBSET Event /\ IsFiniteSet(Legs(kind))
BY MembersAreFinite, FS_Subset DEF Legs

LEMMA ConsistentWithNew ==
  ASSUME NEW s \in Seq(Event), NEW e \in Event, Consistent(s), e.id \notin Ids(s)
  PROVE  Consistent(Append(s, e))
BY MembersOfAppend DEF Consistent, Ids

(* A fill moves no leg of an assignment. *)
LEMMA FillAddsNoLeg ==
  ASSUME events \in Seq(Event), NEW e \in Event, e.id[1] = "fill",
         events' = Append(events, e), option' = option
  PROVE  /\ \A c, n : \A p \in Assignments : Booked(p, c, n) => Booked(p, c, n)'
         /\ \A c, n : SettledBut(c, n) => SettledBut(c, n)'
<1>1. ToSet(events') = ToSet(events) \cup {e} /\ Ids(events') = Ids(events) \cup {e.id}
  BY MembersOfAppend, IdsOfAppend
<1>2. "fill" \notin Assignments
  BY DEF Assignments
<1>3. \A p \in Assignments : BookedOf(p)' = BookedOf(p)
  BY <1>1, <1>2 DEF BookedOf
<1>4. \A q \in Assignments : LegsOf(q)' = LegsOf(q)
  BY <1>1, <1>2 DEF LegsOf
<1>5. \A kind : Legs(kind)' = Legs(kind)
  BY <1>1 DEF Legs
<1>6. \A p, c, k : Leg(p, c, k)' = Leg(p, c, k)
  BY DEF Leg, AssignmentEvents
<1>7. \A p, c, n : FirstLegs(p, c, n)' = FirstLegs(p, c, n)
  BY <1>6 DEF FirstLegs
<1>8. Sign' = Sign
  BY DEF Sign
<1>9. \A c, n : SettledBut(c, n)' <=> SettledBut(c, n)
  BY <1>5, <1>8 DEF SettledBut, Moved
<1> QED
  BY <1>3, <1>4, <1>7, <1>9 DEF Booked

(* A leg that is next is new, and one before it is not. *)
LEMMA LegIsNew ==
  ASSUME NEW p \in Assignments, NEW c, NEW n \in 0 .. 3, NEW k \in 1 .. 3, Booked(p, c, n)
  PROVE  Leg(p, c, k).id \in Ids(events) <=> k <= n
<1>1. CASE k <= n
  <2>1. Leg(p, c, k) \in ToSet(events)
    BY <1>1 DEF Booked, FirstLegs, BookedOf
  <2> QED
    BY <1>1, <2>1 DEF Ids
<1>2. CASE ~(k <= n)
  <2> SUFFICES ASSUME Leg(p, c, k).id \in Ids(events) PROVE FALSE
    BY <1>2
  <2>1. PICK f \in ToSet(events) : f.id = Leg(p, c, k).id
    BY DEF Ids
  <2>2. f \in FirstLegs(p, c, n)
    BY <2>1, LegIds DEF Booked, BookedOf
  <2>3. PICK j \in 1 .. n : f = Leg(p, c, j)
    BY <2>2 DEF FirstLegs
  <2>4. j \in 1 .. 3 /\ j # k
    BY <1>2
  <2>5. Leg(p, c, j).id[2] # Leg(p, c, k).id[2]
    BY <2>4, LegIds
  <2> QED
    BY <2>1, <2>3, <2>5
<1> QED
  BY <1>1, <1>2

(* With the next leg, one leg more is booked. *)
LEMMA LegIsBooked ==
  ASSUME events \in Seq(Event), option \in Contract,
         NEW p \in Assignments, NEW c \in Contracts, NEW n \in 0 .. 2, Booked(p, c, n),
         events' = Append(events, Leg(p, c, n + 1)), option' = option
  PROVE  Booked(p, c, n + 1)'
<1> DEFINE e == Leg(p, c, n + 1)
<1>0. n + 1 \in 1 .. 3 /\ e \in Event
  BY LegIsEvent
<1>1. e.id[1] = p
  BY <1>0, LegIds
<1> HIDE DEF e
<1>2. ToSet(events') = ToSet(events) \cup {e} /\ Ids(events') = Ids(events) \cup {e.id}
  BY <1>0, MembersOfAppend, IdsOfAppend DEF e
<1>3. BookedOf(p)' = BookedOf(p) \cup {e}
  BY <1>1, <1>2 DEF BookedOf
<1>4. \A q \in Assignments \ {p} : LegsOf(q)' = LegsOf(q)
  BY <1>1, <1>2 DEF LegsOf
<1>5. \A k : Leg(p, c, k)' = Leg(p, c, k)
  BY DEF Leg, AssignmentEvents
<1>6. FirstLegs(p, c, n + 1)' = FirstLegs(p, c, n) \cup {e}
  <2>1. 1 .. n + 1 = (1 .. n) \cup {n + 1}
    OBVIOUS
  <2>2. FirstLegs(p, c, n + 1)' = FirstLegs(p, c, n + 1)
    BY <1>5 DEF FirstLegs
  <2> QED
    BY <2>1, <2>2 DEF FirstLegs, e
<1> QED
  BY <1>3, <1>4, <1>6 DEF Booked

(* What a new leg adds to the sums over the legs of its kind. *)
LEMMA SumsWithLeg ==
  ASSUME events \in Seq(Event), NEW e \in Event, e.id \notin Ids(events),
         e.id[1] # "fill", events' = Append(events, e), NEW kind
  PROVE  /\ Quantities(Legs(kind))' = Quantities(Legs(kind))
                + (IF e.id[2] = kind THEN e.quantity ELSE 0)
         /\ Amounts(Legs(kind))' = Amounts(Legs(kind))
                + (IF e.id[2] = kind THEN e.amount ELSE 0)
<1>1. ToSet(events') = ToSet(events) \cup {e}
  BY MembersOfAppend
<1> DEFINE T == Legs(kind)
<1>2. T \in SUBSET Event /\ IsFiniteSet(T)
  BY LegsAreFinite
<1>3. Quantities(T) \in Int /\ Amounts(T) \in Int
  BY <1>2, SumsAreIntegers
<1>4. e \notin T
  BY DEF Legs, Ids
<1>5. Legs(kind)' = IF e.id[2] = kind THEN T \cup {e} ELSE T
  BY <1>1 DEF Legs
<1>6. /\ Quantities(Legs(kind))' = Quantities(Legs(kind)')
      /\ Amounts(Legs(kind))' = Amounts(Legs(kind)')
  BY DEF Quantities, Amounts
<1> HIDE DEF T
<1>7. /\ Quantities(T \cup {e}) = Quantities(T) + e.quantity
      /\ Amounts(T \cup {e}) = Amounts(T) + e.amount
  BY <1>2, <1>4, SumsWithOneMore
<1>8. CASE e.id[2] = kind
  BY <1>5, <1>6, <1>7, <1>8 DEF T
<1>9. CASE e.id[2] # kind
  <2>1. Quantities(Legs(kind))' = Quantities(T) /\ Amounts(Legs(kind))' = Amounts(T)
    BY <1>5, <1>6, <1>9
  <2> QED
    BY <1>3, <1>9, <2>1 DEF T
<1> QED
  BY <1>8, <1>9

(* Sums and signs are integers. *)
LEMMA SumsOfLegsAreIntegers ==
  ASSUME events \in Seq(Event), NEW c \in Contracts
  PROVE  /\ Sign \in Int /\ Multiplier \in Nat /\ Strike \in Nat /\ c \in Nat
         /\ \A kind : Quantities(Legs(kind)) \in Int /\ Amounts(Legs(kind)) \in Int
<1>1. \A kind : Quantities(Legs(kind)) \in Int /\ Amounts(Legs(kind)) \in Int
  BY LegsAreFinite, SumsAreIntegers
<1> QED
  BY <1>1, AccountAssumption DEF Sign, Contracts

LEMMA LegSettles ==
  ASSUME events \in Seq(Event), option \in Contract,
         NEW p \in Assignments, NEW c \in Contracts, NEW n \in 0 .. 2, Booked(p, c, n),
         SettledBut(c, n), events' = Append(events, Leg(p, c, n + 1)), option' = option
  PROVE  SettledBut(c, n + 1)'
<1> DEFINE e == Leg(p, c, n + 1)
           Q(kind) == Quantities(Legs(kind))
           A(kind) == Amounts(Legs(kind))
<1>0. n + 1 \in 1 .. 3 /\ e \in Event /\ e.id \notin Ids(events)
  BY LegIsEvent, LegIsNew
<1>1. e.id[1] = p /\ p # "fill"
  BY <1>0, LegIds DEF Assignments
<1>2. \A kind : /\ Q(kind)' = Q(kind) + (IF e.id[2] = kind THEN e.quantity ELSE 0)
                /\ A(kind)' = A(kind) + (IF e.id[2] = kind THEN e.amount ELSE 0)
  <2> HIDE DEF e
  <2> QED
    BY <1>0, <1>1, SumsWithLeg DEF e
<1>3. /\ Sign \in Int /\ Multiplier \in Nat /\ Strike \in Nat /\ c \in Nat
      /\ \A kind : Q(kind) \in Int /\ A(kind) \in Int
  BY SumsOfLegsAreIntegers
<1>4. Sign' = Sign
  BY DEF Sign
<1>5. /\ Q("shares") = Sign * (Multiplier * Q("option"))
                            - (IF n = 1 THEN Sign * (c * Multiplier) ELSE 0)
      /\ A("cash") = -Strike * (Sign * (Multiplier * Q("option")))
                          + (IF n \in {1, 2} THEN Sign * Strike * (c * Multiplier) ELSE 0)
  BY DEF SettledBut, Moved
<1> DEFINE Balanced(k, o, s, a) ==
              /\ s = Sign * (Multiplier * o) - (IF k = 1 THEN Sign * (c * Multiplier) ELSE 0)
              /\ a = -Strike * (Sign * (Multiplier * o))
                          + (IF k \in {1, 2} THEN Sign * Strike * (c * Multiplier) ELSE 0)
<1>6. SettledBut(c, n + 1)' <=> Balanced(n + 1, Q("option")', Q("shares")', A("cash")')
  BY <1>4 DEF SettledBut, Moved
<1>7. Balanced(n, Q("option"), Q("shares"), A("cash"))
  BY <1>5
<1> HIDE DEF Q, A
<1>8. CASE n = 0
  <2>1. e.id[2] = "option" /\ e.quantity = c
    BY <1>8, LegsAre DEF LedgerEvent
  <2> HIDE DEF e, Balanced
  <2>2. Q("option")' = Q("option") + c /\ Q("shares")' = Q("shares") /\ A("cash")' = A("cash")
    BY <1>2, <1>3, <2>1
  <2>3. /\ Sign * (Multiplier * (Q("option") + c))
               = Sign * (Multiplier * Q("option")) + Sign * (c * Multiplier)
        /\ Strike * (Sign * (c * Multiplier)) = Sign * Strike * (c * Multiplier)
    BY <1>3
  <2>4. Balanced(1, Q("option") + c, Q("shares"), A("cash"))
    <3> DEFINE x == Sign * (Multiplier * Q("option"))
               y == Sign * (c * Multiplier)
               z == Sign * Strike * (c * Multiplier)
    <3>1. x \in Int /\ y \in Int /\ z \in Int
      BY <1>3
    <3>2. Q("shares") = x /\ A("cash") = -Strike * x
      BY <1>3, <1>7, <1>8 DEF Balanced
    <3>3. Sign * (Multiplier * (Q("option") + c)) = x + y /\ Strike * y = z
      BY <2>3
    <3> DEFINE w == Sign * (Multiplier * (Q("option") + c))
    <3>4. Balanced(1, Q("option") + c, Q("shares"), A("cash"))
             <=> Q("shares") = w - y /\ A("cash") = -Strike * w + z
      BY DEF Balanced
    <3>5. w = x + y
      BY <3>3
    <3> HIDE DEF w, x, y, z
    <3> DEFINE t == -Strike * x
               u == -Strike * w
    <3>6. -Strike * (x + y) = -Strike * x - Strike * y
      BY <1>3, <3>1
    <3>7. u = t - z /\ t \in Int
      BY <1>3, <3>1, <3>3, <3>5, <3>6
    <3>8. /\ Q("shares") = x /\ A("cash") = t
          /\ Balanced(1, Q("option") + c, Q("shares"), A("cash"))
                <=> Q("shares") = w - y /\ A("cash") = u + z
      BY <3>2, <3>4
    <3> HIDE DEF t, u
    <3> QED
      BY <3>1, <3>5, <3>7, <3>8
  <2> QED
    BY <1>6, <1>8, <2>2, <2>4
<1>9. CASE n = 1
  <2>1. e.id[2] = "shares" /\ e.quantity = Sign * (c * Multiplier)
    BY <1>9, LegsAre DEF LedgerEvent
  <2> DEFINE d == Sign * (c * Multiplier)
  <2> HIDE DEF e, d
  <2>0. e.id[2] = "shares" /\ e.quantity = d
    BY <2>1 DEF d
  <2>2. Q("option")' = Q("option") /\ A("cash")' = A("cash") /\ Q("shares")' = Q("shares") + d
    <3>1. "shares" # "option" /\ "shares" # "cash"
      OBVIOUS
    <3>2. Q("option")' = Q("option") + 0 /\ A("cash")' = A("cash") + 0
      BY <1>2, <2>0, <3>1
    <3>3. Q("shares")' = Q("shares") + d
      BY <1>2, <2>0
    <3> QED
      BY <1>3, <3>2, <3>3
  <2>3. Sign * (c * Multiplier) \in Int /\ Sign * (Multiplier * Q("option")) \in Int
    BY <1>3
  <2> QED
    BY <1>6, <1>7, <1>9, <2>2, <2>3 DEF d
<1>10. CASE n = 2
  <2>1. e.id[2] = "cash" /\ e.amount = -Sign * Strike * (c * Multiplier)
    BY <1>10, LegsAre DEF LedgerEvent
  <2> HIDE DEF e
  <2>2. /\ Q("option")' = Q("option") /\ Q("shares")' = Q("shares")
        /\ A("cash")' = A("cash") + (-Sign * Strike * (c * Multiplier))
    <3> DEFINE d == -Sign * Strike * (c * Multiplier)
    <3> HIDE DEF d
    <3>1. e.id[2] = "cash" /\ e.amount = d
      BY <2>1 DEF d
    <3>2. "cash" # "option" /\ "cash" # "shares"
      OBVIOUS
    <3>3. Q("option")' = Q("option") + 0 /\ Q("shares")' = Q("shares") + 0
      BY <1>2, <3>1, <3>2
    <3>4. A("cash")' = A("cash") + d
      BY <1>2, <3>1
    <3> QED
      BY <1>3, <3>3, <3>4 DEF d
  <2>3. /\ Sign * Strike * (c * Multiplier) \in Int
        /\ -Sign * Strike * (c * Multiplier) = -(Sign * Strike * (c * Multiplier))
        /\ -Strike * (Sign * (Multiplier * Q("option"))) \in Int
    BY <1>3
  <2> QED
    BY <1>6, <1>7, <1>10, <2>2, <2>3
<1> QED
  BY <1>8, <1>9, <1>10

(* What a new leg does to the balances. *)
LEMMA LegBalances ==
  ASSUME events \in Seq(Event), option \in Contract,
         NEW p \in Assignments, NEW c \in Contracts, NEW n \in 0 .. 2, Booked(p, c, n),
         events' = Append(events, Leg(p, c, n + 1)), option' = option
  PROVE  /\ Replay(events)'.cash = Replay(events).cash
                + (IF n = 2 THEN -Sign * Strike * (c * Multiplier) ELSE 0)
         /\ Quantity(events, Option)' = Quantity(events, Option) + (IF n = 0 THEN c ELSE 0)
         /\ Shares' = Shares + (IF n = 1 THEN Sign * (c * Multiplier) ELSE 0)
<1> DEFINE e == Leg(p, c, n + 1)
<1>0. n + 1 \in 1 .. 3 /\ e \in Event /\ e.id \notin Ids(events)
  BY LegIsEvent, LegIsNew
<1> HIDE DEF e
<1>1. /\ Replay(Append(events, e)).cash = Replay(events).cash + e.amount
      /\ \A i \in Instrument :
            Quantity(Append(events, e), i)
                = Quantity(events, i) + (IF i = e.instrument THEN e.quantity ELSE 0)
  BY <1>0, BalancesAfter
<1>2. /\ Replay(events)'.cash = Replay(Append(events, e)).cash
      /\ \A i : Quantity(events, i)' = Quantity(Append(events, e), i)
  BY DEF e
<1>3. /\ Share \in Instrument /\ Option \in Instrument /\ Share # Option
      /\ NoInstrument \notin Instrument
  BY AccountAssumption
<1>4. /\ Replay(events).cash \in Int /\ Quantity(events, Share) \in Int
      /\ Quantity(events, Option) \in Int
  BY <1>3, BalancesAreIntegers
<1>5. /\ Replay(events)'.cash = Replay(events).cash + e.amount
      /\ Quantity(events, Option)'
             = Quantity(events, Option) + (IF Option = e.instrument THEN e.quantity ELSE 0)
      /\ Quantity(events, Share)'
             = Quantity(events, Share) + (IF Share = e.instrument THEN e.quantity ELSE 0)
  BY <1>1, <1>2, <1>3
<1>6. CASE n = 0
  <2>1. e.amount = 0 /\ e.instrument = Option /\ e.quantity = c
    BY <1>6, LegsAre DEF LedgerEvent, e
  <2> QED
    BY <1>3, <1>4, <1>5, <1>6, <2>1 DEF Shares
<1>7. CASE n = 1
  <2>1. e.amount = 0 /\ e.instrument = Share /\ e.quantity = Sign * (c * Multiplier)
    BY <1>7, LegsAre DEF LedgerEvent, e
  <2> QED
    BY <1>3, <1>4, <1>5, <1>7, <2>1 DEF Shares
<1>8. CASE n = 2
  <2>1. e.amount = -Sign * Strike * (c * Multiplier) /\ e.instrument = NoInstrument
    BY <1>8, LegsAre DEF LedgerEvent, e
  <2> QED
    BY <1>3, <1>4, <1>5, <1>8, <2>1 DEF Shares
<1> QED
  BY <1>6, <1>7, <1>8

(* Collateral and cover are in proportion to what is written. *)
LEMMA SecurityFalls ==
  ASSUME option \in Contract, NEW written \in Nat, NEW c \in Nat
  PROVE  /\ Collateral(written) \in Nat /\ Cover(written) \in Nat
         /\ c <= written =>
               /\ Collateral(written - c) = Collateral(written)
                      - (IF option.right = "put" THEN Strike * (c * Multiplier) ELSE 0)
               /\ Cover(written - c) = Cover(written)
                      - (IF option.right = "call" THEN c * Multiplier ELSE 0)
<1>1. Strike \in Nat /\ Multiplier \in Nat
  BY AccountAssumption
<1>2. /\ written * Multiplier * Strike \in Nat /\ written * Multiplier \in Nat
      /\ (written - c) * Multiplier * Strike
            = written * Multiplier * Strike - Strike * (c * Multiplier)
      /\ (written - c) * Multiplier = written * Multiplier - c * Multiplier
  BY <1>1
<1>3. option.right = "put" \/ option.right = "call"
  BY DEF Contract
<1>4. CASE option.right = "put"
  BY <1>2, <1>4 DEF Collateral, Cover
<1>5. CASE option.right = "call"
  BY <1>2, <1>5 DEF Collateral, Cover
<1> QED
  BY <1>3, <1>4, <1>5

(* What the legs of an assignment take is what they set free. *)
LEMMA LegSecures ==
  ASSUME events \in Seq(Event), option \in Contract,
         NEW p \in Assignments, NEW c \in Contracts, NEW n \in 0 .. 2, Booked(p, c, n),
         events' = Append(events, Leg(p, c, n + 1)), option' = option,
         Quantity(events, Option) <= 0, n = 0 => c <= Short
  PROVE  /\ Quantity(events, Option)' <= 0
         /\ Shares >= 0 /\ SecuredBut(c, n) => Shares' >= 0 /\ SecuredBut(c, n + 1)'
<1> DEFINE cash == Replay(events).cash
           quantity == Quantity(events, Option)
           A == c * Multiplier
           K == Strike * A
<1>1. /\ cash \in Int /\ quantity \in Int /\ Shares \in Int /\ Strike \in Nat
      /\ c \in Nat /\ Multiplier \in Nat /\ Sign \in {-1, 1}
      /\ (option.right = "call") = (Sign = -1) /\ (option.right = "put") = (Sign = 1)
  BY BalancesAreIntegers, AccountAssumption DEF Contracts, Sign, Shares, Contract
<1>2. A \in Nat /\ K \in Nat /\ Sign * Strike * A = Sign * K
      /\ -Sign * Strike * A = -(Sign * K)
  BY <1>1
<1>3. /\ cash' = cash + (IF n = 2 THEN -(Sign * K) ELSE 0)
      /\ quantity' = quantity + (IF n = 0 THEN c ELSE 0)
      /\ Shares' = Shares + (IF n = 1 THEN Sign * A ELSE 0)
  BY <1>2, LegBalances
<1>4. Short = -quantity /\ Short' = -quantity'
  BY DEF Short
<1> HIDE DEF A, K, cash, quantity
<1>5. quantity' <= 0 /\ Short \in Nat /\ Short' = Short - (IF n = 0 THEN c ELSE 0)
  BY <1>1, <1>3, <1>4 DEF quantity
<1>6. \A a : Collateral(a)' = Collateral(a) /\ Cover(a)' = Cover(a)
  BY DEF Collateral, Cover
<1>7. Collateral(Short)' = Collateral(Short') /\ Cover(Short)' = Cover(Short')
  BY <1>6 DEF Collateral, Cover
<1>8. /\ Collateral(Short) \in Nat /\ Cover(Short) \in Nat
      /\ n = 0 =>
            /\ Collateral(Short - c) = Collateral(Short)
                  - (IF option.right = "put" THEN K ELSE 0)
            /\ Cover(Short - c) = Cover(Short) - (IF option.right = "call" THEN A ELSE 0)
  BY <1>1, <1>5, SecurityFalls DEF A, K
<1>9. Sign' = Sign
  BY DEF Sign
<1>10. /\ SecuredBut(c, n) <=>
              /\ cash - (IF n \in {1, 2} THEN Sign * K ELSE 0) >= Collateral(Short)
              /\ Shares + (IF n = 1 THEN Sign * A ELSE 0) >= Cover(Short)
       /\ SecuredBut(c, n + 1)' <=>
              /\ cash' - (IF n + 1 \in {1, 2} THEN Sign * K ELSE 0) >= Collateral(Short')
              /\ Shares' + (IF n + 1 = 1 THEN Sign * A ELSE 0) >= Cover(Short')
  BY <1>2, <1>7, <1>9 DEF SecuredBut, CashAhead, SharesAhead, A, cash
<1> SUFFICES ASSUME Shares >= 0, SecuredBut(c, n)
             PROVE  Shares' >= 0 /\ SecuredBut(c, n + 1)'
  BY <1>5 DEF quantity
<1>11. Sign * K = (IF Sign = 1 THEN K ELSE -K) /\ Sign * A = (IF Sign = 1 THEN A ELSE -A)
  BY <1>1, <1>2
<1>12. CASE n = 0
  <2>1. Short' = Short - c
    BY <1>5, <1>12
  <2>2. /\ Collateral(Short') = Collateral(Short) - (IF Sign = 1 THEN K ELSE 0)
        /\ Cover(Short') = Cover(Short) - (IF Sign = 1 THEN 0 ELSE A)
    BY <1>1, <1>8, <1>12, <2>1
  <2>3. cash' = cash /\ Shares' = Shares
    BY <1>1, <1>3, <1>12
  <2>4. cash >= Collateral(Short) /\ Shares >= Cover(Short)
    BY <1>1, <1>10, <1>12
  <2> QED
    BY <1>1, <1>2, <1>8, <1>10, <1>11, <1>12, <2>2, <2>3, <2>4
<1>13. CASE n = 1
  <2>1. Short' = Short /\ cash' = cash /\ Shares' = Shares + Sign * A
    BY <1>1, <1>3, <1>5, <1>13
  <2> QED
    BY <1>1, <1>2, <1>8, <1>10, <1>11, <1>13, <2>1
<1>14. CASE n = 2
  <2>1. Short' = Short /\ cash' = cash + (-(Sign * K)) /\ Shares' = Shares
    BY <1>1, <1>3, <1>5, <1>14
  <2> QED
    BY <1>1, <1>2, <1>8, <1>10, <1>11, <1>14, <2>1
<1> QED
  BY <1>12, <1>13, <1>14

-----------------------------------------------------------------------------
(* The invariant is kept by a step that leaves the ledger alone and may    *)
(* forget what was still to be appended.                                   *)
LEMMA QuietStepKeeps ==
  ASSUME LedgerInv, UNCHANGED <<events, option>>, legs' \in {legs, <<>>},
         copy' # <<>> => legs' = <<>>, ~Altered => ToSet(copy') \subseteq ToSet(events)
  PROVE  LedgerInv'
<1>1. PICK p \in Assignments, c \in Contracts, n \in 0 .. 3 :
         /\ Booked(p, c, n) /\ LegsLeft(p, c, n) /\ Begun(c, n)
         /\ SettledBut(c, n)
         /\ CallerSecures => SecuredBut(c, n)
  BY DEF LedgerInv
<1>2. LegsLeft(p, c, n)'
  BY <1>1, LedgerUnchanged DEF LegsLeft
<1>3. Begun(c, n)'
  BY <1>1, LedgerUnchanged DEF Begun
<1>4. Booked(p, c, n)' /\ SettledBut(c, n)' /\ (CallerSecures => SecuredBut(c, n)')
  BY <1>1, LedgerUnchanged
<1>5. CallerSecures' = CallerSecures
  BY DEF CallerSecures
<1>6. /\ Consistent(events)' /\ Quantity(events, Option)' <= 0
      /\ CallerSecures => Shares' >= 0
  BY LedgerUnchanged DEF LedgerInv
<1> QED
  BY <1>2, <1>3, <1>4, <1>5, <1>6 DEF LedgerInv

(* A fill is kept if it leaves the account with options that are written,  *)
(* not held, and, with a caller that secures them, secured.                *)
LEMMA FillKeepsLedger ==
  ASSUME AccountInv, LedgerInv, Live, Settled, NEW e \in Event, e.id[1] = "fill",
         events' = Appended(events, e), UNCHANGED <<option, legs, copy>>,
         e.id \notin Ids(events) =>
            LET after == Append(events, e)
                written == -Quantity(after, Option)
            IN  /\ written >= 0
                /\ CallerSecures => /\ Quantity(after, Share) >= 0
                                   /\ Replay(after).cash >= Collateral(written)
                                   /\ Quantity(after, Share) >= Cover(written)
  PROVE  LedgerInv'
<1>0. events \in Seq(Event) /\ copy = <<>> /\ ToSet(copy) = {}
  BY DEF AccountInv, Live, ToSet
<1>1. CASE e.id \in Ids(events)
  <2>1. UNCHANGED <<events, option>>
    BY <1>1 DEF Appended
  <2>2. copy' = <<>> /\ ToSet(copy') \subseteq ToSet(events)
    BY <1>0
  <2> QED
    BY <2>1, <2>2, QuietStepKeeps
<1>2. CASE e.id \notin Ids(events)
  <2> DEFINE after == Append(events, e)
             written == -Quantity(after, Option)
  <2>1. events' = after
    BY <1>2 DEF Appended
  <2>2. /\ written >= 0
        /\ CallerSecures => /\ Quantity(after, Share) >= 0
                           /\ Replay(after).cash >= Collateral(written)
                           /\ Quantity(after, Share) >= Cover(written)
    BY <1>2
  <2>3. PICK p \in Assignments, c \in Contracts, n \in 0 .. 3 :
           /\ Booked(p, c, n) /\ SettledBut(c, n)
    BY DEF LedgerInv
  <2>4. n \in {0, 3}
    BY <2>3, HalfBookedIs DEF Settled
  <2>5. Booked(p, c, n)' /\ SettledBut(c, n)'
    BY <1>0, <2>1, <2>3, FillAddsNoLeg
  <2>6. LegsLeft(p, c, n)' /\ Begun(c, n)'
    BY DEF Settled, LegsLeft, Begun
  <2>7. Consistent(events)'
    BY <1>0, <1>2, <2>1, ConsistentWithNew DEF LedgerInv
  <2>8. after \in Seq(Event) /\ Share \in Instrument /\ Option \in Instrument
    BY <1>0, AccountAssumption
  <2>9. /\ Replay(after).cash \in Int /\ Quantity(after, Share) \in Int
        /\ Quantity(after, Option) \in Int
    BY <2>8, BalancesAreIntegers
  <2> HIDE DEF after
  <2>10. /\ Quantity(events, Option)' <= 0 /\ (CallerSecures => Shares' >= 0)
         /\ Short' = written /\ Shares' = Quantity(after, Share)
    BY <2>1, <2>2, <2>9 DEF Shares, Short
  <2>11. CallerSecures => SecuredBut(c, n)'
    <3> SUFFICES ASSUME CallerSecures PROVE SecuredBut(c, n)'
      OBVIOUS
    <3>1. CashAhead(c, n)' = Replay(after).cash - 0 /\ SharesAhead(c, n)' = Shares' + 0
      BY <2>1, <2>4 DEF CashAhead, SharesAhead
    <3>2. Collateral(Short)' = Collateral(written) /\ Cover(Short)' = Cover(written)
      BY <2>10 DEF Collateral, Cover
    <3> QED
      BY <2>2, <2>9, <2>10, <3>1, <3>2 DEF SecuredBut
  <2>12. /\ CallerSecures' = CallerSecures
         /\ copy' = <<>> /\ ToSet(copy') \subseteq ToSet(events')
    BY <1>0 DEF CallerSecures
  <2> QED
    BY <2>5, <2>6, <2>7, <2>10, <2>11, <2>12 DEF LedgerInv
<1> QED
  BY <1>1, <1>2

(* What a fill adds to the balances. *)
LEMMA TradeBalances ==
  ASSUME AccountInv, NEW e \in Event, e.id \notin Ids(events)
  PROVE  /\ Replay(Append(events, e)).cash = Replay(events).cash + e.amount
         /\ Quantity(Append(events, e), Option)
               = Quantity(events, Option) + (IF Option = e.instrument THEN e.quantity ELSE 0)
         /\ Quantity(Append(events, e), Share)
               = Shares + (IF Share = e.instrument THEN e.quantity ELSE 0)
         /\ Replay(events).cash \in Int /\ Quantity(events, Option) \in Int /\ Shares \in Int
         /\ Short = -Quantity(events, Option) /\ Share # Option
         /\ e.amount \in Int /\ e.quantity \in Int
<1>1. /\ Share \in Instrument /\ Option \in Instrument /\ Share # Option
      /\ events \in Seq(Event) /\ e.amount \in Int /\ e.quantity \in Int
  BY AccountAssumption DEF AccountInv, Event
<1> QED
  BY <1>1, BalancesAfter, BalancesAreIntegers DEF Short, Shares

(* Trading in shares. *)
LEMMA SharesKeepLedger ==
  ASSUME AccountInv, LedgerInv, NEW quantity \in 1 .. 2,
         BuyShares(quantity) \/ SellShares(quantity)
  PROVE  LedgerInv'
<1>1. PICK e \in Event :
         /\ Trading /\ StaysSecured(e, Short) /\ Book(e, FALSE)
         /\ e.id[1] = "fill" /\ e.instrument = Share
  BY FillsAreEvents DEF BuyShares, SellShares, Bought, Sold, LedgerEvent
<1>2. ASSUME e.id \notin Ids(events)
      PROVE  LET after == Append(events, e)
                 written == -Quantity(after, Option)
             IN  /\ written >= 0
                 /\ CallerSecures => /\ Quantity(after, Share) >= 0
                                    /\ Replay(after).cash >= Collateral(written)
                                    /\ Quantity(after, Share) >= Cover(written)
  <2> DEFINE after == Append(events, e)
  <2>1. /\ Quantity(after, Option) = Quantity(events, Option)
        /\ Quantity(events, Option) \in Int /\ Short = -Quantity(events, Option)
    BY <1>1, <1>2, TradeBalances
  <2>2. Quantity(after, Option) <= 0
    BY <2>1 DEF LedgerInv
  <2>3. Quantity(after, Share) >= 0
    BY <1>1 DEF Book, Bookable
  <2>4. CallerSecures => /\ Replay(after).cash >= Collateral(Short)
                        /\ Quantity(after, Share) >= Cover(Short)
    BY <1>1 DEF StaysSecured, CallerSecures, Quantity
  <2> HIDE DEF after
  <2> QED
    BY <2>1, <2>2, <2>3, <2>4 DEF after
<1>3. /\ Live /\ Settled /\ events' = Appended(events, e) /\ UNCHANGED <<option, legs, copy>>
  BY <1>1 DEF Trading, Book
<1> QED
  BY <1>1, <1>2, <1>3, FillKeepsLedger

(* Writing options. *)
LEMMA WriteKeepsLedger ==
  ASSUME AccountInv, LedgerInv, NEW contracts \in 1 .. 2, WriteOption(contracts)
  PROVE  LedgerInv'
<1>1. PICK e \in Event :
         /\ Trading /\ StaysSecured(e, Short + contracts) /\ Book(e, TRUE)
         /\ e.id[1] = "fill" /\ e.instrument = Option /\ e.quantity = -contracts
  BY FillsAreEvents DEF WriteOption, Sold, LedgerEvent
<1>2. ASSUME e.id \notin Ids(events)
      PROVE  LET after == Append(events, e)
                 written == -Quantity(after, Option)
             IN  /\ written >= 0
                 /\ CallerSecures => /\ Quantity(after, Share) >= 0
                                    /\ Replay(after).cash >= Collateral(written)
                                    /\ Quantity(after, Share) >= Cover(written)
  <2> DEFINE after == Append(events, e)
             written == -Quantity(after, Option)
  <2>1. /\ Quantity(after, Option) = Quantity(events, Option) + (-contracts)
        /\ Quantity(after, Share) = Shares + 0 /\ Shares \in Int
        /\ Quantity(events, Option) \in Int /\ Short = -Quantity(events, Option)
    BY <1>1, <1>2, TradeBalances
  <2>2. written = Short + contracts /\ written >= 0
    BY <2>1 DEF LedgerInv
  <2>3. CallerSecures => /\ Replay(after).cash >= Collateral(Short + contracts)
                        /\ Quantity(after, Share) >= Cover(Short + contracts)
    BY <1>1 DEF StaysSecured, CallerSecures, Quantity
  <2>4. CallerSecures => Quantity(after, Share) >= 0
    BY <2>1 DEF LedgerInv
  <2> HIDE DEF after
  <2> QED
    BY <2>2, <2>3, <2>4 DEF after
<1>3. /\ Live /\ Settled /\ events' = Appended(events, e) /\ UNCHANGED <<option, legs, copy>>
  BY <1>1 DEF Trading, Book
<1> QED
  BY <1>1, <1>2, <1>3, FillKeepsLedger

(* The options of a put cost at most their strike. *)
LEMMA AskOfPut ==
  ASSUME AccountInv, CallerSecures, option.right = "put"
  PROVE  Ask(Premium) \in Int /\ Ask(Premium) <= Strike
<1>1. option.strike = Strike /\ Strike \in Nat /\ Premium \in Nat /\ spot \in Nat
  BY AccountAssumption DEF AccountInv, Contract
<1>2. Premium <= spot /\ Premium <= Strike
  BY DEF AccountInv, CallerSecures
<1>3. option.right # "call"
  OBVIOUS
<1>4. Intrinsic(option, spot) = Strike - spot
  BY <1>1, <1>3 DEF Intrinsic
<1> QED
  BY <1>1, <1>2, <1>4 DEF Ask, InTheMoney

(* Buying options back. *)
LEMMA CloseKeepsLedger ==
  ASSUME AccountInv, LedgerInv, NEW contracts \in 1 .. 2, CloseOption(contracts)
  PROVE  LedgerInv'
<1> DEFINE e == Bought(NewFill, Option, contracts, Ask(Premium), Multiplier)
<1>1. /\ e \in Event /\ e.id[1] = "fill" /\ e.instrument = Option /\ e.quantity = contracts
      /\ e.amount = -Ask(Premium) * contracts * Multiplier
      /\ Live /\ Settled /\ Book(e, TRUE) /\ contracts <= Short
  BY FillsAreEvents DEF CloseOption, Bought, LedgerEvent
<1> HIDE DEF e
<1>2. ASSUME e.id \notin Ids(events)
      PROVE  LET after == Append(events, e)
                 written == -Quantity(after, Option)
             IN  /\ written >= 0
                 /\ CallerSecures => /\ Quantity(after, Share) >= 0
                                    /\ Replay(after).cash >= Collateral(written)
                                    /\ Quantity(after, Share) >= Cover(written)
  <2> DEFINE after == Append(events, e)
             written == -Quantity(after, Option)
             cash == Replay(events).cash
  <2>1. /\ Replay(after).cash = cash + e.amount
        /\ Quantity(after, Option) = Quantity(events, Option) + contracts
        /\ Quantity(after, Share) = Shares + 0 /\ Shares \in Int /\ cash \in Int
        /\ Quantity(events, Option) \in Int /\ Short = -Quantity(events, Option)
        /\ e.amount \in Int
    BY <1>1, <1>2, TradeBalances
  <2>2. Replay(after).cash >= 0
    BY <1>1 DEF Book, Bookable
  <2> HIDE DEF after, cash
  <2>3. written = Short - contracts /\ written >= 0 /\ Short \in Nat /\ contracts \in Nat
    BY <1>1, <2>1
  <2> SUFFICES ASSUME CallerSecures
               PROVE  /\ Shares >= 0 /\ Replay(after).cash >= Collateral(written)
                      /\ Shares >= Cover(written)
    BY <2>1, <2>3 DEF after
  <2>4. PICK p \in Assignments, c \in Contracts, n \in 0 .. 3 :
           Booked(p, c, n) /\ SecuredBut(c, n)
    BY DEF LedgerInv
  <2>5. n \in {0, 3}
    BY <1>1, <2>4, HalfBookedIs DEF Settled
  <2>6. cash >= Collateral(Short) /\ Shares >= Cover(Short) /\ Shares >= 0
    BY <2>1, <2>4, <2>5 DEF SecuredBut, CashAhead, SharesAhead, LedgerInv, cash
  <2> DEFINE A == contracts * Multiplier
  <2>7. A \in Nat /\ Strike \in Nat
    BY AccountAssumption
  <2>8. /\ Collateral(Short) \in Nat /\ Cover(Short) \in Nat
        /\ Collateral(written) = Collateral(Short)
              - (IF option.right = "put" THEN Strike * A ELSE 0)
        /\ Cover(written) = Cover(Short) - (IF option.right = "call" THEN A ELSE 0)
    BY <1>1, <2>3, SecurityFalls DEF AccountInv
  <2>9. Shares >= Cover(written)
    <3> HIDE DEF A, written
    <3> QED
      BY <2>1, <2>6, <2>7, <2>8
  <2>10. CASE option.right = "put"
    <3>1. Ask(Premium) \in Int /\ Ask(Premium) <= Strike
      BY <2>10, AskOfPut
    <3>2. e.amount = -(Ask(Premium) * A)
      BY <1>1, <3>1, AccountAssumption
    <3> HIDE DEF A, written
    <3>3. Ask(Premium) * A <= Strike * A /\ Ask(Premium) * A \in Int /\ Strike * A \in Int
      BY <2>7, <3>1
    <3> QED
      BY <2>1, <2>6, <2>8, <2>9, <2>10, <3>2, <3>3
  <2>11. CASE option.right # "put"
    <3>1. Collateral(written) = 0
      BY <2>11 DEF Collateral
    <3> QED
      BY <2>2, <2>6, <2>9, <3>1
  <2> QED
    BY <2>10, <2>11
<1>3. events' = Appended(events, e) /\ UNCHANGED <<option, legs, copy>>
  BY <1>1 DEF Book
<1> QED
  BY <1>1, <1>2, <1>3, FillKeepsLedger

(* An assignment is begun between two others, of what is written. *)
LEMMA BeginKeepsLedger ==
  ASSUME AccountInv, LedgerInv, NEW contracts \in 1 .. 2, BeginAssignment(contracts)
  PROVE  LedgerInv'
<1>1. /\ Live /\ Settled /\ contracts <= Short /\ LegsOf(FreePrefix) = {}
      /\ legs' = AssignmentEvents(FreePrefix, contracts)
      /\ UNCHANGED <<events, option, copy>>
  BY DEF BeginAssignment
<1>2. PICK p \in Assignments, c \in Contracts, n \in 0 .. 3 :
         Booked(p, c, n) /\ SettledBut(c, n) /\ (CallerSecures => SecuredBut(c, n))
  BY DEF LedgerInv
<1>3. n \in {0, 3}
  BY <1>1, <1>2, HalfBookedIs DEF Settled
<1>free. PICK q \in Assignments : q = FreePrefix
  BY DEF FreePrefix, Assignments
<1>4. contracts \in Contracts /\ 0 \in 0 .. 3
  BY DEF Contracts
<1>5. Booked(q, contracts, 0)
  <2>1. BookedOf(q) = {}
    <3> SUFFICES ASSUME NEW e \in BookedOf(q) PROVE FALSE
      OBVIOUS
    <3>1. e \in ToSet(events) /\ e.id \in EventId /\ e.id[1] = q
      BY MembersAreEvents DEF BookedOf, AccountInv, Event
    <3>2. PICK kind \in LegKinds : e.id = <<q, kind>>
      BY <3>1 DEF EventId, Assignments
    <3>3. kind \in LegsOf(q)
      BY <3>1, <3>2 DEF LegsOf, Ids
    <3> QED
      BY <1>1, <1>free, <3>3
  <2>2. FirstLegs(q, contracts, 0) = {}
    BY DEF FirstLegs
  <2>3. \A other \in Assignments \ {q} : LegsOf(other) \in {{}, LegKinds}
    BY <1>1 DEF Settled, HalfBooked
  <2> QED
    BY <2>1, <2>2, <2>3 DEF Booked
<1>6. SettledBut(contracts, 0)
  BY <1>2, <1>3 DEF SettledBut
<1>7. CallerSecures => SecuredBut(contracts, 0)
  BY <1>2, <1>3 DEF SecuredBut, CashAhead, SharesAhead
<1>8. Booked(q, contracts, 0)' /\ SettledBut(contracts, 0)'
      /\ (CallerSecures => SecuredBut(contracts, 0)')
  BY <1>1, <1>5, <1>6, <1>7, LedgerUnchanged
<1>9. LegsLeft(q, contracts, 0)'
  <2>1. legs' = LegsAfter(q, contracts, 0)
    BY <1>1, <1>free, LegsAre
  <2>2. LegsAfter(q, contracts, 0)' = LegsAfter(q, contracts, 0)
    BY <1>1, LedgerUnchanged
  <2> QED
    BY <2>1, <2>2 DEF LegsLeft
<1>10. Begun(contracts, 0)'
  BY <1>1, LedgerUnchanged DEF Begun
<1>11. /\ Consistent(events)' /\ Quantity(events, Option)' <= 0
       /\ (CallerSecures => Shares' >= 0) /\ CallerSecures' = CallerSecures
       /\ copy' = <<>> /\ ToSet(copy') = {}
  BY <1>1, LedgerUnchanged DEF LedgerInv, Live, CallerSecures, ToSet
<1> QED
  BY <1>4, <1>8, <1>9, <1>10, <1>11 DEF LedgerInv

(* The legs are made again, as they were made first. *)
LEMMA RecoverKeepsLedger ==
  ASSUME AccountInv, LedgerInv, Recover
  PROVE  LedgerInv'
<1>1. PICK prefix \in HalfBooked :
         \E e \in ToSet(events) : /\ e.id = <<prefix, "option">>
                                 /\ legs' = AssignmentEvents(prefix, e.quantity)
  BY DEF Recover
<1>2. PICK e \in ToSet(events) : /\ e.id = <<prefix, "option">>
                                /\ legs' = AssignmentEvents(prefix, e.quantity)
  BY <1>1
<1>3. PICK p \in Assignments, c \in Contracts, n \in 0 .. 3 :
         Booked(p, c, n) /\ SettledBut(c, n) /\ (CallerSecures => SecuredBut(c, n))
  BY DEF LedgerInv
<1>4. prefix = p /\ n \in {1, 2}
  BY <1>3, HalfBookedIs
<1>5. e.quantity = c
  <2>1. e \in FirstLegs(p, c, n)
    BY <1>2, <1>3, <1>4 DEF Booked, BookedOf
  <2>2. PICK k \in 1 .. n : e = Leg(p, c, k)
    BY <2>1 DEF FirstLegs
  <2>3. k \in 1 .. 3
    OBVIOUS
  <2>4. k = 1
    <3>1. Leg(p, c, k).id[2] = "option"
      BY <1>2, <2>2
    <3> QED
      BY <2>3, <3>1, LegIds
  <2> QED
    BY <2>2, <2>4, LegsAre DEF LedgerEvent
<1>6. Live /\ UNCHANGED <<events, option, copy>>
  BY DEF Recover
<1>7. LegsLeft(p, c, n)'
  <2>1. legs' = AssignmentEvents(p, c)
    BY <1>2, <1>4, <1>5
  <2>2. legs' = LegsAfter(p, c, 0)
    BY <2>1, LegsAre
  <2>3. LegsAfter(p, c, 0)' = LegsAfter(p, c, 0)
    BY <1>6, LedgerUnchanged
  <2> QED
    BY <1>4, <2>2, <2>3 DEF LegsLeft
<1>8. Begun(c, n)'
  BY <1>4 DEF Begun
<1>9. Booked(p, c, n)' /\ SettledBut(c, n)' /\ (CallerSecures => SecuredBut(c, n)')
  BY <1>3, <1>6, LedgerUnchanged
<1>10. /\ Consistent(events)' /\ Quantity(events, Option)' <= 0
       /\ (CallerSecures => Shares' >= 0) /\ CallerSecures' = CallerSecures
       /\ copy' = <<>> /\ ToSet(copy') = {}
  BY <1>6, LedgerUnchanged DEF LedgerInv, Live, CallerSecures, ToSet
<1> QED
  BY <1>7, <1>8, <1>9, <1>10 DEF LedgerInv

(* A leg is appended: the next one that the ledger does not have, or one   *)
(* it has, which changes nothing but what is still to be appended.         *)
LEMMA LegKeepsLedger ==
  ASSUME AccountInv, LedgerInv, AppendLeg
  PROVE  LedgerInv'
<1>1. /\ legs # <<>> /\ events' = Appended(events, Head(legs)) /\ legs' = Tail(legs)
      /\ UNCHANGED <<option, copy>>
  BY DEF AppendLeg
<1>2. PICK p \in Assignments, c \in Contracts, n \in 0 .. 3 :
         /\ Booked(p, c, n) /\ LegsLeft(p, c, n) /\ Begun(c, n)
         /\ SettledBut(c, n)
         /\ CallerSecures => SecuredBut(c, n)
  BY DEF LedgerInv
<1>3. PICK m \in 0 .. 2 : m <= n /\ legs = LegsAfter(p, c, m)
  BY <1>1, <1>2 DEF LegsLeft
<1> DEFINE e == Leg(p, c, m + 1)
<1>4. /\ Head(legs) = e
      /\ legs' = <<>> \/ (m + 1 \in 0 .. 2 /\ legs' = LegsAfter(p, c, m + 1))
  <2>1. CASE m = 0
    BY <1>1, <1>3, <2>1 DEF LegsAfter
  <2>2. CASE m = 1
    BY <1>1, <1>3, <2>2 DEF LegsAfter
  <2>3. CASE m = 2
    BY <1>1, <1>3, <2>3 DEF LegsAfter
  <2> QED
    BY <2>1, <2>2, <2>3
<1>5. /\ events \in Seq(Event) /\ option \in Contract /\ option' = option
      /\ copy = <<>> /\ copy' = <<>> /\ ToSet(copy') = {}
  BY <1>1 DEF AccountInv, LedgerInv, ToSet
<1>6. m + 1 \in 1 .. 3 /\ e \in Event
  BY <1>5, LegIsEvent
<1>7. CallerSecures' = CallerSecures
  BY DEF CallerSecures
<1>8. \A k : LegsAfter(p, c, k)' = LegsAfter(p, c, k)
  BY <1>5 DEF LegsAfter, Leg, AssignmentEvents
<1>9. CASE m < n
  <2>1. e.id \in Ids(events)
    BY <1>2, <1>6, <1>9, LegIsNew
  <2>2. events' = events
    BY <1>1, <1>4, <2>1 DEF Appended
  <2>3. LegsLeft(p, c, n)'
    BY <1>4, <1>8, <1>9 DEF LegsLeft
  <2>4. Begun(c, n)'
    BY <1>9 DEF Begun
  <2>5. Booked(p, c, n)' /\ SettledBut(c, n)' /\ (CallerSecures => SecuredBut(c, n)')
    BY <1>2, <1>5, <2>2, LedgerUnchanged
  <2>6. /\ Consistent(events)' /\ Quantity(events, Option)' <= 0
        /\ CallerSecures => Shares' >= 0
    BY <1>5, <2>2, LedgerUnchanged DEF LedgerInv
  <2> QED
    BY <1>5, <1>7, <2>3, <2>4, <2>5, <2>6 DEF LedgerInv
<1>10. CASE m = n
  <2>1. e.id \notin Ids(events) /\ n \in 0 .. 2 /\ n + 1 \in 0 .. 3
    BY <1>2, <1>6, <1>10, LegIsNew
  <2>2. events' = Append(events, Leg(p, c, n + 1))
    BY <1>1, <1>4, <1>10, <2>1 DEF Appended
  <2>3. Booked(p, c, n + 1)' /\ SettledBut(c, n + 1)'
    BY <1>2, <1>5, <2>1, <2>2, LegIsBooked, LegSettles
  <2>4. LegsLeft(p, c, n + 1)'
    BY <1>4, <1>8, <1>10 DEF LegsLeft
  <2>5. Begun(c, n + 1)'
    BY <2>1 DEF Begun
  <2>6. /\ Quantity(events, Option)' <= 0
        /\ CallerSecures => Shares' >= 0 /\ SecuredBut(c, n + 1)'
    <3>1. Quantity(events, Option) <= 0 /\ (n = 0 => c <= Short)
      BY <1>1, <1>2 DEF LedgerInv, Begun
    <3>2. CallerSecures => Shares >= 0
      BY DEF LedgerInv
    <3> QED
      BY <1>2, <1>5, <2>1, <2>2, <3>1, <3>2, LegSecures
  <2>7. Consistent(events)'
    BY <1>5, <1>6, <1>10, <2>1, <2>2, ConsistentWithNew DEF LedgerInv
  <2> QED
    BY <1>5, <1>7, <2>1, <2>3, <2>4, <2>5, <2>6, <2>7 DEF LedgerInv
<1> QED
  BY <1>3, <1>9, <1>10

(* A sink that gives what it was given returns no event of its own. *)
LEMMA ReturnedIsOld ==
  ASSUME events \in Seq(Event), NEW k \in DOMAIN events, NEW s \in Returned(k), ~Altered
  PROVE  ToSet(s) \subseteq ToSet(events)
<1> DEFINE e == events[k]
           others == RemoveAt(events, k)
<1>1. e \in Event /\ k \in 1 .. Len(events) /\ e \in ToSet(events)
  BY DEF ToSet
<1>2. /\ others \in Seq(Event) /\ ToSet(others) \subseteq ToSet(events)
  <2> DEFINE front == SubSeq(events, 1, k - 1)
             back == SubSeq(events, k + 1, Len(events))
  <2>1. /\ front \in Seq(Event) /\ \A j \in DOMAIN front : front[j] \in ToSet(events)
        /\ back \in Seq(Event) /\ \A j \in DOMAIN back : back[j] \in ToSet(events)
    BY <1>1 DEF ToSet
  <2>2. others = front \o back
    BY DEF RemoveAt
  <2> HIDE DEF front, back, others
  <2>3. \A j \in DOMAIN (front \o back) : (front \o back)[j] \in ToSet(events)
    BY <2>1
  <2> QED
    BY <2>1, <2>2, <2>3 DEF ToSet
<1> HIDE DEF e, others
<1>3. \A t \in Seq(Event) : /\ ToSet(<<e>> \o t) = {e} \cup ToSet(t)
                            /\ ToSet(Append(t, e)) = {e} \cup ToSet(t)
  <2> SUFFICES ASSUME NEW t \in Seq(Event)
               PROVE  /\ ToSet(<<e>> \o t) = {e} \cup ToSet(t)
                      /\ ToSet(Append(t, e)) = {e} \cup ToSet(t)
    OBVIOUS
  <2>1. ToSet(Append(t, e)) = {e} \cup ToSet(t)
    BY <1>1, MembersOfAppend
  <2>2. /\ DOMAIN (<<e>> \o t) = 1 .. Len(t) + 1 /\ (<<e>> \o t)[1] = e
        /\ DOMAIN t = 1 .. Len(t) /\ Len(t) \in Nat
        /\ \A j \in 1 .. Len(t) : (<<e>> \o t)[j + 1] = t[j]
    BY <1>1
  <2>3. \A j \in 1 .. Len(t) + 1 : j = 1 \/ (j - 1 \in 1 .. Len(t) /\ j = (j - 1) + 1)
    BY <2>2
  <2>4. ToSet(<<e>> \o t) \subseteq {e} \cup ToSet(t)
    BY <2>2, <2>3 DEF ToSet
  <2>5. {e} \cup ToSet(t) \subseteq ToSet(<<e>> \o t)
    <3>1. 1 \in 1 .. Len(t) + 1 /\ \A j \in 1 .. Len(t) : j + 1 \in 1 .. Len(t) + 1
      BY <2>2
    <3>2. \A j \in DOMAIN (<<e>> \o t) : (<<e>> \o t)[j] \in ToSet(<<e>> \o t)
      BY DEF ToSet
    <3>3. e \in ToSet(<<e>> \o t)
      BY <2>2, <3>1, <3>2
    <3>4. \A j \in 1 .. Len(t) : t[j] \in ToSet(<<e>> \o t)
      BY <2>2, <3>1, <3>2
    <3> QED
      BY <2>2, <3>3, <3>4 DEF ToSet
  <2> QED
    BY <2>1, <2>4, <2>5
<1>4. s \in {others, <<e>> \o others, Append(others, e), <<e>> \o events, Append(events, e)}
  BY DEF Returned, e, others
<1> QED
  BY <1>1, <1>2, <1>3, <1>4

LEMMA LedgerInit == Init => LedgerInv
<1> SUFFICES ASSUME Init PROVE LedgerInv
  OBVIOUS
<1>1. events = <<>> /\ legs = <<>> /\ copy = <<>> /\ option \in Contract
  BY DEF Init, Contract
<1>2. ToSet(events) = {} /\ Ids(events) = {} /\ ToSet(copy) = {}
  BY <1>1 DEF ToSet, Ids
<1>3. /\ Share \in Instrument /\ Option \in Instrument
      /\ Multiplier \in Nat /\ Strike \in Nat /\ StartingCash \in Int
  BY AccountAssumption
<1>4. /\ Quantity(events, Option) = 0 /\ Shares = 0
      /\ Replay(events).cash = StartingCash
  <2>1. Replay(events) = Opening
    BY <1>1, ReplayOfNothing
  <2>2. /\ Opening.position[Option].quantity = 0 /\ Opening.position[Share].quantity = 0
        /\ Opening.cash = StartingCash
    BY <1>3 DEF Opening, NoPosition
  <2> QED
    BY <2>1, <2>2 DEF Quantity, Shares
<1>5. Short = 0
  <2> DEFINE held == Quantity(events, Option)
  <2>1. held = 0 /\ held \in Int
    BY <1>4
  <2>2. held \in Int => Short \in Int /\ Short + held = 0
    BY DEF Short
  <2> HIDE DEF held
  <2> QED
    BY <2>1, <2>2
<1>6. Booked("first", 0, 0)
  BY <1>2 DEF Booked, BookedOf, FirstLegs, LegsOf, Assignments
<1>7. LegsLeft("first", 0, 0) /\ Begun(0, 0)
  BY <1>1 DEF LegsLeft, Begun
<1>8. SettledBut(0, 0)
  <2>1. \A kind : Legs(kind) = {}
    BY <1>2 DEF Legs
  <2>2. \A kind : Quantities(Legs(kind)) = 0 /\ Amounts(Legs(kind)) = 0
    BY <2>1, SumsOfNothing
  <2>3. Moved = 0
    <3>1. Moved = Sign * (Multiplier * 0) /\ Sign \in Int
      BY <2>2 DEF Moved, Sign
    <3> QED
      BY <1>3, <3>1
  <2> QED
    BY <1>3, <2>2, <2>3 DEF SettledBut
<1>9. CallerSecures => SecuredBut(0, 0)
  <2>1. Collateral(0) = 0 /\ Cover(0) = 0
    BY <1>3 DEF Collateral, Cover
  <2> QED
    BY <1>3, <1>4, <1>5, <2>1 DEF CallerSecures, SecuredBut, CashAhead, SharesAhead
<1>10. "first" \in Assignments /\ 0 \in Contracts /\ 0 \in 0 .. 3
  BY DEF Assignments, Contracts
<1> QED
  BY <1>1, <1>2, <1>4, <1>6, <1>7, <1>8, <1>9, <1>10 DEF LedgerInv, Consistent

LEMMA LedgerNextKeeps == AccountInv /\ LedgerInv /\ [Next]_vars => LedgerInv'
<1> SUFFICES ASSUME AccountInv, LedgerInv, [Next]_vars PROVE LedgerInv'
  OBVIOUS
<1>0. /\ copy # <<>> => legs = <<>>
      /\ ~Altered => ToSet(copy) \subseteq ToSet(events)
      /\ events \in Seq(Event)
  BY DEF AccountInv, LedgerInv
<1>1. ASSUME UNCHANGED <<option, events, legs, copy>> PROVE LedgerInv'
  BY <1>0, <1>1, QuietStepKeeps
<1>2. ASSUME NEW later \in Instants, NEW price \in Spot, Tick(later, price) PROVE LedgerInv'
  BY <1>1, <1>2 DEF Tick
<1>3. ASSUME NEW quantity \in 1 .. 2, BuyShares(quantity) \/ SellShares(quantity)
      PROVE  LedgerInv'
  BY <1>3, SharesKeepLedger
<1>4. ASSUME NEW contracts \in 1 .. 2, WriteOption(contracts) PROVE LedgerInv'
  BY <1>4, WriteKeepsLedger
<1>5. ASSUME NEW contracts \in 1 .. 2, CloseOption(contracts) PROVE LedgerInv'
  BY <1>5, CloseKeepsLedger
<1>6. ASSUME NEW contracts \in 1 .. 2, BeginAssignment(contracts) PROVE LedgerInv'
  BY <1>6, BeginKeepsLedger
<1>7. CASE BookAgain
  <2>1. PICK e \in Fills : Book(e, e.instrument = Option)
    BY <1>7 DEF BookAgain
  <2>2. e.id \in Ids(events)
    BY DEF Fills, Ids
  <2> QED
    BY <1>1, <2>1, <2>2 DEF Book, Appended
<1>8. CASE EvaluateExpiry \/ EvaluateDividend \/ EvaluateDeepItm
  BY <1>1, <1>8 DEF EvaluateExpiry, EvaluateDividend, EvaluateDeepItm, Instruct
<1>9. CASE AppendLeg
  BY <1>9, LegKeepsLedger
<1>10. CASE Interrupt
  BY <1>0, <1>10, QuietStepKeeps DEF Interrupt
<1>11. CASE Recover
  BY <1>11, RecoverKeepsLedger
<1>12. CASE ReadBack
  <2>1. PICK k \in DOMAIN events : copy' \in Returned(k)
    BY <1>12 DEF ReadBack
  <2>2. ~Altered => ToSet(copy') \subseteq ToSet(events)
    BY <1>0, <2>1, ReturnedIsOld
  <2> QED
    BY <1>12, <2>2, QuietStepKeeps DEF ReadBack, Settled
<1>13. CASE UNCHANGED vars
  BY <1>1, <1>13 DEF vars
<1> QED
  BY <1>2, <1>3, <1>4, <1>5, <1>6, <1>7, <1>8, <1>9, <1>10, <1>11, <1>12, <1>13 DEF Next

LEMMA LedgerInvCorrect == Spec => [](AccountInv /\ LedgerInv)
<1>1. Init => AccountInv /\ LedgerInv
  BY AccountInit, LedgerInit
<1>2. AccountInv /\ LedgerInv /\ [Next]_vars => (AccountInv /\ LedgerInv)'
  BY AccountNextKeeps, LedgerNextKeeps
<1> QED
  BY <1>1, <1>2, PTL DEF Spec

-----------------------------------------------------------------------------
(* Whoever was interrupted where, and however he secures what he writes:   *)
(* every contract that was assigned has moved its shares at the strike,    *)
(* once, and never more contracts went than were written                   *)
(* (lifecycle.py:58-77, accounting.py:50-56).                              *)
THEOREM AssignmentsAreSettled == Spec => []AssignmentsSettle
<1>1. AccountInv /\ LedgerInv => AssignmentsSettle
  <2> SUFFICES ASSUME AccountInv, LedgerInv PROVE AssignmentsSettle
    OBVIOUS
  <2>1. PICK p \in Assignments, c \in Contracts, n \in 0 .. 3 :
           Booked(p, c, n) /\ SettledBut(c, n)
    BY DEF LedgerInv
  <2>2. /\ Sign \in Int /\ Multiplier \in Nat /\ Strike \in Nat
        /\ \A kind : Quantities(Legs(kind)) \in Int /\ Amounts(Legs(kind)) \in Int
    BY SumsOfLegsAreIntegers DEF AccountInv
  <2>3. Moved \in Int /\ Moved = Sign * Multiplier * Quantities(Legs("option"))
    BY <2>2 DEF Moved
  <2>4. ASSUME Settled
        PROVE  /\ Quantities(Legs("shares")) = Moved
               /\ Amounts(Legs("cash")) = -Strike * Moved
    <3>1. n \in {0, 3}
      BY <2>1, <2>4, HalfBookedIs DEF Settled
    <3>2. /\ Quantities(Legs("shares")) = Moved - 0
          /\ Amounts(Legs("cash")) = -Strike * Moved + 0
      BY <2>1, <3>1 DEF SettledBut
    <3> HIDE DEF Moved
    <3> QED
      BY <2>2, <2>3, <3>2
  <2>5. Quantity(events, Option) <= 0
    BY DEF LedgerInv
  <2> QED
    BY <2>3, <2>4, <2>5 DEF AssignmentsSettle, Sign
<1> QED
  BY <1>1, LedgerInvCorrect, PTL

(* "margin, leverage and short shares/options are prohibited in            *)
(* accounting" (accounting.py:67): assignments are appended without the    *)
(* guard of book_fill, and still cash and shares are there whenever none   *)
(* is half booked, for a caller that begins with cash and secures what he  *)
(* writes.  Buying a put back costs no more than its strike, which was     *)
(* kept for it, when its extrinsic value is at most the price of a share.  *)
THEOREM SecuredStaysSolvent ==
  ASSUME Secured, StartingCash >= 0, \A price \in Spot \cup {Strike} : Premium <= price
  PROVE  Spec => []SettledSolvent
<1>0. CallerSecures
  BY DEF CallerSecures
<1>1. AccountInv /\ LedgerInv => SettledSolvent
  <2> SUFFICES ASSUME AccountInv, LedgerInv, Settled
               PROVE  Replay(events).cash >= 0 /\ Shares >= 0
    BY DEF SettledSolvent
  <2>1. PICK p \in Assignments, c \in Contracts, n \in 0 .. 3 :
           Booked(p, c, n) /\ SecuredBut(c, n)
    BY <1>0 DEF LedgerInv
  <2>2. n \in {0, 3}
    BY <2>1, HalfBookedIs DEF Settled
  <2>3. Replay(events).cash - 0 >= Collateral(Short)
    BY <2>1, <2>2 DEF SecuredBut, CashAhead
  <2>4. Option \in Instrument /\ events \in Seq(Event) /\ option \in Contract
    BY AccountAssumption DEF AccountInv
  <2>5. Replay(events).cash \in Int /\ Quantity(events, Option) \in Int
    BY <2>4, BalancesAreIntegers
  <2>6. Short \in Nat
    BY <2>5 DEF Short, LedgerInv
  <2>7. Collateral(Short) \in Nat
    BY <2>4, <2>6, SecurityFalls
  <2> QED
    BY <1>0, <2>3, <2>5, <2>7 DEF LedgerInv
<1> QED
  BY <1>1, LedgerInvCorrect, PTL

(* "Pure replay reconstructs the same state, and reconciliation reports    *)
(* missing, unexpected, or mismatched records" (README.md:55-56): what a   *)
(* sink that alters no event returns, in another order, twice or in part,  *)
(* replays to the account's balances or is reported.                       *)
THEOREM CleanCopies == ASSUME ~Altered PROVE Spec => []CleanReconcile
<1>1. AccountInv /\ LedgerInv => CleanReconcile
  <2> SUFFICES ASSUME AccountInv, LedgerInv, Reconcile(events, copy) = {}
               PROVE  /\ Replay(copy).cash = Replay(events).cash
                      /\ \A i \in Instrument : Quantity(copy, i) = Quantity(events, i)
    BY DEF CleanReconcile
  <2>1. events \in Seq(Event) /\ copy \in Seq(Event) /\ Consistent(events)
    BY DEF AccountInv, LedgerInv
  <2>2. Consistent(copy)
    BY <2>1 DEF LedgerInv, Consistent
  <2> QED
    BY <2>1, <2>2, ReconciledReplayAlike
<1> QED
  BY <1>1, LedgerInvCorrect, PTL
-----------------------------------------------------------------------------
(* The basis of a part of a position is not more than that of the whole. *)
LEMMA PartOfBasis ==
  ASSUME NEW num \in Nat, NEW den \in Nat, den >= 1, NEW paid \in Nat, num <= paid * den,
         NEW q \in Nat, q >= 1, NEW r \in Nat, r <= q
  PROVE  num * r >= 0 /\ den * q >= 1 /\ num * r <= paid * (den * q)
<1>1. num * r \in Nat /\ num * r <= num * q
  OBVIOUS
<1>2. num * q <= (paid * den) * q
  OBVIOUS
<1>3. (paid * den) * q = paid * (den * q) /\ paid * (den * q) \in Nat /\ num * q \in Nat
  OBVIOUS
<1>4. den * q >= 1
  OBVIOUS
<1> QED
  BY <1>1, <1>2, <1>3, <1>4

Purchases == {e \in Fills : e.instrument = Share /\ e.quantity > 0}

LEMMA BasisOfAdded ==
  ASSUME NEW p \in Held, NEW e \in Event, e.quantity > 0, p.quantity + e.quantity # 0
  PROVE  /\ PositionAfter(p, e).basis.num = p.basis.num - e.amount * p.basis.den
         /\ PositionAfter(p, e).basis.den = p.basis.den
<1>1. PositionAfter(p, e).basis = BasisAfter(p, e)
  BY DEF PositionAfter
<1>2. p.basis \in [num : Int, den : Int] /\ e.quantity \in Int
  BY DEF Held, Event
<1>3. ~(e.quantity < 0)
  BY <1>2
<1>4. BasisAfter(p, e) = [p.basis EXCEPT !.num = p.basis.num - e.amount * p.basis.den]
  BY <1>3 DEF BasisAfter
<1> QED
  BY <1>1, <1>2, <1>4

(* What shares were bought for grows by what more are bought for. *)
LEMMA PaidWithOneMore ==
  ASSUME events \in Seq(Event), NEW e \in Event, e.id \notin Ids(events),
         events' = Append(events, e)
  PROVE  /\ Paid \in Int
         /\ Paid' = Paid - (IF e.id[1] = "fill" /\ e.instrument = Share /\ e.quantity > 0
                            THEN e.amount ELSE 0)
<1> DEFINE T == Purchases
<1>1. ToSet(events') = ToSet(events) \cup {e}
  BY MembersOfAppend
<1>2. T \in SUBSET Event /\ IsFiniteSet(T) /\ e \notin T
  BY MembersAreFinite, FS_Subset DEF Purchases, Fills, Ids
<1>3. Paid = -Amounts(T) /\ Amounts(T) \in Int /\ Paid' = -Amounts(Purchases') /\ e.amount \in Int
  BY <1>2, SumsAreIntegers DEF Paid, Purchases, Amounts, Event
<1>4. CASE e.id[1] = "fill" /\ e.instrument = Share /\ e.quantity > 0
  <2>1. Purchases' = T \cup {e}
    BY <1>1, <1>4 DEF Purchases, Fills
  <2> HIDE DEF T
  <2>2. Amounts(T \cup {e}) = Amounts(T) + e.amount
    BY <1>2, SumsWithOneMore
  <2> QED
    BY <1>3, <1>4, <2>1, <2>2
<1>5. CASE ~(e.id[1] = "fill" /\ e.instrument = Share /\ e.quantity > 0)
  <2>1. Purchases' = T
    BY <1>1, <1>5 DEF Purchases, Fills
  <2> HIDE DEF T
  <2> QED
    BY <1>3, <1>5, <2>1
<1> QED
  BY <1>4, <1>5

LEMMA ProductsOfFall ==
  ASSUME NEW p \in Nat, NEW a \in Int, a <= 0, NEW d \in Nat
  PROVE  /\ (p - a) * d = p * d - a * d
         /\ -(a * d) >= 0 /\ a * d \in Int /\ p * d \in Int
<1>1. (p - a) * d = p * d - a * d /\ a * d \in Int /\ p * d \in Int
  OBVIOUS
<1>2. a * d <= 0
  OBVIOUS
<1> DEFINE x == a * d
<1>3. x \in Int /\ x <= 0
  BY <1>1, <1>2
<1> HIDE DEF x
<1>4. -x >= 0
  BY <1>3
<1> QED
  BY <1>1, <1>4 DEF x

(* The basis stays within what was paid when an event comes that buys      *)
(* shares for something, takes them from an assignment for nothing, or     *)
(* gives away no more than there are.                                      *)
LEMMA EventKeepsBasis ==
  ASSUME AccountInv, BasisInv, NEW e \in Event, e.id \notin Ids(events),
         events' = Append(events, e), Shares >= 0, Shares' >= 0,
         e.instrument = Share /\ e.quantity > 0 =>
            IF e.id[1] = "fill" THEN e.amount <= 0 ELSE e.amount = 0
  PROVE  BasisInv'
<1> DEFINE p == Replay(events).position[Share]
           num == p.basis.num
           den == p.basis.den
           paid == Paid
           moves == e.instrument = Share /\ e.quantity # 0
           bought == IF e.instrument = Share /\ e.quantity > 0 THEN e.amount ELSE 0
           after == IF moves THEN PositionAfter(p, e) ELSE p
<1>1. /\ events \in Seq(Event) /\ Share \in Instrument
      /\ e.amount \in Int /\ e.quantity \in Int
  BY AccountAssumption DEF AccountInv, Event
<1>2. p \in Held /\ Replay(events) \in Balances /\ e.id \notin Replay(events).seen
  BY <1>1, ReplayIsBalances DEF Balances
<1>3. Replay(events') = ReplayEvent(Replay(events), e)
  BY <1>1, ReplayOfAppend
<1>4. Replay(events').position[Share] = after
  BY <1>1, <1>2, <1>3 DEF ReplayEvent
<1>5. paid \in Int /\ Paid' = paid - bought /\ bought <= 0 /\ bought \in Int
  BY <1>1, PaidWithOneMore
<1>6. Shares = p.quantity /\ Shares' = Replay(events').position[Share].quantity
  BY DEF Shares, Quantity
<1>7. /\ num \in Nat /\ den \in Nat /\ den >= 1 /\ paid \in Nat /\ num <= paid * den
      /\ p.quantity \in Nat
  BY <1>2, <1>5, <1>6 DEF BasisInv, Held
<1> DEFINE Within(basis, limit) ==
              limit >= 0 /\ basis.den >= 1 /\ basis.num >= 0 /\ basis.num <= limit * basis.den
<1>8. BasisInv' <=> Within(after.basis, Paid')
  BY <1>4 DEF BasisInv
<1>9. CASE ~moves
  <2>1. bought = 0 /\ after = p
    BY <1>1, <1>9
  <2>2. Paid' = paid
    BY <1>5, <2>1
  <2> QED
    BY <1>7, <1>8, <2>1, <2>2
<1>10. CASE moves
  <2>1. after = PositionAfter(p, e) /\ after.quantity = p.quantity + e.quantity
        /\ p.quantity + e.quantity >= 0
    BY <1>2, <1>4, <1>6, <1>10, PositionIsHeld
  <2>2. CASE p.quantity + e.quantity = 0
    <3>1. after.basis.num = 0 /\ after.basis.den = 1
      BY <2>1, <2>2 DEF PositionAfter, NoPosition
    <3>2. Paid' \in Nat
      BY <1>5, <1>7
    <3> QED
      BY <1>8, <3>1, <3>2
  <2>3. CASE p.quantity + e.quantity # 0 /\ e.quantity > 0
    <3>1. after.basis.num = num - e.amount * den /\ after.basis.den = den
      <4> HIDE DEF p
      <4> QED
        BY <1>2, <2>1, <2>3, BasisOfAdded
    <3>2. bought = e.amount /\ Paid' = paid - e.amount /\ e.amount <= 0
      BY <1>5, <1>10, <2>3
    <3> HIDE DEF num, den, paid
    <3>3. (paid - e.amount) * den = paid * den - e.amount * den /\ -(e.amount * den) >= 0
          /\ e.amount * den \in Int /\ paid * den \in Int
      <4>1. e.amount \in Int /\ e.amount <= 0 /\ den \in Nat /\ paid \in Nat
        BY <1>1, <1>7, <3>2
      <4> QED
        BY <4>1, ProductsOfFall
    <3>4. num - e.amount * den >= 0 /\ num - e.amount * den <= (paid - e.amount) * den
      <4> DEFINE x == e.amount * den
                 y == paid * den
                 z == (paid - e.amount) * den
      <4>1. z = y - x /\ -x >= 0 /\ x \in Int /\ y \in Int /\ num <= y /\ num \in Nat
        BY <1>7, <3>3
      <4> HIDE DEF x, y, z
      <4>2. num - x >= 0 /\ num - x <= z
        BY <4>1
      <4> QED
        BY <4>2 DEF x, z
    <3>5. paid - e.amount >= 0
      BY <1>1, <1>7, <3>2
    <3> HIDE DEF after
    <3> QED
      BY <1>7, <1>8, <3>1, <3>2, <3>4, <3>5
  <2>4. CASE p.quantity + e.quantity # 0 /\ ~(e.quantity > 0)
    <3>1. e.quantity < 0 /\ p.quantity >= 1 /\ p.quantity + e.quantity \in Nat
          /\ p.quantity + e.quantity <= p.quantity
      BY <1>1, <1>7, <1>10, <2>1, <2>4
    <3>2. after.basis.num = num * (p.quantity + e.quantity) /\ after.basis.den = den * p.quantity
      BY <2>1, <2>4, <3>1 DEF PositionAfter, BasisAfter
    <3>3. Paid' = paid
      BY <1>5, <1>10, <2>4
    <3> DEFINE q == p.quantity
               r == p.quantity + e.quantity
    <3> HIDE DEF num, den, paid, after, q, r
    <3>4. /\ q \in Nat /\ q >= 1 /\ r \in Nat /\ r <= q
          /\ after.basis.num = num * r /\ after.basis.den = den * q
      BY <1>7, <3>1, <3>2 DEF q, r
    <3>5. num * r >= 0 /\ den * q >= 1 /\ num * r <= paid * (den * q)
      BY <1>7, <3>4, PartOfBasis
    <3> QED
      BY <1>7, <1>8, <3>3, <3>4, <3>5
  <2> QED
    BY <2>2, <2>3, <2>4
<1> QED
  BY <1>9, <1>10

LEMMA BasisInit == Init => BasisInv
<1> SUFFICES ASSUME Init PROVE BasisInv
  OBVIOUS
<1>1. events = <<>> /\ Share \in Instrument
  BY AccountAssumption DEF Init
<1>2. Replay(events) = Opening
  BY <1>1, ReplayOfNothing
<1>3. Opening.position[Share].basis.num = 0 /\ Opening.position[Share].basis.den = 1
  BY <1>1 DEF Opening, NoPosition
<1>4. Paid \in Int /\ Paid + 0 = 0
  <2> DEFINE amount == Amounts(Purchases)
  <2>1. Purchases = {}
    BY <1>1 DEF Purchases, Fills, ToSet
  <2>2. amount \in Int /\ amount = 0
    BY <2>1, SumsOfNothing
  <2>3. amount \in Int => Paid \in Int /\ Paid + amount = 0
    BY DEF Paid, Purchases
  <2> HIDE DEF amount
  <2> QED
    BY <2>2, <2>3
<1> QED
  BY <1>2, <1>3, <1>4 DEF BasisInv

LEMMA BasisNextKeeps ==
  CallerSecures /\ AccountInv /\ LedgerInv /\ LedgerInv' /\ BasisInv /\ [Next]_vars => BasisInv'
<1> SUFFICES ASSUME CallerSecures, AccountInv, LedgerInv, LedgerInv', BasisInv, [Next]_vars
             PROVE  BasisInv'
  OBVIOUS
<1>0. Shares >= 0 /\ Shares' >= 0 /\ events \in Seq(Event) /\ option \in Contract
  BY DEF LedgerInv, CallerSecures, AccountInv
<1>1. ASSUME UNCHANGED events PROVE BasisInv'
  BY <1>1 DEF BasisInv, Paid, Fills
<1>2. ASSUME NEW e \in Event, events' = Appended(events, e),
             e.instrument = Share /\ e.quantity > 0 =>
                IF e.id[1] = "fill" THEN e.amount <= 0 ELSE e.amount = 0
      PROVE  BasisInv'
  <2>1. CASE e.id \in Ids(events)
    BY <1>1, <1>2, <2>1 DEF Appended
  <2>2. CASE e.id \notin Ids(events)
    BY <1>0, <1>2, <2>2, EventKeepsBasis DEF Appended
  <2> QED
    BY <2>1, <2>2
<1>3. Share # Option
  BY AccountAssumption
<1>4. ASSUME NEW quantity \in 1 .. 2, BuyShares(quantity) PROVE BasisInv'
  <2> DEFINE e == Bought(NewFill, Share, quantity, spot + Spread, 1)
  <2>1. e \in Event /\ e.id[1] = "fill" /\ e.amount = -(spot + Spread) * quantity * 1
    BY FillsAreEvents DEF Bought, LedgerEvent
  <2>2. spot + Spread \in Nat /\ quantity \in Nat
    BY AccountAssumption DEF AccountInv
  <2>3. (spot + Spread) * quantity \in Nat
    BY <2>2
  <2>4. e.amount <= 0
    BY <2>1, <2>2, <2>3
  <2>5. events' = Appended(events, e)
    BY <1>4 DEF BuyShares, Book
  <2> HIDE DEF e
  <2> QED
    BY <1>2, <2>1, <2>4, <2>5
<1>5. ASSUME NEW quantity \in 1 .. 2, SellShares(quantity) PROVE BasisInv'
  <2> DEFINE e == Sold(NewFill, Share, quantity, spot, 1)
  <2>1. e \in Event /\ ~(e.quantity > 0)
    BY FillsAreEvents DEF Sold, LedgerEvent
  <2>2. events' = Appended(events, e)
    BY <1>5 DEF SellShares, Book
  <2> HIDE DEF e
  <2> QED
    BY <1>2, <2>1, <2>2
<1>6. ASSUME NEW contracts \in 1 .. 2, WriteOption(contracts) \/ CloseOption(contracts)
      PROVE  BasisInv'
  <2>1. PICK e \in Event : e.instrument = Option /\ events' = Appended(events, e)
    BY <1>6, FillsAreEvents DEF WriteOption, CloseOption, Book, Bought, Sold, LedgerEvent
  <2> QED
    BY <1>2, <1>3, <2>1
<1>7. CASE BookAgain
  <2>1. PICK e \in Fills : Book(e, e.instrument = Option)
    BY <1>7 DEF BookAgain
  <2>2. e.id \in Ids(events)
    BY DEF Fills, Ids
  <2> QED
    BY <1>1, <2>1, <2>2 DEF Book, Appended
<1>8. CASE AppendLeg
  <2>1. legs # <<>> /\ events' = Appended(events, Head(legs))
    BY <1>8 DEF AppendLeg
  <2>2. PICK p \in Assignments, c \in Contracts, n \in 0 .. 3 : LegsLeft(p, c, n)
    BY DEF LedgerInv
  <2>3. PICK m \in 0 .. 2 : legs = LegsAfter(p, c, m)
    BY <2>1, <2>2 DEF LegsLeft
  <2> DEFINE e == Leg(p, c, m + 1)
  <2>4. Head(legs) = e
    <3>1. m = 0 \/ m = 1 \/ m = 2
      OBVIOUS
    <3> QED
      BY <2>3, <3>1 DEF LegsAfter
  <2>5. m + 1 \in 1 .. 3 /\ e \in Event
    BY <1>0, LegIsEvent
  <2>6. e.id[1] # "fill"
    BY <2>5, LegIds DEF Assignments
  <2>7. e.instrument = Share => e.amount = 0
    <3>1. m = 0 \/ m = 1 \/ m = 2
      OBVIOUS
    <3>2. NoInstrument # Share
      BY AccountAssumption
    <3> QED
      BY <1>3, <3>1, <3>2, LegsAre DEF LedgerEvent
  <2> HIDE DEF e
  <2> QED
    BY <1>2, <2>1, <2>4, <2>5, <2>6, <2>7
<1>9. ASSUME \/ \E later \in Instants, price \in Spot : Tick(later, price)
             \/ \E contracts \in 1 .. 2 : BeginAssignment(contracts)
             \/ EvaluateExpiry \/ EvaluateDividend \/ EvaluateDeepItm
             \/ Interrupt \/ Recover \/ ReadBack \/ UNCHANGED vars
      PROVE  BasisInv'
  BY <1>1, <1>9 DEF Tick, BeginAssignment, EvaluateExpiry, EvaluateDividend, EvaluateDeepItm,
                    Instruct, Interrupt, Recover, ReadBack, vars
<1> QED
  BY <1>4, <1>5, <1>6, <1>7, <1>8, <1>9 DEF Next

(* The cost basis of the shares held stays between nothing and what was    *)
(* paid for shares, through partial sales, assignments and positions that  *)
(* are closed and opened again (accounting.py:81-88), for a caller that    *)
(* secures what he writes, and so never has less than no shares.           *)
THEOREM BasisStaysBounded ==
  ASSUME Secured, StartingCash >= 0, \A price \in Spot \cup {Strike} : Premium <= price
  PROVE  Spec => []BasisBounded
<1>0. CallerSecures
  BY DEF CallerSecures
<1>1. Init => BasisInv
  BY BasisInit
<1>2. AccountInv /\ LedgerInv /\ (AccountInv /\ LedgerInv)' /\ BasisInv /\ [Next]_vars => BasisInv'
  BY <1>0, BasisNextKeeps
<1>3. Spec => []BasisInv
  BY <1>1, <1>2, LedgerInvCorrect, PTL DEF Spec
<1>4. AccountInv /\ BasisInv => BasisBounded
  <2> SUFFICES ASSUME AccountInv, BasisInv PROVE BasisBounded
    OBVIOUS
  <2> DEFINE basis == Replay(events).position[Share].basis
  <2>1. events \in Seq(Event) /\ Share \in Instrument
    BY AccountAssumption DEF AccountInv
  <2>2. basis.num \in Int /\ basis.den \in Int
    BY <2>1, ReplayIsBalances DEF Balances, Held
  <2>3. basis.num >= 0 /\ basis.den >= 1 /\ basis.num <= Paid * basis.den
    BY DEF BasisInv
  <2>4. basis.num * basis.den >= 0
    <3> HIDE DEF basis
    <3> QED
      BY <2>2, <2>3
  <2> QED
    BY <2>3, <2>4 DEF BasisBounded
<1> QED
  BY <1>3, <1>4, LedgerInvCorrect, PTL
=============================================================================
