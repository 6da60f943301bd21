----------------------- MODULE PortfolioLedger_proofs -----------------------
(***************************************************************************)
(* What holds of the paper ledger for every set of instruments, terms,     *)
(* submissions, amounts, marks and rates, and ledgers of any length, from  *)
(* LedgerAssumption alone.                                                 *)
(*                                                                         *)
(* LedgerInv adds to the types that the ledger being written never has a   *)
(* lower peak than the attested one it continues, and no ledger a lower    *)
(* one than the cash it started with.                                      *)
(***************************************************************************)
EXTENDS PortfolioLedger, FiniteSums

(* The replays of ledgers *)
Replays ==
    [cash : Nat, peak : Nat, quantity : [Instrument -> Int],
     mark : [Instrument -> Nat \cup {Unmarked}], pending : SUBSET Submission,
     fx : [mid : Nat, at : Nat], valuedAt : Nat \cup {NotValued}, length : Nat]

Snapshots == [replay : Replays, nav : Nat, peak : Nat]

LedgerInv ==
    /\ working \in Replays
    /\ working.peak >= StartingCash
    /\ highest \in Nat
    /\ head # NoSnapshot =>
          /\ head \in Snapshots
          /\ working.peak >= head.replay.peak
          /\ head.replay.peak >= StartingCash

-----------------------------------------------------------------------------
(* The net asset value of a replay is an integer. *)
LEMMA NavIsInteger ==
  ASSUME NEW r, r.cash \in Int, r.quantity \in [Instrument -> Int],
         r.mark \in [Instrument -> Nat \cup {Unmarked}]
  PROVE  Nav(r) \in Int
<1> DEFINE g == [i \in Instrument |-> r.quantity[i] * terms[i].multiplier * MarkOf(r, i)]
<1>1. \A i \in Instrument :
         r.quantity[i] \in Int /\ terms[i].multiplier \in Int /\ MarkOf(r, i) \in Int
  BY LedgerAssumption DEF MarkOf, Unmarked
<1>2. g \in [Instrument -> Int]
  <2>1. \A i \in Instrument : r.quantity[i] * terms[i].multiplier * MarkOf(r, i) \in Int
    <3> TAKE i \in Instrument
    <3> DEFINE q == r.quantity[i]
               m == terms[i].multiplier
               p == MarkOf(r, i)
    <3>1. q \in Int /\ m \in Int /\ p \in Int
      BY <1>1
    <3> HIDE DEF q, m, p
    <3>2. q * m * p \in Int
      BY <3>1
    <3> QED
      BY <3>2 DEF q, m, p
  <2> QED
    BY <2>1
<1>3. SumFunction(g) \in Int
  <2> HIDE DEF g
  <2> QED
    BY <1>2, LedgerAssumption, TotalIsInteger
<1> QED
  BY <1>3 DEF Nav

LEMMA NavOfReplay == \A r \in Replays : Nav(r) \in Int
BY NavIsInteger DEF Replays

-----------------------------------------------------------------------------
(* The portfolio that the bootstrap attests is worth the starting cash. *)
LEMMA BootstrapNav == Nav(Initialized) = StartingCash
<1> DEFINE g == [i \in Instrument |->
                    Initialized.quantity[i] * terms[i].multiplier * MarkOf(Initialized, i)]
<1>1. \A i \in Instrument : terms[i].multiplier \in Int /\ MarkOf(Initialized, i) = 0
  BY LedgerAssumption DEF Initialized, MarkOf
<1>2. g \in [Instrument -> {0}]
  <2>1. \A m \in Int : 0 * m * 0 = 0
    OBVIOUS
  <2>2. \A i \in Instrument : Initialized.quantity[i] = 0
    BY DEF Initialized
  <2>3. \A i \in Instrument :
           Initialized.quantity[i] * terms[i].multiplier * MarkOf(Initialized, i) = 0
    BY <1>1, <2>1, <2>2
  <2> QED
    BY <2>3
<1>3. SumFunction(g) = 0
  <2> HIDE DEF g
  <2> QED
    BY <1>2, LedgerAssumption, TotalOfZeros
<1>4. Nav(Initialized) = Initialized.cash + 0
  BY <1>3 DEF Nav
<1> QED
  BY <1>4, LedgerAssumption DEF Initialized

LEMMA InitializedIsReplay == Initialized \in Replays
BY LedgerAssumption DEF Initialized, Replays, NoFx

LEMMA InitEstablishes == Init => LedgerInv
<1>1. Initialized.peak >= StartingCash
  BY LedgerAssumption DEF Initialized
<1> QED
  BY <1>1, InitializedIsReplay DEF Init, LedgerInv

(* A record leaves what is attested as it is, and adds one to the length. *)
LEMMA ExtendKeeps ==
  ASSUME LedgerInv, NEW r \in Replays, r.peak >= working.peak, Extend(r)
  PROVE  LedgerInv'
<1>1. working' \in Replays /\ working'.peak = r.peak
  BY DEF Extend, Replays
<1>2. head' = head /\ highest' = highest
  BY DEF Extend
<1>3. head # NoSnapshot => r.peak >= head.replay.peak
  BY DEF LedgerInv, Replays, Snapshots
<1>4. r.peak >= StartingCash
  BY LedgerAssumption DEF LedgerInv, Replays
<1>5. head # NoSnapshot => head \in Snapshots /\ head.replay.peak >= StartingCash
  BY DEF LedgerInv
<1>6. highest \in Nat
  BY DEF LedgerInv
<1> QED
  BY <1>1, <1>2, <1>3, <1>4, <1>5, <1>6 DEF LedgerInv

(* Every kind of record keeps the types and the peak, or raises it. *)
LEMMA RecordsKeep ==
  ASSUME LedgerInv
  PROVE  /\ \A amount \in CashDelta : RecordCash(amount) => LedgerInv'
         /\ \A i \in Instrument, delta \in {-1, 1} : RecordPosition(i, delta) => LedgerInv'
         /\ \A i \in Instrument, mark \in Mark : RecordMark(i, mark) => LedgerInv'
         /\ \A s \in Submission : RecordPending(s) => LedgerInv'
         /\ \A s \in Submission : RecordResolved(s) => LedgerInv'
         /\ \A at \in 0 .. MaxTime : RecordValuation(at) => LedgerInv'
         /\ \A mid \in Mid, at \in 0 .. MaxTime : RecordFx(mid, at) => LedgerInv'
<1>0. working \in Replays /\ working.peak >= working.peak
  BY DEF LedgerInv, Replays
<1>1. ASSUME NEW amount \in CashDelta, RecordCash(amount) PROVE LedgerInv'
  <2>1. working.cash + amount \in Nat
    BY <1>0, <1>1, LedgerAssumption DEF RecordCash, Replays
  <2>2. WithCash(working, amount) \in Replays /\ WithCash(working, amount).peak = working.peak
    BY <1>0, <2>1 DEF WithCash, Replays
  <2> QED
    BY <1>0, <1>1, <2>2, ExtendKeeps DEF RecordCash
<1>2. ASSUME NEW i \in Instrument, NEW delta \in {-1, 1}, RecordPosition(i, delta)
      PROVE  LedgerInv'
  <2>1. /\ WithPosition(working, i, delta) \in Replays
        /\ WithPosition(working, i, delta).peak = working.peak
    BY <1>0 DEF WithPosition, Replays
  <2> QED
    BY <1>0, <1>2, <2>1, ExtendKeeps DEF RecordPosition
<1>3. ASSUME NEW i \in Instrument, NEW mark \in Mark, RecordMark(i, mark) PROVE LedgerInv'
  <2>1. mark \in Nat
    BY LedgerAssumption
  <2>2. WithMark(working, i, mark) \in Replays /\ WithMark(working, i, mark).peak = working.peak
    BY <1>0, <2>1 DEF WithMark, Replays
  <2> QED
    BY <1>0, <1>3, <2>2, ExtendKeeps DEF RecordMark
<1>4. ASSUME NEW s \in Submission, RecordPending(s) PROVE LedgerInv'
  <2>1. WithPending(working, s) \in Replays /\ WithPending(working, s).peak = working.peak
    BY <1>0 DEF WithPending, Replays
  <2> QED
    BY <1>0, <1>4, <2>1, ExtendKeeps DEF RecordPending
<1>5. ASSUME NEW s \in Submission, RecordResolved(s) PROVE LedgerInv'
  <2>1. WithResolved(working, s) \in Replays /\ WithResolved(working, s).peak = working.peak
    BY <1>0 DEF WithResolved, Replays
  <2> QED
    BY <1>0, <1>5, <2>1, ExtendKeeps DEF RecordResolved
<1>6. ASSUME NEW at \in 0 .. MaxTime, RecordValuation(at) PROVE LedgerInv'
  <2>1. Nav(working) \in Int /\ at \in Nat
    BY <1>0, NavOfReplay, LedgerAssumption
  <2>2. /\ Larger(working.peak, Nav(working)) \in Nat
        /\ Larger(working.peak, Nav(working)) >= working.peak
    BY <1>0, <2>1 DEF Larger, Replays
  <2>3. /\ WithValuation(working, at) \in Replays
        /\ WithValuation(working, at).peak >= working.peak
    BY <1>0, <2>1, <2>2 DEF WithValuation, Replays
  <2> QED
    BY <1>6, <2>3, ExtendKeeps DEF RecordValuation
<1>7. ASSUME NEW mid \in Mid, NEW at \in 0 .. MaxTime, RecordFx(mid, at) PROVE LedgerInv'
  <2>1. mid \in Nat /\ at \in Nat
    BY LedgerAssumption
  <2>2. WithFx(working, mid, at) \in Replays /\ WithFx(working, mid, at).peak = working.peak
    BY <1>0, <2>1 DEF WithFx, Replays
  <2> QED
    BY <1>0, <1>7, <2>2, ExtendKeeps DEF RecordFx
<1> QED
  BY <1>1, <1>2, <1>3, <1>4, <1>5, <1>6, <1>7

(* Attesting a replay whose worth is natural. *)
LEMMA AttestKeeps ==
  ASSUME LedgerInv, NEW r \in Replays, Nav(r) \in Nat,
         working.peak >= r.peak, r.peak >= StartingCash,
         head' = Snapshot(r), highest' \in Nat, UNCHANGED working
  PROVE  LedgerInv'
<1>1. /\ head' \in Snapshots /\ head'.replay = r
  BY DEF Snapshot, Snapshots, Larger, Replays
<1>2. working' \in Replays /\ working'.peak >= StartingCash
  BY DEF LedgerInv
<1> QED
  BY <1>1, <1>2 DEF LedgerInv

LEMMA NextKeeps == LedgerInv /\ [Next]_vars => LedgerInv'
<1> SUFFICES ASSUME LedgerInv, [Next]_vars PROVE LedgerInv'
  OBVIOUS
<1>1. CASE SupplyOther
  <2>1. head.replay \in Replays /\ head # NoSnapshot
    BY <1>1 DEF SupplyOther, LedgerInv, Snapshots
  <2>2. head.replay.peak >= head.replay.peak
    BY <2>1 DEF Replays
  <2> QED
    BY <1>1, <2>1, <2>2 DEF SupplyOther, LedgerInv
<1>2. CASE Collect
  <2>1. /\ working \in Replays /\ Nav(working) \in Nat
        /\ working.peak >= StartingCash
    BY <1>2, NavOfReplay DEF Collect, Acceptable, LedgerInv
  <2>2. highest' \in Nat
    BY <1>2, <2>1 DEF Collect, Attest, LedgerInv, Larger
  <2>3. working.peak >= working.peak
    BY <2>1 DEF Replays
  <2> QED
    BY <1>2, <2>1, <2>2, <2>3, AttestKeeps DEF Collect, Attest
<1>3. CASE UNCHANGED vars
  BY <1>3 DEF vars, LedgerInv
<1>4. CASE Bootstrap
  <2>1. Initialized.peak = StartingCash /\ StartingCash \in Nat
    BY LedgerAssumption DEF Initialized
  <2>2. head' = Snapshot(Initialized) /\ working' = working /\ highest' = StartingCash
    BY <1>4 DEF Bootstrap
  <2>3. /\ working.peak >= Initialized.peak
        /\ Initialized.peak >= StartingCash
    BY <2>1 DEF LedgerInv
  <2> QED
    BY <2>1, <2>2, <2>3, BootstrapNav, InitializedIsReplay, AttestKeeps
<1> QED
  BY <1>1, <1>2, <1>3, <1>4, RecordsKeep DEF Next

-----------------------------------------------------------------------------
LEMMA InvCorrect == Spec => []LedgerInv
<1> QED
  BY InitEstablishes, NextKeeps, PTL DEF Spec

(* Cash stays natural through every order of cash records, the NAV of a    *)
(* snapshot through every order of fills and marks, and its peak with it   *)
(* (portfolio_collect, workflow.py:167-276).                               *)
THEOREM LedgerTypeCorrect == Spec => []TypeOK
<1>1. LedgerInv => TypeOK
  BY DEF LedgerInv, Replays, Snapshots, TypeOK, Replay
<1> QED
  BY <1>1, InvCorrect, PTL

(* No continuation of an attested ledger, by whatever records in whatever  *)
(* order, lowers the peak that is on record (workflow.py:229-234, 275).    *)
THEOREM RecordedPeakIsKept == Spec => RecordedPeakKept
<1>1. LedgerInv /\ [Next]_vars => [head # NoSnapshot => head'.replay.peak >= head.replay.peak]_vars
  <2> SUFFICES ASSUME LedgerInv, Next, head # NoSnapshot
               PROVE  head'.replay.peak >= head.replay.peak
    OBVIOUS
  <2>0. head.replay.peak \in Nat /\ working.peak >= head.replay.peak
    BY DEF LedgerInv, Snapshots, Replays
  <2>1. CASE Collect
    BY <2>0, <2>1 DEF Collect, Attest, Snapshot
  <2>2. CASE head' = head
    BY <2>0, <2>2
  <2>3. CASE Bootstrap
    BY <2>3 DEF Bootstrap
  <2> QED
    BY <2>1, <2>2, <2>3
    DEF Next, SupplyOther, Extend, RecordCash, RecordPosition, RecordMark, RecordPending,
        RecordResolved, RecordValuation, RecordFx
<1> QED
  BY <1>1, InvCorrect, PTL DEF Spec, RecordedPeakKept
=============================================================================
