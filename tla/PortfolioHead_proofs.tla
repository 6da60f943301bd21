------------------------ MODULE PortfolioHead_proofs ------------------------
(***************************************************************************)
(* The boundary for every set of threads, processes and artifacts, and     *)
(* every bound.                                                            *)
(*                                                                         *)
(* LedgerInv holds of any arrangement of threads and however late a row    *)
(* lands. That callers do not fork the chain rests on the lock for as long *)
(* as they are undisturbed (Chained), and otherwise on the recheck after   *)
(* the append, which a recovering call skips: without retries there is     *)
(* none (OneTry).                                                          *)
(***************************************************************************)
EXTENDS PortfolioHead, TLAPS

USE PortfolioHeadAssumption

(* Appending a portfolio row makes its artifact the latest (sheets.py:289). *)
LEMMA LatestOfPortfolioRow ==
    ASSUME NEW s \in Seq(Row), NEW r \in Row, r.kind = "portfolio_snapshot"
    PROVE  /\ PortfolioRows(Append(s, r)) = PortfolioRows(s) \cup {Len(s) + 1}
           /\ Latest(Append(s, r)) = r.artifact
           /\ IsLast(Len(s) + 1, Append(s, r))
<1> DEFINE t == Append(s, r)
<1>1. DOMAIN t = 1..(Len(s) + 1) /\ t[Len(s) + 1] = r /\ \A i \in 1..Len(s) : t[i] = s[i]
  OBVIOUS
<1>2. DOMAIN s = 1..Len(s) /\ Len(s) \in Nat
  OBVIOUS
<1> HIDE DEF t
<1>3. PortfolioRows(t) = PortfolioRows(s) \cup {Len(s) + 1}
  BY <1>1, <1>2 DEF PortfolioRows
<1>4. IsLast(Len(s) + 1, t)
  BY <1>2, <1>3 DEF IsLast, PortfolioRows
<1>5. \A i \in PortfolioRows(t) : IsLast(i, t) => i = Len(s) + 1
  <2>1. Len(s) + 1 \in PortfolioRows(t) /\ \A i \in PortfolioRows(t) : i <= Len(s) + 1
    BY <1>4 DEF IsLast
  <2>2. \A i \in PortfolioRows(t) : i \in Nat
    BY <1>1, <1>2 DEF PortfolioRows
  <2> QED  BY <1>2, <2>1, <2>2 DEF IsLast
<1>6. (CHOOSE i \in PortfolioRows(t) : IsLast(i, t)) = Len(s) + 1
  BY <1>3, <1>4, <1>5
<1>7. Latest(t) = r.artifact
  BY <1>1, <1>3, <1>6 DEF Latest
<1> QED  BY <1>3, <1>4, <1>7 DEF t

(* A row of another kind leaves the head where it is. *)
LEMMA LatestOfOtherRow ==
    ASSUME NEW s \in Seq(Row), NEW r \in Row, r.kind = "other",
           PortfolioRows(s) = {} \/ \E i \in DOMAIN s : IsLast(i, s)
    PROVE  /\ PortfolioRows(Append(s, r)) = PortfolioRows(s)
           /\ Latest(Append(s, r)) = Latest(s)
           /\ \A i \in DOMAIN s : IsLast(i, s) <=> IsLast(i, Append(s, r))
<1> DEFINE t == Append(s, r)
<1>1. DOMAIN t = 1..(Len(s) + 1) /\ t[Len(s) + 1] = r /\ \A i \in 1..Len(s) : t[i] = s[i]
  OBVIOUS
<1>2. DOMAIN s = 1..Len(s) /\ Len(s) \in Nat
  OBVIOUS
<1> HIDE DEF t
<1>3. PortfolioRows(t) = PortfolioRows(s)
  BY <1>1, <1>2 DEF PortfolioRows
<1>4. \A i : IsLast(i, s) <=> IsLast(i, t)
  BY <1>3 DEF IsLast
<1>5. Latest(t) = Latest(s)
  <2>1. CASE PortfolioRows(s) = {}
    BY <2>1, <1>3 DEF Latest
  <2>2. CASE PortfolioRows(s) # {}
    <3>1. PICK n \in PortfolioRows(s) : IsLast(n, s)
      BY <2>2 DEF IsLast
    <3>2. (CHOOSE i \in PortfolioRows(s) : IsLast(i, s)) = n
      <4>1. \A i \in PortfolioRows(s) : IsLast(i, s) => i = n
        BY <3>1, <1>2 DEF IsLast, PortfolioRows
      <4> QED  BY <3>1, <4>1
    <3>3. (CHOOSE i \in PortfolioRows(t) : IsLast(i, t)) = n
      <4>1. \A i \in PortfolioRows(t) : IsLast(i, t) => i = n
        BY <3>1, <1>2, <1>3, <1>4 DEF IsLast, PortfolioRows
      <4> QED  BY <3>1, <4>1, <1>3, <1>4
    <3>4. n \in 1..Len(s)
      BY <3>1, <1>2 DEF PortfolioRows
    <3>5. Latest(t) = t[n].artifact /\ Latest(s) = s[n].artifact
      BY <3>2, <3>3, <2>2, <1>3 DEF Latest
    <3> QED  BY <3>4, <3>5, <1>1
  <2> QED  BY <2>1, <2>2
<1> QED  BY <1>3, <1>4, <1>5 DEF t

(* The head of a tab with portfolio rows is the artifact of one of them. *)
LEMMA LatestIsHeld ==
    ASSUME NEW s \in Seq(Row), PortfolioRows(s) # {}, \E i \in DOMAIN s : IsLast(i, s)
    PROVE  Holding(s, Latest(s)) # {}
<1>1. PICK k \in PortfolioRows(s) : IsLast(k, s)
  BY DEF IsLast
<1>2. (CHOOSE i \in PortfolioRows(s) : IsLast(i, s)) \in PortfolioRows(s)
  BY <1>1
<1> DEFINE n == CHOOSE i \in PortfolioRows(s) : IsLast(i, s)
<1>3. Latest(s) = s[n].artifact
  BY DEF Latest
<1>4. n \in PortfolioRows(s)
  BY <1>2
<1> HIDE DEF n
<1> QED  BY <1>3, <1>4 DEF Holding

-----------------------------------------------------------------------------
(* A call that found or wrote its row is still a well-formed call. *)
LEMMA LocatedCall ==
    ASSUME NEW c \in Call, NEW i \in Nat, NEW t \in Nat
    PROVE  LET d == [c EXCEPT !.stage = "readback", !.location = i, !.rowAt = t] IN
           d \in Call /\ d.artifact = c.artifact
<1>1. ASSUME NEW s \in Stage
      PROVE  [c EXCEPT !.stage = s, !.location = i, !.rowAt = t] \in Call
  BY DEF Call
<1> QED  BY <1>1 DEF Stage, Call

(* A call that compared the head is still a well-formed call. *)
LEMMA ComparedCall ==
    ASSUME NEW c \in Call, NEW b \in BOOLEAN
    PROVE  LET d == [c EXCEPT !.stage = "scan", !.recovering = b] IN
           d \in Call /\ d.artifact = c.artifact
<1>1. ASSUME NEW s \in Stage
      PROVE  [c EXCEPT !.stage = s, !.recovering = b] \in Call
  BY DEF Call
<1> QED  BY <1>1 DEF Stage, Call

(* A call that moved on to another stage is still a well-formed call. *)
LEMMA StagedCall ==
    ASSUME NEW c \in Call, NEW s \in Stage
    PROVE  LET d == [c EXCEPT !.stage = s] IN d \in Call /\ d.artifact = c.artifact
BY DEF Call

(* Types are kept by every step. *)
LEMMA TypeOKInit == Init => TypeOK
<1> SUFFICES ASSUME Init PROVE TypeOK
  OBVIOUS
<1>1. rows \in Seq(Row) /\ givenUp \in Seq(SnapshotRow) /\ PortfolioRows(rows) = {}
  BY DEF Init, PortfolioRows
<1>2. call \in [Writer -> Call] /\ \A w \in Writer : call[w].stage = "idle"
  BY DEF Init, NoCall, Call, Stage
<1> QED  BY <1>1, <1>2 DEF Init, TypeOK

LEMMA TypeOKStep == TypeOK /\ [Next]_vars => TypeOK'
<1> SUFFICES ASSUME TypeOK, [Next]_vars PROVE TypeOK'
  OBVIOUS
<1> USE DEF TypeOK, flight
<1>idle. NoCall \in Call /\ NoCall.stage = "idle"
  BY DEF NoCall, Call, Stage
<1>rows. ASSUME NEW r \in Row, r.kind = "portfolio_snapshot" => r.artifact \in Artifact
         PROVE  /\ Append(rows, r) \in Seq(Row)
                /\ \A i \in PortfolioRows(Append(rows, r)) : Append(rows, r)[i].artifact \in Artifact
  BY <1>rows DEF PortfolioRows
<1>leave. ASSUME NEW w \in Writer, Leave(w)
          PROVE  /\ lock' \in [Process -> Writer \cup {NoWriter}]
                 /\ call' \in [Writer -> Call]
                 /\ \A v \in Writer : call'[v].stage # "idle" => call'[v].artifact \in Artifact
  BY <1>leave, <1>idle DEF Leave
<1>newrow. ASSUME NEW w \in Writer, call[w].stage # "idle"
           PROVE  NewRow(w) \in SnapshotRow /\ NewRow(w) \in Row /\ NewRow(w).artifact \in Artifact
  BY <1>newrow DEF NewRow, Row, SnapshotRow, Kind, Call
<1>giveup. ASSUME NEW w \in Writer, GiveUp(w)
           PROVE  givenUp' \in Seq(SnapshotRow) /\ landed' \subseteq DOMAIN givenUp'
  <2>1. NewRow(w) \in SnapshotRow /\ givenUp' = Append(givenUp, NewRow(w)) /\ landed' = landed
    BY <1>giveup, <1>newrow DEF GiveUp
  <2> QED  BY <2>1
<1>env. ASSUME NEW w \in Writer, call[w].stage # "idle"
        PROVE  EnvelopeOf(w) \in Envelope
  BY <1>env DEF EnvelopeOf, Envelope, Call
<1>update. ASSUME NEW w \in Writer, NEW c \in Call, call[w].stage # "idle",
                  c.artifact = call[w].artifact, call' = [call EXCEPT ![w] = c]
           PROVE  /\ call' \in [Writer -> Call]
                  /\ \A v \in Writer : call'[v].stage # "idle" => call'[v].artifact \in Artifact
  BY <1>update
<1>1. CASE Tick
  BY <1>1 DEF Tick
<1>2. CASE AppendOther
  <2>1. [kind |-> "other", artifact |-> NoArtifact, appendedAt |-> now] \in Row
    BY DEF Row, Kind
  <2> QED  BY <1>2, <2>1, <1>rows DEF AppendOther
<1>3. ASSUME NEW w \in Writer, NEW a \in Artifact, Submit(w, a) PROVE TypeOK'
  <2>1. [NoCall EXCEPT !.stage = "waiting", !.artifact = a, !.at = now] \in Call
    BY DEF NoCall, Call, Stage
  <2>2. call' \in [Writer -> Call]
    BY <1>3, <2>1 DEF Submit
  <2>3. \A v \in Writer : call'[v].stage # "idle" => call'[v].artifact \in Artifact
    BY <1>3 DEF Submit, NoCall
  <2>4. tries' \in [Artifact -> Nat]
    BY <1>3 DEF Submit
  <2> QED  BY <1>3, <2>2, <2>3, <2>4 DEF Submit
<1>4. ASSUME NEW w \in Writer, Step(w) PROVE TypeOK'
  <2>1. CASE Acquire(w)
    <3>1. crossed' \in BOOLEAN
      BY <2>1 DEF Acquire
    <3> DEFINE c == [call[w] EXCEPT !.stage = "head"]
    <3>2. c \in Call /\ c.artifact = call[w].artifact
      BY StagedCall DEF Stage
    <3>3. call' = [call EXCEPT ![w] = c] /\ call[w].stage # "idle"
      BY <2>1 DEF Acquire
    <3> HIDE DEF c
    <3>4. /\ call' \in [Writer -> Call]
          /\ \A v \in Writer : call'[v].stage # "idle" => call'[v].artifact \in Artifact
      BY <1>update, <3>2, <3>3
    <3> QED  BY <2>1, <3>1, <3>4 DEF Acquire
  <2>2. CASE ReadHead(w)
    <3> DEFINE c == [call[w] EXCEPT !.stage = "scan",
                                    !.recovering = (Latest(rows) = call[w].artifact)]
    <3>1. c \in Call /\ c.artifact = call[w].artifact
      <4>1. (Latest(rows) = call[w].artifact) \in BOOLEAN
        OBVIOUS
      <4> QED  BY <4>1, ComparedCall
    <3>2. call' = [call EXCEPT ![w] = c] /\ call[w].stage # "idle"
      BY <2>2 DEF ReadHead
    <3> HIDE DEF c
    <3>3. /\ call' \in [Writer -> Call]
          /\ \A v \in Writer : call'[v].stage # "idle" => call'[v].artifact \in Artifact
      BY <1>update, <3>1, <3>2
    <3> QED  BY <2>2, <3>3 DEF ReadHead
  <2>3. CASE Stale(w)
    BY <2>3, <1>leave DEF Stale
  <2>4. CASE ScanFound(w)
    <3>1. PICK i \in Holding(rows, call[w].artifact) :
            call' = [call EXCEPT ![w] = [@ EXCEPT
                !.stage = "readback", !.location = i, !.rowAt = rows[i].appendedAt]]
      BY <2>4 DEF ScanFound
    <3>2. i \in Nat /\ rows[i].appendedAt \in Nat
      <4>1. i \in DOMAIN rows /\ DOMAIN rows = 1..Len(rows)
        BY DEF Holding, PortfolioRows
      <4>2. rows[i] \in Row
        BY <4>1
      <4> QED  BY <4>1, <4>2 DEF Row
    <3> DEFINE c == [call[w] EXCEPT !.stage = "readback", !.location = i,
                                    !.rowAt = rows[i].appendedAt]
    <3>3. c \in Call /\ c.artifact = call[w].artifact
      <4>1. call[w] \in Call
        OBVIOUS
      <4> HIDE DEF TypeOK
      <4> QED  BY <3>2, <4>1, LocatedCall
    <3>4. call' = [call EXCEPT ![w] = c] /\ call[w].stage # "idle"
      BY <2>4, <3>1 DEF ScanFound
    <3> HIDE DEF c
    <3>5. /\ call' \in [Writer -> Call]
          /\ \A v \in Writer : call'[v].stage # "idle" => call'[v].artifact \in Artifact
      BY <1>update, <3>3, <3>4
    <3> QED  BY <2>4, <3>5 DEF ScanFound
  <2>5. CASE ScanAbsent(w)
    <3> DEFINE c == [call[w] EXCEPT !.stage = "post"]
    <3>1. c \in Call /\ c.artifact = call[w].artifact
      BY StagedCall DEF Stage
    <3>2. call' = [call EXCEPT ![w] = c] /\ call[w].stage # "idle"
      BY <2>5 DEF ScanAbsent
    <3> HIDE DEF c
    <3>3. /\ call' \in [Writer -> Call]
          /\ \A v \in Writer : call'[v].stage # "idle" => call'[v].artifact \in Artifact
      BY <1>update, <3>1, <3>2
    <3> QED  BY <2>5, <3>3 DEF ScanAbsent
  <2>6. CASE Post(w)
    <3>1. /\ rows' \in Seq(Row)
          /\ \A i \in PortfolioRows(rows') : rows'[i].artifact \in Artifact
      BY <2>6, <1>rows, <1>newrow DEF Post
    <3> DEFINE c == [call[w] EXCEPT !.stage = "readback", !.location = Len(rows) + 1,
                                    !.rowAt = call[w].at]
    <3>2. c \in Call /\ c.artifact = call[w].artifact
      <4>1. call[w] \in Call /\ call[w].at \in Nat /\ Len(rows) + 1 \in Nat
        BY DEF Call
      <4> HIDE DEF TypeOK
      <4> QED  BY <4>1, LocatedCall
    <3>3. call' = [call EXCEPT ![w] = c] /\ call[w].stage # "idle"
      BY <2>6 DEF Post
    <3> HIDE DEF c
    <3>4. /\ call' \in [Writer -> Call]
          /\ \A v \in Writer : call'[v].stage # "idle" => call'[v].artifact \in Artifact
      BY <1>update, <3>2, <3>3
    <3> QED  BY <2>6, <3>1, <3>4 DEF Post
  <2>7. CASE PostUnanswered(w)
    BY <2>7, <1>leave, <1>rows, <1>newrow DEF PostUnanswered
  <2>8. CASE Recover(w)
    BY <2>8, <1>leave, <1>env DEF Recover
  <2>9. CASE ReadBack(w)
    <3> DEFINE c == [call[w] EXCEPT !.stage = "recheck"]
    <3>1. c \in Call /\ c.artifact = call[w].artifact
      BY StagedCall DEF Stage
    <3>2. call' = [call EXCEPT ![w] = c] /\ call[w].stage # "idle"
      BY <2>9 DEF ReadBack
    <3> HIDE DEF c
    <3>3. /\ call' \in [Writer -> Call]
          /\ \A v \in Writer : call'[v].stage # "idle" => call'[v].artifact \in Artifact
      BY <1>update, <3>1, <3>2
    <3> QED  BY <2>9, <3>3 DEF ReadBack
  <2>10. CASE ReadBackInvalid(w)
    BY <2>10, <1>leave DEF ReadBackInvalid
  <2>11. CASE Recheck(w)
    BY <2>11, <1>leave, <1>env DEF Recheck
  <2>12. CASE Competing(w)
    BY <2>12, <1>leave DEF Competing
  <2>13. CASE ServiceFails(w)
    BY <2>13, <1>leave DEF ServiceFails
  <2>14. CASE PostTimesOut(w)
    BY <2>14, <1>leave, <1>giveup DEF PostTimesOut
  <2> QED  BY <1>4, <2>1, <2>2, <2>3, <2>4, <2>5, <2>6, <2>7, <2>8, <2>9, <2>10, <2>11,
              <2>12, <2>13, <2>14 DEF Step
<1>5. ASSUME NEW p \in Process, Crash(p) PROVE TypeOK'
  <2>1. givenUp' \in Seq(SnapshotRow) /\ landed' \subseteq DOMAIN givenUp'
    BY <1>5, <1>giveup DEF Crash
  <2> QED  BY <1>5, <2>1, <1>idle DEF Crash
<1>6. ASSUME NEW k \in DOMAIN givenUp, Land(k) PROVE TypeOK'
  <2>1. givenUp[k] \in Row /\ givenUp[k].artifact \in Artifact
    <3>1. givenUp[k] \in SnapshotRow
      OBVIOUS
    <3> QED  BY <3>1 DEF SnapshotRow, Row, Kind
  <2>2. /\ rows' \in Seq(Row)
        /\ \A i \in PortfolioRows(rows') : rows'[i].artifact \in Artifact
    BY <1>6, <2>1, <1>rows DEF Land
  <2>3. landed' \subseteq DOMAIN givenUp'
    BY <1>6 DEF Land
  <2> QED  BY <1>6, <2>2, <2>3 DEF Land
<1>7. CASE UNCHANGED vars
  BY <1>7 DEF vars
<1> QED  BY <1>1, <1>2, <1>3, <1>4, <1>5, <1>6, <1>7 DEF Next

(* Type correctness, for every instance. *)
THEOREM TypeCorrect == Spec => []TypeOK
BY TypeOKInit, TypeOKStep, PTL DEF Spec
-----------------------------------------------------------------------------
(* What holds whoever shares a lock, and however late a row lands. *)

(* a's anchor has a row that is no younger than t *)
Anchored(a, t) ==
    anchorOf[a] = NoArtifact
    \/ \E j \in Holding(rows, anchorOf[a]) : rows[j].appendedAt <= t

AnchorKnown(w) == Anchored(call[w].artifact, call[w].at)

LateAnchored ==
    \A k \in DOMAIN givenUp : Anchored(givenUp[k].artifact, givenUp[k].appendedAt)

Timely ==
    /\ \A e \in envelopes : e.readBackAt <= now
    /\ \A w \in Writer : call[w].stage # "idle" => call[w].at <= now /\ AnchorKnown(w)
    /\ LateAnchored

Rechecked == \A w \in Writer : call[w].stage = "recheck" => ReadBackExact(w)

LedgerInv == TypeOK /\ EnvelopeExact /\ AnchorPrecedes /\ Timely /\ Rechecked

RowsKept == \A i \in DOMAIN rows : i \in DOMAIN rows' /\ rows'[i] = rows[i]

(* A step of a call adds at most the caller's row, publishes at most an    *)
(* envelope that was just read back, and touches only its own call.        *)
LEMMA StepEffect ==
    ASSUME LedgerInv, NEW w \in Writer, Step(w)
    PROVE  /\ call[w].stage # "idle"
           /\ UNCHANGED <<now, tries>>
           /\ \/ rows' = rows
              \/ call[w].stage = "post" /\ rows' = Append(rows, NewRow(w)) /\ givenUp' = givenUp
           /\ landed' = landed /\ (givenUp' = givenUp \/ GiveUp(w))
           /\ (crossed => crossed') /\ (crossed' = crossed \/ Acquire(w))
           /\ \/ envelopes' = envelopes
              \/ /\ ReadBackExact(w) /\ rows' = rows /\ envelopes' = envelopes \cup {EnvelopeOf(w)}
                 /\ call[w].stage \in {"readback", "recheck"}
           /\ \A v \in Writer : v # w => call'[v] = call[v]
           /\ \/ call'[w] = NoCall
              \/ /\ call'[w].stage # "idle"
                 /\ call'[w].artifact = call[w].artifact
                 /\ call'[w].at = call[w].at
                 /\ call'[w].stage = "recheck" => /\ ReadBackExact(w) /\ rows' = rows
                                                 /\ call'[w].location = call[w].location
                                                 /\ call'[w].rowAt = call[w].rowAt
<1> USE DEF LedgerInv, TypeOK, flight
<1>1. CASE Acquire(w)
  BY <1>1 DEF Acquire, Call
<1>2. CASE ReadHead(w)
  BY <1>2 DEF ReadHead, Call
<1>3. CASE Stale(w)
  BY <1>3 DEF Stale, Leave
<1>4. CASE ScanFound(w)
  BY <1>4 DEF ScanFound, Call
<1>5. CASE ScanAbsent(w)
  BY <1>5 DEF ScanAbsent, Call
<1>6. CASE Post(w)
  BY <1>6 DEF Post, Call
<1>7. CASE PostUnanswered(w)
  BY <1>7 DEF PostUnanswered, Leave
<1>8. CASE Recover(w)
  BY <1>8 DEF Recover, Leave
<1>9. CASE ReadBack(w)
  BY <1>9 DEF ReadBack, Call
<1>10. CASE ReadBackInvalid(w)
  BY <1>10 DEF ReadBackInvalid, Leave
<1>11. CASE Recheck(w)
  BY <1>11 DEF Recheck, Leave, Rechecked
<1>12. CASE Competing(w)
  BY <1>12 DEF Competing, Leave
<1>13. CASE ServiceFails(w)
  BY <1>13 DEF ServiceFails, Leave, Critical
<1>14. CASE PostTimesOut(w)
  BY <1>14 DEF PostTimesOut, GiveUp, Leave
<1> QED  BY <1>1, <1>2, <1>3, <1>4, <1>5, <1>6, <1>7, <1>8, <1>9, <1>10, <1>11, <1>12, <1>13,
            <1>14 DEF Step

(* Rows already in the tab stay where they are. *)
LEMMA RowsKeptStep == LedgerInv /\ [Next]_vars => RowsKept
<1> SUFFICES ASSUME LedgerInv, [Next]_vars PROVE RowsKept
  OBVIOUS
<1> USE DEF LedgerInv, TypeOK
<1>1. ASSUME NEW r, rows' = Append(rows, r) PROVE RowsKept
  BY <1>1 DEF RowsKept
<1>2. CASE rows' = rows
  BY <1>2 DEF RowsKept
<1>3. CASE AppendOther
  BY <1>1, <1>3 DEF AppendOther
<1>4. ASSUME NEW w \in Writer, Step(w) PROVE RowsKept
  BY <1>1, <1>2, <1>4, StepEffect
<1>5. CASE Tick \/ (\E w \in Writer, a \in Artifact : Submit(w, a)) \/ (\E p \in Process : Crash(p))
           \/ UNCHANGED vars
  BY <1>5, <1>2 DEF Tick, Submit, Crash, vars
<1>6. ASSUME NEW k \in DOMAIN givenUp, Land(k) PROVE RowsKept
  BY <1>1, <1>6 DEF Land
<1> QED  BY <1>3, <1>4, <1>5, <1>6 DEF Next

(* What was read back is still there after any step that keeps rows. *)
LEMMA HoldingKept ==
    ASSUME RowsKept, NEW a, NEW j \in Holding(rows, a)
    PROVE  j \in Holding(rows', a) /\ rows'[j] = rows[j]
BY DEF RowsKept, Holding, PortfolioRows

LEMMA AnchoredKept ==
    ASSUME RowsKept, NEW a, NEW t, Anchored(a, t)
    PROVE  anchorOf[a] = NoArtifact
           \/ \E j \in Holding(rows', anchorOf[a]) : rows'[j].appendedAt <= t
BY HoldingKept DEF Anchored

(* A request that is left under way has the anchor that its call had. *)
LEMMA GiveUpAnchored ==
    ASSUME TypeOK, RowsKept, LateAnchored, NEW w \in Writer, GiveUp(w), AnchorKnown(w)
    PROVE  LateAnchored'
<1>1. givenUp' = Append(givenUp, NewRow(w)) /\ givenUp \in Seq(SnapshotRow)
  BY DEF GiveUp, TypeOK
<1>2. Anchored(NewRow(w).artifact, NewRow(w).appendedAt)
  BY DEF AnchorKnown, NewRow
<1>3. ASSUME NEW k \in DOMAIN givenUp'
      PROVE  LET r == givenUp'[k] IN
             anchorOf[r.artifact] = NoArtifact
             \/ \E j \in Holding(rows', anchorOf[r.artifact]) : rows'[j].appendedAt <= r.appendedAt
  <2>1. Anchored(givenUp'[k].artifact, givenUp'[k].appendedAt)
    BY <1>1, <1>2, <1>3 DEF LateAnchored
  <2> QED  BY <2>1, AnchoredKept
<1> QED  BY <1>3 DEF LateAnchored, Anchored

(* A row of an anchored snapshot comes after its anchor, whoever appends it. *)
LEMMA AnchoredRow ==
    ASSUME TypeOK, RowsKept, AnchorPrecedes, NEW r \in SnapshotRow,
           rows' = Append(rows, r), Anchored(r.artifact, r.appendedAt)
    PROVE  AnchorPrecedes'
<1>types. rows \in Seq(Row) /\ r \in Row /\ r.kind = "portfolio_snapshot"
  BY DEF TypeOK, SnapshotRow, Row, Kind
<1>1. PortfolioRows(rows') = PortfolioRows(rows) \cup {Len(rows) + 1}
  BY <1>types, LatestOfPortfolioRow
<1>2. rows'[Len(rows) + 1] = r
  BY <1>types
<1>3. ASSUME NEW i \in PortfolioRows(rows)
      PROVE  rows'[i] = rows[i] /\ i \in 1..Len(rows)
  BY <1>types DEF RowsKept, PortfolioRows
<1>4. ASSUME NEW i \in PortfolioRows(rows), anchorOf[rows[i].artifact] # NoArtifact
      PROVE  \E j \in Holding(rows', anchorOf[rows'[i].artifact]) :
                j < i /\ rows'[j].appendedAt <= rows'[i].appendedAt
  <2>1. PICK j \in Holding(rows, anchorOf[rows[i].artifact]) :
          j < i /\ rows[j].appendedAt <= rows[i].appendedAt
    BY <1>4 DEF AnchorPrecedes
  <2> QED  BY <2>1, <1>3, HoldingKept
<1>5. ASSUME anchorOf[r.artifact] # NoArtifact
      PROVE  \E j \in Holding(rows', anchorOf[r.artifact]) :
                j < Len(rows) + 1 /\ rows'[j].appendedAt <= r.appendedAt
  <2>1. PICK j \in Holding(rows, anchorOf[r.artifact]) : rows[j].appendedAt <= r.appendedAt
    BY <1>5 DEF Anchored
  <2>2. j \in 1..Len(rows)
    BY <1>types DEF Holding, PortfolioRows
  <2> QED  BY <2>1, <2>2, HoldingKept, <1>types
<1> QED  BY <1>1, <1>2, <1>3, <1>4, <1>5 DEF AnchorPrecedes

LEMMA LedgerInvInit == Init => LedgerInv
<1> SUFFICES ASSUME Init PROVE LedgerInv
  OBVIOUS
<1>1. TypeOK
  BY TypeOKInit
<1>2. PortfolioRows(rows) = {}
  BY DEF Init, PortfolioRows
<1> QED  BY <1>1, <1>2 DEF Init, LedgerInv, EnvelopeExact, AnchorPrecedes, Timely, Rechecked,
             NoCall, LateAnchored

LEMMA LedgerInvStep == LedgerInv /\ [Next]_vars => LedgerInv'
<1> SUFFICES ASSUME LedgerInv, [Next]_vars PROVE LedgerInv'
  OBVIOUS
<1> USE DEF LedgerInv
<1>kept. RowsKept
  BY RowsKeptStep
<1>type. TypeOK'
  BY TypeOKStep
<1>types. /\ now \in Nat /\ rows \in Seq(Row) /\ envelopes \subseteq Envelope /\ call \in [Writer -> Call]
          /\ \A w \in Writer : call[w].stage # "idle" => call[w].artifact \in Artifact
  BY DEF TypeOK
<1>same. ASSUME rows' = rows PROVE AnchorPrecedes'
  BY <1>same DEF AnchorPrecedes, Holding, PortfolioRows
<1>envs. ASSUME envelopes' = envelopes PROVE EnvelopeExact'
  BY <1>envs, <1>kept DEF EnvelopeExact, RowsKept
<1>known. ASSUME NEW w \in Writer, AnchorKnown(w), call'[w].artifact = call[w].artifact,
                 call'[w].at = call[w].at
          PROVE  AnchorKnown(w)'
  BY <1>known, <1>kept, AnchoredKept DEF AnchorKnown, Anchored
<1>late. ASSUME givenUp' = givenUp PROVE LateAnchored'
  BY <1>late, <1>kept, AnchoredKept DEF LateAnchored, Timely, Anchored
<1>giveup. ASSUME NEW w \in Writer, GiveUp(w) PROVE LateAnchored'
  <2>1. AnchorKnown(w)
    BY <1>giveup DEF GiveUp, Timely
  <2> QED  BY <1>giveup, <2>1, <1>kept, GiveUpAnchored DEF Timely
<1>rechecked. ASSUME NEW w \in Writer, ReadBackExact(w), call'[w].artifact = call[w].artifact,
                     call'[w].location = call[w].location, call'[w].rowAt = call[w].rowAt,
                     call'[w].at = call[w].at
              PROVE  ReadBackExact(w)'
  BY <1>rechecked, <1>kept DEF ReadBackExact, RowsKept
<1>1. CASE Tick
  <2>1. now <= now' /\ \A t \in Nat : t <= now => t <= now'
    BY <1>1, <1>types DEF Tick
  <2>2. UNCHANGED <<rows, envelopes, call, givenUp>>
    BY <1>1 DEF Tick, flight
  <2>3. Timely'
    <3>1. \A e \in envelopes : e.readBackAt \in Nat
      BY <1>types DEF Envelope
    <3>2. \A w \in Writer : call[w].at \in Nat
      BY <1>types DEF Call
    <3> QED  BY <2>1, <2>2, <3>1, <3>2, <1>known, <1>late DEF Timely
  <2> QED  BY <2>2, <2>3, <1>type, <1>same, <1>envs, <1>rechecked DEF Rechecked
<1>2. CASE AppendOther
  <2>1. UNCHANGED <<now, envelopes, call, givenUp>>
    BY <1>2 DEF AppendOther, flight
  <2>2. PortfolioRows(rows') = PortfolioRows(rows)
    BY <1>2, <1>types DEF AppendOther, PortfolioRows
  <2>3. \A i \in PortfolioRows(rows) : rows'[i] = rows[i]
    BY <1>kept DEF RowsKept, PortfolioRows
  <2>4. AnchorPrecedes'
    BY <2>2, <2>3 DEF AnchorPrecedes, Holding
  <2>5. Timely'
    BY <2>1, <1>known, <1>late DEF Timely
  <2> QED  BY <2>1, <2>4, <2>5, <1>type, <1>envs, <1>rechecked DEF Rechecked
<1>3. ASSUME NEW w \in Writer, NEW a \in Artifact, Submit(w, a) PROVE LedgerInv'
  <2>1. /\ UNCHANGED <<now, rows, envelopes, givenUp>>
        /\ \A v \in Writer : v # w => call'[v] = call[v]
    BY <1>3 DEF Submit, flight
  <2>2. call'[w].stage = "waiting" /\ call'[w].artifact = a /\ call'[w].at = now
    BY <1>3, <1>types DEF Submit, NoCall
  <2>3. AnchorKnown(w)'
    <3>1. CASE anchorOf[a] = NoArtifact
      BY <3>1, <2>2 DEF AnchorKnown, Anchored
    <3>2. CASE anchorOf[a] # NoArtifact
      <4>1. PICK e \in envelopes : e.artifact = anchorOf[a]
        BY <1>3, <3>2 DEF Submit, Attested
      <4>2. /\ e.location \in Holding(rows, anchorOf[a])
            /\ rows[e.location].appendedAt = e.appendedAt
            /\ e.readBackAt >= e.appendedAt /\ e.readBackAt <= now
        <5>1. /\ e.location \in DOMAIN rows
              /\ rows[e.location] = [kind |-> "portfolio_snapshot", artifact |-> e.artifact,
                                     appendedAt |-> e.appendedAt]
              /\ e.readBackAt >= e.appendedAt /\ e.readBackAt <= now
          BY DEF EnvelopeExact, Timely
        <5> QED  BY <4>1, <5>1 DEF Holding, PortfolioRows
      <4>3. e.appendedAt \in Nat /\ e.readBackAt \in Nat
        BY <1>types DEF Envelope
      <4>4. rows[e.location].appendedAt <= now
        BY <4>2, <4>3, <1>types
      <4> QED  BY <4>2, <4>4, <2>1, <2>2 DEF AnchorKnown, Anchored
    <3> QED  BY <3>1, <3>2
  <2>4. Timely'
    <3>1. ASSUME NEW v \in Writer, v # w, call'[v].stage # "idle"
          PROVE  call'[v].at <= now' /\ AnchorKnown(v)'
      BY <3>1, <2>1, <1>known DEF Timely
    <3>2. call'[w].at <= now'
      BY <2>1, <2>2, <1>types
    <3> QED  BY <2>1, <2>3, <3>1, <3>2, <1>late DEF Timely
  <2>5. Rechecked'
    BY <2>1, <2>2, <1>rechecked DEF Rechecked
  <2> QED  BY <2>1, <2>4, <2>5, <1>type, <1>same, <1>envs
<1>4. ASSUME NEW w \in Writer, Step(w) PROVE LedgerInv'
  <2> USE <1>4
  <2>1. AnchorPrecedes'
    <3>1. CASE rows' = rows
      BY <3>1, <1>same
    <3>2. CASE rows' = Append(rows, NewRow(w))
      <4>1. call[w].stage # "idle" /\ NewRow(w) \in SnapshotRow
        BY StepEffect, <1>types DEF NewRow, SnapshotRow, Call
      <4>2. Anchored(NewRow(w).artifact, NewRow(w).appendedAt)
        BY <4>1 DEF Timely, AnchorKnown, NewRow
      <4> QED  BY <3>2, <4>1, <4>2, <1>kept, AnchoredRow
    <3> QED  BY <3>1, <3>2, StepEffect
  <2>2. EnvelopeExact'
    <3>1. CASE envelopes' = envelopes
      BY <3>1, <1>envs
    <3>2. CASE ReadBackExact(w) /\ rows' = rows /\ envelopes' = envelopes \cup {EnvelopeOf(w)}
      <4>1. ASSUME NEW e \in envelopes'
            PROVE  /\ e.location \in DOMAIN rows /\ e.readBackAt >= e.appendedAt
                   /\ rows[e.location] = [kind |-> "portfolio_snapshot", artifact |-> e.artifact,
                                          appendedAt |-> e.appendedAt]
        <5>1. CASE e \in envelopes
          BY <5>1 DEF EnvelopeExact
        <5>2. CASE e = EnvelopeOf(w)
          <6>1. /\ e.location = call[w].location /\ e.artifact = call[w].artifact
                /\ e.appendedAt = call[w].rowAt /\ e.readBackAt = call[w].at
            BY <5>2 DEF EnvelopeOf
          <6> QED  BY <6>1, <3>2 DEF ReadBackExact
        <5> QED  BY <3>2, <5>1, <5>2
      <4> QED  BY <4>1, <3>2 DEF EnvelopeExact
    <3> QED  BY <3>1, <3>2, StepEffect
  <2>3. Timely'
    <3>1. now' = now /\ call[w].stage # "idle"
      BY StepEffect
    <3>2. ASSUME NEW e \in envelopes' PROVE e.readBackAt <= now'
      BY <3>1, <3>2, StepEffect DEF Timely, EnvelopeOf
    <3>3. ASSUME NEW v \in Writer, call'[v].stage # "idle"
          PROVE  call'[v].at <= now' /\ AnchorKnown(v)'
      <4>1. call[v].stage # "idle" /\ call'[v].artifact = call[v].artifact /\ call'[v].at = call[v].at
        BY <3>1, <3>3, StepEffect DEF NoCall
      <4> QED  BY <3>1, <4>1, <1>known DEF Timely
    <3>4. LateAnchored'
      BY StepEffect, <1>late, <1>giveup
    <3> QED  BY <3>2, <3>3, <3>4 DEF Timely
  <2>4. Rechecked'
    <3>1. ASSUME NEW v \in Writer, v # w, call'[v].stage = "recheck" PROVE ReadBackExact(v)'
      BY <3>1, StepEffect, <1>rechecked DEF Rechecked
    <3>2. ASSUME call'[w].stage = "recheck" PROVE ReadBackExact(w)'
      BY <3>2, StepEffect, <1>rechecked DEF NoCall
    <3> QED  BY <3>1, <3>2 DEF Rechecked
  <2> QED  BY <2>1, <2>2, <2>3, <2>4, <1>type
<1>5. ASSUME NEW p \in Process, Crash(p) PROVE LedgerInv'
  <2>1. UNCHANGED <<now, rows, envelopes>>
    BY <1>5 DEF Crash
  <2>2. \A v \in Writer : call'[v] = NoCall \/ call'[v] = call[v]
    BY <1>5 DEF Crash
  <2>3. Timely'
    <3>1. LateAnchored'
      BY <1>5, <1>late, <1>giveup DEF Crash, flight
    <3> QED  BY <2>1, <2>2, <3>1, <1>known DEF Timely, NoCall
  <2>4. Rechecked'
    BY <2>1, <2>2, <1>rechecked DEF Rechecked, NoCall
  <2> QED  BY <2>1, <2>3, <2>4, <1>type, <1>same, <1>envs
<1>6. ASSUME NEW k \in DOMAIN givenUp, Land(k) PROVE LedgerInv'
  <2>1. UNCHANGED <<now, envelopes, call, givenUp>> /\ rows' = Append(rows, givenUp[k])
    BY <1>6 DEF Land
  <2>2. givenUp[k] \in SnapshotRow
    BY DEF TypeOK
  <2>3. Anchored(givenUp[k].artifact, givenUp[k].appendedAt)
    BY DEF Timely, LateAnchored
  <2>4. AnchorPrecedes'
    BY <2>1, <2>2, <2>3, <1>kept, AnchoredRow
  <2>5. Timely' /\ Rechecked'
    BY <2>1, <1>known, <1>late, <1>rechecked DEF Timely, Rechecked
  <2> QED  BY <2>1, <2>4, <2>5, <1>type, <1>envs
<1>7. CASE UNCHANGED vars
  <2>1. UNCHANGED <<now, rows, envelopes, call, givenUp>>
    BY <1>7 DEF vars, flight
  <2>2. Timely' /\ Rechecked'
    BY <2>1, <1>known, <1>late, <1>rechecked DEF Timely, Rechecked
  <2> QED  BY <2>1, <2>2, <1>type, <1>same, <1>envs
<1> QED  BY <1>1, <1>2, <1>3, <1>4, <1>5, <1>6, <1>7 DEF Next

LEMMA LedgerInvariant == Spec => []LedgerInv
BY LedgerInvInit, LedgerInvStep, PTL DEF Spec

(* Every envelope keeps attesting the row at its immutable location, in    *)
(* any arrangement of threads and processes.                               *)
THEOREM EnvelopesExact == Spec => []EnvelopeExact
<1>1. LedgerInv => EnvelopeExact
  BY DEF LedgerInv
<1> QED  BY <1>1, LedgerInvariant, PTL

(* Every portfolio row follows its anchor's row in order and in time, in   *)
(* any arrangement of threads and processes.                               *)
THEOREM AnchorsPrecede == Spec => []AnchorPrecedes
<1>1. LedgerInv => AnchorPrecedes
  BY DEF LedgerInv
<1> QED  BY <1>1, LedgerInvariant, PTL
-----------------------------------------------------------------------------
(* What the locks add. *)

(* A call comes to be inside only by its lock. *)
LEMMA Entering ==
    ASSUME LedgerInv, NEW w \in Writer, Step(w)
    PROVE  /\ call'[w].stage \in Critical => Acquire(w) \/ (call[w].stage \in Critical /\ lock' = lock)
           /\ Acquire(w) \/ (lock' = lock /\ call'[w].stage \in Critical /\ call[w].stage \in Critical)
              \/ (Leave(w) /\ call[w].stage \in Critical)
<1>types. call \in [Writer -> Call]
  BY DEF LedgerInv, TypeOK
<1>idle. NoCall.stage \notin Critical
  BY DEF NoCall, Critical
<1>leave. Leave(w) => call'[w].stage \notin Critical
  BY <1>types, <1>idle DEF Leave
<1> USE DEF Critical
<1>1. CASE Acquire(w)
  BY <1>1
<1>2. CASE ReadHead(w)
  BY <1>2, <1>types DEF ReadHead, Call
<1>3. CASE Stale(w)
  BY <1>3, <1>leave DEF Stale
<1>4. CASE ScanFound(w)
  BY <1>4, <1>types DEF ScanFound, Call
<1>5. CASE ScanAbsent(w)
  BY <1>5, <1>types DEF ScanAbsent, Call
<1>6. CASE Post(w)
  BY <1>6, <1>types DEF Post, Call
<1>7. CASE PostUnanswered(w)
  BY <1>7, <1>leave DEF PostUnanswered
<1>8. CASE Recover(w)
  BY <1>8, <1>leave DEF Recover
<1>9. CASE ReadBack(w)
  BY <1>9, <1>types DEF ReadBack, Call
<1>10. CASE ReadBackInvalid(w)
  BY <1>10, <1>leave DEF ReadBackInvalid
<1>11. CASE Recheck(w)
  BY <1>11, <1>leave DEF Recheck
<1>12. CASE Competing(w)
  BY <1>12, <1>leave DEF Competing
<1>13. CASE ServiceFails(w)
  BY <1>13, <1>leave DEF ServiceFails
<1>14. CASE PostTimesOut(w)
  BY <1>14, <1>leave DEF PostTimesOut, GiveUp
<1> QED  BY <1>1, <1>2, <1>3, <1>4, <1>5, <1>6, <1>7, <1>8, <1>9, <1>10, <1>11, <1>12, <1>13,
            <1>14 DEF Step

(* Entering takes a free lock, leaving and dying give it back.             *)
LEMMA LockStep == LedgerInv /\ LockHeldInside /\ [Next]_vars => LockHeldInside'
<1> SUFFICES ASSUME LedgerInv, LockHeldInside, [Next]_vars PROVE LockHeldInside'
  OBVIOUS
<1> USE DEF LockHeldInside
<1>types. /\ lock \in [Process -> Writer \cup {NoWriter}] /\ call \in [Writer -> Call]
          /\ procOf \in [Writer -> Process] /\ NoWriter \notin Writer
  BY DEF LedgerInv, TypeOK, PortfolioHeadAssumption
<1>idle. NoCall.stage \notin Critical
  BY DEF NoCall, Critical
<1>1. ASSUME NEW w \in Writer, Step(w) PROVE LockHeldInside'
  <2>1. \A v \in Writer : v # w => call'[v] = call[v]
    BY <1>1, StepEffect
  <2>2. CASE Acquire(w)
    <3>1. /\ lock' = [lock EXCEPT ![procOf[w]] = w] /\ lock[procOf[w]] = NoWriter
          /\ call[w].stage = "waiting" /\ call'[w].stage \in Critical
      BY <2>2, <1>types DEF Acquire, Critical, Call
    <3>2. call[w].stage \notin Critical
      BY <3>1 DEF Critical
    <3>3. ASSUME NEW p \in Process, NEW v \in Writer
          PROVE  lock'[p] = v <=> procOf[v] = p /\ call'[v].stage \in Critical
      <4>1. CASE p = procOf[w]
        BY <4>1, <2>1, <3>1, <1>types
      <4>2. CASE p # procOf[w]
        <5>1. lock'[p] = lock[p]
          BY <4>2, <3>1, <1>types
        <5> QED  BY <5>1, <4>2, <2>1, <3>2
      <4> QED  BY <4>1, <4>2
    <3> QED  BY <3>3
  <2>3. CASE lock' = lock /\ call'[w].stage \in Critical /\ call[w].stage \in Critical
    BY <2>1, <2>3
  <2>4. CASE Leave(w) /\ call[w].stage \in Critical
    <3>1. /\ lock' = [lock EXCEPT ![procOf[w]] = NoWriter] /\ lock[procOf[w]] = w
          /\ call'[w].stage \notin Critical
      BY <2>4, <1>types, <1>idle DEF Leave
    <3>2. ASSUME NEW p \in Process, NEW v \in Writer
          PROVE  lock'[p] = v <=> procOf[v] = p /\ call'[v].stage \in Critical
      BY <2>1, <3>1, <1>types
    <3> QED  BY <3>2
  <2> QED  BY <1>1, <2>2, <2>3, <2>4, Entering
<1>2. ASSUME NEW w \in Writer, NEW a \in Artifact, Submit(w, a) PROVE LockHeldInside'
  <2>1. call'[w].stage = "waiting" /\ call[w].stage = "idle" /\ lock' = lock
        /\ \A v \in Writer : v # w => call'[v] = call[v]
    BY <1>2, <1>types DEF Submit, NoCall
  <2> QED  BY <2>1 DEF Critical
<1>3. ASSUME NEW p \in Process, Crash(p) PROVE LockHeldInside'
  BY <1>3, <1>types, <1>idle DEF Crash
<1>4. CASE Tick \/ AppendOther \/ (\E k \in DOMAIN givenUp : Land(k)) \/ UNCHANGED vars
  BY <1>4 DEF Tick, AppendOther, Land, vars
<1> QED  BY <1>1, <1>2, <1>3, <1>4 DEF Next

(* Every lock is held by whoever is inside, and by nobody else.            *)
THEOREM LocksAreReturned == Spec => []LockHeldInside
<1>1. Init => LockHeldInside
  BY DEF Init, LockHeldInside, NoCall, Critical, PortfolioHeadAssumption
<1> QED  BY <1>1, LedgerInvariant, LockStep, PTL DEF Spec

(* Until two processes cross there is one call inside *)
Alone ==
    ~crossed =>
        \A v, w \in Writer :
            call[v].stage \in Critical /\ call[w].stage \in Critical => v = w

HeadLocated == PortfolioRows(rows) = {} \/ \E i \in DOMAIN rows : IsLast(i, rows)

Attestable(a) == anchorOf[a] \in Attested \cup {NoArtifact}

AnchorAttested ==
    /\ \A w \in Writer : call[w].stage # "idle" => Attestable(call[w].artifact)
    /\ \A k \in DOMAIN givenUp : Attestable(givenUp[k].artifact)

SharedInv == LedgerInv /\ LockHeldInside /\ Alone /\ HeadLocated /\ AnchorAttested

LEMMA SharedInvInit == Init => SharedInv
<1> SUFFICES ASSUME Init PROVE SharedInv
  OBVIOUS
<1>1. LedgerInv
  BY LedgerInvInit
<1>2. PortfolioRows(rows) = {} /\ DOMAIN givenUp = {}
  BY DEF Init, PortfolioRows
<1>3. \A w \in Writer : call[w].stage = "idle"
  BY DEF Init, NoCall
<1>4. LockHeldInside
  BY <1>3 DEF Init, LockHeldInside, Critical, PortfolioHeadAssumption
<1> QED  BY <1>1, <1>2, <1>3, <1>4 DEF SharedInv, Alone, HeadLocated, AnchorAttested, Critical

(* Who enters beside another call is of another process, by the locks.     *)
LEMMA AloneStep == LedgerInv /\ LockHeldInside /\ Alone /\ [Next]_vars => Alone'
<1> SUFFICES ASSUME LedgerInv, LockHeldInside, Alone, [Next]_vars, ~crossed',
                    NEW u \in Writer, NEW v \in Writer,
                    call'[u].stage \in Critical, call'[v].stage \in Critical
             PROVE  u = v
  BY DEF Alone
<1>types. lock \in [Process -> Writer \cup {NoWriter}] /\ call \in [Writer -> Call]
          /\ procOf \in [Writer -> Process] /\ NoWriter \notin Writer
  BY DEF LedgerInv, TypeOK, PortfolioHeadAssumption
<1>1. ASSUME NEW w \in Writer, Acquire(w) PROVE u = v
  <2>1. /\ \A x \in Writer : x # w => call'[x] = call[x]
        /\ crossed' = (crossed \/ Crosses(w)) /\ lock[procOf[w]] = NoWriter
    BY <1>1 DEF Acquire
  <2>2. ASSUME NEW x \in Writer, x # w, call'[x].stage \in Critical PROVE FALSE
    <3>1. call[x].stage \in Critical /\ lock[procOf[x]] = x
      BY <2>1, <2>2, <1>types DEF LockHeldInside
    <3>2. procOf[x] # procOf[w]
      BY <2>1, <3>1, <1>types
    <3> QED  BY <2>1, <3>1, <3>2 DEF Crosses
  <2> QED  BY <2>2
<1>2. ASSUME NEW w \in Writer, Step(w), ~Acquire(w) PROVE u = v
  <2>1. call[u].stage \in Critical /\ call[v].stage \in Critical /\ ~crossed
    BY <1>2, StepEffect, Entering
  <2> QED  BY <2>1 DEF Alone
<1>3. CASE \/ Tick \/ AppendOther \/ (\E k \in DOMAIN givenUp : Land(k)) \/ UNCHANGED vars
           \/ (\E w \in Writer, a \in Artifact : Submit(w, a)) \/ (\E p \in Process : Crash(p))
  <2>1. crossed' = crossed
    BY <1>3 DEF Tick, AppendOther, Land, vars, Submit, Crash
  <2>2. ASSUME NEW x \in Writer, call'[x].stage \in Critical PROVE call[x].stage \in Critical
    <3>1. ASSUME NEW w \in Writer, NEW a \in Artifact, Submit(w, a) PROVE call'[x] = call[x]
      <4>1. call'[w].stage = "waiting" /\ \A y \in Writer : y # w => call'[y] = call[y]
        BY <3>1, <1>types DEF Submit, NoCall
      <4> QED  BY <2>2, <4>1 DEF Critical
    <3>2. ASSUME NEW p \in Process, Crash(p) PROVE call'[x] = call[x]
      BY <2>2, <3>2 DEF Crash, NoCall, Critical
    <3> QED  BY <1>3, <2>2, <3>1, <3>2 DEF Tick, AppendOther, Land, vars
  <2>3. call[u].stage \in Critical /\ call[v].stage \in Critical
    BY <2>2
  <2> QED  BY <2>1, <2>3 DEF Alone
<1> QED  BY <1>1, <1>2, <1>3 DEF Next

(* The last portfolio row can be told whoever appends. *)
LEMMA HeadLocatedStep == LedgerInv /\ HeadLocated /\ [Next]_vars => HeadLocated'
<1> SUFFICES ASSUME LedgerInv, HeadLocated, [Next]_vars PROVE HeadLocated'
  OBVIOUS
<1>types. rows \in Seq(Row) /\ call \in [Writer -> Call] /\ givenUp \in Seq(SnapshotRow)
          /\ \A w \in Writer : call[w].stage # "idle" => call[w].artifact \in Artifact
  BY DEF LedgerInv, TypeOK
<1>same. ASSUME rows' = rows PROVE HeadLocated'
  BY <1>same DEF HeadLocated, PortfolioRows, IsLast
<1>row. ASSUME NEW r \in SnapshotRow, rows' = Append(rows, r) PROVE HeadLocated'
  <2>1. r \in Row /\ r.kind = "portfolio_snapshot"
    BY DEF SnapshotRow, Row, Kind
  <2>2. IsLast(Len(rows) + 1, rows') /\ Len(rows) + 1 \in DOMAIN rows'
    BY <1>row, <2>1, <1>types, LatestOfPortfolioRow
  <2> QED  BY <2>2 DEF HeadLocated
<1>1. ASSUME NEW w \in Writer, Step(w) PROVE HeadLocated'
  <2>1. call[w].stage # "idle" => NewRow(w) \in SnapshotRow
    BY <1>types DEF NewRow, SnapshotRow, Call
  <2> QED  BY <1>1, <2>1, <1>same, <1>row, StepEffect
<1>2. CASE AppendOther
  <2> DEFINE r == [kind |-> "other", artifact |-> NoArtifact, appendedAt |-> now]
  <2>1. r \in Row /\ r.kind = "other" /\ rows' = Append(rows, r)
    BY <1>2 DEF AppendOther, Row, Kind, LedgerInv, TypeOK
  <2> HIDE DEF r
  <2>2. /\ PortfolioRows(rows') = PortfolioRows(rows)
        /\ \A i \in DOMAIN rows : IsLast(i, rows) <=> IsLast(i, rows')
    BY <2>1, <1>types, LatestOfOtherRow DEF HeadLocated
  <2> QED  BY <2>2, RowsKeptStep DEF HeadLocated, RowsKept
<1>3. ASSUME NEW k \in DOMAIN givenUp, Land(k) PROVE HeadLocated'
  BY <1>3, <1>types, <1>row DEF Land
<1>4. CASE Tick \/ (\E w \in Writer, a \in Artifact : Submit(w, a)) \/ (\E p \in Process : Crash(p))
           \/ UNCHANGED vars
  BY <1>4, <1>same DEF Tick, Submit, Crash, vars
<1> QED  BY <1>1, <1>2, <1>3, <1>4 DEF Next

(* What is attested stays so, and a call is made with an attested anchor.  *)
LEMMA AnchorAttestedStep == LedgerInv /\ AnchorAttested /\ [Next]_vars => AnchorAttested'
<1> SUFFICES ASSUME LedgerInv, AnchorAttested, [Next]_vars PROVE AnchorAttested'
  OBVIOUS
<1>types. call \in [Writer -> Call] /\ givenUp \in Seq(SnapshotRow)
  BY DEF LedgerInv, TypeOK
<1>1. ASSUME NEW w \in Writer, Step(w) PROVE Attested \subseteq Attested'
  BY <1>1, StepEffect DEF Attested
<1>2. Attested \subseteq Attested'
  <2>1. CASE envelopes' = envelopes
    BY <2>1 DEF Attested
  <2> QED  BY <1>1, <2>1 DEF Next, Tick, AppendOther, Submit, Crash, Land, vars
<1>kept. \A a : Attestable(a) => anchorOf[a] \in Attested' \cup {NoArtifact}
  BY <1>2 DEF Attestable
<1>giveup. ASSUME NEW w \in Writer, GiveUp(w), NEW k \in DOMAIN givenUp'
           PROVE  Attestable(givenUp'[k].artifact)
  <2>1. givenUp' = Append(givenUp, NewRow(w)) /\ Attestable(NewRow(w).artifact)
    BY <1>giveup DEF GiveUp, AnchorAttested, NewRow
  <2> QED  BY <2>1, <1>giveup, <1>types DEF AnchorAttested
<1>3. ASSUME NEW w \in Writer, call'[w].stage # "idle"
      PROVE  anchorOf[call'[w].artifact] \in Attested' \cup {NoArtifact}
  <2>1. ASSUME call[w].stage # "idle", call'[w].artifact = call[w].artifact
        PROVE  anchorOf[call'[w].artifact] \in Attested' \cup {NoArtifact}
    BY <2>1, <1>kept DEF AnchorAttested
  <2>2. ASSUME NEW v \in Writer, Step(v)
        PROVE  call[w].stage # "idle" /\ call'[w].artifact = call[w].artifact
    BY <2>2, <1>3, StepEffect DEF NoCall
  <2>3. ASSUME NEW v \in Writer, NEW a \in Artifact, Submit(v, a), w # v
        PROVE  call[w].stage # "idle" /\ call'[w].artifact = call[w].artifact
    BY <2>3, <1>3, <1>types DEF Submit
  <2>4. ASSUME NEW a \in Artifact, Submit(w, a)
        PROVE  anchorOf[call'[w].artifact] \in Attested' \cup {NoArtifact}
    <3>1. call'[w].artifact = a /\ anchorOf[a] \in Attested \cup {NoArtifact}
      BY <2>4, <1>types DEF Submit, NoCall
    <3> QED  BY <3>1, <1>2
  <2>5. ASSUME NEW p \in Process, Crash(p)
        PROVE  call[w].stage # "idle" /\ call'[w].artifact = call[w].artifact
    BY <2>5, <1>3 DEF Crash, NoCall
  <2>6. CASE Tick \/ AppendOther \/ (\E k \in DOMAIN givenUp : Land(k)) \/ UNCHANGED vars
    BY <2>1, <2>6, <1>3 DEF Tick, AppendOther, Land, vars
  <2> QED  BY <2>1, <2>2, <2>3, <2>4, <2>5, <2>6 DEF Next
<1>4. ASSUME NEW k \in DOMAIN givenUp' PROVE Attestable(givenUp'[k].artifact)
  <2>1. CASE givenUp' = givenUp
    BY <2>1, <1>4 DEF AnchorAttested
  <2>2. ASSUME NEW w \in Writer, Step(w) PROVE givenUp' = givenUp \/ GiveUp(w)
    BY <2>2, StepEffect
  <2> QED  BY <1>4, <2>1, <2>2, <1>giveup
           DEF Next, Tick, AppendOther, Submit, Crash, Land, vars, flight
<1>5. \A k \in DOMAIN givenUp' : anchorOf[givenUp'[k].artifact] \in Attested' \cup {NoArtifact}
  BY <1>4, <1>kept
<1> QED  BY <1>3, <1>5 DEF AnchorAttested, Attestable

LEMMA SharedInvStep == SharedInv /\ [Next]_vars => SharedInv'
BY LedgerInvStep, LockStep, AloneStep, HeadLocatedStep, AnchorAttestedStep DEF SharedInv

LEMMA SharedInvariant == Spec => []SharedInv
BY SharedInvInit, SharedInvStep, PTL DEF Spec
-----------------------------------------------------------------------------
(* What holds of the chain until it is disturbed. *)

OneChild ==
    \A i, j \in PortfolioRows(rows) :
        anchorOf[rows[i].artifact] = anchorOf[rows[j].artifact] => i = j

(* Nothing continues the head yet *)
HeadChildless == \A i \in PortfolioRows(rows) : anchorOf[rows[i].artifact] # Latest(rows)

(* What a caller read of the head is still so when it acts on it *)
HeadSeen ==
    \A w \in Writer :
        /\ call[w].stage = "scan" =>
              Latest(rows) = IF call[w].recovering THEN call[w].artifact
                             ELSE anchorOf[call[w].artifact]
        /\ call[w].stage = "post" =>
              /\ Latest(rows) = anchorOf[call[w].artifact]
              /\ Holding(rows, call[w].artifact) = {}
        /\ call[w].stage \in {"readback", "recheck"} => Latest(rows) = call[w].artifact

Chained == OneChild /\ HeadChildless /\ HeadSeen

(* A post extends the chain: the row continues the childless head. *)
LEMMA PostExtends ==
    ASSUME SharedInv, Chained, NEW w \in Writer, call[w].stage = "post",
           rows' = Append(rows, NewRow(w))
    PROVE  /\ PortfolioRows(rows') = PortfolioRows(rows) \cup {Len(rows) + 1}
           /\ Latest(rows') = call[w].artifact
           /\ OneChild' /\ HeadChildless'
<1> USE DEF SharedInv, Chained
<1> DEFINE a == call[w].artifact
           n == Len(rows) + 1
<1>1. rows \in Seq(Row) /\ a \in Artifact /\ NewRow(w) \in Row /\ n \in Nat
  BY DEF LedgerInv, TypeOK, NewRow, Row, Kind, Call
<1>2. NewRow(w).kind = "portfolio_snapshot" /\ NewRow(w).artifact = a
  BY DEF NewRow
<1>3. /\ PortfolioRows(rows') = PortfolioRows(rows) \cup {n}
      /\ Latest(rows') = a /\ IsLast(n, rows')
  BY <1>1, <1>2, LatestOfPortfolioRow
<1>4. rows'[n] = NewRow(w) /\ n \in DOMAIN rows'
  BY <1>1
<1>5. \A i \in PortfolioRows(rows) : rows'[i] = rows[i] /\ i \in 1..Len(rows)
  BY <1>1 DEF PortfolioRows
<1>6. Latest(rows) = anchorOf[a] /\ Holding(rows, a) = {}
  BY DEF HeadSeen
<1> HIDE DEF a, n
<1>7. OneChild'
  <2>1. ASSUME NEW i \in PortfolioRows(rows)
        PROVE  anchorOf[rows'[i].artifact] # anchorOf[rows'[n].artifact]
    BY <1>2, <1>4, <1>5, <1>6 DEF HeadChildless
  <2>2. ASSUME NEW i \in PortfolioRows(rows'), NEW j \in PortfolioRows(rows'),
               anchorOf[rows'[i].artifact] = anchorOf[rows'[j].artifact]
        PROVE  i = j
    <3>1. CASE i = n \/ j = n
      BY <3>1, <2>1, <2>2, <1>3
    <3>2. CASE i # n /\ j # n
      BY <3>2, <2>2, <1>3, <1>5 DEF OneChild
    <3> QED  BY <3>1, <3>2
  <2> QED  BY <2>2 DEF OneChild
<1>8. HeadChildless'
  <2>1. a # NoArtifact
    BY <1>1 DEF PortfolioHeadAssumption
  <2>2. ASSUME NEW i \in PortfolioRows(rows) PROVE anchorOf[rows'[i].artifact] # a
    BY <2>1, <1>5, <1>6 DEF LedgerInv, AnchorPrecedes
  <2>3. anchorOf[a] # a
    <3>1. CASE PortfolioRows(rows) = {}
      BY <3>1, <2>1, <1>6 DEF Latest
    <3>2. CASE PortfolioRows(rows) # {}
      BY <3>2, <1>1, <1>6, LatestIsHeld DEF HeadLocated
    <3> QED  BY <3>1, <3>2
  <2> QED  BY <2>2, <2>3, <1>2, <1>3, <1>4 DEF HeadChildless
<1> QED  BY <1>3, <1>7, <1>8 DEF a, n

(* Only a comparison of the head leads to the scan, only an empty scan to  *)
(* the post, and only a scan or a post to the read-back.                   *)
LEMMA NextStage ==
    ASSUME LedgerInv, NEW w \in Writer, Step(w)
    PROVE  /\ ReadHead(w) \/ ScanAbsent(w) \/ call'[w].stage \notin {"scan", "post"}
           /\ \/ ScanFound(w) \/ Post(w)
              \/ call[w].stage = "readback" /\ call'[w].artifact = call[w].artifact
              \/ call'[w].stage \notin {"readback", "recheck"}
           /\ call[w].stage = "post" =>
                 ~ReadHead(w) /\ ~ScanAbsent(w) /\ ~ScanFound(w) /\ envelopes' = envelopes
<1>types. call \in [Writer -> Call]
  BY DEF LedgerInv, TypeOK
<1>leave. Leave(w) => call'[w].stage \notin {"scan", "post", "readback", "recheck"}
  BY <1>types DEF Leave, NoCall
<1>1. CASE Acquire(w)
  BY <1>1, <1>types DEF Acquire, Call
<1>2. CASE ReadHead(w)
  BY <1>2, <1>types DEF ReadHead, Call
<1>3. CASE Stale(w)
  BY <1>3, <1>leave DEF Stale
<1>4. CASE ScanFound(w)
  <2>1. call[w].stage = "scan" /\ call'[w].stage = "readback"
    BY <1>4, <1>types DEF ScanFound, Call
  <2> QED  BY <1>4, <2>1
<1>5. CASE ScanAbsent(w)
  BY <1>5, <1>types DEF ScanAbsent, Call
<1>6. CASE Post(w)
  BY <1>6, <1>types DEF Post, Call, ReadHead, ScanAbsent, ScanFound
<1>7. CASE PostUnanswered(w)
  BY <1>7, <1>leave DEF PostUnanswered, ReadHead, ScanAbsent, ScanFound
<1>8. CASE Recover(w)
  BY <1>8, <1>leave DEF Recover
<1>9. CASE ReadBack(w)
  BY <1>9, <1>types DEF ReadBack, Call
<1>10. CASE ReadBackInvalid(w)
  BY <1>10, <1>leave DEF ReadBackInvalid
<1>11. CASE Recheck(w)
  BY <1>11, <1>leave DEF Recheck
<1>12. CASE Competing(w)
  BY <1>12, <1>leave DEF Competing
<1>13. CASE ServiceFails(w)
  BY <1>13, <1>leave DEF ServiceFails, ReadHead, ScanAbsent, ScanFound
<1>14. CASE PostTimesOut(w)
  BY <1>14, <1>leave DEF PostTimesOut, GiveUp, ReadHead, ScanAbsent, ScanFound
<1> QED  BY <1>1, <1>2, <1>3, <1>4, <1>5, <1>6, <1>7, <1>8, <1>9, <1>10, <1>11, <1>12, <1>13,
            <1>14 DEF Step

(* What is undisturbed was so before. *)
LEMMA DisturbedStays ==
    ASSUME LedgerInv, [Next]_vars, Undisturbed'
    PROVE  Undisturbed /\ ~ \E k \in DOMAIN givenUp : Land(k)
<1>1. ASSUME NEW w \in Writer, Step(w) PROVE landed' = landed /\ (crossed => crossed')
  BY <1>1, StepEffect
<1>2. ASSUME NEW w \in Writer, NEW a \in Artifact, Submit(w, a)
      PROVE  landed' = landed /\ crossed' = crossed
  BY <1>2 DEF Submit, flight
<1>3. ASSUME NEW p \in Process, Crash(p) PROVE landed' = landed /\ crossed' = crossed
  BY <1>3 DEF Crash, GiveUp, flight
<1>4. ASSUME NEW k \in DOMAIN givenUp, Land(k) PROVE landed' # {}
  BY <1>4 DEF Land
<1>5. CASE Tick \/ AppendOther \/ UNCHANGED vars
  BY <1>5 DEF Tick, AppendOther, vars, flight, Undisturbed, Land
<1> QED  BY <1>1, <1>2, <1>3, <1>4, <1>5 DEF Next, Undisturbed

(* Until it is disturbed, every step keeps the chain. *)
LEMMA ChainedStep ==
    ASSUME SharedInv, Undisturbed => Chained, [Next]_vars, Undisturbed' PROVE Chained'
<1>undisturbed. Undisturbed /\ Chained /\ ~ \E k \in DOMAIN givenUp : Land(k)
  BY DisturbedStays DEF SharedInv
<1> USE DEF SharedInv, Chained
<1>kept. RowsKept
  BY RowsKeptStep
<1>types. /\ rows \in Seq(Row) /\ call \in [Writer -> Call]
          /\ NoArtifact \notin Artifact
          /\ \A w \in Writer : call[w].stage # "idle" => call[w].artifact \in Artifact
  BY DEF LedgerInv, TypeOK, PortfolioHeadAssumption
<1>same. ASSUME rows' = rows PROVE OneChild' /\ HeadChildless'
  BY <1>same, <1>undisturbed DEF OneChild, HeadChildless, PortfolioRows, Latest, IsLast
<1>seen. ASSUME rows' = rows,
                \A v \in Writer : \/ call'[v] = call[v]
                                  \/ call'[v].stage \notin {"scan", "post", "readback", "recheck"}
         PROVE  HeadSeen'
  BY <1>seen, <1>undisturbed DEF HeadSeen
<1>1. ASSUME NEW w \in Writer, Step(w) PROVE Chained'
  <2> USE <1>1
  <2>0. \A v \in Writer : v # w => call'[v] = call[v]
    BY StepEffect
  <2>1. CASE rows' = rows
    <3>head. ASSUME call'[w].stage = "scan" =>
                       Latest(rows) = IF call'[w].recovering THEN call'[w].artifact
                                      ELSE anchorOf[call'[w].artifact],
                    call'[w].stage = "post" =>
                       /\ Latest(rows) = anchorOf[call'[w].artifact]
                       /\ Holding(rows, call'[w].artifact) = {},
                    call'[w].stage \in {"readback", "recheck"} => Latest(rows) = call'[w].artifact
             PROVE  HeadSeen'
      BY <3>head, <2>0, <2>1, <1>undisturbed DEF HeadSeen
    <3>1. CASE ReadHead(w)
      <4>1. /\ call'[w].stage = "scan" /\ call'[w].artifact = call[w].artifact
            /\ call'[w].recovering = (Latest(rows) = call[w].artifact)
            /\ Latest(rows) \in {call[w].artifact, anchorOf[call[w].artifact]}
        BY <3>1, <1>types DEF ReadHead, Call
      <4> QED  BY <4>1, <3>head, <2>1, <1>same
    <3>2. CASE ScanAbsent(w)
      <4>1. /\ call'[w].stage = "post" /\ call'[w].artifact = call[w].artifact
            /\ call[w].stage = "scan" /\ Holding(rows, call[w].artifact) = {}
        BY <3>2, <1>types DEF ScanAbsent, Call
      <4>2. ~call[w].recovering
        <5>1. SUFFICES ASSUME Latest(rows) = call[w].artifact PROVE FALSE
          BY <4>1, <1>undisturbed DEF HeadSeen
        <5>2. PortfolioRows(rows) # {}
          BY <5>1, <4>1, <1>types DEF Latest
        <5> QED  BY <5>1, <5>2, <4>1, <1>types, LatestIsHeld DEF HeadLocated
      <4>3. Latest(rows) = anchorOf[call'[w].artifact]
        BY <4>1, <4>2, <1>undisturbed DEF HeadSeen
      <4> QED  BY <4>1, <4>3, <3>head, <2>1, <1>same
    <3>3. CASE ScanFound(w)
      <4>1. /\ call'[w].stage = "readback" /\ call'[w].artifact = call[w].artifact
            /\ call[w].stage = "scan" /\ Holding(rows, call[w].artifact) # {}
        BY <3>3, <1>types DEF ScanFound, Call
      <4>2. anchorOf[call[w].artifact] # Latest(rows)
        BY <4>1, <1>undisturbed DEF HeadChildless, Holding
      <4>3. Latest(rows) = call'[w].artifact
        BY <4>1, <4>2, <1>undisturbed DEF HeadSeen
      <4> QED  BY <4>1, <4>3, <3>head, <2>1, <1>same
    <3>4. CASE ~ReadHead(w) /\ ~ScanAbsent(w) /\ ~ScanFound(w)
      <4>1. call'[w].stage \notin {"scan", "post"}
        BY <3>4, NextStage
      <4>2. ~Post(w)
        BY <2>1, <1>types DEF Post
      <4>3. call'[w].stage \in {"readback", "recheck"} => Latest(rows) = call'[w].artifact
        BY <3>4, <4>2, <1>undisturbed, NextStage DEF HeadSeen
      <4> QED  BY <4>1, <4>3, <3>head, <2>1, <1>same
    <3> QED  BY <3>1, <3>2, <3>3, <3>4
  <2>2. CASE call[w].stage = "post" /\ rows' = Append(rows, NewRow(w))
    <3>1. OneChild' /\ HeadChildless' /\ Latest(rows') = call[w].artifact
      BY <2>2, <1>undisturbed, PostExtends
    <3>2. ASSUME NEW v \in Writer, v # w
          PROVE  call'[v].stage \notin {"scan", "post", "readback", "recheck"}
      BY <2>0, <2>2, <3>2, <1>undisturbed DEF Alone, Undisturbed, Critical
    <3>3. call'[w].stage \notin {"scan", "post"}
      BY <2>2, NextStage
    <3>4. call'[w].stage \in {"readback", "recheck"} => call'[w].artifact = call[w].artifact
      BY StepEffect DEF NoCall
    <3> QED  BY <3>1, <3>2, <3>3, <3>4 DEF HeadSeen
  <2> QED  BY <2>1, <2>2, StepEffect
<1>2. ASSUME NEW w \in Writer, NEW a \in Artifact, Submit(w, a) PROVE Chained'
  <2>1. UNCHANGED rows /\ \A v \in Writer : v # w => call'[v] = call[v]
    BY <1>2 DEF Submit
  <2>2. call'[w].stage = "waiting"
    BY <1>2, <1>types DEF Submit, NoCall
  <2> QED  BY <2>1, <2>2, <1>same, <1>seen
<1>3. ASSUME NEW p \in Process, Crash(p) PROVE Chained'
  <2>1. UNCHANGED rows /\ \A v \in Writer : call'[v] = NoCall \/ call'[v] = call[v]
    BY <1>3 DEF Crash
  <2> QED  BY <2>1, <1>same, <1>seen DEF NoCall
<1>4. CASE AppendOther
  <2> DEFINE r == [kind |-> "other", artifact |-> NoArtifact, appendedAt |-> now]
  <2>1. r \in Row /\ r.kind = "other" /\ rows' = Append(rows, r) /\ UNCHANGED call
    BY <1>4 DEF AppendOther, Row, Kind, LedgerInv, TypeOK
  <2> HIDE DEF r
  <2>2. PortfolioRows(rows') = PortfolioRows(rows) /\ Latest(rows') = Latest(rows)
    BY <2>1, <1>types, LatestOfOtherRow DEF HeadLocated
  <2>3. \A i \in PortfolioRows(rows) : rows'[i] = rows[i]
    BY <1>kept DEF RowsKept, PortfolioRows
  <2>4. \A a : Holding(rows', a) = Holding(rows, a)
    BY <2>2, <2>3 DEF Holding
  <2>5. OneChild' /\ HeadChildless'
    BY <2>2, <2>3, <1>undisturbed DEF OneChild, HeadChildless
  <2>6. HeadSeen'
    BY <2>1, <2>2, <2>4, <1>undisturbed DEF HeadSeen
  <2> QED  BY <2>5, <2>6
<1>5. CASE Tick \/ UNCHANGED vars
  BY <1>5, <1>same, <1>seen DEF Tick, vars
<1> QED  BY <1>1, <1>2, <1>3, <1>4, <1>5, <1>undisturbed DEF Next

LEMMA ChainInvariant == Spec => [](SharedInv /\ (Undisturbed => Chained))
<1>1. Init => Chained
  <2>1. Init => PortfolioRows(rows) = {} /\ \A w \in Writer : call[w].stage = "idle"
    BY DEF Init, PortfolioRows, NoCall
  <2> QED  BY <2>1 DEF Chained, OneChild, HeadChildless, HeadSeen
<1>2. SharedInv /\ (Undisturbed => Chained) /\ [Next]_vars => (Undisturbed => Chained)'
  BY ChainedStep
<1> QED  BY <1>1, <1>2, SharedInvInit, SharedInvStep, PTL DEF Spec

(* Threads of one process never disturb each other: what disturbs them is  *)
(* a request that lands after its caller has left.                         *)
THEOREM ThreadsDoNotCross == ASSUME SharedLock PROVE Spec => []~crossed
<1>1. Init => ~crossed
  BY DEF Init
<1>2. ~crossed /\ [Next]_vars => ~crossed'
  <2> SUFFICES ASSUME ~crossed, [Next]_vars PROVE ~crossed'
    OBVIOUS
  <2>1. ASSUME NEW w \in Writer, Step(w) PROVE ~crossed'
    <3>1. CASE Acquire(w)
      BY <3>1 DEF Acquire, Crosses, SharedLock
    <3>2. CASE ~Acquire(w)
      BY <2>1, <3>2 DEF Step, ReadHead, Stale, ScanFound, ScanAbsent, Post, PostUnanswered,
         PostTimesOut, Recover, ReadBack, ReadBackInvalid, Recheck, Competing, ServiceFails
    <3> QED  BY <3>1, <3>2
  <2> QED  BY <2>1 DEF Next, Tick, AppendOther, Submit, Crash, Land, vars
<1> QED  BY <1>1, <1>2, PTL DEF Spec

(* Until a late row lands or two processes cross, the tab holds one row    *)
(* per continuation.                                                       *)
THEOREM ContinuationsUnique == Spec => []OneContinuation
<1>1. (Undisturbed => Chained) => OneContinuation
  BY DEF Chained, OneChild, OneContinuation
<1> QED  BY <1>1, ChainInvariant, PTL

(* Until a late row lands or two processes cross, no anchor is continued   *)
(* by two attested snapshots: fork attempts fail closed.                   *)
THEOREM ForkFree == Spec => []ForkNeedsDisturbance
<1>1. ASSUME LedgerInv, Undisturbed => Chained PROVE ForkNeedsDisturbance
  <2> SUFFICES ASSUME OneChild, NEW e \in envelopes, NEW f \in envelopes,
                      anchorOf[e.artifact] = anchorOf[f.artifact]
               PROVE  e.artifact = f.artifact
    BY <1>1 DEF ForkNeedsDisturbance, NoFork, Chained
  <2>1. ASSUME NEW c \in envelopes
        PROVE  c.location \in PortfolioRows(rows) /\ rows[c.location].artifact = c.artifact
    <3>1. /\ c.location \in DOMAIN rows
          /\ rows[c.location] = [kind |-> "portfolio_snapshot", artifact |-> c.artifact,
                                 appendedAt |-> c.appendedAt]
      BY <1>1 DEF LedgerInv, EnvelopeExact
    <3>2. rows[c.location].kind = "portfolio_snapshot" /\ rows[c.location].artifact = c.artifact
      BY <3>1
    <3> QED  BY <3>1, <3>2 DEF PortfolioRows
  <2>2. e.location = f.location
    BY <2>1 DEF OneChild
  <2> QED  BY <2>1, <2>2
<1>2. SharedInv => LedgerInv
  BY DEF SharedInv
<1> QED  BY <1>1, <1>2, ChainInvariant, PTL

(* A portfolio row makes its artifact the head and adds it to the chain. *)
LEMMA HeadMoves ==
    ASSUME TypeOK, NEW r \in SnapshotRow, rows' = Append(rows, r)
    PROVE  /\ Latest(rows') = r.artifact
           /\ {rows'[i].artifact : i \in PortfolioRows(rows')} =
                 {rows[i].artifact : i \in PortfolioRows(rows)} \cup {r.artifact}
<1>1. rows \in Seq(Row) /\ r \in Row /\ r.kind = "portfolio_snapshot"
  BY DEF TypeOK, SnapshotRow, Row, Kind
<1>2. /\ PortfolioRows(rows') = PortfolioRows(rows) \cup {Len(rows) + 1}
      /\ Latest(rows') = r.artifact
  BY <1>1, LatestOfPortfolioRow
<1>3. rows'[Len(rows) + 1] = r /\ \A i \in PortfolioRows(rows) : rows'[i] = rows[i]
  BY <1>1 DEF PortfolioRows
<1>4. {rows'[i].artifact : i \in PortfolioRows(rows)} = {rows[i].artifact : i \in PortfolioRows(rows)}
  BY <1>3
<1>5. {rows'[i].artifact : i \in PortfolioRows(rows')} =
         {rows'[i].artifact : i \in PortfolioRows(rows)} \cup {rows'[Len(rows) + 1].artifact}
  BY <1>2
<1> QED  BY <1>2, <1>3, <1>4, <1>5

(* The boundary implements the canonical head: an undisturbed call extends *)
(* and publishes the head itself; a late row, and a call that enters while *)
(* one of another process is inside, disturb it.                           *)
THEOREM ImplementsHead == Spec => ImplementsCanonicalHead
<1>1. Init => Canonical!Init
  BY DEF Init, Canonical!Init, Latest, PortfolioRows, Attested, Undisturbed
<1>2. ASSUME SharedInv, Undisturbed => Chained, [Next]_vars
      PROVE  [Canonical!Next]_(Canonical!absVars)
  <2> USE DEF SharedInv
  <2> DEFINE chain == {rows[i].artifact : i \in PortfolioRows(rows)}
  <2>types. /\ TypeOK /\ rows \in Seq(Row) /\ call \in [Writer -> Call]
            /\ \A w \in Writer : call[w].stage # "idle" => call[w].artifact \in Artifact
            /\ givenUp \in Seq(SnapshotRow)
    BY <1>2 DEF LedgerInv, TypeOK
  <2>same. ASSUME rows' = rows, envelopes' = envelopes, landed' = landed, crossed' = crossed
           PROVE  UNCHANGED Canonical!absVars
    BY <2>same DEF Canonical!absVars, Attested, Undisturbed
  <2>row. ASSUME NEW r \in SnapshotRow, rows' = Append(rows, r), envelopes' = envelopes,
                 anchorOf[r.artifact] \in Attested \cup {NoArtifact},
                 \/ Undisturbed' = FALSE
                 \/ /\ Undisturbed' = Undisturbed
                    /\ Undisturbed => r.artifact \notin chain /\ anchorOf[r.artifact] = Latest(rows)
          PROVE  Canonical!Next
    <3>1. /\ Latest(rows') = r.artifact
          /\ {rows'[i].artifact : i \in PortfolioRows(rows')} = chain \cup {r.artifact}
      BY <2>row, <2>types, HeadMoves
    <3>2. r.artifact \in Artifact /\ Attested' = Attested
      BY <2>row DEF SnapshotRow, Attested
    <3>3. CASE Undisturbed' = FALSE
      <4>1. Canonical!Intrude(r.artifact)
        BY <2>row, <3>1, <3>2, <3>3 DEF Canonical!Intrude, Canonical!MayFollow
      <4> QED  BY <3>2, <4>1 DEF Canonical!Next
    <3>4. CASE Undisturbed' = TRUE
      <4>1. Canonical!Advance(r.artifact)
        BY <2>row, <3>1, <3>2, <3>4 DEF Canonical!Advance, Canonical!MayFollow
      <4> QED  BY <3>2, <4>1 DEF Canonical!Next
    <3> QED  BY <3>3, <3>4 DEF Undisturbed
  <2>1. ASSUME NEW w \in Writer, Step(w) PROVE [Canonical!Next]_(Canonical!absVars)
    <3>0. landed' = landed
      BY <1>2, <2>1, StepEffect
    <3>1. CASE Acquire(w)
      <4>1. rows' = rows /\ envelopes' = envelopes /\ (crossed => crossed')
        BY <3>1 DEF Acquire
      <4>2. CASE crossed' = crossed
        BY <2>same, <3>0, <4>1, <4>2
      <4>3. CASE crossed' # crossed
        <5>1. Undisturbed' = FALSE
          BY <4>1, <4>3, <2>types, TypeOKStep, <1>2 DEF Undisturbed, TypeOK
        <5>2. Canonical!Disturb
          BY <4>1, <5>1 DEF Canonical!Disturb, Attested
        <5> QED  BY <5>2 DEF Canonical!Next
      <4> QED  BY <4>2, <4>3
    <3>2. CASE ~Acquire(w) /\ call[w].stage = "post" /\ rows' = Append(rows, NewRow(w))
      <4>1. call[w].artifact \in Artifact /\ call[w].stage # "idle"
        BY <3>2, <2>types
      <4>2. envelopes' = envelopes
        BY <1>2, <2>1, <3>2, NextStage
      <4>3. NewRow(w) \in SnapshotRow /\ NewRow(w).artifact = call[w].artifact
        BY <4>1, <2>types DEF NewRow, SnapshotRow, Call
      <4>4. anchorOf[call[w].artifact] \in Attested \cup {NoArtifact}
        BY <1>2, <4>1 DEF AnchorAttested, Attestable
      <4>5. Undisturbed => call[w].artifact \notin chain
                           /\ anchorOf[call[w].artifact] = Latest(rows)
        BY <1>2, <3>2 DEF Chained, HeadSeen, Holding
      <4>6. Undisturbed' = Undisturbed
        BY <1>2, <2>1, <3>0, <3>2, StepEffect DEF Undisturbed
      <4> QED  BY <2>row, <3>2, <4>2, <4>3, <4>4, <4>5, <4>6
    <3>3. CASE /\ ~Acquire(w) /\ ReadBackExact(w) /\ rows' = rows
               /\ envelopes' = envelopes \cup {EnvelopeOf(w)}
               /\ call[w].stage \in {"readback", "recheck"}
      <4>1. call[w].artifact \in Artifact
        BY <3>3, <2>types
      <4>2. call[w].artifact \in chain
        <5>1. call[w].location \in PortfolioRows(rows)
              /\ rows[call[w].location].artifact = call[w].artifact
          BY <3>3 DEF ReadBackExact, PortfolioRows
        <5> QED  BY <5>1
      <4>3. Attested' = Attested \cup {call[w].artifact}
        <5>1. EnvelopeOf(w).artifact = call[w].artifact
          BY DEF EnvelopeOf
        <5> QED  BY <3>3, <5>1 DEF Attested
      <4>4. ~Undisturbed \/ call[w].artifact = Latest(rows)
        BY <1>2, <3>3 DEF Chained, HeadSeen
      <4>5. Undisturbed' = Undisturbed
        BY <1>2, <2>1, <3>0, <3>3, StepEffect DEF Undisturbed
      <4>6. Canonical!Publish(call[w].artifact)
        BY <4>2, <4>3, <4>4, <4>5, <3>3 DEF Canonical!Publish
      <4> QED  BY <4>1, <4>6 DEF Canonical!Next
    <3>4. CASE ~Acquire(w) /\ rows' = rows /\ envelopes' = envelopes
      BY <1>2, <2>1, <3>0, <3>4, <2>same, StepEffect
    <3> QED  BY <1>2, <2>1, <3>1, <3>2, <3>3, <3>4, NextStage, StepEffect
  <2>2. CASE AppendOther
    <3> DEFINE r == [kind |-> "other", artifact |-> NoArtifact, appendedAt |-> now]
    <3>1. /\ r \in Row /\ r.kind = "other" /\ rows' = Append(rows, r)
          /\ UNCHANGED <<envelopes, landed, crossed>>
      BY <1>2, <2>2 DEF AppendOther, Row, Kind, LedgerInv, TypeOK, flight
    <3> HIDE DEF r
    <3>2. PortfolioRows(rows') = PortfolioRows(rows) /\ Latest(rows') = Latest(rows)
      BY <1>2, <3>1, <2>types, LatestOfOtherRow DEF HeadLocated
    <3>3. \A i \in PortfolioRows(rows) : rows'[i] = rows[i]
      BY <1>2, RowsKeptStep DEF RowsKept, PortfolioRows
    <3> QED  BY <3>1, <3>2, <3>3 DEF Canonical!absVars, Attested, Undisturbed
  <2>3. ASSUME NEW k \in DOMAIN givenUp, Land(k) PROVE Canonical!Next
    <3>1. /\ rows' = Append(rows, givenUp[k]) /\ envelopes' = envelopes
          /\ Undisturbed' = FALSE
      BY <2>3 DEF Land, Undisturbed
    <3>2. givenUp[k] \in SnapshotRow
      BY <2>3, <2>types
    <3>3. anchorOf[givenUp[k].artifact] \in Attested \cup {NoArtifact}
      BY <1>2, <2>3 DEF AnchorAttested, Attestable
    <3> QED  BY <2>row, <3>1, <3>2, <3>3
  <2>4. CASE Tick \/ (\E w \in Writer, a \in Artifact : Submit(w, a))
             \/ (\E p \in Process : Crash(p)) \/ UNCHANGED vars
    <3>1. UNCHANGED <<rows, envelopes, landed, crossed>>
      BY <2>4 DEF Tick, Submit, Crash, GiveUp, vars, flight
    <3> QED  BY <3>1, <2>same
  <2> QED  BY <1>2, <2>1, <2>2, <2>3, <2>4 DEF Next
<1> QED  BY <1>1, <1>2, ChainInvariant, PTL DEF Spec, ImplementsCanonicalHead, Canonical!Spec
-----------------------------------------------------------------------------
(* Callers of several processes, each with a lock of its own *)

(* Only the call that finds its artifact at the head, and so skips the     *)
(* recheck, may publish a second continuation of an anchor.                *)
LEMMA OnlyRecoveryForks ==
    ASSUME LedgerInv, NoFork, [Next]_vars, ~ \E w \in Writer : Recover(w)
    PROVE  NoFork'
<1>1. CASE envelopes' = envelopes
  BY <1>1 DEF NoFork
<1>2. ASSUME NEW w \in Writer, Recheck(w) PROVE NoFork'
  <2> DEFINE a == call[w].artifact
             added == EnvelopeOf(w)
  <2>1. PICK i \in DOMAIN rows : Children(rows, anchorOf[a]) = {i} /\ rows[i].artifact = a
    BY <1>2 DEF Recheck, OnlyChild
  <2>2. ASSUME NEW e \in envelopes, anchorOf[e.artifact] = anchorOf[a]
        PROVE  e.artifact = a
    <3>1. /\ e.location \in DOMAIN rows
          /\ rows[e.location] = [kind |-> "portfolio_snapshot", artifact |-> e.artifact,
                                 appendedAt |-> e.appendedAt]
      BY DEF LedgerInv, EnvelopeExact
    <3>2. rows[e.location].kind = "portfolio_snapshot" /\ rows[e.location].artifact = e.artifact
      BY <3>1
    <3>3. e.location \in Children(rows, anchorOf[a])
      BY <2>2, <3>1, <3>2 DEF Children, PortfolioRows
    <3> QED
      BY <2>1, <3>2, <3>3
  <2>3. added.artifact = a /\ envelopes' = envelopes \cup {added}
    BY <1>2 DEF EnvelopeOf, Recheck
  <2> HIDE DEF a, added
  <2> QED
    BY <2>2, <2>3 DEF NoFork
<1>3. ASSUME NEW w \in Writer, Step(w) PROVE envelopes' = envelopes \/ Recheck(w)
  BY <1>3 DEF Step, Acquire, ReadHead, Stale, ScanFound, ScanAbsent, Post, PostUnanswered,
     PostTimesOut, ReadBack, ReadBackInvalid, Competing, ServiceFails
<1>4. ASSUME NEW w \in Writer, NEW a \in Artifact, Submit(w, a) PROVE envelopes' = envelopes
  BY <1>4 DEF Submit
<1>5. ASSUME NEW p \in Process, Crash(p) PROVE envelopes' = envelopes
  BY <1>5 DEF Crash
<1>6. CASE Tick \/ AppendOther \/ (\E k \in DOMAIN givenUp : Land(k)) \/ UNCHANGED vars
  BY <1>1, <1>6 DEF Tick, AppendOther, Land, vars
<1> QED
  BY <1>1, <1>2, <1>3, <1>4, <1>5, <1>6 DEF Next

(* In any arrangement of threads, processes, retries and crashes, a fork   *)
(* of the attested chain is published by a recovering call: the recheck    *)
(* (sheets.py:294-298) catches every other one, without any lock.          *)
THEOREM ForksAreRecoveries ==
    Spec => [][NoFork /\ ~NoFork' => \E w \in Writer : Recover(w)]_vars
<1>1. LedgerInv /\ [Next]_vars =>
        [NoFork /\ ~NoFork' => \E w \in Writer : Recover(w)]_vars
  BY OnlyRecoveryForks
<1> QED  BY <1>1, LedgerInvariant, PTL DEF Spec

Before == {"waiting", "head", "scan", "post"}

(* No artifact has been handed in twice *)
Unrepeated == \A a \in Artifact : tries[a] <= 1

(* Each artifact is in one call, and no row has it, nor any request that   *)
(* was given up, before its call posts.                                    *)
OneTry ==
    /\ \A w \in Writer :
          call[w].stage # "idle" => tries[call[w].artifact] >= 1 /\ ~call[w].recovering
    /\ \A v, w \in Writer :
          /\ call[v].stage # "idle" /\ call[w].stage # "idle"
          /\ call[v].artifact = call[w].artifact
          => v = w
    /\ \A i \in PortfolioRows(rows) :
          /\ tries[rows[i].artifact] >= 1
          /\ \A w \in Writer : call[w].stage \in Before => call[w].artifact # rows[i].artifact
    /\ \A k \in DOMAIN givenUp :
          /\ tries[givenUp[k].artifact] >= 1
          /\ \A w \in Writer : call[w].stage \in Before => call[w].artifact # givenUp[k].artifact

(* A call never goes back to before its post, and only the comparison of   *)
(* the head makes it a recovering one.                                     *)
LEMMA StageOrder ==
    ASSUME TypeOK, NEW w \in Writer, Step(w)
    PROVE  /\ call'[w].stage \in Before =>
                  call[w].stage \in Before /\ rows' = rows /\ givenUp' = givenUp
           /\ call'[w].recovering =>
                  call[w].recovering
                  \/ (call[w].stage = "head" /\ Latest(rows) = call[w].artifact)
<1>types. call \in [Writer -> Call] /\ NoCall.stage = "idle" /\ NoCall.recovering = FALSE
  BY DEF TypeOK, NoCall
<1>leave. Leave(w) => call'[w] = NoCall
  BY <1>types DEF Leave
<1> USE DEF Before, flight
<1>1. CASE Acquire(w)
  BY <1>1, <1>types DEF Acquire, Call
<1>2. CASE ReadHead(w)
  <2>1. /\ call'[w].stage = "scan" /\ call[w].stage = "head" /\ rows' = rows
        /\ call'[w].recovering = (Latest(rows) = call[w].artifact) /\ givenUp' = givenUp
    BY <1>2, <1>types DEF ReadHead, Call
  <2> QED  BY <2>1
<1>3. CASE Stale(w)
  BY <1>3, <1>leave, <1>types DEF Stale
<1>4. CASE ScanFound(w)
  <2>1. call'[w].stage = "readback" /\ call'[w].recovering = call[w].recovering
    BY <1>4, <1>types DEF ScanFound, Call
  <2> QED  BY <2>1
<1>5. CASE ScanAbsent(w)
  BY <1>5, <1>types DEF ScanAbsent, Call
<1>6. CASE Post(w)
  BY <1>6, <1>types DEF Post, Call
<1>7. CASE PostUnanswered(w)
  BY <1>7, <1>leave, <1>types DEF PostUnanswered
<1>8. CASE Recover(w)
  BY <1>8, <1>leave, <1>types DEF Recover
<1>9. CASE ReadBack(w)
  BY <1>9, <1>types DEF ReadBack, Call
<1>10. CASE ReadBackInvalid(w)
  BY <1>10, <1>leave, <1>types DEF ReadBackInvalid
<1>11. CASE Recheck(w)
  BY <1>11, <1>leave, <1>types DEF Recheck
<1>12. CASE Competing(w)
  BY <1>12, <1>leave, <1>types DEF Competing
<1>13. CASE ServiceFails(w)
  BY <1>13, <1>leave, <1>types DEF ServiceFails
<1>14. CASE PostTimesOut(w)
  BY <1>14, <1>leave, <1>types DEF PostTimesOut
<1> QED  BY <1>1, <1>2, <1>3, <1>4, <1>5, <1>6, <1>7, <1>8, <1>9, <1>10, <1>11, <1>12, <1>13,
            <1>14 DEF Step

(* Calls are only ever counted up. *)
LEMMA UnrepeatedBefore == TypeOK /\ [Next]_vars /\ Unrepeated' => Unrepeated
<1> SUFFICES ASSUME TypeOK, [Next]_vars PROVE \A a \in Artifact : tries[a] <= tries'[a]
  <2>1. TypeOK /\ [Next]_vars => tries' \in [Artifact -> Nat] /\ tries \in [Artifact -> Nat]
    BY TypeOKStep DEF TypeOK
  <2> QED  BY <2>1 DEF Unrepeated
<1>types. tries \in [Artifact -> Nat]
  BY DEF TypeOK
<1>1. CASE tries' = tries
  BY <1>1, <1>types
<1>2. ASSUME NEW w \in Writer, NEW a \in Artifact, Submit(w, a)
      PROVE  \A b \in Artifact : tries[b] <= tries'[b]
  BY <1>2, <1>types DEF Submit
<1>3. ASSUME NEW w \in Writer, Step(w) PROVE tries' = tries
  BY <1>3 DEF Step, Acquire, ReadHead, Stale, ScanFound, ScanAbsent, Post, PostUnanswered,
     PostTimesOut, Recover, ReadBack, ReadBackInvalid, Recheck, Competing, ServiceFails
<1> QED  BY <1>1, <1>2, <1>3 DEF Next, Tick, AppendOther, Crash, Land, vars

LEMMA OneTryStep ==
    ASSUME SharedInv, OneTry, [Next]_vars, Unrepeated'
    PROVE  OneTry'
<1>types. /\ rows \in Seq(Row) /\ call \in [Writer -> Call] /\ tries \in [Artifact -> Nat]
          /\ \A w \in Writer : call[w].stage # "idle" => call[w].artifact \in Artifact
          /\ \A i \in PortfolioRows(rows) : rows[i].artifact \in Artifact
          /\ givenUp \in Seq(SnapshotRow) /\ \A k \in DOMAIN givenUp : givenUp[k].artifact \in Artifact
          /\ NoArtifact \notin Artifact
  <2>1. TypeOK /\ \A r \in SnapshotRow : r.artifact \in Artifact
    BY DEF SharedInv, LedgerInv, SnapshotRow
  <2>2. \A k \in DOMAIN givenUp : givenUp[k] \in SnapshotRow
    BY <2>1 DEF TypeOK
  <2> QED  BY <2>1, <2>2 DEF TypeOK, PortfolioHeadAssumption
<1>kept. RowsKept
  BY RowsKeptStep DEF SharedInv
<1>same. ASSUME rows' = rows PROVE PortfolioRows(rows') = PortfolioRows(rows)
  BY <1>same
(* A step that starts no call adds rows and requests, if any, of artifacts *)
(* in F: counted, and with no call that has yet to post.                   *)
<1> DEFINE Adds(F) ==
    /\ tries' = tries
    /\ \A v \in Writer : call'[v].stage # "idle" =>
          /\ call[v].stage # "idle" /\ call'[v].artifact = call[v].artifact
          /\ ~call'[v].recovering
    /\ \A v \in Writer : call'[v].stage \in Before => call[v].stage \in Before
    /\ \A a \in F : /\ tries[a] >= 1
                    /\ \A v \in Writer : call'[v].stage \in Before => call'[v].artifact # a
    /\ \A i \in PortfolioRows(rows') :
          (i \in PortfolioRows(rows) /\ rows'[i] = rows[i]) \/ rows'[i].artifact \in F
    /\ \A k \in DOMAIN givenUp' :
          (k \in DOMAIN givenUp /\ givenUp'[k] = givenUp[k]) \/ givenUp'[k].artifact \in F
<1>add. ASSUME NEW F, Adds(F) PROVE OneTry'
  <2>1. \A v \in Writer : call'[v].stage \in Before => call'[v].stage # "idle"
    BY DEF Before
  <2>2. \A v \in Writer :
           call'[v].stage # "idle" => tries'[call'[v].artifact] >= 1 /\ ~call'[v].recovering
    BY <1>add DEF OneTry
  <2>3. \A v, u \in Writer :
           /\ call'[v].stage # "idle" /\ call'[u].stage # "idle"
           /\ call'[v].artifact = call'[u].artifact
           => v = u
    BY <1>add DEF OneTry
  <2>4. ASSUME NEW i \in PortfolioRows(rows')
        PROVE  /\ tries'[rows'[i].artifact] >= 1
               /\ \A v \in Writer :
                     call'[v].stage \in Before => call'[v].artifact # rows'[i].artifact
    BY <1>add, <2>1 DEF OneTry
  <2>5. ASSUME NEW k \in DOMAIN givenUp'
        PROVE  /\ tries'[givenUp'[k].artifact] >= 1
               /\ \A v \in Writer :
                     call'[v].stage \in Before => call'[v].artifact # givenUp'[k].artifact
    BY <1>add, <2>1 DEF OneTry
  <2> QED  BY <2>2, <2>3, <2>4, <2>5 DEF OneTry
<1> HIDE DEF Adds
<1>giveup. ASSUME NEW w \in Writer, GiveUp(w)
           PROVE  /\ call[w].stage = "post" /\ tries[call[w].artifact] >= 1
                  /\ \A v \in Writer : v # w /\ call[v].stage \in Before
                                                => call[v].artifact # call[w].artifact
                  /\ \A k \in DOMAIN givenUp' : \/ k \in DOMAIN givenUp /\ givenUp'[k] = givenUp[k]
                                                \/ givenUp'[k].artifact = call[w].artifact
  <2>1. call[w].stage = "post" /\ givenUp' = Append(givenUp, NewRow(w))
    BY <1>giveup DEF GiveUp
  <2>2. NewRow(w).artifact = call[w].artifact
    BY DEF NewRow
  <2>3. \A k \in DOMAIN givenUp' : \/ k \in DOMAIN givenUp /\ givenUp'[k] = givenUp[k]
                                   \/ givenUp'[k] = NewRow(w)
    BY <2>1, <1>types
  <2> QED  BY <2>1, <2>2, <2>3 DEF OneTry, Before
<1>1. ASSUME NEW w \in Writer, NEW a \in Artifact, Submit(w, a) PROVE OneTry'
  <2>1. /\ tries[a] = 0 /\ tries' = [tries EXCEPT ![a] = 1] /\ rows' = rows /\ givenUp' = givenUp
        /\ call'[w].stage = "waiting" /\ call'[w].artifact = a /\ ~call'[w].recovering
        /\ \A v \in Writer : v # w => call'[v] = call[v]
    <3>1. /\ tries' = [tries EXCEPT ![a] = @ + 1] /\ tries[a] \in Nat
          /\ rows' = rows /\ givenUp' = givenUp
      BY <1>1, <1>types DEF Submit, flight
    <3>2. tries'[a] = tries[a] + 1 /\ tries'[a] <= 1
      BY <3>1, <1>types DEF Unrepeated
    <3>3. tries[a] = 0
      BY <3>1, <3>2
    <3>4. tries' = [tries EXCEPT ![a] = 1]
      BY <3>1, <3>3
    <3>5. /\ call'[w].stage = "waiting" /\ call'[w].artifact = a /\ ~call'[w].recovering
          /\ \A v \in Writer : v # w => call'[v] = call[v]
      BY <1>1, <1>types DEF Submit, NoCall
    <3> QED  BY <3>1, <3>3, <3>4, <3>5
  <2>2. /\ \A v \in Writer : call[v].stage # "idle" => call[v].artifact # a
        /\ \A i \in PortfolioRows(rows) : rows[i].artifact # a
        /\ \A k \in DOMAIN givenUp : givenUp[k].artifact # a
    BY <2>1 DEF OneTry
  <2>3. \A b \in Artifact : tries'[b] >= tries[b] /\ tries'[b] \in Nat /\ tries'[a] = 1
    BY <2>1, <1>types
  <2>4. \A v \in Writer :
           call'[v].stage # "idle" => tries'[call'[v].artifact] >= 1 /\ ~call'[v].recovering
    <3>1. \A v \in Writer : call[v].stage # "idle" => tries'[call[v].artifact] >= 1
      BY <2>3, <1>types DEF OneTry
    <3> QED  BY <2>1, <2>3, <3>1 DEF OneTry
  <2>5. \A v, u \in Writer :
           /\ call'[v].stage # "idle" /\ call'[u].stage # "idle"
           /\ call'[v].artifact = call'[u].artifact
           => v = u
    BY <2>1, <2>2 DEF OneTry
  <2>6. /\ \A i \in PortfolioRows(rows) : tries'[rows[i].artifact] >= 1
        /\ \A k \in DOMAIN givenUp : tries'[givenUp[k].artifact] >= 1
    BY <2>3, <1>types DEF OneTry
  <2>7. \A v \in Writer : call'[v].stage \in Before =>
           /\ \A i \in PortfolioRows(rows) : call'[v].artifact # rows[i].artifact
           /\ \A k \in DOMAIN givenUp : call'[v].artifact # givenUp[k].artifact
    BY <2>1, <2>2 DEF OneTry
  <2> QED  BY <1>same, <2>1, <2>4, <2>5, <2>6, <2>7 DEF OneTry
<1>2. ASSUME NEW w \in Writer, Step(w) PROVE OneTry'
  <2> DEFINE a == call[w].artifact
  <2>1. /\ call[w].stage # "idle" /\ tries' = tries
        /\ \/ rows' = rows
           \/ call[w].stage = "post" /\ rows' = Append(rows, NewRow(w)) /\ givenUp' = givenUp
        /\ givenUp' = givenUp \/ GiveUp(w)
        /\ \A v \in Writer : v # w => call'[v] = call[v]
        /\ call'[w] = NoCall \/ (call'[w].stage # "idle" /\ call'[w].artifact = a)
    BY <1>2, StepEffect DEF SharedInv
  <2>2. NoCall.stage = "idle"
    BY DEF NoCall
  <2>3. a \in Artifact /\ tries[a] >= 1 /\ ~call[w].recovering
    BY <2>1, <1>types DEF OneTry
  <2>4. call[w].stage = "head" => Latest(rows) # a
    <3> SUFFICES ASSUME call[w].stage = "head", Latest(rows) = a PROVE FALSE
      OBVIOUS
    <3>1. PortfolioRows(rows) # {}
      BY <2>3, <1>types DEF Latest
    <3>2. PICK i \in PortfolioRows(rows) : rows[i].artifact = a
      BY <3>1, <1>types, LatestIsHeld DEF SharedInv, HeadLocated, Holding
    <3> QED  BY <3>2 DEF OneTry, Before
  <2>5. ~call'[w].recovering
    BY <1>2, <2>3, <2>4, StageOrder DEF SharedInv, LedgerInv
  <2>6. \A v \in Writer :
           call'[v].stage # "idle" => /\ call[v].stage # "idle"
                                      /\ call'[v].artifact = call[v].artifact
                                      /\ ~call'[v].recovering
    BY <2>1, <2>2, <2>5 DEF OneTry
  <2>7. /\ call'[w].stage \in Before => rows' = rows /\ givenUp' = givenUp
        /\ \A v \in Writer : call'[v].stage \in Before => call[v].stage \in Before
    BY <1>2, <2>1, StageOrder DEF SharedInv, LedgerInv
  <2>kept. ASSUME rows' = rows
           PROVE  \A i \in PortfolioRows(rows') : i \in PortfolioRows(rows) /\ rows'[i] = rows[i]
    BY <2>kept, <1>same
  <2>others. ASSUME call[w].stage = "post", call'[w].stage \notin Before
             PROVE  \A v \in Writer : call'[v].stage \in Before => call'[v].artifact # a
    BY <2>others, <2>1 DEF OneTry, Before
  <2> HIDE DEF a
  <2>8. CASE rows' = rows /\ givenUp' = givenUp
    <3>1. Adds({})
      BY <2>1, <2>6, <2>7, <2>8, <2>kept DEF Adds
    <3> QED  BY <1>add, <3>1
  <2>9. CASE rows' = rows /\ GiveUp(w) /\ givenUp' # givenUp
    <3>1. \A b \in {a} : /\ tries[b] >= 1
                         /\ \A v \in Writer : call'[v].stage \in Before => call'[v].artifact # b
      BY <2>3, <2>7, <2>9, <2>others DEF GiveUp
    <3>2. \A k \in DOMAIN givenUp' : \/ k \in DOMAIN givenUp /\ givenUp'[k] = givenUp[k]
                                     \/ givenUp'[k].artifact \in {a}
      BY <2>9, <1>giveup DEF a
    <3>adds. Adds({a})
      BY <2>1, <2>6, <2>7, <2>9, <2>kept, <3>1, <3>2 DEF Adds
    <3> QED  BY <1>add, <3>adds
  <2>10. CASE call[w].stage = "post" /\ rows' = Append(rows, NewRow(w)) /\ givenUp' = givenUp
    <3>1. NewRow(w) \in Row /\ NewRow(w).kind = "portfolio_snapshot" /\ NewRow(w).artifact = a
      BY <2>3, <1>types DEF NewRow, Row, Kind, Call, a
    <3>2. PortfolioRows(rows') = PortfolioRows(rows) \cup {Len(rows) + 1}
      BY <2>10, <3>1, <1>types, LatestOfPortfolioRow
    <3>3. rows'[Len(rows) + 1] = NewRow(w) /\ rows' # rows
      BY <2>10, <1>types
    <3>4. \A i \in PortfolioRows(rows) : rows'[i] = rows[i]
      BY <1>kept DEF RowsKept, PortfolioRows
    <3>5. \A i \in PortfolioRows(rows') : \/ i \in PortfolioRows(rows) /\ rows'[i] = rows[i]
                                          \/ rows'[i].artifact \in {a}
      BY <3>1, <3>2, <3>3, <3>4
    <3>6. \A b \in {a} : /\ tries[b] >= 1
                         /\ \A v \in Writer : call'[v].stage \in Before => call'[v].artifact # b
      BY <2>3, <2>7, <2>10, <2>others, <3>3
    <3>adds. Adds({a})
      BY <2>1, <2>6, <2>7, <2>10, <3>5, <3>6 DEF Adds
    <3> QED  BY <1>add, <3>adds
  <2> QED  BY <2>1, <2>8, <2>9, <2>10
<1>calls. ASSUME \A v \in Writer : call'[v] = NoCall \/ call'[v] = call[v]
          PROVE  /\ \A v \in Writer : call'[v].stage # "idle" =>
                       /\ call[v].stage # "idle" /\ call'[v].artifact = call[v].artifact
                       /\ ~call'[v].recovering
                 /\ \A v \in Writer : call'[v].stage \in Before => call[v].stage \in Before
                                                               /\ call'[v] = call[v]
  BY <1>calls DEF OneTry, NoCall, Before
<1>3. ASSUME NEW p \in Process, Crash(p) PROVE OneTry'
  <2>1. /\ rows' = rows /\ tries' = tries
        /\ \A v \in Writer : call'[v] = NoCall \/ call'[v] = call[v]
        /\ givenUp' = givenUp \/ \E w \in Writer : procOf[w] = p /\ GiveUp(w)
    BY <1>3 DEF Crash, flight
  <2>2. \A i \in PortfolioRows(rows') : i \in PortfolioRows(rows) /\ rows'[i] = rows[i]
    BY <2>1, <1>same
  <2>3. CASE givenUp' = givenUp
    <3>1. Adds({})
      BY <1>calls, <2>1, <2>2, <2>3 DEF Adds
    <3> QED  BY <1>add, <3>1
  <2>4. ASSUME NEW w \in Writer, procOf[w] = p, GiveUp(w) PROVE OneTry'
    <3>1. call'[w].stage \notin Before
      BY <1>3, <2>4 DEF Crash, NoCall, Before
    <3>2. \A b \in {call[w].artifact} :
             /\ tries[b] >= 1
             /\ \A v \in Writer : call'[v].stage \in Before => call'[v].artifact # b
      BY <1>giveup, <1>calls, <2>1, <2>4, <3>1
    <3>3. \A k \in DOMAIN givenUp' : \/ k \in DOMAIN givenUp /\ givenUp'[k] = givenUp[k]
                                     \/ givenUp'[k].artifact \in {call[w].artifact}
      BY <1>giveup, <2>4
    <3>adds. Adds({call[w].artifact})
      BY <1>calls, <2>1, <2>2, <3>2, <3>3 DEF Adds
    <3> QED  BY <1>add, <3>adds
  <2> QED  BY <2>1, <2>3, <2>4
<1>4. CASE AppendOther
  <2> DEFINE r == [kind |-> "other", artifact |-> NoArtifact, appendedAt |-> now]
  <2>1. /\ r \in Row /\ r.kind = "other" /\ rows' = Append(rows, r)
        /\ UNCHANGED <<call, tries, givenUp>>
    BY <1>4 DEF AppendOther, Row, Kind, SharedInv, LedgerInv, TypeOK, flight
  <2> HIDE DEF r
  <2>2. PortfolioRows(rows') = PortfolioRows(rows)
    BY <2>1, <1>types, LatestOfOtherRow DEF SharedInv, HeadLocated
  <2>3. \A i \in PortfolioRows(rows') : i \in PortfolioRows(rows) /\ rows'[i] = rows[i]
    BY <2>2, <1>kept DEF RowsKept, PortfolioRows
  <2>adds. Adds({})
    BY <1>calls, <2>1, <2>3 DEF Adds
  <2> QED  BY <1>add, <2>adds
<1>5. ASSUME NEW k \in DOMAIN givenUp, Land(k) PROVE OneTry'
  <2> DEFINE r == givenUp[k]
  <2>1. rows' = Append(rows, r) /\ UNCHANGED <<call, tries, givenUp>>
    BY <1>5 DEF Land
  <2>2. r \in Row /\ r.kind = "portfolio_snapshot"
    <3>1. r \in SnapshotRow
      BY <1>types
    <3> QED  BY <3>1 DEF SnapshotRow, Row, Kind
  <2>3. \A b \in {r.artifact} : /\ tries[b] >= 1
                                /\ \A v \in Writer : call'[v].stage \in Before => call'[v].artifact # b
    BY <2>1 DEF OneTry
  <2> HIDE DEF r
  <2>4. PortfolioRows(rows') = PortfolioRows(rows) \cup {Len(rows) + 1}
    BY <2>1, <2>2, <1>types, LatestOfPortfolioRow
  <2>5. rows'[Len(rows) + 1] = r /\ \A i \in PortfolioRows(rows) : rows'[i] = rows[i]
    BY <2>1, <1>types, <1>kept DEF RowsKept, PortfolioRows
  <2>6. \A i \in PortfolioRows(rows') : \/ i \in PortfolioRows(rows) /\ rows'[i] = rows[i]
                                        \/ rows'[i].artifact \in {r.artifact}
    BY <2>4, <2>5
  <2>adds. Adds({r.artifact})
    BY <1>calls, <2>1, <2>3, <2>6 DEF Adds
  <2> QED  BY <1>add, <2>adds
<1>6. CASE Tick \/ UNCHANGED vars
  <2>1. UNCHANGED <<rows, tries, call, givenUp>>
    BY <1>6 DEF Tick, vars, flight
  <2>2. \A i \in PortfolioRows(rows') : i \in PortfolioRows(rows) /\ rows'[i] = rows[i]
    BY <2>1, <1>same
  <2>adds. Adds({})
    BY <1>calls, <2>1, <2>2 DEF Adds
  <2> QED  BY <1>add, <2>adds
<1> QED  BY <1>1, <1>2, <1>3, <1>4, <1>5, <1>6 DEF Next

(* As long as no artifact is handed in twice, callers of any number of     *)
(* processes, none of which sees the locks of the others, and requests     *)
(* that land however late do not fork the attested chain: the recheck      *)
(* after the append (sheets.py:294-298) stands in for the lock. With a     *)
(* retry it does not.                                                      *)
THEOREM ForkFreeUnretried == Spec => []ForkNeedsRetry
<1> DEFINE IInv == SharedInv /\ (Unrepeated => OneTry /\ NoFork)
<1>1. ASSUME Init PROVE IInv
  <2>1. /\ PortfolioRows(rows) = {} /\ envelopes = {} /\ DOMAIN givenUp = {}
        /\ \A w \in Writer : call[w].stage = "idle"
    BY <1>1 DEF Init, PortfolioRows, NoCall
  <2>2. \A w \in Writer : call[w].stage \notin Before
    BY <2>1 DEF Before
  <2> QED  BY <1>1, <2>1, <2>2, SharedInvInit DEF OneTry, NoFork
<1>2. ASSUME IInv, [Next]_vars PROVE IInv'
  <2>1. SharedInv'
    BY <1>2, SharedInvStep
  <2>2. ASSUME Unrepeated' PROVE OneTry' /\ NoFork'
    <3>1. OneTry /\ NoFork /\ LedgerInv
      BY <1>2, <2>2, UnrepeatedBefore DEF SharedInv, LedgerInv
    <3>2. ~ \E w \in Writer : Recover(w)
      BY <3>1 DEF OneTry, Recover
    <3> QED  BY <1>2, <2>2, <3>1, <3>2, OneTryStep, OnlyRecoveryForks
  <2> QED  BY <2>1, <2>2
<1>3. IInv => ForkNeedsRetry
  BY DEF ForkNeedsRetry, Unrepeated
<1> QED  BY <1>1, <1>2, <1>3, PTL DEF Spec
=============================================================================
