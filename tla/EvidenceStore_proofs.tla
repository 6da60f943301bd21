------------------------ MODULE EvidenceStore_proofs ------------------------
(***************************************************************************)
(* What holds of EvidenceStore for every number of callers and packets and *)
(* every bound.  StoreInv is the inductive invariant: the lock excludes,   *)
(* and while a caller holds it the file is the one it has read.            *)
(***************************************************************************)
EXTENDS EvidenceStore, SequenceTheorems, TLAPS

Holding == {"read", "write", "sync", "replace", "return"}

Extending == {"write", "sync", "replace"}

(* Who is past the lock has it *)
Exclusion == \A a \in Appender : call[a].stage \in Holding => lock = a

(* What a caller is about to put in place is the file and its packet *)
Current ==
    \A a \in Appender :
        /\ call[a].stage \in Extending =>
              /\ call[a].packet \notin Entries(rows)
              /\ call[a].next = Append(rows, call[a].packet)
        /\ call[a].stage = "replace" => call[a].flushed
        /\ call[a].stage = "return" =>
              call[a].packet \in Entries(rows) /\ accepted[call[a].packet] = 0

(* The file and what the disk has of it *)
Whole ==
    /\ rows \in Seq(Packet) /\ disk \in Seq(Packet) /\ synced = TRUE
    /\ PacketOnce
    /\ Len(disk) <= Len(rows)
    /\ \A i \in 1 .. Len(disk) : disk[i] = rows[i]

(* Answers speak of what is in the file *)
AnswersBacked ==
    /\ answered \subseteq Entries(rows)
    /\ \A p \in Packet : accepted[p] <= 1 /\ (accepted[p] # 0 => p \in Entries(rows))

StoreInv == TypeOK /\ Exclusion /\ Current /\ Whole /\ AnswersBacked

-----------------------------------------------------------------------------
(* The lines of a file extended by one *)
LEMMA EntriesAppend ==
    ASSUME NEW S, NEW s \in Seq(S), NEW e \in S
    PROVE  /\ Append(s, e) \in Seq(S)
           /\ Entries(Append(s, e)) = Entries(s) \cup {e}
           /\ Len(Append(s, e)) = Len(s) + 1
           /\ \A i \in 1 .. Len(s) : Append(s, e)[i] = s[i]
<1>1. /\ Append(s, e) \in Seq(S) /\ Len(Append(s, e)) = Len(s) + 1
      /\ \A i \in 1 .. Len(s) : Append(s, e)[i] = s[i]
      /\ Append(s, e)[Len(s) + 1] = e
  OBVIOUS
<1>2. DOMAIN Append(s, e) = 1 .. Len(s) + 1 /\ DOMAIN s = 1 .. Len(s) /\ Len(s) \in Nat
  OBVIOUS
<1>3. Entries(Append(s, e)) \subseteq Entries(s) \cup {e}
  <2> SUFFICES ASSUME NEW i \in 1 .. Len(s) + 1
               PROVE  Append(s, e)[i] \in Entries(s) \cup {e}
    BY <1>2 DEF Entries
  <2>1. CASE i \in 1 .. Len(s)
    BY <2>1, <1>1, <1>2 DEF Entries
  <2>2. CASE i = Len(s) + 1
    BY <2>2, <1>1
  <2> QED
    BY <2>1, <2>2, <1>2
<1>4. Entries(s) \cup {e} \subseteq Entries(Append(s, e))
  <2>1. ASSUME NEW x \in Entries(s) PROVE x \in Entries(Append(s, e))
    <3>1. PICK i \in 1 .. Len(s) : x = s[i]
      BY <1>2 DEF Entries
    <3>2. i \in 1 .. Len(s) + 1 /\ Append(s, e)[i] = x
      BY <3>1, <1>1, <1>2
    <3> QED
      BY <3>2, <1>2 DEF Entries
  <2>2. Len(s) + 1 \in 1 .. Len(s) + 1
    BY <1>2
  <2>3. e \in Entries(Append(s, e))
    BY <2>2, <1>1, <1>2 DEF Entries
  <2> QED
    BY <2>1, <2>3
<1> QED
  BY <1>1, <1>3, <1>4

(* A new packet at the end keeps packets distinct *)
LEMMA AppendKeepsDistinct ==
    ASSUME NEW S, NEW s \in Seq(S), NEW e \in S, e \notin Entries(s),
           \A i, j \in DOMAIN s : s[i] = s[j] => i = j
    PROVE  \A i, j \in DOMAIN Append(s, e) : Append(s, e)[i] = Append(s, e)[j] => i = j
<1>1. DOMAIN Append(s, e) = 1 .. Len(s) + 1 /\ DOMAIN s = 1 .. Len(s) /\ Len(s) \in Nat
  OBVIOUS
<1>2. /\ \A i \in 1 .. Len(s) : Append(s, e)[i] = s[i]
      /\ Append(s, e)[Len(s) + 1] = e
  OBVIOUS
<1>3. \A i \in 1 .. Len(s) : s[i] # e
  BY <1>1 DEF Entries
<1> SUFFICES ASSUME NEW i \in 1 .. Len(s) + 1, NEW j \in 1 .. Len(s) + 1,
                    Append(s, e)[i] = Append(s, e)[j]
             PROVE  i = j
  BY <1>1
<1>4. CASE i \in 1 .. Len(s) /\ j \in 1 .. Len(s)
  BY <1>4, <1>1, <1>2
<1>5. CASE i = Len(s) + 1 /\ j \in 1 .. Len(s)
  BY <1>5, <1>2, <1>3
<1>6. CASE i \in 1 .. Len(s) /\ j = Len(s) + 1
  BY <1>6, <1>2, <1>3
<1>7. CASE i = Len(s) + 1 /\ j = Len(s) + 1
  BY <1>7
<1> QED
  BY <1>1, <1>4, <1>5, <1>6, <1>7

(* A beginning of a file is one of its initial segments *)
LEMMA BeginningIsSegment ==
    ASSUME NEW S, NEW s \in Seq(S), NEW t \in Seq(S), Len(s) <= Len(t),
           \A i \in 1 .. Len(s) : s[i] = t[i]
    PROVE  \E n \in 0 .. Len(t) : s = SubSeq(t, 1, n)
<1>1. Len(s) \in 0 .. Len(t)
  OBVIOUS
<1>2. SubSeq(t, 1, Len(s)) \in Seq(S) /\ Len(SubSeq(t, 1, Len(s))) = Len(s)
  BY <1>1
<1>3. \A i \in 1 .. Len(s) : SubSeq(t, 1, Len(s))[i] = t[i]
  BY <1>1
<1>4. s = SubSeq(t, 1, Len(s))
  BY <1>2, <1>3, SeqEqual
<1> QED
  BY <1>1, <1>4

-----------------------------------------------------------------------------
LEMMA InitEstablishes == Init => StoreInv
<1> SUFFICES ASSUME Init PROVE StoreInv
  OBVIOUS
<1>1. NoCall \in Call /\ NoCall.stage = "idle"
  BY DEF NoCall, Call, Stage
<1>2. TypeOK
  BY <1>1, StoreAssumption DEF Init, TypeOK
<1>3. Exclusion /\ Current
  BY DEF Init, Exclusion, Current, NoCall, Holding, Extending
<1>4. Whole
  BY DEF Init, Whole, PacketOnce
<1>5. AnswersBacked
  BY DEF Init, AnswersBacked
<1> QED
  BY <1>2, <1>3, <1>4, <1>5 DEF StoreInv

(* Types are kept by every step *)
LEMMA TypeOKStep == TypeOK /\ [Next]_vars => TypeOK'
<1> SUFFICES ASSUME TypeOK, [Next]_vars PROVE TypeOK'
  OBVIOUS
<1> USE StoreAssumption DEF TypeOK
<1>0. NoCall \in Call /\ NoCall.stage = "idle"
  BY DEF NoCall, Call, Stage
<1>1. ASSUME NEW a \in Appender, End(a)
      PROVE  /\ call' \in [Appender -> Call] /\ lock' \in Appender \cup {NoAppender}
             /\ \A b \in Appender : call'[b].stage # "idle" => call'[b].packet \in Packet
  BY <1>1, <1>0 DEF End
<1>2. ASSUME NEW a \in Appender, NEW p \in Packet, Submit(a, p) PROVE TypeOK'
  <2>1. NewCall(p) \in Call /\ NewCall(p).packet = p
    BY DEF NewCall, Call, Stage
  <2> QED
    BY <1>2, <2>1 DEF Submit
<1>3. ASSUME NEW a \in Appender, Acquire(a) PROVE TypeOK'
  BY <1>3 DEF Acquire, Call, Stage
<1>4. ASSUME NEW a \in Appender, ReadFound(a) PROVE TypeOK'
  BY <1>4, <1>1 DEF ReadFound
<1>5. ASSUME NEW a \in Appender, ReadAbsent(a) PROVE TypeOK'
  <2>1. Append(rows, call[a].packet) \in Seq(Row)
    BY <1>5, EntriesAppend DEF ReadAbsent, Row
  <2> QED
    BY <1>5, <2>1 DEF ReadAbsent, Call, Stage
<1>6. ASSUME NEW a \in Appender, Write(a) PROVE TypeOK'
  BY <1>6 DEF Write, Call, Stage
<1>7. ASSUME NEW a \in Appender, Sync(a) PROVE TypeOK'
  BY <1>7 DEF Sync, Call, Stage
<1>8. ASSUME NEW a \in Appender, Replace(a) PROVE TypeOK'
  BY <1>8 DEF Replace, Call, Stage
<1>9. ASSUME NEW a \in Appender, Return(a) PROVE TypeOK'
  <2>1. call[a].packet \in Packet
    BY <1>9 DEF Return
  <2>2. accepted' \in [Packet -> Nat] /\ answered' \subseteq Packet
    BY <1>9, <2>1 DEF Return
  <2> QED
    BY <1>9, <1>1, <2>2 DEF Return
<1>10. ASSUME NEW a \in Appender, Fails(a) PROVE TypeOK'
  BY <1>10, <1>1 DEF Fails, Fault
<1>11. ASSUME NEW a \in Appender, Kill(a) PROVE TypeOK'
  BY <1>11, <1>1 DEF Kill, Fault
<1>12. CASE Commit
  <2>1. Torn(rows) \in Seq(Row)
    BY DEF Torn, Row
  <2> QED
    BY <1>12, <2>1 DEF Commit
<1>13. CASE PowerCut
  <2>1. call' \in [Appender -> Call] /\ accepted' \in [Packet -> Nat]
    BY <1>13, <1>0 DEF PowerCut
  <2>2. \A b \in Appender : call'[b].stage = "idle"
    BY <1>13, <1>0 DEF PowerCut
  <2> QED
    BY <1>13, <2>1, <2>2 DEF PowerCut, Fault
<1>14. CASE UNCHANGED vars
  BY <1>14 DEF vars
<1> QED
  BY <1>2, <1>3, <1>4, <1>5, <1>6, <1>7, <1>8, <1>9, <1>10, <1>11, <1>12, <1>13, <1>14
     DEF Next, Step

(* Only the holder of the lock moves past it *)
LEMMA ExclusionStep == StoreInv /\ [Next]_vars => Exclusion'
<1> SUFFICES ASSUME StoreInv, [Next]_vars PROVE Exclusion'
  OBVIOUS
<1> USE DEF StoreInv, TypeOK, Exclusion, Holding
<1>0. NoCall.stage = "idle" /\ \A p : NewCall(p).stage = "wait"
  BY DEF NoCall, NewCall
<1>1. ASSUME NEW a \in Appender, End(a) PROVE Exclusion'
  BY <1>1, <1>0 DEF End
<1>2. ASSUME NEW a \in Appender, NEW p \in Packet, Submit(a, p) PROVE Exclusion'
  BY <1>2, <1>0 DEF Submit
<1>3. ASSUME NEW a \in Appender, Acquire(a) PROVE Exclusion'
  BY <1>3, StoreAssumption DEF Acquire
<1>4. ASSUME NEW a \in Appender, ReadFound(a) \/ Return(a) \/ Fails(a) \/ Kill(a) PROVE Exclusion'
  BY <1>4, <1>1 DEF ReadFound, Return, Fails, Kill
<1>5. ASSUME NEW a \in Appender, ReadAbsent(a) PROVE Exclusion'
  BY <1>5 DEF ReadAbsent
<1>6. ASSUME NEW a \in Appender, Write(a) \/ Sync(a) \/ Replace(a) PROVE Exclusion'
  BY <1>6 DEF Write, Sync, Replace
<1>7. CASE Commit \/ UNCHANGED vars
  BY <1>7 DEF Commit, vars
<1>8. CASE PowerCut
  BY <1>8, <1>0 DEF PowerCut
<1> QED
  BY <1>2, <1>3, <1>4, <1>5, <1>6, <1>7, <1>8 DEF Next, Step

(* The file grows only by the holder's packet *)
LEMMA WholeStep == StoreInv /\ [Next]_vars => Whole'
<1> SUFFICES ASSUME StoreInv, [Next]_vars PROVE Whole'
  OBVIOUS
<1> USE DEF StoreInv, TypeOK, Whole
<1>1. ASSUME NEW a \in Appender, Replace(a) PROVE Whole'
  <2> DEFINE p == call[a].packet
  <2>1. p \in Packet /\ p \notin Entries(rows) /\ rows' = Append(rows, p) /\ synced' = TRUE
    BY <1>1 DEF Replace, Current, Extending
  <2>2. /\ rows' \in Seq(Packet) /\ Len(rows') = Len(rows) + 1
        /\ \A i \in 1 .. Len(rows) : rows'[i] = rows[i]
    BY <2>1, EntriesAppend
  <2>3. PacketOnce'
    <3>1. \A i, j \in DOMAIN rows : rows[i] = rows[j] => i = j
      BY DEF PacketOnce
    <3>2. rows \in Seq(Packet)
      OBVIOUS
    <3>3. \A i, j \in DOMAIN Append(rows, p) :
             Append(rows, p)[i] = Append(rows, p)[j] => i = j
      BY ONLY <2>1, <3>1, <3>2, AppendKeepsDistinct
    <3> QED
      BY <2>1, <3>3 DEF PacketOnce
  <2>4. disk' = disk
    BY <1>1 DEF Replace
  <2>5. Len(disk) \in Nat /\ Len(rows) \in Nat
    OBVIOUS
  <2>6. Len(disk') <= Len(rows') /\ \A i \in 1 .. Len(disk') : disk'[i] = rows'[i]
    BY <2>2, <2>4, <2>5
  <2> QED
    BY <2>1, <2>2, <2>3, <2>4, <2>6
<1>2. CASE Commit
  <2>1. disk' = rows /\ rows' = rows /\ synced' = synced
    BY <1>2 DEF Commit
  <2> QED
    BY <2>1 DEF PacketOnce
<1>3. CASE PowerCut
  <2>1. rows' = disk /\ disk' = disk /\ synced' = TRUE
    BY <1>3 DEF PowerCut
  <2>2. \A i \in DOMAIN disk : i \in DOMAIN rows /\ disk[i] = rows[i]
    OBVIOUS
  <2>3. PacketOnce'
    BY <2>1, <2>2 DEF PacketOnce
  <2> QED
    BY <2>1, <2>3
<1>4. CASE UNCHANGED fileVars
  BY <1>4 DEF fileVars, PacketOnce
<1> QED
  BY <1>1, <1>2, <1>3, <1>4
     DEF Next, Step, fileVars, vars, Submit, Acquire, ReadFound, ReadAbsent, Write, Sync, Return,
         Fails, Kill

(* What the holder has read is the file until it replaces it *)
LEMMA CurrentStep == StoreInv /\ [Next]_vars => Current'
<1> SUFFICES ASSUME StoreInv, [Next]_vars PROVE Current'
  OBVIOUS
<1> USE DEF StoreInv, TypeOK
<1>0. NoCall.stage = "idle" /\ \A p : NewCall(p).stage = "wait"
  BY DEF NoCall, NewCall
<1>1. ASSUME NEW a \in Appender, End(a), UNCHANGED <<rows, accepted>> PROVE Current'
  BY <1>1, <1>0 DEF End, Current, Extending
<1>2. ASSUME NEW a \in Appender, NEW p \in Packet, Submit(a, p) PROVE Current'
  BY <1>2, <1>0 DEF Submit, Current, Extending
<1>3. ASSUME NEW a \in Appender, Acquire(a) PROVE Current'
  BY <1>3 DEF Acquire, Current, Extending
<1>4. ASSUME NEW a \in Appender, ReadFound(a) \/ Fails(a) \/ Kill(a) PROVE Current'
  BY <1>4, <1>1 DEF ReadFound, Fails, Kill
<1>5. ASSUME NEW a \in Appender, ReadAbsent(a) PROVE Current'
  <2>1. /\ call[a].packet \notin Entries(rows)
        /\ rows' = rows /\ accepted' = accepted
        /\ call' = [call EXCEPT ![a].stage = "write", ![a].next = Append(rows, call[a].packet)]
    BY <1>5 DEF ReadAbsent
  <2>2. /\ call'[a].stage = "write" /\ call'[a].packet = call[a].packet
        /\ call'[a].next = Append(rows, call[a].packet)
    BY <2>1 DEF Call
  <2>3. \A b \in Appender : b # a => call'[b] = call[b]
    BY <2>1
  <2> QED
    BY <2>1, <2>2, <2>3 DEF Current, Extending
<1>6. ASSUME NEW a \in Appender, Write(a) \/ Sync(a) PROVE Current'
  <2>1. \A b \in Appender : b # a => call'[b] = call[b]
    BY <1>6 DEF Write, Sync
  <2>2. CASE Write(a)
    BY <2>1, <2>2 DEF Write, Current, Extending, Call
  <2>3. CASE Sync(a)
    BY <2>1, <2>3 DEF Sync, Current, Extending, Call
  <2> QED
    BY <1>6, <2>2, <2>3
<1>7. ASSUME NEW a \in Appender, Replace(a) PROVE Current'
  <2>1. call[a].packet \in Packet /\ call[a].packet \notin Entries(rows)
        /\ rows' = Append(rows, call[a].packet)
    BY <1>7 DEF Replace, Current, Extending
  <2>2. call[a].packet \in Entries(rows') /\ accepted'[call[a].packet] = 0
    BY <1>7, <2>1, EntriesAppend DEF Replace, AnswersBacked, Whole
  <2>3. \A b \in Appender : b # a => call[b].stage \notin Holding
    BY <1>7 DEF Replace, Exclusion, Holding
  <2>4. \A b \in Appender : b # a => call'[b] = call[b]
    BY <1>7 DEF Replace
  <2>5. call'[a].stage = "return" /\ call'[a].packet = call[a].packet
    BY <1>7 DEF Replace, Call
  <2> QED
    BY <2>2, <2>3, <2>4, <2>5 DEF Current, Extending, Holding
<1>8. ASSUME NEW a \in Appender, Return(a) PROVE Current'
  <2>1. \A b \in Appender : b # a => call[b].stage \notin Holding /\ call'[b] = call[b]
    BY <1>8 DEF Return, End, Exclusion, Holding
  <2>2. call'[a].stage = "idle"
    BY <1>8, <1>0 DEF Return, End
  <2> QED
    BY <2>1, <2>2 DEF Current, Extending, Holding
<1>9. CASE Commit \/ UNCHANGED vars
  BY <1>9 DEF Commit, vars, Current
<1>10. CASE PowerCut
  BY <1>10, <1>0 DEF PowerCut, Current, Extending
<1> QED
  BY <1>2, <1>3, <1>4, <1>5, <1>6, <1>7, <1>8, <1>9, <1>10 DEF Next, Step

(* Answers are given for what is in the file, and True once *)
LEMMA AnswersBackedStep == StoreInv /\ [Next]_vars => AnswersBacked'
<1> SUFFICES ASSUME StoreInv, [Next]_vars PROVE AnswersBacked'
  OBVIOUS
<1> USE DEF StoreInv, TypeOK
<1>1. ASSUME NEW a \in Appender, ReadFound(a) PROVE AnswersBacked'
  BY <1>1 DEF ReadFound, AnswersBacked
<1>2. ASSUME NEW a \in Appender, Replace(a) PROVE AnswersBacked'
  <2>1. call[a].packet \in Packet /\ rows' = Append(rows, call[a].packet)
    BY <1>2 DEF Replace, Current, Extending
  <2>2. Entries(rows) \subseteq Entries(rows')
    BY <2>1, EntriesAppend DEF Whole
  <2> QED
    BY <1>2, <2>2 DEF Replace, AnswersBacked
<1>3. ASSUME NEW a \in Appender, Return(a) PROVE AnswersBacked'
  <2> DEFINE p == call[a].packet
  <2>1. p \in Packet /\ p \in Entries(rows) /\ accepted[p] = 0 /\ rows' = rows
    BY <1>3 DEF Return, Current
  <2>2. accepted'[p] = 1 /\ \A q \in Packet : q # p => accepted'[q] = accepted[q]
    BY <1>3, <2>1 DEF Return
  <2>3. answered' = answered \cup {p}
    BY <1>3 DEF Return
  <2> QED
    BY <2>1, <2>2, <2>3 DEF AnswersBacked
<1>4. CASE PowerCut
  BY <1>4 DEF PowerCut, AnswersBacked
<1>5. CASE UNCHANGED <<rows, accepted, answered>>
  BY <1>5 DEF AnswersBacked
<1> QED
  BY <1>1, <1>2, <1>3, <1>4, <1>5
     DEF Next, Step, vars, Submit, Acquire, ReadAbsent, Write, Sync, Fails, Kill, Commit

LEMMA StoreInvStep == StoreInv /\ [Next]_vars => StoreInv'
BY TypeOKStep, ExclusionStep, CurrentStep, WholeStep, AnswersBackedStep DEF StoreInv

LEMMA StoreInvHolds == Spec => []StoreInv
BY InitEstablishes, StoreInvStep, PTL DEF Spec

-----------------------------------------------------------------------------
(* Every variable keeps its type (market_data.py:178-204). *)
THEOREM StoreTypeCorrect == Spec => []TypeOK
<1>1. StoreInv => TypeOK
  BY DEF StoreInv
<1> QED
  BY <1>1, StoreInvHolds, PTL

(* The file never shows half a line, to a reader or after a power cut:     *)
(* data is synced before its name is given (market_data.py:196-201).       *)
THEOREM RowsWhole == Spec => []NoPartialRow
<1>1. StoreInv => NoPartialRow
  <2> SUFFICES ASSUME StoreInv PROVE NoPartialRow
    OBVIOUS
  <2>1. \A s \in Seq(Packet) : Entries(s) \subseteq Packet
    BY DEF Entries
  <2> QED
    BY <2>1, StoreAssumption DEF StoreInv, Whole, NoPartialRow
<1> QED
  BY <1>1, StoreInvHolds, PTL

(* A packet has one row, for any number of callers (market_data.py:190-195). *)
THEOREM PacketsDistinct == Spec => []PacketOnce
<1>1. StoreInv => PacketOnce
  BY DEF StoreInv, Whole
<1> QED
  BY <1>1, StoreInvHolds, PTL

(* One caller is told that it appended a packet (market_data.py:194, 204). *)
THEOREM AcceptedOnce == Spec => []OneAcceptance
<1>1. StoreInv => OneAcceptance
  BY DEF StoreInv, AnswersBacked, OneAcceptance
<1> QED
  BY <1>1, StoreInvHolds, PTL

LEMMA RefinementInit == Init => Log!Init
BY DEF Init, Log!Init

LEMMA RefinementStep == StoreInv /\ [Next]_vars => [Log!Next]_Log!logVars
<1> SUFFICES ASSUME StoreInv, [Next]_vars PROVE [Log!Next]_Log!logVars
  OBVIOUS
<1> USE DEF Log!logVars
<1>0. \A s : Log!Entries(s) = Entries(s)
  BY DEF Log!Entries, Entries
<1>1. ASSUME NEW a \in Appender, ReadFound(a) PROVE Log!Next
  <2>1. call[a].packet \in Packet
    BY <1>1 DEF ReadFound, StoreInv, TypeOK
  <2>2. Log!Acknowledge(call[a].packet)
    BY <1>0, <1>1 DEF ReadFound, Log!Acknowledge
  <2> QED
    BY <2>1, <2>2 DEF Log!Next
<1>2. ASSUME NEW a \in Appender, Replace(a) PROVE Log!Next
  <2>1. call[a].packet \in Packet
    BY <1>2 DEF Replace, StoreInv, TypeOK
  <2>2. Log!Add(call[a].packet)
    BY <1>0, <1>2 DEF Replace, Log!Add, StoreInv, Current, Extending
  <2> QED
    BY <2>1, <2>2 DEF Log!Next
<1>3. ASSUME NEW a \in Appender, Return(a) PROVE Log!Next
  <2>1. call[a].packet \in Packet
    BY <1>3 DEF Return, StoreInv, TypeOK
  <2>2. Log!Acknowledge(call[a].packet)
    BY <1>0, <1>3 DEF Return, Log!Acknowledge, StoreInv, Current
  <2> QED
    BY <2>1, <2>2 DEF Log!Next
<1>4. CASE PowerCut
  <2>1. \E n \in 0 .. Len(rows) : disk = SubSeq(rows, 1, n)
    BY BeginningIsSegment DEF StoreInv, Whole
  <2>2. Log!Lose
    BY <1>4, <2>1 DEF PowerCut, Log!Lose
  <2> QED
    BY <2>2 DEF Log!Next
<1>5. CASE UNCHANGED <<rows, answered>>
  BY <1>5
<1> QED
  BY <1>1, <1>2, <1>3, <1>4, <1>5
     DEF Next, Step, vars, Submit, Acquire, ReadAbsent, Write, Sync, Fails, Kill, Commit

(* No caller overwrites another's packet: the file only grows, by packets  *)
(* it does not have, and is answered for when it has them.                 *)
THEOREM ImplementsLog == Spec => ImplementsEvidenceLog
BY RefinementInit, RefinementStep, StoreInvHolds, PTL DEF Spec, ImplementsEvidenceLog, Log!Spec
=============================================================================
