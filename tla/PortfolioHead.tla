---------------------------- MODULE PortfolioHead ----------------------------
(***************************************************************************)
(* The attestation boundary of sheets.py as concurrent callers see it:     *)
(* SheetAttestationBoundary.append_portfolio_envelope running in several   *)
(* threads of several processes against one append-only Google Sheet.      *)
(*                                                                         *)
(* A portfolio artifact is content-addressed, so its identity fixes the    *)
(* anchor its payload names: anchorOf is a constant function.  Rows of the *)
(* other artifact kinds reach the same tab without the portfolio lock, and *)
(* so does a row whose request outlived the patience of its caller.        *)
(***************************************************************************)
EXTENDS Integers, Sequences, FiniteSets, FiniteSetsExt

CONSTANTS
    Writer,      \* threads that call append_portfolio_envelope
    Process,     \* operating-system processes; each has its own class lock
    procOf,      \* [Writer -> Process]
    Artifact,    \* portfolio_snapshot artifacts
    NoArtifact,  \* the None anchor of a bootstrap snapshot
    anchorOf,    \* [Artifact -> Artifact \cup {NoArtifact}]
    NoWriter,    \* a free lock
    MaxClock,    \* bound: last instant of the UTC clock
    MaxCalls,    \* bound: calls made, with all artifacts together
    MaxOther,    \* bound: rows of other artifact kinds
    MaxLate      \* bound: append requests given up on that may still land

ASSUME PortfolioHeadAssumption ==
    /\ procOf \in [Writer -> Process]
    /\ NoArtifact \notin Artifact
    /\ anchorOf \in [Artifact -> Artifact \cup {NoArtifact}]
    /\ NoWriter \notin Writer
    /\ MaxClock \in Nat /\ MaxCalls \in Nat
    /\ MaxOther \in Nat /\ MaxLate \in Nat

VARIABLES
    now,        \* the UTC clock
    rows,       \* data rows of Attestations!A:G, oldest first
    envelopes,  \* attested envelopes returned to callers
    lock,       \* [Process -> Writer \cup {NoWriter}], the class-level lock
    call,       \* [Writer -> Call], the call each thread is in
    tries,      \* [Artifact -> Nat], calls made with each artifact
    givenUp,    \* rows of the append requests that were in flight when
                \*   their callers gave up on them, in that order
    landed,     \* the indices of givenUp that Google wrote after all
    crossed     \* history: calls of two processes were inside at once

flight == <<givenUp, landed>>

vars == <<now, rows, envelopes, lock, call, tries, flight, crossed>>

Kind == {"portfolio_snapshot", "other"}

Row == [kind : Kind, artifact : Artifact \cup {NoArtifact}, appendedAt : Nat]

SnapshotRow == [kind : {"portfolio_snapshot"}, artifact : Artifact, appendedAt : Nat]

Envelope == [artifact : Artifact, location : Nat, appendedAt : Nat, readBackAt : Nat]

(* Where a call is: "waiting" for the lock, then reading the "head", then  *)
(* append()'s duplicate "scan" and "post", then "readback" and "recheck".  *)
Stage == {"idle", "waiting", "head", "scan", "post", "readback", "recheck"}

Critical == {"head", "scan", "post", "readback", "recheck"}

Call == [stage : Stage, artifact : Artifact \cup {NoArtifact}, at : Nat,
         recovering : BOOLEAN,   \* latest == artifact_id: no recheck follows
         location : Nat,         \* row found or appended
         rowAt : Nat]            \* appended_at of that record

NoCall == [stage |-> "idle", artifact |-> NoArtifact, at |-> 0,
           recovering |-> FALSE, location |-> 0, rowAt |-> 0]

PortfolioRows(s) == {i \in DOMAIN s : s[i].kind = "portfolio_snapshot"}

IsLast(i, s) == i \in PortfolioRows(s) /\ \A j \in PortfolioRows(s) : j <= i

(* portfolios[-1]['artifact_id'] if portfolios else None *)
Latest(s) ==
    IF PortfolioRows(s) = {} THEN NoArtifact
    ELSE s[CHOOSE i \in PortfolioRows(s) : IsLast(i, s)].artifact

Holding(s, a) == {i \in PortfolioRows(s) : s[i].artifact = a}

(* Rows that continue the given anchor *)
Children(s, anchor) == {i \in PortfolioRows(s) : anchorOf[s[i].artifact] = anchor}

Attested == {e.artifact : e \in envelopes}

Init ==
    /\ now = 0
    /\ rows = << >>
    /\ envelopes = {}
    /\ lock = [p \in Process |-> NoWriter]
    /\ call = [w \in Writer |-> NoCall]
    /\ tries = [a \in Artifact |-> 0]
    /\ givenUp = << >>
    /\ landed = {}
    /\ crossed = FALSE

Tick ==
    /\ now < MaxClock
    /\ now' = now + 1
    /\ UNCHANGED <<rows, envelopes, lock, call, tries, flight, crossed>>

(* A research, decision, submission or fill row: append_envelope takes no  *)
(* lock, so such a row may land between any two steps of a portfolio call. *)
AppendOther ==
    /\ Cardinality(DOMAIN rows \ PortfolioRows(rows)) < MaxOther
    /\ rows' = Append(rows, [kind |-> "other", artifact |-> NoArtifact, appendedAt |-> now])
    /\ UNCHANGED <<now, envelopes, lock, call, tries, flight, crossed>>

CallsMade == MapThenSumSet(LAMBDA a : tries[a], Artifact)

(* Faulty variant: the anchor is taken from the caller without its attestation *)
SubmitUnanchored(w, a) ==
    /\ call[w].stage = "idle"
    /\ CallsMade < MaxCalls
    /\ tries' = [tries EXCEPT ![a] = @ + 1]
    /\ call' = [call EXCEPT ![w] = [NoCall EXCEPT !.stage = "waiting", !.artifact = a, !.at = now]]
    /\ UNCHANGED <<now, rows, envelopes, lock, flight, crossed>>

(* portfolio_collect built the artifact from an attested anchor, or from   *)
(* an empty ledger; utc_clock() is read before the lock is asked for.      *)
Submit(w, a) ==
    /\ call[w].stage = "idle"
    /\ anchorOf[a] \in Attested \cup {NoArtifact}
    /\ CallsMade < MaxCalls
    /\ tries' = [tries EXCEPT ![a] = @ + 1]
    /\ call' = [call EXCEPT ![w] = [NoCall EXCEPT !.stage = "waiting", !.artifact = a, !.at = now]]
    /\ UNCHANGED <<now, rows, envelopes, lock, flight, crossed>>

(* A call of another process is inside, which no lock of this one prevents *)
Crosses(w) == \E v \in Writer : procOf[v] # procOf[w] /\ call[v].stage \in Critical

(* Faulty variant: one lock per boundary object instead of one per class *)
AcquireOwnLock(w) ==
    /\ call[w].stage = "waiting"
    /\ lock' = [lock EXCEPT ![procOf[w]] = w]
    /\ call' = [call EXCEPT ![w] = [@ EXCEPT !.stage = "head"]]
    /\ crossed' = (crossed \/ Crosses(w))
    /\ UNCHANGED <<now, rows, envelopes, tries, flight>>

(* with self._portfolio_lock: *)
Acquire(w) ==
    /\ call[w].stage = "waiting"
    /\ lock[procOf[w]] = NoWriter
    /\ lock' = [lock EXCEPT ![procOf[w]] = w]
    /\ call' = [call EXCEPT ![w] = [@ EXCEPT !.stage = "head"]]
    /\ crossed' = (crossed \/ Crosses(w))
    /\ UNCHANGED <<now, rows, envelopes, tries, flight>>

(* Faulty variant: the lock is not released on the way out *)
LeaveLocked(w) ==
    /\ UNCHANGED lock
    /\ call' = [call EXCEPT ![w] = NoCall]

(* Leaving the with block, by return or by exception *)
Leave(w) ==
    /\ lock' = [lock EXCEPT ![procOf[w]] = NoWriter]
    /\ call' = [call EXCEPT ![w] = NoCall]

(* Faulty variant: the head is not compared before the append *)
ReadHeadUncompared(w) ==
    /\ call[w].stage = "head"
    /\ call' = [call EXCEPT ![w] = [@ EXCEPT
           !.stage = "scan", !.recovering = (Latest(rows) = call[w].artifact)]]
    /\ UNCHANGED <<now, rows, envelopes, lock, tries, flight, crossed>>

(* before = read_all(): the artifact is already the head, or its anchor is *)
ReadHead(w) ==
    LET latest == Latest(rows) IN
    /\ call[w].stage = "head"
    /\ latest \in {call[w].artifact, anchorOf[call[w].artifact]}
    /\ call' = [call EXCEPT ![w] = [@ EXCEPT
           !.stage = "scan", !.recovering = (latest = call[w].artifact)]]
    /\ UNCHANGED <<now, rows, envelopes, lock, tries, flight, crossed>>

(* 'portfolio anchor is stale or not the latest canonical head' *)
Stale(w) ==
    /\ call[w].stage = "head"
    /\ Latest(rows) \notin {call[w].artifact, anchorOf[call[w].artifact]}
    /\ Leave(w)
    /\ UNCHANGED <<now, rows, envelopes, tries, flight, crossed>>

(* append(): the first row that already holds the artifact is returned *)
ScanFound(w) ==
    LET held == Holding(rows, call[w].artifact) IN
    /\ call[w].stage = "scan"
    /\ \E i \in held :
          /\ \A j \in held : i <= j
          /\ call' = [call EXCEPT ![w] = [@ EXCEPT
                 !.stage = "readback", !.location = i, !.rowAt = rows[i].appendedAt]]
    /\ UNCHANGED <<now, rows, envelopes, lock, tries, flight, crossed>>

ScanAbsent(w) ==
    /\ call[w].stage = "scan"
    /\ Holding(rows, call[w].artifact) = {}
    /\ call' = [call EXCEPT ![w] = [@ EXCEPT !.stage = "post"]]
    /\ UNCHANGED <<now, rows, envelopes, lock, tries, flight, crossed>>

(* Faulty variant: the artifact cell of the row is left empty *)
NewRowAnonymous(w) == [kind |-> "portfolio_snapshot", artifact |-> NoArtifact,
                       appendedAt |-> call[w].at]

NewRow(w) == [kind |-> "portfolio_snapshot", artifact |-> call[w].artifact,
              appendedAt |-> call[w].at]

(* append_row(): Google inserts one row and answers with its range *)
Post(w) ==
    /\ call[w].stage = "post"
    /\ rows' = Append(rows, NewRow(w))
    /\ call' = [call EXCEPT ![w] = [@ EXCEPT
           !.stage = "readback", !.location = Len(rows) + 1, !.rowAt = call[w].at]]
    /\ UNCHANGED <<now, envelopes, lock, tries, flight, crossed>>

(* The row is written but the answer is lost or malformed, so _request or  *)
(* append_row raises.                                                      *)
PostUnanswered(w) ==
    /\ call[w].stage = "post"
    /\ rows' = Append(rows, NewRow(w))
    /\ Leave(w)
    /\ UNCHANGED <<now, envelopes, tries, flight, crossed>>

(* w's append request is on its way when its caller gives up on it *)
GiveUp(w) ==
    /\ call[w].stage = "post"
    /\ Len(givenUp) < MaxLate
    /\ givenUp' = Append(givenUp, NewRow(w))
    /\ UNCHANGED landed

(* The transport's time is over (http.py): the caller raises and leaves    *)
(* the lock, while his request is still under way.                         *)
PostTimesOut(w) ==
    /\ GiveUp(w)
    /\ Leave(w)
    /\ UNCHANGED <<now, rows, envelopes, tries, crossed>>

(* Google writes the row of a request whose caller is gone, at any later   *)
(* time; a request that never lands was lost.                              *)
Land(k) ==
    /\ k \in DOMAIN givenUp \ landed
    /\ rows' = Append(rows, givenUp[k])
    /\ landed' = landed \cup {k}
    /\ UNCHANGED <<now, envelopes, lock, call, tries, givenUp, crossed>>

EnvelopeOf(w) == [artifact |-> call[w].artifact, location |-> call[w].location,
                  appendedAt |-> call[w].rowAt, readBackAt |-> call[w].at]

(* Faulty variant: receipts accept any order of appended_at and read_back_at *)
ReadBackUntimed(w) ==
    LET i == call[w].location IN
    /\ i \in DOMAIN rows
    /\ rows[i] = [kind |-> "portfolio_snapshot", artifact |-> call[w].artifact,
                  appendedAt |-> call[w].rowAt]

(* read_back() finds the very record, and the receipt's times are in order *)
ReadBackExact(w) ==
    LET i == call[w].location IN
    /\ i \in DOMAIN rows
    /\ rows[i] = [kind |-> "portfolio_snapshot", artifact |-> call[w].artifact,
                  appendedAt |-> call[w].rowAt]
    /\ call[w].at >= call[w].rowAt

(* A recovering call returns its envelope at once *)
Recover(w) ==
    /\ call[w].stage = "readback" /\ call[w].recovering
    /\ ReadBackExact(w)
    /\ envelopes' = envelopes \cup {EnvelopeOf(w)}
    /\ Leave(w)
    /\ UNCHANGED <<now, rows, tries, flight, crossed>>

ReadBack(w) ==
    /\ call[w].stage = "readback" /\ ~call[w].recovering
    /\ ReadBackExact(w)
    /\ call' = [call EXCEPT ![w] = [@ EXCEPT !.stage = "recheck"]]
    /\ UNCHANGED <<now, rows, envelopes, lock, tries, flight, crossed>>

(* 'receipt seal or fields invalid': the row was appended by another call  *)
(* that read the clock later than this one.                                *)
ReadBackInvalid(w) ==
    /\ call[w].stage = "readback"
    /\ ~ReadBackExact(w)
    /\ Leave(w)
    /\ UNCHANGED <<now, rows, envelopes, tries, flight, crossed>>

(* Faulty variant: the recheck is satisfied by finding its own row *)
OwnChild(w) == Holding(rows, call[w].artifact) # {}

OnlyChild(w) ==
    \E i \in DOMAIN rows :
        /\ Children(rows, anchorOf[call[w].artifact]) = {i}
        /\ rows[i].artifact = call[w].artifact

(* after = read_all(): exactly one continuation of the anchor, and ours *)
Recheck(w) ==
    /\ call[w].stage = "recheck"
    /\ OnlyChild(w)
    /\ envelopes' = envelopes \cup {EnvelopeOf(w)}
    /\ Leave(w)
    /\ UNCHANGED <<now, rows, tries, flight, crossed>>

(* 'competing portfolio continuation detected' *)
Competing(w) ==
    /\ call[w].stage = "recheck"
    /\ ~OnlyChild(w)
    /\ Leave(w)
    /\ UNCHANGED <<now, rows, envelopes, tries, flight, crossed>>

(* A request of the call fails without any effect *)
ServiceFails(w) ==
    /\ call[w].stage \in Critical
    /\ Leave(w)
    /\ UNCHANGED <<now, rows, envelopes, tries, flight, crossed>>

(* The process dies with every thread in it; its lock dies too. A request  *)
(* that it has sent may land all the same.                                 *)
Crash(p) ==
    /\ \E w \in Writer : procOf[w] = p /\ call[w].stage # "idle"
    /\ lock' = [lock EXCEPT ![p] = NoWriter]
    /\ call' = [w \in Writer |-> IF procOf[w] = p THEN NoCall ELSE call[w]]
    /\ \/ UNCHANGED flight
       \/ \E w \in Writer : procOf[w] = p /\ GiveUp(w)
    /\ UNCHANGED <<now, rows, envelopes, tries, crossed>>

Step(w) ==
    \/ Acquire(w)
    \/ ReadHead(w)
    \/ Stale(w)
    \/ ScanFound(w)
    \/ ScanAbsent(w)
    \/ Post(w)
    \/ PostUnanswered(w)
    \/ PostTimesOut(w)
    \/ Recover(w)
    \/ ReadBack(w)
    \/ ReadBackInvalid(w)
    \/ Recheck(w)
    \/ Competing(w)
    \/ ServiceFails(w)

Next ==
    \/ Tick
    \/ AppendOther
    \/ \E w \in Writer, a \in Artifact : Submit(w, a)
    \/ \E w \in Writer : Step(w)
    \/ \E k \in DOMAIN givenUp : Land(k)
    \/ \E p \in Process : Crash(p)

Spec == Init /\ [][Next]_vars
-----------------------------------------------------------------------------
(* Types, and the shape of a call: sheets.py:45-60, attestation.py:20-43. *)
TypeOK ==
    /\ now \in Nat
    /\ rows \in Seq(Row)
    /\ \A i \in PortfolioRows(rows) : rows[i].artifact \in Artifact
    /\ envelopes \subseteq Envelope
    /\ lock \in [Process -> Writer \cup {NoWriter}]
    /\ call \in [Writer -> Call]
    /\ \A w \in Writer : call[w].stage # "idle" => call[w].artifact \in Artifact
    /\ tries \in [Artifact -> Nat]
    /\ givenUp \in Seq(SnapshotRow)
    /\ landed \subseteq DOMAIN givenUp
    /\ crossed \in BOOLEAN

(* A lock is held by those who are inside, and by nobody else: no way out  *)
(* of append_portfolio_envelope, by return, exception or death, leaves the *)
(* other threads of a process waiting for ever, and no two of them enter   *)
(* together (the with statement at sheets.py:286, the class attribute at   *)
(* sheets.py:250).                                                         *)
LockHeldInside ==
    \A p \in Process, w \in Writer :
        lock[p] = w <=> procOf[w] = p /\ call[w].stage \in Critical

(* No two distinct attested snapshots continue the same anchor: the fork   *)
(* that append_portfolio_envelope compares and rechecks the head to prevent. *)
NoFork ==
    \A e, f \in envelopes :
        anchorOf[e.artifact] = anchorOf[f.artifact] => e.artifact = f.artifact

(* The boundary had the tab to itself: no given-up request has landed, and *)
(* no two processes were inside at once.  Threads of one process never are. *)
Undisturbed == landed = {} /\ ~crossed

(* An undisturbed ledger is not forked, whatever stale, lost, failed,      *)
(* repeated or racing calls were made, by threads that share the lock and  *)
(* by processes that take turns.                                           *)
ForkNeedsDisturbance == Undisturbed => NoFork

(* Whoever lands late and however many processes are inside, the ledger is *)
(* not forked before some snapshot is handed in a second time: the recheck *)
(* (sheets.py:294-298) catches what the lock does not.                     *)
ForkNeedsRetry == (\A a \in Artifact : tries[a] <= 1) => NoFork

(* The tab of an undisturbed ledger holds one row per continuation: a call *)
(* that failed after its write and the retry that follows leave one row    *)
(* together, and who waited for the lock and lost leaves none (append()    *)
(* scans under the lock before it posts).                                  *)
OneContinuation ==
    Undisturbed =>
        \A i, j \in PortfolioRows(rows) :
            anchorOf[rows[i].artifact] = anchorOf[rows[j].artifact] => i = j

(* Every portfolio row comes after the row of its anchor, in the tab and   *)
(* by appended_at, although the clock is read before the lock is taken and *)
(* calls may overtake one another.                                         *)
AnchorPrecedes ==
    \A i \in PortfolioRows(rows) :
        LET anchor == anchorOf[rows[i].artifact] IN
        anchor = NoArtifact \/
        \E j \in Holding(rows, anchor) : j < i /\ rows[j].appendedAt <= rows[i].appendedAt

(* An envelope's immutable location still holds the row it attests, with   *)
(* the record's own appended_at (not the retry's), and was not read back   *)
(* before it was appended: read_back() and AttestationReceipt.verify().    *)
EnvelopeExact ==
    \A e \in envelopes :
        /\ e.location \in DOMAIN rows
        /\ rows[e.location] = [kind |-> "portfolio_snapshot", artifact |-> e.artifact,
                               appendedAt |-> e.appendedAt]
        /\ e.readBackAt >= e.appendedAt

(* All callers are threads of one process, hence of one lock *)
SharedLock == \A v, w \in Writer : procOf[v] = procOf[w]

(* The boundary implements one canonical head for as long as it has the    *)
(* tab to itself: a row that extends the tab extends the head, and what is *)
(* published is the head.  After that a row still only continues an        *)
(* attested snapshot, and an envelope still only says what is in the tab.  *)
Canonical == INSTANCE CanonicalHead
    WITH head <- Latest(rows),
         chain <- {rows[i].artifact : i \in PortfolioRows(rows)},
         published <- Attested,
         disturbed <- ~Undisturbed

ImplementsCanonicalHead == Canonical!Spec

=============================================================================
