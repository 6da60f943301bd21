--------------------------- MODULE EvidenceStore ---------------------------
(***************************************************************************)
(* AppendOnlyEvidenceStore.append (market_data.py): the whole file is read *)
(* under an exclusive lock, extended by one packet in a temporary file,    *)
(* synced, and renamed over the old one.  Several callers, each with its   *)
(* own descriptor of the lock file, so that threads of one process exclude *)
(* each other like processes do; callers may fail or be killed between any *)
(* two steps, and the machine may lose power.                              *)
(*                                                                         *)
(* Packets are verified (the first line of append), hence content-         *)
(* addressed: a row with the id of a packet is that packet.                *)
(***************************************************************************)
EXTENDS Naturals, Sequences

CONSTANTS
    Appender,     \* callers of append
    Packet,       \* verified evidence packets
    NoAppender,   \* nobody holds the lock
    NoPacket,     \* an appender without a call
    TornRow,      \* a line that was cut short
    MaxCalls,     \* bound: calls of append
    MaxFaults     \* bound: failures, kills and power cuts

ASSUME StoreAssumption ==
    /\ NoAppender \notin Appender
    /\ NoPacket \notin Packet /\ TornRow \notin Packet
    /\ MaxCalls \in Nat /\ MaxFaults \in Nat

VARIABLES
    rows,      \* the lines a reader of the path sees; none when it is absent
    synced,    \* the data behind the path has reached the disk
    disk,      \* the lines a power cut would leave at the path
    lock,      \* who holds the flock of the .lock file
    call,      \* [Appender -> Call]
    accepted,  \* [Packet -> Nat]: answers True since the last power cut
    answered,  \* packets answered for, True or False, since the last power cut
    calls,     \* calls so far
    faults     \* faults so far

fileVars == <<rows, synced, disk>>
answerVars == <<accepted, answered>>
vars == <<rows, synced, disk, lock, call, accepted, answered, calls, faults>>

Row == Packet \cup {TornRow}

Stage == {"idle", "wait", "read", "write", "sync", "replace", "return"}

(* next: the lines of the temporary file; flushed: os.fsync has returned *)
Call == [stage : Stage, packet : Packet \cup {NoPacket}, next : Seq(Row), flushed : BOOLEAN]

NoCall == [stage |-> "idle", packet |-> NoPacket, next |-> <<>>, flushed |-> FALSE]

NewCall(p) == [stage |-> "wait", packet |-> p, next |-> <<>>, flushed |-> FALSE]

Entries(s) == {s[i] : i \in DOMAIN s}

Init ==
    /\ rows = <<>> /\ disk = <<>> /\ synced = TRUE
    /\ lock = NoAppender
    /\ call = [a \in Appender |-> NoCall]
    /\ accepted = [p \in Packet |-> 0] /\ answered = {}
    /\ calls = 0 /\ faults = 0

Submit(a, p) ==
    /\ call[a].stage = "idle"
    /\ calls < MaxCalls
    /\ call' = [call EXCEPT ![a] = NewCall(p)]
    /\ calls' = calls + 1
    /\ UNCHANGED <<rows, synced, disk, lock, accepted, answered, faults>>

(* Faulty variant: LOCK_SH, which any number of callers hold together *)
AcquireShared(a) ==
    /\ call[a].stage = "wait"
    /\ lock' = a
    /\ call' = [call EXCEPT ![a].stage = "read"]
    /\ UNCHANGED <<rows, synced, disk, accepted, answered, calls, faults>>

(* fcntl.flock(lock, LOCK_EX) *)
Acquire(a) ==
    /\ call[a].stage = "wait" /\ lock = NoAppender
    /\ lock' = a
    /\ call' = [call EXCEPT ![a].stage = "read"]
    /\ UNCHANGED <<rows, synced, disk, accepted, answered, calls, faults>>

(* Faulty variant: the early return gives up the descriptor unclosed *)
EndHolding(a) ==
    /\ call' = [call EXCEPT ![a] = NoCall]
    /\ UNCHANGED lock

(* The with statement is left and the descriptor of the lock file closed *)
End(a) ==
    /\ call' = [call EXCEPT ![a] = NoCall]
    /\ lock' = IF lock = a THEN NoAppender ELSE lock

(* A row has the packet's id, and its content: False *)
ReadFound(a) ==
    /\ call[a].stage = "read"
    /\ call[a].packet \in Entries(rows)
    /\ End(a)
    /\ answered' = answered \cup {call[a].packet}
    /\ UNCHANGED <<rows, synced, disk, accepted, calls, faults>>

(* Faulty variant: the packet is not looked for *)
ReadUnchecked(a) ==
    /\ call[a].stage = "read"
    /\ call' = [call EXCEPT ![a].stage = "write", ![a].next = Append(rows, call[a].packet)]
    /\ UNCHANGED <<rows, synced, disk, lock, accepted, answered, calls, faults>>

ReadAbsent(a) ==
    /\ call[a].stage = "read"
    /\ call[a].packet \notin Entries(rows)
    /\ call' = [call EXCEPT ![a].stage = "write", ![a].next = Append(rows, call[a].packet)]
    /\ UNCHANGED <<rows, synced, disk, lock, accepted, answered, calls, faults>>

(* Faulty variant: the temporary file is renamed without fsync *)
WriteUnsynced(a) ==
    /\ call[a].stage = "write"
    /\ call' = [call EXCEPT ![a].stage = "replace"]
    /\ UNCHANGED <<rows, synced, disk, lock, accepted, answered, calls, faults>>

(* mkstemp, and every row written to the temporary file *)
Write(a) ==
    /\ call[a].stage = "write"
    /\ call' = [call EXCEPT ![a].stage = "sync"]
    /\ UNCHANGED <<rows, synced, disk, lock, accepted, answered, calls, faults>>

Sync(a) ==
    /\ call[a].stage = "sync"
    /\ call' = [call EXCEPT ![a].stage = "replace", ![a].flushed = TRUE]
    /\ UNCHANGED <<rows, synced, disk, lock, accepted, answered, calls, faults>>

(* os.replace(name, path): readers see all of the new file at once *)
Replace(a) ==
    /\ call[a].stage = "replace"
    /\ rows' = call[a].next /\ synced' = call[a].flushed
    /\ call' = [call EXCEPT ![a].stage = "return"]
    /\ UNCHANGED <<disk, lock, accepted, answered, calls, faults>>

(* return True *)
Return(a) ==
    /\ call[a].stage = "return"
    /\ accepted' = [accepted EXCEPT ![call[a].packet] = @ + 1]
    /\ answered' = answered \cup {call[a].packet}
    /\ End(a)
    /\ UNCHANGED <<rows, synced, disk, calls, faults>>

Fault == faults < MaxFaults /\ faults' = faults + 1

(* Faulty variant: after an OSError the call starts over, its packet gone *)
FailsRetrying(a) ==
    /\ call[a].stage \in {"wait", "read", "write", "sync", "replace"}
    /\ Fault
    /\ call' = [call EXCEPT ![a] = NewCall(NoPacket)]
    /\ lock' = IF lock = a THEN NoAppender ELSE lock
    /\ UNCHANGED <<rows, synced, disk, accepted, answered, calls>>

(* Any file operation before the rename raises OSError; finally removes the *)
(* temporary file.                                                          *)
Fails(a) ==
    /\ call[a].stage \in {"wait", "read", "write", "sync", "replace"}
    /\ Fault
    /\ End(a)
    /\ UNCHANGED <<rows, synced, disk, accepted, answered, calls>>

(* The caller dies, and its descriptors with it.  A temporary file it left  *)
(* has a name of its own and is never read.                                 *)
Kill(a) ==
    /\ call[a].stage # "idle"
    /\ Fault
    /\ End(a)
    /\ UNCHANGED <<rows, synced, disk, accepted, answered, calls>>

Torn(s) == [i \in 1 .. Len(s) |-> IF i = Len(s) THEN TornRow ELSE s[i]]

(* The file system commits the rename: append does not sync the directory, *)
(* so this may happen at any later time.  Data that was not synced may or  *)
(* may not be there when its name is.                                      *)
Commit ==
    /\ disk' \in {rows} \cup (IF synced THEN {} ELSE {Torn(rows)})
    /\ UNCHANGED <<rows, synced, lock, call, accepted, answered, calls, faults>>

(* Power is lost and comes back: the path names the last committed file,    *)
(* and every caller is gone.                                                *)
PowerCut ==
    /\ Fault
    /\ rows' = disk /\ synced' = TRUE
    /\ lock' = NoAppender
    /\ call' = [a \in Appender |-> NoCall]
    /\ accepted' = [p \in Packet |-> 0] /\ answered' = {}
    /\ UNCHANGED <<disk, calls>>

Step(a) ==
    \/ Acquire(a) \/ ReadFound(a) \/ ReadAbsent(a)
    \/ Write(a) \/ Sync(a) \/ Replace(a) \/ Return(a)
    \/ Fails(a)

Next ==
    \/ \E a \in Appender : Step(a) \/ Kill(a) \/ \E p \in Packet : Submit(a, p)
    \/ Commit \/ PowerCut

Spec == Init /\ [][Next]_vars

(* A caller waits for nothing but the lock and the file system *)
FairSpec == Spec /\ \A a \in Appender : WF_vars(Step(a))

-----------------------------------------------------------------------------
TypeOK ==
    /\ rows \in Seq(Row) /\ disk \in Seq(Row)
    /\ synced \in BOOLEAN
    /\ lock \in Appender \cup {NoAppender}
    /\ call \in [Appender -> Call]
    /\ \A a \in Appender : call[a].stage # "idle" => call[a].packet \in Packet
    /\ accepted \in [Packet -> Nat]
    /\ answered \subseteq Packet
    /\ calls \in Nat /\ faults \in Nat

(* "Atomic locked JSONL replacement prevents partial writes": no line of   *)
(* the file is ever cut short, neither for a reader that takes no lock nor *)
(* after a power cut (market_data.py:196-201).                             *)
NoPartialRow == TornRow \notin Entries(rows) \cup Entries(disk)

(* A packet is in the file once, whoever appends it how often, and however *)
(* earlier appends ended (market_data.py:190-195).                         *)
PacketOnce == \A i, j \in DOMAIN rows : rows[i] = rows[j] => i = j

(* Of all appends of a packet, by all callers, one is told that it was the *)
(* one that appended it (market_data.py:194, 204).                         *)
OneAcceptance == \A p \in Packet : accepted[p] <= 1

(* No append is lost to another caller that read the file before it: the   *)
(* file keeps what it answered for and only grows at its end, until a      *)
(* power cut takes back a tail (market_data.py:188-201).                   *)
Log == INSTANCE EvidenceLog WITH log <- rows, acknowledged <- answered

ImplementsEvidenceLog == Log!Spec

(* A call ends, in an answer or an exception, whatever happened to those   *)
(* that held the lock before it (market_data.py:187).                      *)
AppendsEnd == \A a \in Appender : call[a].stage # "idle" ~> call[a].stage = "idle"
=============================================================================
