---------------------------- MODULE EvidenceLog ----------------------------
(***************************************************************************)
(* What an evidence file promises to its readers: a list of distinct       *)
(* packets that only grows at its end, and an answer "appended" or         *)
(* "already there" only for a packet that is in it.  A power cut may take  *)
(* back the newest packets, and with them what was promised before.        *)
(***************************************************************************)
EXTENDS Naturals, Sequences

CONSTANT Packet

VARIABLES
    log,           \* Seq(Packet)
    acknowledged   \* packets that some append has answered for

logVars == <<log, acknowledged>>

Entries(s) == {s[i] : i \in DOMAIN s}

Init == log = <<>> /\ acknowledged = {}

Add(p) ==
    /\ p \notin Entries(log)
    /\ log' = Append(log, p)
    /\ UNCHANGED acknowledged

Acknowledge(p) ==
    /\ p \in Entries(log)
    /\ acknowledged' = acknowledged \cup {p}
    /\ UNCHANGED log

Lose ==
    /\ \E n \in 0 .. Len(log) : log' = SubSeq(log, 1, n)
    /\ acknowledged' = {}

Next == (\E p \in Packet : Add(p) \/ Acknowledge(p)) \/ Lose

Spec == Init /\ [][Next]_logVars
=============================================================================
