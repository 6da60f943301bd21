--------------------------- MODULE MCPaperAccount ---------------------------
(***************************************************************************)
(* The option expires on day 1, in the last hours of which most happens;   *)
(* day 2 is a holiday.  One calendar begins too late, one is not verified, *)
(* one was observed on the morning of day 3, one ends with the expiry.     *)
(***************************************************************************)
EXTENDS PaperAccount

CONSTANTS share, optionOnShare

Evidence(start, end, observed, verified) ==
    [start |-> start, end |-> end, observed |-> observed, verified |-> verified,
     sessions |-> {d \in Sessions : start <= d /\ d <= end}]

Calendars == {Evidence(0, 4, 0, TRUE), Evidence(4, 5, 0, TRUE), Evidence(0, 4, 0, FALSE),
              Evidence(1, 3, 12, TRUE), Evidence(0, 1, 0, TRUE)}
=============================================================================
