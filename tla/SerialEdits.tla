----------------------------- MODULE SerialEdits -----------------------------
(***************************************************************************)
(* What the read-modify-write layer promises the rest of the application:   *)
(* a JSON file is a set of edits, an edit takes effect in one indivisible   *)
(* step that keeps every earlier edit, and only an edit that took effect is *)
(* reported to its caller as done.                                          *)
(*                                                                          *)
(* The promise stands for as long as `void` is FALSE.  The component that   *)
(* implements it raises `void` when the assumption it works under (leases   *)
(* are renewed on time) has been broken.                                    *)
(***************************************************************************)
CONSTANT Edits

VARIABLES file, acked, void

serialVars == <<file, acked, void>>

Init ==
    /\ file = {}
    /\ acked = {}
    /\ void = FALSE

\* The edit e takes effect.
Commit(e) ==
    /\ e \notin acked
    /\ file' = file \cup {e}
    /\ UNCHANGED <<acked, void>>

\* The caller of e learns that e took effect.
Acknowledge(e) ==
    /\ e \in file
    /\ acked' = acked \cup {e}
    /\ UNCHANGED <<file, void>>

\* The assumption is broken: nothing is promised from here on.
Void == void'

Next == \/ \E e \in Edits : Commit(e) \/ Acknowledge(e)
        \/ Void

Spec == Init /\ [][Next]_serialVars
=============================================================================
