----------------------------- MODULE OrderedInbox -----------------------------
(***************************************************************************)
(* What the receiving end of a remote promises its peer and its kernel: a  *)
(* durable log of messages taken, each with a higher number than the one   *)
(* before, and acknowledgements that cover only what is in the log.        *)
(* Crashes, aborted cranks, copies and reordering do not appear: they      *)
(* leave this state as it was.                                             *)
(***************************************************************************)
EXTENDS Naturals, Sequences

CONSTANT Packets        \* numbered messages

VARIABLES
    taken,              \* the messages carried out, oldest first
    promised            \* the numbers acknowledged

LastTaken == IF taken = <<>> THEN 0 ELSE taken[Len(taken)].seq

InboxInit == taken = <<>> /\ promised = {}

(* A message later than all before it is carried out, once and for all.    *)
Take(packet) ==
    /\ packet.seq > LastTaken
    /\ taken' = Append(taken, packet)
    /\ UNCHANGED promised

(* A number is acknowledged that is durably behind us.                     *)
Promise(n) ==
    /\ promised' = promised \cup {n}
    /\ UNCHANGED taken

InboxNext ==
    \/ \E packet \in Packets : Take(packet)
    \/ \E n \in 1 .. LastTaken : Promise(n)

InboxSpec == InboxInit /\ [][InboxNext]_<<taken, promised>>

=============================================================================
