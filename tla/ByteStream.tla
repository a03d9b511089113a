------------------------------ MODULE ByteStream ------------------------------
(***************************************************************************)
(* What the outgoing half of a Session promises: the units handed to it    *)
(* (bytes of TLS ciphertext, numbered 1, 2, 3, ...) leave on the socket    *)
(* once each, in order and without a gap.  A transfer that fails breaks    *)
(* the stream for good: a TLS peer could not decode what follows a hole.   *)
(* SessionSend implements this specification.                              *)
(***************************************************************************)
EXTENDS Naturals, Sequences

CONSTANT MaxWritten    \* bound on the number of units a behaviour accepts

VARIABLES
  accepted,   \* units 1 .. accepted have been handed over
  out,        \* the units that left on the socket, oldest first
  ended,      \* the session has started to close
  broken      \* a transfer failed

vars == <<accepted, out, ended, broken>>

Init ==
  /\ accepted = 0
  /\ out = <<>>
  /\ ended = FALSE
  /\ broken = FALSE

(* The step that hands units over may also be the one that starts to close. *)
Accept ==
  /\ accepted' \in accepted .. MaxWritten
  /\ ended' \in {ended, TRUE}
  /\ UNCHANGED <<out, broken>>

NextUnits(n) == [i \in 1 .. n |-> Len(out) + i]

Deliver ==
  /\ ~ broken
  /\ \E n \in 1 .. accepted - Len(out) : out' = out \o NextUnits(n)
  /\ UNCHANGED <<accepted, ended, broken>>

End ==
  /\ ended' = TRUE
  /\ UNCHANGED <<accepted, out, broken>>

Break ==
  /\ broken' = TRUE
  /\ UNCHANGED <<accepted, out, ended>>

Next == Accept \/ Deliver \/ End \/ Break

Safety == Init /\ [][Next]_vars
===============================================================================
