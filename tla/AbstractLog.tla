------------------------------ MODULE AbstractLog ------------------------------
(***************************************************************************)
(* What the log of a topic promises its users while the process lives: a   *)
(* message appended gets the offset that was the end of the log, the end   *)
(* moves past the message, and nothing that was appended changes or goes   *)
(* away.  A restart of the process starts an empty log (the code has no    *)
(* LogManager.load; see LogStore!AckedReadable for what the docs promise). *)
(***************************************************************************)
EXTENDS Naturals

CONSTANTS Payloads, FrameSize(_)

VARIABLES
  log,  \* the set of <<offset, payload>> that can be read
  leo   \* log end offset

Init == log = {} /\ leo = 0

Append(payload) ==
  /\ log' = log \cup {<<leo, payload>>}
  /\ leo' = leo + FrameSize(payload)

Restart == log' = {} /\ leo' = 0

Next == Restart \/ \E payload \in Payloads : Append(payload)

Spec == Init /\ [][Next]_<<log, leo>>
=============================================================================
