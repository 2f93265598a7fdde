-------------------------- MODULE EDIDRecordStream --------------------------
(***************************************************************************)
(* What a decode pass of an EDID buffer promises, record by record (spec   *)
(* sections 2-3): the buffer is a chain of 128-byte records, the base      *)
(* record first, whose byte 126 declares how many extension records        *)
(* follow.  The pass consumes the records one at a time, in order, each    *)
(* exactly once, and it is done exactly when the base record and every     *)
(* declared extension have been consumed.  It may fail at any point.       *)
(***************************************************************************)
EXTENDS Naturals

VARIABLES consumed,   \* records consumed so far
          declared,   \* extension records the base record declares
          status      \* "running", "done" or "failed"

vars == <<consumed, declared, status>>

Init ==
  /\ consumed = 0
  /\ declared = 0
  /\ status = "running"

\* The base record is consumed and its extension count becomes known.
ConsumeBase ==
  /\ status = "running"
  /\ consumed = 0
  /\ \E n \in 0..255 :
       /\ declared' = n
       /\ status' = IF n = 0 THEN "done" ELSE "running"
  /\ consumed' = 1

\* The next declared extension record is consumed as one unit.
ConsumeExtension ==
  /\ status = "running"
  /\ 1 <= consumed /\ consumed <= declared
  /\ consumed' = consumed + 1
  /\ status' = IF consumed' = declared + 1 THEN "done" ELSE "running"
  /\ UNCHANGED declared

Fail ==
  /\ status = "running"
  /\ status' = "failed"
  /\ UNCHANGED <<consumed, declared>>

Next == ConsumeBase \/ ConsumeExtension \/ Fail

Spec == Init /\ [][Next]_vars
=============================================================================
