--------------------------- MODULE RecordRegister ---------------------------
(***************************************************************************)
(* What a durable record on the SD card promises the firmware, whatever    *)
(* files it is kept in: a register that a power cut cannot take back       *)
(* beyond the last acknowledged write.                                     *)
(*                                                                         *)
(* stored  - the value a read returns now.                                 *)
(* allowed - the values a read may return after a power cut at this point: *)
(*           the last acknowledged one and those attempted since.          *)
(***************************************************************************)
CONSTANTS Values,   \* the payloads a caller stores
          NoValue   \* what a read returns when no copy is usable

VARIABLES stored, allowed

vars == <<stored, allowed>>

Contents == Values \union {NoValue}

Init == /\ stored \in Contents
        /\ allowed = {stored}

\* An operation starts: from here on its outcomes are allowed too.
Attempt(outcomes) ==
  /\ allowed' = allowed \union outcomes
  /\ UNCHANGED stored

\* The medium changes under an operation, to an allowed value only.
Settle == /\ stored' \in allowed
          /\ UNCHANGED allowed

\* The caller is told that the record now is v, and nothing else.
Acknowledge(v) ==
  /\ stored = v
  /\ allowed' = {v}
  /\ UNCHANGED stored

Next == \/ \E outcomes \in SUBSET Contents : Attempt(outcomes)
        \/ Settle
        \/ \E v \in Contents : Acknowledge(v)

Spec == Init /\ [][Next]_vars
=============================================================================
