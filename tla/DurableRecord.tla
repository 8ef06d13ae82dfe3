---------------------------- MODULE DurableRecord ----------------------------
(***************************************************************************)
(* The two-generation record files of fw/src/reader_cache_files.rs         *)
(* (STATEA/STATEB, POSA/POSB, WIFIA/WIFIB and their legacy single files).  *)
(* A write picks the slot that is not the newest, truncates it, writes     *)
(* generation + payload + checksum and reads it back; a read returns the   *)
(* newest copy whose length, magic and checksum are right.  The power may  *)
(* be cut between any two card operations, and each of them may fail.      *)
(*                                                                         *)
(* A copy that fails read_generation_file's tests - absent, truncated,     *)
(* torn - is Unreadable; which of these it is makes no difference to the   *)
(* code.  Generations count modulo GenMod = 2 * HalfGen (2^32 in the       *)
(* code), so the wrap-around is inside the model.                          *)
(***************************************************************************)
EXTENDS Integers

CONSTANTS Values,      \* payloads (encoded records)
          NoValue,     \* no usable copy
          Unreadable,  \* a slot read_generation_file returns None for
          HalfGen,     \* half the generation space: 2^31 in the code
          BadReads,    \* the sets of slots a write's first look may fail to read
          CanDelete    \* TRUE for the Wi-Fi record, the only deletable one

ASSUME HalfGenAssumption == HalfGen \in Nat /\ HalfGen > 1
ASSUME NoValueAssumption == NoValue \notin Values
ASSUME UnreadableAssumption ==
  Unreadable \notin [gen : 0 .. 2 * HalfGen - 1, val : Values]
ASSUME BadReadsAssumption == BadReads \subseteq SUBSET {0, 1}
ASSUME CanDeleteAssumption == CanDelete \in BOOLEAN

VARIABLES slot,     \* slot[i]: the copy in generation file i
          legacy,   \* the single-file record of older firmware
          pc,       \* next card operation of the call in progress
          plan,     \* the call's target slot, generation and payload, and
                    \* (history) whether its first look missed the newest copy
          result,   \* what the last call that returned told its caller
          allowed   \* history: what a read may return after a power cut

vars == <<slot, legacy, pc, plan, result, allowed>>

GenMod == 2 * HalfGen
Gen    == 0 .. GenMod - 1
Slot   == {0, 1}
Record == [gen : Gen, val : Values]
Copy   == Record \union {Unreadable}
Plan   == [target : Slot, gen : Gen, val : Values, misled : BOOLEAN]

\* Faulty variants (a counter that forgets to wrap, a plain comparison) that the
\* properties below must reject.
SuccUnwrapped(g) == g + 1
IsNewerUnwrapped(candidate, current) == candidate > current

\* wrapping_add(1) and wrapping_sub on the generation width.
Succ(g) == IF g = GenMod - 1 THEN 0 ELSE g + 1
Distance(candidate, current) ==
  IF candidate >= current THEN candidate - current
                          ELSE candidate - current + GenMod

IsNewer(candidate, current) ==
  LET distance == Distance(candidate, current)
  IN  distance # 0 /\ distance < HalfGen

-----------------------------------------------------------------------------
\* Does a pass over both files that cannot read the slots in bad see slot i?
Sees(i, bad) == slot[i] # Unreadable /\ i \notin bad

\* The slot read_two_generation takes the payload from, when it sees any.
Newest(bad) ==
  IF /\ Sees(1, bad)
     /\ Sees(0, bad) => IsNewer(slot[1].gen, slot[0].gen)
  THEN 1 ELSE 0

ReadAvoiding(bad) ==
  IF Sees(0, bad) \/ Sees(1, bad) THEN slot[Newest(bad)].val ELSE legacy

Readable == ReadAvoiding({})

\* A first look misleads the writer when it misses the newest copy: that copy is
\* then overwritten, or outlives the new one.
Misled(bad) == Sees(Newest({}), {}) /\ Newest({}) \in bad

\* Everything some file still holds.
Copies == {legacy} \union {slot[i].val : i \in {j \in Slot : Sees(j, {})}}

\* Faulty variant: the generation counts on from the copy being replaced.
PlanForOwnGen(v, bad) ==
  LET target == IF Sees(0, bad) \/ Sees(1, bad) THEN 1 - Newest(bad) ELSE 0
  IN  [target |-> target,
       gen    |-> IF Sees(target, bad) THEN Succ(slot[target].gen) ELSE 1,
       val    |-> v,
       misled |-> FALSE]

PlanFor(v, bad) ==
  LET found == Sees(0, bad) \/ Sees(1, bad)
  IN  [target |-> IF found THEN 1 - Newest(bad) ELSE 0,
       gen    |-> IF found THEN Succ(slot[Newest(bad)].gen) ELSE 1,
       val    |-> v,
       misled |-> Misled(bad)]

Planned == [gen |-> plan.gen, val |-> plan.val]

Return(outcome) == /\ pc' = "idle"
                   /\ result' = outcome

Overwrite(i, copy) == slot' = [slot EXCEPT ![i] = copy]
-----------------------------------------------------------------------------
Init ==
  /\ slot = [i \in Slot |-> Unreadable]
  /\ legacy \in Values \union {NoValue}
  /\ pc = "idle"
  /\ plan \in {[target |-> 0, gen |-> 1, val |-> v, misled |-> FALSE] : v \in Values}
  /\ result = "none"
  /\ allowed = {legacy}

\* write_two_generation reads both files and chooses target and generation.  A
\* misled write makes every copy on the card a possible outcome.
StartWrite(v, bad) ==
  /\ pc = "idle"
  /\ plan' = PlanFor(v, bad)
  /\ pc' = "truncate"
  /\ result' = "none"
  /\ allowed' = allowed \union {v} \union (IF Misled(bad) THEN Copies ELSE {})
  /\ UNCHANGED <<slot, legacy>>

\* open_file_in_dir(.., ReadWriteCreateOrTruncate); an error may come before
\* or after the old contents are gone.
Truncate ==
  /\ pc = "truncate"
  /\ \/ /\ Overwrite(plan.target, Unreadable)
        /\ pc' = "write"
        /\ UNCHANGED result
     \/ /\ slot' = slot \/ Overwrite(plan.target, Unreadable)
        /\ Return("err")
  /\ UNCHANGED <<legacy, plan, allowed>>

\* file.write and the close that flushes the length.  Either may fail: write
\* reports it, the close in drop does not, and the copy is whole or it is not.
WriteRecord ==
  /\ pc = "write"
  /\ Overwrite(plan.target, Planned) \/ slot' = slot
  /\ \/ pc' = "verify" /\ UNCHANGED result
     \/ Return("err")
  /\ UNCHANGED <<legacy, plan, allowed>>

\* Faulty variant: the read-back is skipped.
VerifyNothing ==
  /\ pc = "verify"
  /\ Return("ok")
  /\ allowed' = {plan.val}
  /\ UNCHANGED <<slot, legacy, plan>>

\* The copy is read back and compared with generation and payload; the read
\* itself may fail, which the caller cannot tell from a bad copy.
Verify ==
  /\ pc = "verify"
  /\ \/ /\ slot[plan.target] = Planned
        /\ Return("ok")
        /\ allowed' = IF plan.misled THEN allowed ELSE {plan.val}
     \/ Return("err") /\ UNCHANGED allowed
  /\ UNCHANGED <<slot, legacy, plan>>

\* delete_wifi_file removes the legacy file, then A, then B, and goes on past
\* an error.  Until all are gone a superseded copy can become the readable one
\* again, so every copy on the card counts as an outcome.
StartDelete ==
  /\ CanDelete
  /\ pc = "idle"
  /\ pc' = "delLegacy"
  /\ result' = "none"
  /\ allowed' = allowed \union {NoValue} \union Copies
  /\ UNCHANGED <<slot, legacy, plan>>

\* One file: truncated and removed, or an error before or after truncation.
DeleteLegacy ==
  /\ pc = "delLegacy"
  /\ pc' = "delA"
  /\ \/ legacy' = NoValue /\ UNCHANGED result
     \/ legacy' \in {legacy, NoValue} /\ result' = "err"
  /\ UNCHANGED <<slot, plan, allowed>>

DeleteGeneration(i) ==
  /\ pc = (IF i = 0 THEN "delA" ELSE "delB")
  /\ \/ Overwrite(i, Unreadable) /\ UNCHANGED result
     \/ (Overwrite(i, Unreadable) \/ slot' = slot) /\ result' = "err"
  /\ pc' = (IF i = 0 THEN "delB" ELSE "delEnd")
  /\ UNCHANGED <<legacy, plan, allowed>>

EndDelete ==
  /\ pc = "delEnd"
  /\ IF result = "err"
     THEN Return("err") /\ UNCHANGED allowed
     ELSE Return("deleted") /\ allowed' = {NoValue}
  /\ UNCHANGED <<slot, legacy, plan>>

\* Power cut or reset: the card keeps its state, the call is gone.
PowerCut ==
  /\ pc # "idle"
  /\ Return("none")
  /\ UNCHANGED <<slot, legacy, plan, allowed>>

Next ==
  \/ \E v \in Values, bad \in BadReads : StartWrite(v, bad)
  \/ Truncate
  \/ WriteRecord
  \/ Verify
  \/ StartDelete
  \/ DeleteLegacy
  \/ \E i \in Slot : DeleteGeneration(i)
  \/ EndDelete
  \/ PowerCut

Spec == Init /\ [][Next]_vars
-----------------------------------------------------------------------------
\* Types: generations keep their width, also past the wrap.
TypeOK ==
  /\ slot \in [Slot -> Copy]
  /\ legacy \in Values \union {NoValue}
  /\ pc \in {"idle", "truncate", "write", "verify",
             "delLegacy", "delA", "delB", "delEnd"}
  /\ plan \in Plan
  /\ result \in {"none", "ok", "err", "deleted"}
  /\ allowed \subseteq Values \union {NoValue}

\* Durability: at every instant, a read after a power cut returns the last
\* acknowledged record or one whose write was attempted since - never an older
\* generation and never nothing.  A write that missed the newest copy when it
\* looked may bring older copies back, until the next write that does not.
SurvivesPowerCut == Readable \in allowed

\* Two readable generations are always consecutive, so the half-range
\* comparison of generation_is_newer orders them even across the wrap; only
\* after a misled write may they be apart, and then either copy is an allowed
\* outcome.
Ordered ==
  (\A i \in Slot : slot[i] # Unreadable) =>
    \/ slot[1].gen = Succ(slot[0].gen)
    \/ slot[0].gen = Succ(slot[1].gen)
    \/ \A i \in Slot : slot[i].val \in allowed

Register == INSTANCE RecordRegister WITH stored <- Readable

\* The two files implement the register: every card operation is a step of it
\* or leaves what it shows unchanged.
ImplementsRegister == Register!Spec
=============================================================================
