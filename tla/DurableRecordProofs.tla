------------------------- MODULE DurableRecordProofs -------------------------
(***************************************************************************)
(* Proofs about DurableRecord, for every payload set, every generation     *)
(* width and every set of reads that may fail.                             *)
(***************************************************************************)
EXTENDS DurableRecord, TLAPS

-----------------------------------------------------------------------------
(* The inductive invariant. *)

Writing == pc \in {"truncate", "write", "verify"}

AllAllowed == /\ legacy \in allowed
              /\ \A i \in Slot : slot[i] # Unreadable => slot[i].val \in allowed

\* A misled write has made everything on the card an outcome.  Any other is about
\* to leave the successor of the copy it keeps, which is the one read meanwhile.
WriteIntent ==
  LET t == plan.target
  IN  /\ Writing => plan.val \in allowed
      /\ Writing /\ plan.misled => AllAllowed
      /\ Writing /\ ~plan.misled /\ slot[1 - t] # Unreadable =>
           plan.gen = Succ(slot[1 - t].gen)
      /\ pc = "truncate" /\ ~plan.misled /\ slot[t] # Unreadable =>
           slot[1 - t] # Unreadable /\ Readable = slot[1 - t].val
      /\ pc = "write" => slot[t] = Unreadable

\* While the files are being deleted, every copy left counts as an outcome, and
\* the files passed so far are gone unless an error was recorded.
DeleteIntent ==
  /\ pc \in {"delLegacy", "delA", "delB", "delEnd"} =>
       /\ result \in {"none", "err"}
       /\ NoValue \in allowed
       /\ AllAllowed
  /\ pc \in {"delA", "delB", "delEnd"} /\ result # "err" => legacy = NoValue
  /\ pc \in {"delB", "delEnd"} /\ result # "err" => slot[0] = Unreadable
  /\ pc = "delEnd" /\ result # "err" => slot[1] = Unreadable

IInv == /\ TypeOK
        /\ Ordered
        /\ SurvivesPowerCut
        /\ WriteIntent
        /\ DeleteIntent

-----------------------------------------------------------------------------
(* Generations. *)

LEMMA SuccInGen == \A g \in Gen : Succ(g) \in Gen
BY HalfGenAssumption DEF Succ, Gen, GenMod

\* The half-range comparison orders a generation and its successor, on both
\* sides of the wrap.
LEMMA SuccIsNewer ==
  \A g \in Gen : IsNewer(Succ(g), g) /\ ~IsNewer(g, Succ(g))
BY HalfGenAssumption DEF IsNewer, Distance, Succ, Gen, GenMod

LEMMA OtherSlot == \A i \in Slot : 1 - i \in Slot /\ 1 - (1 - i) = i /\ 1 - i # i
BY DEF Slot

LEMMA CopyFields ==
  \A c \in Copy : c # Unreadable => c.gen \in Gen /\ c.val \in Values
BY DEF Copy, Record

\* A copy whose generation succeeds the other's is the one a read returns.
LEMMA NewestIsRead ==
  \A i \in Slot :
    /\ slot \in [Slot -> Copy]
    /\ slot[i] # Unreadable
    /\ slot[1 - i] # Unreadable => slot[i].gen = Succ(slot[1 - i].gen)
    => Newest({}) = i /\ Readable = slot[i].val
<1> SUFFICES ASSUME NEW i \in Slot, slot \in [Slot -> Copy], slot[i] # Unreadable,
                    slot[1 - i] # Unreadable => slot[i].gen = Succ(slot[1 - i].gen)
             PROVE  Newest({}) = i /\ Readable = slot[i].val
  OBVIOUS
<1>1. slot[1 - i] # Unreadable =>
        IsNewer(slot[i].gen, slot[1 - i].gen) /\ ~IsNewer(slot[1 - i].gen, slot[i].gen)
  BY SuccIsNewer, OtherSlot, CopyFields
<1>2. CASE i = 0
  BY <1>1, <1>2 DEF Newest, Sees, Readable, ReadAvoiding
<1>3. CASE i = 1
  BY <1>1, <1>3 DEF Newest, Sees, Readable, ReadAvoiding
<1>4. QED BY <1>2, <1>3 DEF Slot

\* With no usable copy a read falls back to the legacy file.
LEMMA NoCopyReadsLegacy ==
  (\A i \in Slot : slot[i] = Unreadable) => Readable = legacy
BY DEF Readable, ReadAvoiding, Sees, Slot

\* A read returns the payload of some copy, or the legacy record.
LEMMA ReadableIsACopy ==
  \/ Readable = legacy
  \/ \E i \in Slot : slot[i] # Unreadable /\ Readable = slot[i].val
BY DEF Readable, ReadAvoiding, Sees, Newest, Slot

\* The slot Newest names is the one a read returns, when any is usable.
LEMMA NewestIsUsable ==
  (\E i \in Slot : slot[i] # Unreadable)
  => /\ Newest({}) \in Slot
     /\ slot[Newest({})] # Unreadable
     /\ Readable = slot[Newest({})].val
BY DEF Newest, Readable, ReadAvoiding, Sees, Slot

\* A first look that does not miss the newest copy finds the same newest copy.
LEMMA UnmisledLook ==
  \A bad \in SUBSET Slot :
    ~Misled(bad) /\ (\E i \in Slot : slot[i] # Unreadable)
    => Newest(bad) = Newest({}) /\ (Sees(0, bad) \/ Sees(1, bad))
BY DEF Misled, Newest, Sees, Slot

-----------------------------------------------------------------------------
(* Type correctness. *)

LEMMA PlanForType ==
  TypeOK => \A v \in Values, bad \in SUBSET Slot : PlanFor(v, bad) \in Plan
<1> SUFFICES ASSUME TypeOK, NEW v \in Values, NEW bad \in SUBSET Slot
             PROVE  PlanFor(v, bad) \in Plan
  OBVIOUS
<1> DEFINE found == Sees(0, bad) \/ Sees(1, bad)
<1>1. Newest(bad) \in Slot
  BY DEF Newest, Slot
<1>2. found => slot[Newest(bad)] # Unreadable
  BY DEF Newest, Sees
<1>3. found => Succ(slot[Newest(bad)].gen) \in Gen
  BY <1>1, <1>2, SuccInGen, CopyFields DEF TypeOK
<1>4. 1 \in Gen
  BY HalfGenAssumption DEF Gen, GenMod
<1>5. Misled(bad) \in BOOLEAN
  BY DEF Misled
<1>6. QED BY <1>1, <1>3, <1>4, <1>5, OtherSlot DEF PlanFor, Plan, Slot

LEMMA PlannedIsCopy == TypeOK => Planned \in Copy /\ Planned # Unreadable
BY UnreadableAssumption DEF TypeOK, Planned, Plan, Copy, Record, Gen, GenMod

LEMMA PlanTarget == TypeOK => plan.target \in Slot /\ plan.val \in Values
BY DEF TypeOK, Plan

LEMMA CopiesAreContents == TypeOK => Copies \subseteq Values \union {NoValue}
BY CopyFields DEF TypeOK, Copies, Sees

LEMMA TypeInit == Init => TypeOK
<1> SUFFICES ASSUME Init PROVE TypeOK
  OBVIOUS
<1>1. PICK v \in Values :
        plan = [target |-> 0, gen |-> 1, val |-> v, misled |-> FALSE]
  BY DEF Init
<1>2. 1 \in Gen
  BY HalfGenAssumption DEF Gen, GenMod
<1>3. FALSE \in BOOLEAN
  OBVIOUS
<1>4. plan \in Plan
  BY <1>1, <1>2, <1>3 DEF Plan, Slot
<1>5. QED BY <1>4 DEF Init, TypeOK, Copy

LEMMA TypeStep == TypeOK /\ [Next]_vars => TypeOK'
<1> SUFFICES ASSUME TypeOK, [Next]_vars PROVE TypeOK'
  OBVIOUS
<1> USE DEF TypeOK
<1>1. ASSUME NEW v \in Values, NEW bad \in BadReads, StartWrite(v, bad) PROVE TypeOK'
  BY <1>1, PlanForType, CopiesAreContents, BadReadsAssumption DEF StartWrite, Slot
<1>2. CASE Truncate
  BY <1>2 DEF Truncate, Overwrite, Return, Copy
<1>3. CASE WriteRecord
  BY <1>3, PlannedIsCopy DEF WriteRecord, Overwrite, Return
<1>4. CASE Verify
  BY <1>4, PlanTarget DEF Verify, Return
<1>5. CASE StartDelete
  BY <1>5, CopiesAreContents DEF StartDelete
<1>6. CASE DeleteLegacy
  BY <1>6 DEF DeleteLegacy
<1>7. ASSUME NEW i \in Slot, DeleteGeneration(i) PROVE TypeOK'
  BY <1>7 DEF DeleteGeneration, Overwrite, Copy
<1>8. CASE EndDelete
  BY <1>8 DEF EndDelete, Return
<1>9. CASE PowerCut
  BY <1>9 DEF PowerCut, Return
<1>10. CASE UNCHANGED vars
  BY <1>10 DEF vars
<1>11. QED BY <1>1, <1>2, <1>3, <1>4, <1>5, <1>6, <1>7, <1>8, <1>9, <1>10 DEF Next

\* The record files always hold well-formed copies with generations in range,
\* whatever reads fail.
THEOREM TypeCorrect == Spec => []TypeOK
<1>1. TypeOK /\ [Next]_vars => TypeOK'
  BY TypeStep
<1>2. QED BY TypeInit, <1>1, PTL DEF Spec
-----------------------------------------------------------------------------
(* The same facts in the state a step leads to. *)

LEMMA NewestIsReadNext ==
  TypeOK' => \A i \in Slot :
    /\ slot'[i] # Unreadable
    /\ slot'[1 - i] # Unreadable => slot'[i].gen = Succ(slot'[1 - i].gen)
    => Readable' = slot'[i].val
<1>1. (TypeOK => \A i \in Slot :
          /\ slot[i] # Unreadable
          /\ slot[1 - i] # Unreadable => slot[i].gen = Succ(slot[1 - i].gen)
          => Readable = slot[i].val)'
  <2>1. TypeOK => \A i \in Slot :
          /\ slot[i] # Unreadable
          /\ slot[1 - i] # Unreadable => slot[i].gen = Succ(slot[1 - i].gen)
          => Readable = slot[i].val
    BY NewestIsRead DEF TypeOK
  <2>2. QED BY <2>1, PTL
<1>2. QED BY <1>1

LEMMA NoCopyReadsLegacyNext ==
  (\A i \in Slot : slot'[i] = Unreadable) => Readable' = legacy'
BY DEF Readable, ReadAvoiding, Sees, Slot

LEMMA ReadableIsACopyNext ==
  \/ Readable' = legacy'
  \/ \E i \in Slot : slot'[i] # Unreadable /\ Readable' = slot'[i].val
BY DEF Readable, ReadAvoiding, Sees, Newest, Slot

LEMMA SameFilesSameRead ==
  slot' = slot /\ legacy' = legacy => Readable' = Readable
BY DEF Readable, ReadAvoiding, Sees, Newest

\* Losing the target of a write that was not misled changes nothing a read
\* returns, as long as the write has not replaced it.
LEMMA LosingTheTarget ==
  ASSUME TypeOK, TypeOK', WriteIntent, ~plan.misled,
         pc = "truncate", legacy' = legacy,
         Overwrite(plan.target, Unreadable)
  PROVE  Readable' = Readable
<1> DEFINE t == plan.target
<1>1. t \in Slot /\ 1 - t \in Slot /\ 1 - (1 - t) = t
  BY PlanTarget, OtherSlot
<1>2. slot'[t] = Unreadable /\ slot'[1 - t] = slot[1 - t]
  BY <1>1, OtherSlot DEF TypeOK, Overwrite
<1>3. CASE slot[1 - t] = Unreadable
  <2>1. slot[t] = Unreadable
    BY <1>3 DEF WriteIntent
  <2>2. \A i \in Slot : slot[i] = Unreadable /\ slot'[i] = Unreadable
    BY <1>1, <1>2, <1>3, <2>1 DEF Slot
  <2>3. QED BY <2>2, NoCopyReadsLegacy, NoCopyReadsLegacyNext
<1>4. CASE slot[1 - t] # Unreadable
  <2>1. slot[t] # Unreadable => Readable = slot[1 - t].val
    BY DEF WriteIntent
  <2>2. slot[t] = Unreadable => Readable = slot[1 - t].val
    BY <1>1, <1>4, NewestIsRead DEF TypeOK
  <2>3. Readable' = slot'[1 - t].val
    BY <1>1, <1>2, <1>4, NewestIsReadNext
  <2>4. QED BY <1>2, <2>1, <2>2, <2>3
<1>5. QED BY <1>3, <1>4

\* The record a write planned without being misled, once in its slot, is what a
\* read returns.
LEMMA PlannedIsRead ==
  TypeOK /\ WriteIntent /\ pc = "verify" /\ ~plan.misled /\ slot[plan.target] = Planned
  => Readable = plan.val
<1> SUFFICES ASSUME TypeOK, WriteIntent, pc = "verify", ~plan.misled,
                    slot[plan.target] = Planned
             PROVE  Readable = plan.val
  OBVIOUS
<1>1. Planned # Unreadable /\ Planned.gen = plan.gen /\ Planned.val = plan.val
  BY PlannedIsCopy DEF Planned
<1>2. slot[1 - plan.target] # Unreadable => plan.gen = Succ(slot[1 - plan.target].gen)
  BY DEF WriteIntent, Writing
<1>3. QED BY <1>1, <1>2, PlanTarget, NewestIsRead DEF TypeOK

\* Where everything on the card is allowed, so is what a read returns.
LEMMA AllAllowedIsRead == AllAllowed' => Readable' \in allowed'
BY ReadableIsACopyNext DEF AllAllowed
-----------------------------------------------------------------------------
(* The inductive step, one lemma per action that moves the files. *)

LEMMA StartWriteStep ==
  ASSUME IInv, TypeOK', NEW v \in Values, NEW bad \in SUBSET Slot, StartWrite(v, bad)
  PROVE  IInv'
<1> USE DEF StartWrite
<1>1. Readable' = Readable
  BY SameFilesSameRead
<1>2. Ordered' /\ SurvivesPowerCut' /\ DeleteIntent'
  BY <1>1 DEF IInv, Ordered, SurvivesPowerCut, DeleteIntent
<1>3. plan'.val = v /\ plan'.misled = Misled(bad) /\ v \in allowed' /\ pc' = "truncate"
  BY DEF PlanFor
<1>4. WriteIntent'
  <2>1. CASE Misled(bad)
    <3>1. AllAllowed'
      BY <2>1 DEF AllAllowed, Copies, Sees
    <3>2. QED BY <1>3, <2>1, <3>1 DEF WriteIntent
  <2>2. CASE ~Misled(bad) /\ \A i \in Slot : slot[i] = Unreadable
    <3>1. plan'.target \in Slot
      BY DEF TypeOK, Plan
    <3>2. QED BY <1>3, <2>2, <3>1, OtherSlot DEF WriteIntent
  <2>3. CASE ~Misled(bad) /\ \E i \in Slot : slot[i] # Unreadable
    <3> DEFINE n == Newest({})
    <3>1. n \in Slot /\ slot[n] # Unreadable /\ Readable = slot[n].val
      BY <2>3, NewestIsUsable
    <3>2. plan'.target = 1 - n /\ plan'.gen = Succ(slot[n].gen)
      BY <2>3, UnmisledLook DEF PlanFor
    <3>3. 1 - plan'.target = n
      BY <3>1, <3>2, OtherSlot
    <3>4. QED BY <1>1, <1>3, <2>3, <3>1, <3>2, <3>3 DEF WriteIntent
  <2>4. QED BY <2>1, <2>2, <2>3
<1>5. QED BY <1>2, <1>4 DEF IInv

LEMMA TruncateStep ==
  ASSUME IInv, TypeOK', Truncate
  PROVE  IInv' /\ Readable' \in allowed
<1> USE DEF Truncate
<1>1. plan.target \in Slot /\ 1 - plan.target \in Slot /\ 1 - plan.target # plan.target
  BY PlanTarget, OtherSlot DEF IInv
<1>2. \A i \in Slot : slot'[i] = slot[i] \/ slot'[i] = Unreadable
  BY DEF Overwrite, IInv, TypeOK
<1>3. pc' # "truncate" /\ (pc' = "write" => slot'[plan.target] = Unreadable)
  BY <1>1 DEF Overwrite, IInv, TypeOK, Return
<1>4. plan.misled => AllAllowed'
  BY <1>2 DEF IInv, WriteIntent, Writing, AllAllowed
<1>5. Readable' \in allowed
  <2>1. CASE plan.misled
    BY <1>4, <2>1, AllAllowedIsRead
  <2>2. CASE ~plan.misled
    <3>1. Readable' = Readable
      BY <2>2, LosingTheTarget, SameFilesSameRead DEF IInv
    <3>2. QED BY <3>1 DEF IInv, SurvivesPowerCut
  <2>3. QED BY <2>1, <2>2
<1>6. Ordered'
  BY <1>2 DEF IInv, Ordered, Slot
<1>7. WriteIntent'
  BY <1>1, <1>2, <1>3, <1>4 DEF IInv, WriteIntent, Writing, Return
<1>8. DeleteIntent'
  BY DEF DeleteIntent, Return
<1>9. QED BY <1>5, <1>6, <1>7, <1>8 DEF IInv, SurvivesPowerCut

LEMMA WriteRecordStep ==
  ASSUME IInv, TypeOK', WriteRecord
  PROVE  IInv' /\ Readable' \in allowed
<1> USE DEF WriteRecord
<1> DEFINE t == plan.target
<1>1. t \in Slot /\ 1 - t \in Slot /\ 1 - t # t /\ Slot = {t, 1 - t}
  BY PlanTarget, OtherSlot DEF IInv, Slot
<1>2. /\ slot[t] = Unreadable
      /\ ~plan.misled /\ slot[1 - t] # Unreadable => plan.gen = Succ(slot[1 - t].gen)
      /\ plan.misled => AllAllowed
      /\ plan.val \in allowed
  BY DEF IInv, WriteIntent, Writing
<1>3. pc' # "truncate" /\ pc' # "write" /\ DeleteIntent'
  BY DEF DeleteIntent, Return
<1>4. CASE slot' = slot
  <2>1. Readable' = Readable
    BY <1>4, SameFilesSameRead
  <2>2. Ordered' /\ SurvivesPowerCut'
    BY <1>4, <2>1 DEF IInv, Ordered, SurvivesPowerCut
  <2>3. WriteIntent'
    BY <1>2, <1>3, <1>4 DEF WriteIntent, Writing, AllAllowed
  <2>4. QED BY <1>3, <2>1, <2>2, <2>3 DEF IInv, SurvivesPowerCut
<1>5. CASE Overwrite(t, Planned)
  <2>1. slot'[t] = Planned /\ slot'[1 - t] = slot[1 - t]
    BY <1>1, <1>5 DEF Overwrite, IInv, TypeOK
  <2>2. Planned # Unreadable /\ Planned.gen = plan.gen /\ Planned.val = plan.val
    BY PlannedIsCopy DEF Planned, IInv
  <2>3. CASE plan.misled
    <3>1. AllAllowed'
      BY <1>1, <1>2, <2>1, <2>2, <2>3 DEF AllAllowed
    <3>2. Readable' \in allowed
      BY <3>1, AllAllowedIsRead
    <3>3. Ordered' /\ WriteIntent'
      BY <1>2, <1>3, <2>3, <3>1 DEF Ordered, AllAllowed, WriteIntent
    <3>4. QED BY <1>3, <3>2, <3>3 DEF IInv, SurvivesPowerCut
  <2>4. CASE ~plan.misled
    <3>1. Readable' = plan.val
      BY <1>1, <1>2, <2>1, <2>2, <2>4, NewestIsReadNext
    <3>2. Ordered'
      BY <1>1, <1>2, <2>1, <2>2, <2>4 DEF Ordered, Slot
    <3>3. WriteIntent'
      BY <1>1, <1>2, <1>3, <2>1, <2>4 DEF WriteIntent, Writing
    <3>4. QED BY <1>2, <1>3, <3>1, <3>2, <3>3 DEF IInv, SurvivesPowerCut
  <2>5. QED BY <2>3, <2>4
<1>6. QED BY <1>4, <1>5

LEMMA VerifyStep ==
  ASSUME IInv, TypeOK', Verify
  PROVE  /\ IInv'
         /\ Readable' = Readable
         /\ allowed' # allowed => Readable = plan.val /\ allowed' = {plan.val}
<1> USE DEF Verify
<1>1. Readable' = Readable
  BY SameFilesSameRead
<1>2. slot[plan.target] = Planned /\ ~plan.misled => Readable = plan.val
  BY PlannedIsRead DEF IInv
<1>3. allowed' # allowed =>
        slot[plan.target] = Planned /\ ~plan.misled /\ allowed' = {plan.val}
  OBVIOUS
<1>4. WriteIntent' /\ DeleteIntent' /\ SurvivesPowerCut'
  BY <1>1, <1>2, <1>3
     DEF IInv, SurvivesPowerCut, WriteIntent, Writing, DeleteIntent, Return
<1>5. Ordered'
  <2>1. CASE allowed' = allowed
    BY <2>1 DEF IInv, Ordered
  <2>2. CASE allowed' # allowed
    <3>1. plan.target \in Slot /\ Slot = {plan.target, 1 - plan.target}
      BY PlanTarget, OtherSlot DEF IInv, Slot
    <3>2. slot[1 - plan.target] # Unreadable =>
            slot[plan.target].gen = Succ(slot[1 - plan.target].gen)
      BY <1>3, <2>2 DEF IInv, WriteIntent, Writing, Planned
    <3>3. QED BY <3>1, <3>2 DEF Ordered, Slot
  <2>3. QED BY <2>1, <2>2
<1>6. QED BY <1>1, <1>2, <1>3, <1>4, <1>5 DEF IInv

\* A deletion step leaves only copies that were outcomes already.
LEMMA DeletingStep ==
  ASSUME IInv, TypeOK', DeleteLegacy \/ \E i \in Slot : DeleteGeneration(i)
  PROVE  IInv' /\ Readable' \in allowed
<1>1. pc \in {"delLegacy", "delA", "delB"} /\ allowed' = allowed /\ plan' = plan
  BY DEF DeleteLegacy, DeleteGeneration
<1>2. legacy' \in {legacy, NoValue}
  BY DEF DeleteLegacy, DeleteGeneration
<1>3. \A i \in Slot : slot'[i] = slot[i] \/ slot'[i] = Unreadable
  BY DEF DeleteLegacy, DeleteGeneration, Overwrite, IInv, TypeOK
<1>4. NoValue \in allowed /\ AllAllowed
  BY <1>1 DEF IInv, DeleteIntent
<1>5. AllAllowed'
  BY <1>1, <1>2, <1>3, <1>4 DEF AllAllowed
<1>6. Readable' \in allowed
  BY <1>1, <1>5, AllAllowedIsRead
<1>7. Ordered'
  BY <1>3, <1>5 DEF Ordered, AllAllowed
<1>8. pc' \in {"delA", "delB", "delEnd"} /\ WriteIntent'
  BY DEF DeleteLegacy, DeleteGeneration, WriteIntent, Writing
<1>9. DeleteIntent'
  <2>1. CASE DeleteLegacy
    BY <1>1, <1>4, <1>5, <2>1 DEF DeleteLegacy, IInv, DeleteIntent
  <2>2. CASE DeleteGeneration(0)
    BY <1>1, <1>4, <1>5, <2>2
       DEF DeleteGeneration, Overwrite, IInv, DeleteIntent, TypeOK, Slot
  <2>3. CASE DeleteGeneration(1)
    BY <1>1, <1>4, <1>5, <2>3
       DEF DeleteGeneration, Overwrite, IInv, DeleteIntent, TypeOK, Slot
  <2>4. QED BY <2>1, <2>2, <2>3 DEF Slot
<1>10. QED BY <1>1, <1>6, <1>7, <1>8, <1>9 DEF IInv, SurvivesPowerCut

\* The steps that leave the files alone.
LEMMA QuietStep ==
  ASSUME IInv, TypeOK', StartDelete \/ EndDelete \/ PowerCut \/ UNCHANGED vars
  PROVE  /\ IInv'
         /\ Readable' = Readable
         /\ EndDelete /\ allowed' # allowed => Readable = NoValue
<1>1. Readable' = Readable
  BY SameFilesSameRead DEF StartDelete, EndDelete, PowerCut, vars
<1>2. EndDelete /\ result # "err" =>
        Readable = NoValue /\ \A i \in Slot : slot[i] = Unreadable
  BY NoCopyReadsLegacy DEF EndDelete, IInv, DeleteIntent, Slot
<1>3. Ordered' /\ SurvivesPowerCut'
  BY <1>1, <1>2
     DEF StartDelete, EndDelete, PowerCut, vars, Return, IInv, Ordered, SurvivesPowerCut
<1>4. WriteIntent'
  BY <1>1
     DEF StartDelete, EndDelete, PowerCut, vars, Return, IInv, WriteIntent, Writing,
         AllAllowed
<1>5. DeleteIntent'
  <2>1. CASE StartDelete
    BY <2>1 DEF StartDelete, DeleteIntent, AllAllowed, Copies, Sees
  <2>2. CASE EndDelete \/ PowerCut \/ UNCHANGED vars
    BY <2>2 DEF EndDelete, PowerCut, vars, Return, IInv, DeleteIntent, AllAllowed
  <2>3. QED BY <2>1, <2>2
<1>6. QED BY <1>1, <1>2, <1>3, <1>4, <1>5 DEF IInv, EndDelete

LEMMA InvInit == Init => IInv
<1> SUFFICES ASSUME Init PROVE IInv
  OBVIOUS
<1>1. TypeOK
  BY TypeInit
<1>2. Readable = legacy
  BY NoCopyReadsLegacy DEF Init
<1>3. QED
  BY <1>1, <1>2
     DEF Init, IInv, Ordered, SurvivesPowerCut, WriteIntent, Writing, DeleteIntent, Slot

LEMMA InvStep == IInv /\ [Next]_vars => IInv'
<1> SUFFICES ASSUME IInv, [Next]_vars PROVE IInv'
  OBVIOUS
<1>1. TypeOK'
  BY TypeStep DEF IInv
<1>2. ASSUME NEW v \in Values, NEW bad \in BadReads, StartWrite(v, bad) PROVE IInv'
  BY <1>1, <1>2, StartWriteStep, BadReadsAssumption DEF Slot
<1>3. CASE Truncate
  BY <1>1, <1>3, TruncateStep
<1>4. CASE WriteRecord
  BY <1>1, <1>4, WriteRecordStep
<1>5. CASE Verify
  BY <1>1, <1>5, VerifyStep
<1>6. CASE DeleteLegacy \/ \E i \in Slot : DeleteGeneration(i)
  BY <1>1, <1>6, DeletingStep
<1>7. CASE StartDelete \/ EndDelete \/ PowerCut \/ UNCHANGED vars
  BY <1>1, <1>7, QuietStep
<1>8. QED BY <1>2, <1>3, <1>4, <1>5, <1>6, <1>7 DEF Next

LEMMA Invariance == Spec => []IInv
<1>1. IInv /\ [Next]_vars => IInv'
  BY InvStep
<1>2. QED BY InvInit, <1>1, PTL DEF Spec

\* Durability for every payload set and generation width, whatever card
\* operations fail: whenever the power is cut, the next boot reads the last
\* acknowledged record or one whose write was attempted since.
THEOREM Durability == Spec => []SurvivesPowerCut
<1>1. IInv => SurvivesPowerCut
  BY DEF IInv
<1>2. QED BY <1>1, Invariance, PTL

\* The two files never disagree about which of them is newer, across the wrap
\* of the generation counter, unless a misled write made both acceptable.
THEOREM GenerationsOrdered == Spec => []Ordered
<1>1. IInv => Ordered
  BY DEF IInv
<1>2. QED BY <1>1, Invariance, PTL

-----------------------------------------------------------------------------
(* The record files implement the register. *)

LEMMA RegisterInit == Init => Register!Init
<1> SUFFICES ASSUME Init PROVE Register!Init
  OBVIOUS
<1>1. Readable = legacy
  BY NoCopyReadsLegacy DEF Init
<1>2. QED BY <1>1 DEF Init, Register!Init, Register!Contents

LEMMA RegisterStep ==
  ASSUME IInv, [Next]_vars
  PROVE  [Register!Next]_<<Readable, allowed>>
<1> USE DEF Register!Next
<1>1. TypeOK'
  BY TypeStep DEF IInv
<1>2. ASSUME NEW v \in Values, NEW bad \in BadReads, StartWrite(v, bad)
      PROVE  [Register!Next]_<<Readable, allowed>>
  <2> DEFINE outcomes == {v} \union (IF Misled(bad) THEN Copies ELSE {})
  <2>1. Readable' = Readable
    BY <1>2, SameFilesSameRead DEF StartWrite
  <2>2. Register!Attempt(outcomes)
    BY <1>2, <2>1 DEF StartWrite, Register!Attempt
  <2>3. outcomes \in SUBSET Register!Contents
    BY CopiesAreContents DEF IInv, Register!Contents
  <2>4. QED BY <2>2, <2>3
<1>3. CASE Truncate
  <2>1. Register!Settle
    BY <1>1, <1>3, TruncateStep DEF Truncate, Register!Settle
  <2>2. QED BY <2>1
<1>4. CASE WriteRecord
  <2>1. Register!Settle
    BY <1>1, <1>4, WriteRecordStep DEF WriteRecord, Register!Settle
  <2>2. QED BY <2>1
<1>5. CASE Verify
  <2>1. CASE allowed' = allowed
    BY <1>1, <1>5, <2>1, VerifyStep
  <2>2. CASE allowed' # allowed
    <3>1. Register!Acknowledge(plan.val)
      BY <1>1, <1>5, <2>2, VerifyStep DEF Register!Acknowledge
    <3>2. QED BY <3>1, PlanTarget DEF Register!Contents, IInv
  <2>3. QED BY <2>1, <2>2
<1>6. CASE DeleteLegacy \/ \E i \in Slot : DeleteGeneration(i)
  <2>1. Register!Settle
    BY <1>1, <1>6, DeletingStep DEF DeleteLegacy, DeleteGeneration, Register!Settle
  <2>2. QED BY <2>1
<1>7. CASE StartDelete
  <2> DEFINE outcomes == {NoValue} \union Copies
  <2>1. Readable' = Readable
    BY <1>1, <1>7, QuietStep
  <2>2. Register!Attempt(outcomes)
    BY <1>7, <2>1 DEF StartDelete, Register!Attempt
  <2>3. outcomes \in SUBSET Register!Contents
    BY CopiesAreContents DEF IInv, Register!Contents
  <2>4. QED BY <2>2, <2>3
<1>8. CASE EndDelete
  <2>1. Readable' = Readable /\ (allowed' # allowed => Readable = NoValue)
    BY <1>1, <1>8, QuietStep
  <2>2. CASE allowed' = allowed
    BY <2>1, <2>2
  <2>3. CASE allowed' # allowed
    <3>1. Register!Acknowledge(NoValue)
      BY <1>8, <2>1, <2>3 DEF EndDelete, Register!Acknowledge
    <3>2. QED BY <3>1 DEF Register!Contents
  <2>4. QED BY <2>2, <2>3
<1>9. CASE PowerCut \/ UNCHANGED vars
  BY <1>1, <1>9, QuietStep DEF PowerCut, vars
<1>10. QED BY <1>2, <1>3, <1>4, <1>5, <1>6, <1>7, <1>8, <1>9 DEF Next

\* The two generation files, with their legacy fallback, implement the register
\* every step of the way, whatever card operations fail: a record is replaced
\* atomically or not at all.
THEOREM Refinement == Spec => ImplementsRegister
<1>1. IInv /\ [Next]_vars => [Register!Next]_<<Readable, allowed>>
  BY RegisterStep
<1>2. QED
  BY <1>1, Invariance, RegisterInit, PTL
     DEF Spec, ImplementsRegister, Register!Spec, Register!vars
=============================================================================
