--------------------------- MODULE OtaUpdateProofs ---------------------------
(***************************************************************************)
(* Theorems about OtaUpdate, for any images, any files on the card, either *)
(* bootloader and any bound on the sequence numbers.                       *)
(***************************************************************************)
EXTENDS OtaUpdate, TLAPS

\* The steps at which a select entry is being written, those of an attempt to
\* update, and those of an attempt that copy.
EntrySteps == {"eraseEntry", "writeEntry"}
CopySteps == {"eraseSlot", "copyHead", "copyRest"}
AttemptSteps == {"validate", "consume", "switch"} \union CopySteps
Writing(purpose) == pc \in EntrySteps /\ entryWrite.purpose = purpose

\* app_slot_for_seq.
SlotOf(seq) == (seq - 1) % 2

Other == otadata[1 - ActiveSector]

\* An entry in sector s is chosen before that of the other sector.
Outranks(entry, s, other) ==
  Bootable(other) => \/ entry.seq > other.seq
                     \/ entry.seq = other.seq /\ s = 0
-----------------------------------------------------------------------------
(* The parts of the invariant. Types and requests are inductive by         *)
(* themselves, what is selected with the types, the rest with both.        *)

\* An entry about to be written is one, an attempt has room for its sequence
\* number and a file, and what is being copied was validated.
AttemptFits ==
  /\ pc \in EntrySteps => entryWrite.entry \in Entry
  /\ pc \in AttemptSteps => PlanSwitch(Destination).entry.seq <= MaxSeq
  /\ pc \in CopySteps => card[source] \in Images
  /\ pc \in AttemptSteps \union {"cleanup"} \/ Writing("switch") => source \in Name

\* Whatever could be opened was asked for; once the switch is under way the
\* request it answers is gone.
Requests ==
  /\ card[Trigger] # Missing => Trigger \in armed
  /\ pending # NoFile => pending \in armed
  /\ pc = "switch" \/ Writing("switch") => RequestGone

\* The entry being written wins over the one in the other sector and selects
\* the slot meant; update and recovery do not touch the active sector.
EntryAimed ==
  pc \in EntrySteps =>
    /\ entryWrite.entry.state # "aborted"
    /\ Outranks(entryWrite.entry, entryWrite.sector, otadata[1 - entryWrite.sector])
    /\ pc = "writeEntry" => otadata[entryWrite.sector] = Blank
    /\ IF entryWrite.purpose = "mark"
       THEN SlotOf(entryWrite.entry.seq) = running
       ELSE /\ ValidSectors # {} => entryWrite.sector # ActiveSector
            /\ SlotOf(entryWrite.entry.seq) = IF entryWrite.purpose = "switch" THEN Destination ELSE 0

\* The code runs from the slot that otadata selects, but between the erase and
\* the write of a mark, and after a mark that failed in between.
RunsSelected ==
  /\ pc \in {"recovery", "mark"} \/ Writing("recover") => running = BootSlot
  /\ pc \in AttemptSteps \union {"update"} \/ Writing("switch") =>
       "mark" \in mishaps \/ running = BootSlot

\* Where the bootloader goes when the active entry is lost.
FallbackSlot == IF Bootable(Other) THEN SlotOf(Other.seq) ELSE 0

\* Nothing is on trial: the active entry, if there is one, is confirmed.
Confirmed == ValidSectors # {} => ActiveEntry.state = "valid"

\* The slot selected is complete, so is the slot fallen back to while the
\* active entry is on trial, and the entry fallen back to is a confirmed one.
\* An update begins with a confirmed entry, and switches to a complete image.
SlotsComplete ==
  mishaps = {} =>
    /\ pc # "bricked"
    /\ image[BootSlot] \in Images
    /\ Confirmed \/ image[FallbackSlot] \in Images
    /\ ValidSectors # {} /\ Bootable(Other) => Other.state = "valid"
    /\ pc \in AttemptSteps \union {"update", "writeEntry"} \/ Writing("switch") => Confirmed
    /\ pc \in {"consume", "switch"} \/ Writing("switch") => image[Destination] \in Images
    /\ ~Writing("recover")
    /\ Writing("mark") => /\ entryWrite.entry.state = "valid"
                          /\ image[running] \in Images
                          /\ pc = "eraseEntry" => /\ ValidSectors # {} /\ ~Confirmed
                                                  /\ ActiveSector = entryWrite.sector

Typed == TypeOK /\ AttemptFits
-----------------------------------------------------------------------------
(* Sequence numbers and slots. *)

LEMMA SlotParity ==
  ASSUME NEW seq \in Nat \ {0}
  PROVE  SlotOf(seq) \in Slot /\ 1 - SlotOf(seq) = seq % 2
  BY SMT DEF SlotOf, Slot

\* plan_switch: the next sequence number is higher and selects the slot meant.
LEMMA NextSeq ==
  ASSUME NEW seq \in Nat, NEW dest \in Slot,
         NEW next, next = IF seq % 2 = dest THEN seq + 1 ELSE seq + 2
  PROVE  next \in Nat \ {0} /\ next > seq /\ SlotOf(next) = dest
  BY SMT DEF SlotOf, Slot
-----------------------------------------------------------------------------
(* What otadata selects. *)

\* What follows from the two sectors' contents alone.
Selects ==
  TypeOK =>
    /\ ActiveSector \in Sector
    /\ ValidSectors = {} => /\ \A s \in Sector : ~Bootable(otadata[s])
                            /\ ActiveSector = 1 /\ BootSlot = 0
    /\ ValidSectors # {} => /\ ActiveEntry \in Entry /\ Bootable(ActiveEntry)
                            /\ BootSlot = SlotOf(ActiveEntry.seq)
                            /\ Outranks(ActiveEntry, ActiveSector, Other)
    /\ Other \in Entry \union {Blank}
    /\ BootSlot \in Slot /\ Destination \in Slot /\ Destination # BootSlot

LEMMA Selection == Selects
<1> SUFFICES ASSUME TypeOK PROVE Selects BY DEF Selects
<1>1. \A s \in Sector : otadata[s] \in Entry \union {Blank}
  BY DEF TypeOK
<1>2. ActiveSector \in Sector /\ 1 - ActiveSector \in Sector
  BY DEF ActiveSector, Sector
<1>3. ASSUME ValidSectors = {}
      PROVE  (\A s \in Sector : ~Bootable(otadata[s])) /\ ActiveSector = 1 /\ BootSlot = 0
  BY <1>3 DEF ValidSectors, BootSlot, ActiveSector
<1>4. ASSUME ValidSectors # {}
      PROVE  /\ ActiveEntry \in Entry /\ Bootable(ActiveEntry)
             /\ BootSlot = SlotOf(ActiveEntry.seq)
             /\ Outranks(ActiveEntry, ActiveSector, Other)
  <2>1. Bootable(otadata[ActiveSector])
    BY <1>4 DEF ValidSectors, ActiveSector, Sector
  <2>2. ActiveEntry \in Entry
    BY <1>1, <1>2, <2>1 DEF ActiveEntry, Bootable
  <2>3. ASSUME Bootable(Other)
        PROVE  ActiveEntry.seq > Other.seq \/ (ActiveEntry.seq = Other.seq /\ ActiveSector = 0)
    <3>1. ActiveEntry.seq \in Nat /\ Other.seq \in Nat
      BY <1>1, <1>2, <2>2, <2>3, MaxSeqAssumption DEF Entry, Other, Bootable
    <3>2. 0 \in ValidSectors /\ 1 \in ValidSectors
      BY <1>2, <2>1, <2>3 DEF ValidSectors, Other, Sector
    <3> QED BY <3>1, <3>2 DEF ActiveEntry, Other, ActiveSector
  <2> QED BY <1>4, <2>1, <2>2, <2>3 DEF ActiveEntry, BootSlot, SlotOf, Outranks
<1>5. BootSlot \in Slot
  <2>1. CASE ValidSectors = {} BY <1>3, <2>1 DEF Slot
  <2>2. CASE ValidSectors # {}
    <3>1. ActiveEntry.seq \in Nat \ {0} BY <1>4, <2>2, MaxSeqAssumption DEF Entry
    <3> QED BY <1>4, <2>2, <3>1, SlotParity
  <2> QED BY <2>1, <2>2
<1> QED BY <1>1, <1>2, <1>3, <1>4, <1>5 DEF Selects, Destination, Slot, Other

\* An entry that is bootable and wins over the one in the other sector is the
\* active one.
Winner(s) ==
  /\ Bootable(otadata[s])
  /\ Outranks(otadata[s], s, otadata[1 - s])
WinnerActive ==
  TypeOK => \A s \in Sector : Winner(s) => /\ ValidSectors # {} /\ ActiveSector = s
                                          /\ ActiveEntry = otadata[s] /\ Other = otadata[1 - s]
LEMMA WinnerIsActive == WinnerActive
<1> SUFFICES ASSUME TypeOK, NEW s \in Sector, Winner(s)
             PROVE  ValidSectors # {} /\ ActiveSector = s
  BY DEF WinnerActive, ActiveEntry, Other
<1>1. s \in ValidSectors BY DEF ValidSectors, Winner
<1>2. \A t \in ValidSectors : otadata[t] \in Entry /\ otadata[t].seq \in Nat
  BY MaxSeqAssumption DEF TypeOK, ValidSectors, Bootable, Entry
<1>3. CASE s = 0
  BY <1>1, <1>2, <1>3 DEF ActiveSector, ValidSectors, Sector, Winner, Outranks
<1>4. CASE s = 1
  BY <1>1, <1>2, <1>4 DEF ActiveSector, ValidSectors, Sector, Winner, Outranks
<1> QED BY <1>1, <1>3, <1>4 DEF Sector

\* The same of the next state.
LEMMA WinnerIsNext ==
  ASSUME TypeOK', NEW s \in Sector, Winner(s)'
  PROVE  /\ ValidSectors' # {} /\ ActiveSector' = s
         /\ ActiveEntry' = otadata'[s] /\ Other' = otadata'[1 - s]
<1>1. WinnerActive' BY WinnerIsActive, PTL
<1> QED BY <1>1 DEF WinnerActive

\* While otadata stays so does what it selects.
LEMMA SameSelection ==
  ASSUME UNCHANGED otadata
  PROVE  /\ ValidSectors' = ValidSectors /\ ActiveSector' = ActiveSector
         /\ ActiveEntry' = ActiveEntry /\ Other' = Other
         /\ BootSlot' = BootSlot /\ Destination' = Destination
         /\ PlanSwitch(Destination)' = PlanSwitch(Destination)
<1>1. ValidSectors' = ValidSectors /\ ActiveSector' = ActiveSector
  BY DEF ValidSectors, ActiveSector
<1>2. ActiveEntry' = ActiveEntry /\ Other' = Other
  BY <1>1 DEF ActiveEntry, Other
<1>3. BootSlot' = BootSlot
  BY <1>1, <1>2 DEF BootSlot
<1> QED BY <1>1, <1>2, <1>3 DEF Destination, PlanSwitch

\* Erasing the sector that is not active changes nothing that is selected.
LEMMA EraseOther ==
  ASSUME TypeOK, TypeOK', NEW s \in Sector, ValidSectors # {} => s # ActiveSector,
         otadata' = [otadata EXCEPT ![s] = Blank]
  PROVE  /\ BootSlot' = BootSlot /\ Destination' = Destination
         /\ ValidSectors' = {} <=> ValidSectors = {}
         /\ ValidSectors # {} => /\ ActiveSector' = ActiveSector /\ ActiveEntry' = ActiveEntry
                                /\ ~Bootable(Other')
<1>1. Selects /\ Selects' BY Selection, PTL
<1>2. \A t \in Sector : otadata'[t] = IF t = s THEN Blank ELSE otadata[t]
  BY DEF TypeOK
<1>3. CASE ValidSectors = {}
  <2>1. \A t \in Sector : ~Bootable(otadata'[t])
    BY <1>1, <1>2, <1>3 DEF Selects, Bootable
  <2>2. ValidSectors' = {} BY <2>1 DEF ValidSectors
  <2> QED BY <1>1, <1>3, <2>2 DEF Selects, Destination
<1>4. CASE ValidSectors # {}
  <2>1. PICK active \in Sector : active = ActiveSector BY <1>1 DEF Selects
  <2>2. s = 1 - active /\ Bootable(otadata[active])
    BY <1>1, <1>4, <2>1 DEF Selects, ActiveEntry, Sector
  <2>3. otadata'[active] = otadata[active] /\ otadata'[1 - active] = Blank
    BY <1>2, <2>2 DEF Sector
  <2>4. Winner(active)' BY <2>2, <2>3 DEF Winner, Outranks, Bootable
  <2>5. /\ ValidSectors' # {} /\ ActiveSector' = ActiveSector
        /\ ActiveEntry' = ActiveEntry /\ Other' = Blank
    BY <2>1, <2>3, <2>4, WinnerIsNext DEF ActiveEntry
  <2> QED BY <1>1, <1>4, <2>5 DEF Selects, Bootable, Destination
<1> QED BY <1>3, <1>4

\* Losing the active entry, erased or given up, makes the bootloader fall back.
LEMMA LoseActive ==
  ASSUME TypeOK, TypeOK', ValidSectors # {},
         NEW lost \in Entry \union {Blank}, ~Bootable(lost),
         otadata' = [otadata EXCEPT ![ActiveSector] = lost]
  PROVE  /\ BootSlot' = FallbackSlot
         /\ ValidSectors' # {} => /\ ActiveEntry' = Other /\ Bootable(Other) /\ ~Bootable(Other')
<1>1. Selects /\ Selects' BY Selection, PTL
<1>2. /\ ActiveSector \in Sector /\ 1 - ActiveSector \in Sector
      /\ otadata'[ActiveSector] = lost /\ otadata'[1 - ActiveSector] = Other
  BY <1>1 DEF Selects, TypeOK, Other, Sector
<1>3. CASE Bootable(Other)
  <2>1. PICK s \in Sector : s = 1 - ActiveSector BY <1>2
  <2>2. otadata'[s] = Other /\ otadata'[1 - s] = lost
    <3>1. 1 - s = ActiveSector BY <1>2, <2>1 DEF Sector
    <3> QED BY <1>2, <2>1, <3>1
  <2>3. Winner(s)' BY <1>3, <2>2 DEF Winner, Outranks, Bootable
  <2>4. ActiveEntry' = Other /\ Other' = lost /\ ValidSectors' # {}
    BY <2>1, <2>2, <2>3, WinnerIsNext
  <2> QED BY <1>1, <1>3, <2>4 DEF Selects, FallbackSlot, Bootable
<1>4. CASE ~Bootable(Other)
  <2>1. \A t \in Sector : ~Bootable(otadata'[t])
    BY <1>2, <1>4 DEF Bootable, Sector
  <2>2. ValidSectors' = {} BY <2>1 DEF ValidSectors
  <2> QED BY <1>1, <1>4, <2>2 DEF Selects, FallbackSlot
<1> QED BY <1>3, <1>4

\* Writing an entry that wins makes it the active one.
LEMMA WriteWinner ==
  ASSUME TypeOK, TypeOK', NEW s \in Sector, NEW e \in Entry, e.state # "aborted",
         Outranks(e, s, otadata[1 - s]),
         otadata' = [otadata EXCEPT ![s] = e]
  PROVE  /\ ValidSectors' # {} /\ ActiveSector' = s /\ ActiveEntry' = e
         /\ BootSlot' = SlotOf(e.seq) /\ Other' = otadata[1 - s]
<1>1. Selects' BY Selection, PTL
<1>2. otadata'[s] = e /\ otadata'[1 - s] = otadata[1 - s]
  BY DEF TypeOK, Sector
<1>3. Winner(s)'
  BY <1>2, BlankAssumption DEF Winner, Outranks, Bootable
<1> QED BY <1>1, <1>2, <1>3, WinnerIsNext DEF Selects

\* A boot does not change what otadata selects, be it by starting a trial.
LEMMA BootKeeps ==
  ASSUME TypeOK, TypeOK', Boot
  PROVE  /\ BootSlot' = BootSlot /\ ActiveSector' = ActiveSector /\ Other' = Other
         /\ ValidSectors' = {} <=> ValidSectors = {}
         /\ ValidSectors # {} => \/ ActiveEntry' = ActiveEntry
                                 \/ ActiveEntry.state = "new" /\ ActiveEntry'.state = "pending"
<1>1. CASE UNCHANGED otadata BY <1>1, SameSelection
<1>2. CASE otadata' # otadata
  <2>1. /\ ValidSectors # {} /\ ActiveEntry.state = "new"
        /\ otadata' = [otadata EXCEPT ![ActiveSector].state = "pending"]
    BY <1>2 DEF Boot
  <2>2. PICK active \in Sector : active = ActiveSector BY Selection DEF Selects
  <2>3. /\ ActiveEntry \in Entry /\ BootSlot = SlotOf(ActiveEntry.seq)
        /\ Outranks(ActiveEntry, active, otadata[1 - active])
    BY <2>1, <2>2, Selection DEF Selects, Other
  <2> DEFINE trial == [ActiveEntry EXCEPT !.state = "pending"]
  <2>4. trial \in Entry /\ trial.seq = ActiveEntry.seq /\ trial.state = "pending"
    BY <2>3 DEF Entry, State
  <2>5. otadata' = [otadata EXCEPT ![active] = trial]
    BY <2>1, <2>2 DEF ActiveEntry
  <2> HIDE DEF trial
  <2>6. Outranks(trial, active, otadata[1 - active])
    BY <2>3, <2>4 DEF Outranks
  <2>7. /\ ValidSectors' # {} /\ ActiveSector' = active /\ ActiveEntry' = trial
        /\ BootSlot' = SlotOf(trial.seq) /\ Other' = otadata[1 - active]
    BY <2>4, <2>5, <2>6, WriteWinner
  <2> QED BY <2>1, <2>2, <2>3, <2>4, <2>7 DEF Other
<1> QED BY <1>1, <1>2
-----------------------------------------------------------------------------
(* Types. *)

\* The plan of a switch, within the bound, is an entry that wins and selects
\* its slot.
LEMMA PlanIsEntry ==
  ASSUME TypeOK, NEW dest \in Slot, PlanSwitch(dest).entry.seq <= MaxSeq
  PROVE  LET plan == PlanSwitch(dest)
         IN /\ plan.sector \in Sector /\ plan.entry \in Entry /\ plan.entry.state = "new"
            /\ SlotOf(plan.entry.seq) = dest
            /\ Outranks(plan.entry, plan.sector, otadata[1 - plan.sector])
            /\ ValidSectors # {} => plan.sector # ActiveSector
<1>1. Selects BY Selection
<1> DEFINE seq == IF ValidSectors = {} THEN 0 ELSE ActiveEntry.seq
           next == IF seq % 2 = dest THEN seq + 1 ELSE seq + 2
           sector == IF ValidSectors = {} THEN 0 ELSE 1 - ActiveSector
<1>2. PlanSwitch(dest) = [sector |-> sector, entry |-> EntryAt(next, "new")]
  BY DEF PlanSwitch
<1>3. seq \in Nat
  BY <1>1, MaxSeqAssumption DEF Selects, Entry
<1> HIDE DEF seq
<1>4. next \in Nat \ {0} /\ next > seq /\ SlotOf(next) = dest
  BY <1>3, NextSeq
<1>5. next <= MaxSeq
  BY <1>2 DEF EntryAt
<1> HIDE DEF next
<1>6. EntryAt(next, "new") \in Entry
  BY <1>4, <1>5, MaxSeqAssumption DEF EntryAt, Entry, State
<1>7. sector \in Sector /\ (ValidSectors # {} => sector # ActiveSector)
  BY <1>1 DEF Selects, Sector
<1>8. Outranks(EntryAt(next, "new"), sector, otadata[1 - sector])
  <2>1. CASE ValidSectors = {}
    BY <1>1, <1>7, <2>1 DEF Selects, Outranks, Sector
  <2>2. CASE ValidSectors # {}
    <3>1. otadata[1 - sector] = ActiveEntry /\ seq = ActiveEntry.seq
      BY <1>1, <2>2 DEF Selects, Sector, ActiveEntry, seq
    <3> QED BY <1>4, <3>1 DEF Outranks, EntryAt
  <2> QED BY <2>1, <2>2
<1> HIDE DEF sector
<1> QED BY <1>2, <1>4, <1>6, <1>7, <1>8 DEF EntryAt

LEMMA InitTyped == Init => Typed
<1> SUFFICES ASSUME Init PROVE Typed OBVIOUS
<1>1. EntryAt(1, "valid") \in Entry
  BY MaxSeqAssumption DEF EntryAt, Entry, State
<1>2. otadata \in [Sector -> Entry \union {Blank}]
  BY <1>1 DEF Init
<1>3. image \in [Slot -> Images \union {Empty, Partial}]
  BY DEF Init
<1> QED BY <1>2, <1>3 DEF Init, Typed, TypeOK, AttemptFits, EntrySteps, AttemptSteps, CopySteps, Writing,
                          Name, Slot, Sector

\* Boot, rollback and the power change no file and no slot.
LEMMA BootTyped == ASSUME Typed, Boot \/ RollBack \/ PowerCut PROVE Typed'
<1>1. \A s \in Sector : otadata[s] \in Entry \union {Blank}
  BY DEF Typed, TypeOK
<1>2. ASSUME NEW e \in Entry, NEW st \in State
      PROVE  [e EXCEPT !.state = st] \in Entry /\ EntryAt(e.seq, st) \in Entry
  BY DEF Entry, EntryAt
<1>3. "pending" \in State /\ "aborted" \in State BY DEF State
<1>4. otadata' \in [Sector -> Entry \union {Blank}]
  <2>1. CASE Boot
    <3>1. CASE ValidSectors # {}
      <4>1. ActiveSector \in Sector /\ otadata[ActiveSector] \in Entry
        BY <3>1, Selection DEF Typed, Selects, ActiveEntry
      <4> QED BY <1>1, <1>2, <1>3, <2>1, <4>1 DEF Boot, Typed, TypeOK
    <3>2. CASE ValidSectors = {} BY <2>1, <3>2 DEF Boot, Typed, TypeOK
    <3> QED BY <3>1, <3>2
  <2>2. CASE RollBack
    BY <1>1, <1>2, <1>3, <2>2 DEF RollBack, AfterRollback
  <2>3. CASE PowerCut BY <2>3 DEF PowerCut, Typed, TypeOK
  <2> QED BY <2>1, <2>2, <2>3
<1>5. BootSlot \in Slot BY Selection DEF Typed, Selects
<1> QED BY <1>4, <1>5 DEF Boot, RollBack, PowerCut, history, Typed, TypeOK, AttemptFits,
                        EntrySteps, AttemptSteps, CopySteps, Writing

\* The entry of a mark is the active one, confirmed.
LEMMA MarkIsEntry ==
  ASSUME TypeOK, MarkWanted
  PROVE  /\ PlanMark.sector = ActiveSector /\ PlanMark.sector \in Sector
         /\ PlanMark.entry \in Entry /\ PlanMark.entry.state = "valid"
         /\ PlanMark.entry.seq = ActiveEntry.seq
  BY Selection DEF MarkWanted, PlanMark, EntryAt, Entry, State, Selects

LEMMA EntryTyped ==
  ASSUME Typed, Recover \/ NoRecovery \/ Mark \/ EraseEntry \/ WriteEntry
  PROVE  Typed'
<1>1. CASE Recover
  <2>1. /\ PlanSwitch(0).sector \in Sector /\ PlanSwitch(0).entry \in Entry
    BY <1>1, PlanIsEntry DEF Recover, Typed, Slot
  <2> QED BY <1>1, <2>1 DEF Recover, WriteEntryFor, Typed, TypeOK, AttemptFits, EntrySteps, AttemptSteps, CopySteps, Writing
<1>2. CASE NoRecovery
  BY <1>2 DEF NoRecovery, history, Typed, TypeOK, AttemptFits, EntrySteps, AttemptSteps, CopySteps, Writing
<1>3. CASE Mark
  <2>1. CASE MarkWanted
    BY <1>3, <2>1, MarkIsEntry DEF Mark, WriteEntryFor, history, Typed, TypeOK, AttemptFits,
                                   EntrySteps, AttemptSteps, CopySteps, Writing
  <2>2. CASE ~MarkWanted
    BY <1>3, <2>2 DEF Mark, history, Typed, TypeOK, AttemptFits, EntrySteps, AttemptSteps, CopySteps, Writing
  <2> QED BY <2>1, <2>2
<1>4. ASSUME EntryFails
      PROVE  /\ pc' \in {"update", "mark", "cleanup"}
             /\ pc' = "cleanup" => entryWrite.purpose = "switch"
             /\ mishaps' \subseteq {"mark", "recovery"}
  BY <1>4 DEF EntryFails, AfterFailedEntry, Typed, TypeOK
<1>5. CASE EraseEntry
  <2>1. otadata' \in [Sector -> Entry \union {Blank}]
    BY <1>5 DEF EraseEntry, Typed, TypeOK
  <2>2. /\ pc' \in {"writeEntry", "update", "mark", "cleanup"} /\ mishaps' \subseteq {"mark", "recovery"}
    BY <1>4, <1>5 DEF EraseEntry, Typed, TypeOK
  <2>3. entryWrite.entry \in Entry /\ (entryWrite.purpose = "switch" => source \in Name)
    BY <1>5 DEF EraseEntry, Typed, AttemptFits, EntrySteps, Writing
  <2>4. pc' = "cleanup" => entryWrite.purpose = "switch"
    BY <1>4, <1>5 DEF EraseEntry
  <2> QED BY <1>5, <2>1, <2>2, <2>3, <2>4 DEF EraseEntry, Typed, TypeOK, AttemptFits, EntrySteps,
                                         AttemptSteps, CopySteps, Writing
<1>6. CASE WriteEntry
  <2>1. entryWrite.entry \in Entry /\ (entryWrite.purpose = "switch" => source \in Name)
    BY <1>6 DEF WriteEntry, Typed, AttemptFits, EntrySteps, Writing
  <2>2. otadata' \in [Sector -> Entry \union {Blank}] /\ armed' \subseteq Name
    BY <1>6, <2>1 DEF WriteEntry, Typed, TypeOK
  <2>3. AfterEntry \in {"update", "off"}
    BY DEF AfterEntry, Typed, TypeOK
  <2>4. pc' \in {"update", "mark", "cleanup", "off"} /\ mishaps' \subseteq {"mark", "recovery"}
    BY <1>4, <1>6, <2>3 DEF WriteEntry, Typed, TypeOK
  <2>5. pc' = "cleanup" => entryWrite.purpose = "switch"
    BY <1>4, <1>6, <2>3 DEF WriteEntry
  <2> QED BY <1>6, <2>1, <2>2, <2>4, <2>5 DEF WriteEntry, Typed, TypeOK, AttemptFits, EntrySteps, AttemptSteps, CopySteps, Writing
<1> QED BY <1>1, <1>2, <1>3, <1>5, <1>6

\* A request is consumed, or not, without a trace elsewhere.
LEMMA ConsumeTyped ==
  ASSUME TypeOK, NEW file \in Name, Consume(file) \/ ConsumeFails(file)
  PROVE  card' \in [Name -> Images \union {Corrupt, Missing}] /\ pending' \in Shelf \union {NoFile}
  BY DEF Consume, ConsumeFails, TypeOK, Name

\* A step of the attempt that leaves otadata and the card alone, once its next
\* step and the slots are typed.
LEMMA AttemptTyped ==
  ASSUME Typed, NoUpdate \/ OpenSource \/ Validate \/ EraseSlot \/ CopyHead \/ CopyRest
                \/ ConsumeRequest \/ Switch \/ Cleanup
  PROVE  Typed'
<1> USE DEF Typed, AttemptFits, EntrySteps, AttemptSteps, CopySteps, Writing
<1>1. UNCHANGED otadata
  BY DEF NoUpdate, OpenSource, Validate, EraseSlot, CopyHead, CopyRest, ConsumeRequest, Switch, Cleanup
<1>2. PlanSwitch(Destination)' = PlanSwitch(Destination) /\ Destination \in Slot
  BY <1>1, SameSelection, Selection DEF Selects
<1>3. \A to \in Images \union {Empty, Partial} :
        SetImage(to) => image' \in [Slot -> Images \union {Empty, Partial}]
  BY DEF SetImage, TypeOK
<1>4. CASE NoUpdate
  <2>1. card' \in [Name -> Images \union {Corrupt, Missing}] /\ pending' \in Shelf \union {NoFile}
    BY <1>4, ConsumeTyped DEF NoUpdate, TypeOK, Name
  <2> QED BY <1>4, <2>1 DEF NoUpdate, history, TypeOK
<1>5. CASE OpenSource
  <2>1. source' \in Name BY <1>5 DEF OpenSource, TypeOK, Name
  <2> QED BY <1>2, <1>5, <2>1 DEF OpenSource, history, TypeOK
<1>6. CASE Validate
  BY <1>2, <1>6 DEF Validate, history, TypeOK
<1>7. CASE EraseSlot
  BY <1>2, <1>3, <1>7 DEF EraseSlot, history, TypeOK
<1>8. CASE CopyHead
  BY <1>2, <1>3, <1>8 DEF CopyHead, history, TypeOK
<1>9. CASE CopyRest
  BY <1>2, <1>3, <1>9 DEF CopyRest, history, TypeOK
<1>10. CASE ConsumeRequest
  <2>1. source \in Name
    BY <1>10 DEF ConsumeRequest
  <2> QED BY <1>2, <1>10, <2>1, ConsumeTyped DEF ConsumeRequest, history, TypeOK
<1>11. CASE Switch
  <2>1. /\ PlanSwitch(Destination).sector \in Sector
        /\ PlanSwitch(Destination).entry \in Entry
    BY <1>2, <1>11, PlanIsEntry DEF Switch
  <2> QED BY <1>11, <2>1 DEF Switch, WriteEntryFor, history, TypeOK
<1>12. CASE Cleanup
  <2>1. card' \in [Name -> Images \union {Corrupt, Missing}] /\ pending' \in Shelf \union {NoFile}
    BY <1>12, ConsumeTyped DEF Cleanup
  <2> QED BY <1>12, <2>1 DEF Cleanup, TypeOK
<1> QED BY <1>4, <1>5, <1>6, <1>7, <1>8, <1>9, <1>10, <1>11, <1>12

\* What the user does.
LEMMA UserTyped ==
  ASSUME Typed, \/ \E file \in Shelf : Stage(file) \/ RemoveFile(file)
                \/ \E contents \in Images \union {Corrupt} : CopyTrigger(contents)
  PROVE  Typed'
<1> USE DEF Typed, AttemptFits, EntrySteps, AttemptSteps, CopySteps, Writing, Name
<1>1. ASSUME NEW file \in Shelf, Stage(file) PROVE Typed'
  BY <1>1 DEF Stage, TypeOK
<1>2. ASSUME NEW file \in Shelf, RemoveFile(file) PROVE Typed'
  BY <1>2 DEF RemoveFile, history, TypeOK
<1>3. ASSUME NEW contents \in Images \union {Corrupt}, CopyTrigger(contents) PROVE Typed'
  BY <1>3 DEF CopyTrigger, TypeOK
<1> QED BY <1>1, <1>2, <1>3

LEMMA TypeStep == Typed /\ [Next]_vars => Typed'
<1> SUFFICES ASSUME Typed, [Next]_vars PROVE Typed' OBVIOUS
<1>1. CASE UNCHANGED vars
  <2>1. PlanSwitch(Destination)' = PlanSwitch(Destination) BY <1>1, SameSelection DEF vars
  <2> QED BY <1>1, <2>1 DEF vars, Typed, TypeOK, AttemptFits, EntrySteps, AttemptSteps, CopySteps, Writing
<1> QED BY <1>1, BootTyped, EntryTyped, AttemptTyped, UserTyped DEF Next

\* Every variable keeps its type, for every set of values: no sequence number
\* passes the bound and no entry is written that the bootloader would not read.
\* (proto/src/ota.rs plan_switch, plan_mark_app_valid)
THEOREM TypeCorrect == Spec => []TypeOK
<1>1. Typed => TypeOK BY DEF Typed
<1> QED BY <1>1, InitTyped, TypeStep, PTL DEF Spec
-----------------------------------------------------------------------------
(* Requests. *)

LEMMA RequestStep == Typed /\ Requests /\ AttemptIsRequested /\ [Next]_vars =>
                       Requests' /\ AttemptIsRequested'
<1> SUFFICES ASSUME Typed, Requests, AttemptIsRequested, [Next]_vars
             PROVE  Requests' /\ AttemptIsRequested'
  OBVIOUS
<1> USE DEF Requests, AttemptIsRequested, Writing, EntrySteps, RequestGone
<1>1. /\ card \in [Name -> Images \union {Corrupt, Missing}] /\ Trigger \in Name
      /\ pending \in Shelf \union {NoFile} /\ Trigger \notin Shelf
      /\ NoFile \notin Shelf /\ NoFile # Trigger
  BY NamesAssumption DEF Typed, TypeOK, Name
<1>2. CASE Boot \/ RollBack \/ PowerCut \/ UNCHANGED vars
  BY <1>2 DEF Boot, RollBack, PowerCut, history, vars
<1>3. CASE Recover \/ NoRecovery \/ Mark \/ Switch
  BY <1>3 DEF Recover, NoRecovery, Mark, Switch, WriteEntryFor, history
<1>4. CASE Validate \/ EraseSlot \/ CopyHead \/ CopyRest
  BY <1>4 DEF Validate, EraseSlot, CopyHead, CopyRest, history
<1>5. ASSUME EntryFails PROVE pc' \in {"update", "mark", "cleanup"}
  BY <1>5 DEF EntryFails, AfterFailedEntry, Typed, TypeOK
<1>6. CASE EraseEntry
  BY <1>5, <1>6 DEF EraseEntry
<1>7. CASE WriteEntry
  \* The request that the switch answers is gone, so it may be forgotten.
  <2>1. pc' \in {"update", "mark", "cleanup", "off"}
    BY <1>5, <1>7 DEF WriteEntry, AfterEntry, Typed, TypeOK
  <2>2. armed' = armed \/ (entryWrite.purpose = "switch" /\ armed' = armed \ {source})
    BY <1>7 DEF WriteEntry
  <2>3. /\ card[Trigger] # Missing => Trigger \in armed'
        /\ pending # NoFile => pending \in armed'
    <3>1. CASE armed' = armed BY <3>1
    <3>2. CASE entryWrite.purpose = "switch" /\ armed' = armed \ {source}
      <4>1. RequestGone /\ source \in Name
        BY <1>7, <3>2 DEF WriteEntry, Typed, AttemptFits
      <4> QED BY <1>1, <3>2, <4>1 DEF Name
    <3> QED BY <2>2, <3>1, <3>2
  <2> QED BY <1>7, <2>1, <2>3 DEF WriteEntry
<1>8. CASE NoUpdate
  BY <1>1, <1>8 DEF NoUpdate, Consume, history
<1>9. CASE OpenSource
  BY <1>1, <1>9 DEF OpenSource, history
<1>10. CASE ConsumeRequest
  BY <1>1, <1>10 DEF ConsumeRequest, Consume, ConsumeFails, history
<1>11. CASE Cleanup
  <2>1. /\ card'[Trigger] # Missing => card[Trigger] # Missing
        /\ pending' # NoFile => pending' = pending
    BY <1>1, <1>11 DEF Cleanup, Consume, ConsumeFails
  <2>2. CASE RequestGone'
    <3>1. source \in Name
      BY <1>11 DEF Cleanup, Typed, AttemptFits
    <3> QED BY <1>1, <1>11, <2>1, <2>2, <3>1 DEF Cleanup, Name
  <2>3. CASE ~RequestGone'
    BY <1>11, <2>1, <2>3 DEF Cleanup
  <2> QED BY <2>2, <2>3
<1>12. ASSUME NEW file \in Shelf, Stage(file) PROVE Requests' /\ AttemptIsRequested'
  BY <1>1, <1>12 DEF Stage
<1>13. ASSUME NEW file \in Shelf, RemoveFile(file) PROVE Requests' /\ AttemptIsRequested'
  BY <1>1, <1>13 DEF RemoveFile, history
<1>14. ASSUME NEW contents \in Images \union {Corrupt}, CopyTrigger(contents)
       PROVE  Requests' /\ AttemptIsRequested'
  BY <1>1, <1>14 DEF CopyTrigger
<1> QED BY <1>2, <1>3, <1>4, <1>6, <1>7, <1>8, <1>9, <1>10, <1>11, <1>12, <1>13, <1>14 DEF Next

\* Each attempt to update answers a request that was made and not answered yet,
\* whatever fails and whenever the power goes. (ota_update.rs
\* apply_pending_update, consume_pending_source)
THEOREM NoAttemptTwice == Spec => []AttemptIsRequested
<1>1. Init => Requests /\ AttemptIsRequested
  BY DEF Init, Requests, AttemptIsRequested, Writing, EntrySteps
<1> QED BY <1>1, InitTyped, TypeStep, RequestStep, PTL DEF Spec
-----------------------------------------------------------------------------
(* What is selected, and from where the code runs. *)

LEMMA AimStep == Typed /\ EntryAimed /\ RunsSelected /\ [Next]_vars => EntryAimed' /\ RunsSelected'
<1> SUFFICES ASSUME Typed, EntryAimed, RunsSelected, [Next]_vars
             PROVE  EntryAimed' /\ RunsSelected'
  OBVIOUS
<1> USE DEF EntryAimed, RunsSelected, Writing, EntrySteps, AttemptSteps, CopySteps
<1>1. TypeOK /\ TypeOK' BY TypeStep DEF Typed
<1>2. Selects BY Selection
<1>3. UNCHANGED otadata => BootSlot' = BootSlot /\ Destination' = Destination
                           /\ ValidSectors' = ValidSectors /\ ActiveSector' = ActiveSector
  BY SameSelection
<1>4. CASE UNCHANGED vars BY <1>3, <1>4 DEF vars
<1>5. CASE Boot
  BY <1>1, <1>5, BootKeeps DEF Boot, history
<1>6. CASE RollBack \/ PowerCut
  BY <1>6 DEF RollBack, PowerCut
<1>7. CASE Recover
  <2>1. /\ SlotOf(PlanSwitch(0).entry.seq) = 0 /\ PlanSwitch(0).entry.state = "new"
        /\ Outranks(PlanSwitch(0).entry, PlanSwitch(0).sector, otadata[1 - PlanSwitch(0).sector])
        /\ ValidSectors # {} => PlanSwitch(0).sector # ActiveSector
    BY <1>1, <1>7, PlanIsEntry DEF Recover, Slot
  <2> QED BY <1>3, <1>7, <2>1 DEF Recover, WriteEntryFor
<1>8. CASE NoRecovery
  BY <1>3, <1>8 DEF NoRecovery, history
<1>9. CASE Mark
  <2>1. CASE MarkWanted
    <3>1. SlotOf(PlanMark.entry.seq) = BootSlot
      BY <1>1, <1>2, <2>1, MarkIsEntry DEF Selects, MarkWanted
    <3>2. Outranks(PlanMark.entry, PlanMark.sector, otadata[1 - PlanMark.sector])
      BY <1>1, <1>2, <2>1, MarkIsEntry DEF Selects, MarkWanted, Outranks, Other
    <3> QED BY <1>1, <1>9, <2>1, <3>1, <3>2, MarkIsEntry DEF Mark, WriteEntryFor, history
  <2>2. CASE ~MarkWanted BY <1>3, <1>9, <2>2 DEF Mark, history
  <2> QED BY <2>1, <2>2
<1>10. ASSUME EntryFails
       PROVE  /\ pc' = AfterFailedEntry /\ pc' \in {"update", "mark", "cleanup"}
              /\ pc' = "update" => "mark" \in mishaps'
              /\ pc' = "mark" => entryWrite.purpose = "recover"
  BY <1>1, <1>10 DEF EntryFails, AfterFailedEntry, TypeOK
<1>11. CASE EraseEntry
  <2>1. PICK s \in Sector : s = entryWrite.sector BY <1>1 DEF TypeOK
  <2>2. CASE UNCHANGED otadata
    <3>1. EntryFails \/ otadata[s] = Blank
      BY <1>1, <1>11, <2>1, <2>2 DEF EraseEntry, TypeOK
    <3>2. CASE EntryFails BY <1>3, <1>10, <1>11, <2>2, <3>2 DEF EraseEntry
    <3>3. CASE ~EntryFails BY <1>3, <1>11, <2>1, <2>2, <3>1, <3>3 DEF EraseEntry
    <3> QED BY <3>2, <3>3
  <2>3. CASE otadata' = [otadata EXCEPT ![s] = Blank]
    <3>1. otadata'[s] = Blank /\ otadata'[1 - s] = otadata[1 - s]
      BY <1>1, <2>3 DEF TypeOK, Sector
    <3>2. ASSUME entryWrite.purpose # "mark"
          PROVE  /\ BootSlot' = BootSlot /\ Destination' = Destination
                 /\ ValidSectors' # {} => ActiveSector' # s
      BY <1>1, <1>11, <2>1, <2>3, <3>2, EraseOther DEF EraseEntry
    <3>3. CASE EntryFails BY <1>10, <1>11, <3>2, <3>3 DEF EraseEntry
    <3>4. CASE ~EntryFails
      BY <1>11, <2>1, <3>1, <3>2, <3>4 DEF EraseEntry
    <3> QED BY <3>3, <3>4
  <2> QED BY <1>11, <2>1, <2>2, <2>3 DEF EraseEntry
<1>12. CASE WriteEntry
  <2>1. CASE EntryFails /\ UNCHANGED otadata
    BY <1>3, <1>10, <1>12, <2>1 DEF WriteEntry
  <2>2. CASE ~(EntryFails /\ UNCHANGED otadata)
    <3>1. PICK s \in Sector : s = entryWrite.sector BY <1>1 DEF TypeOK
    <3>2. PICK e \in Entry : e = entryWrite.entry
      BY <1>12 DEF WriteEntry, Typed, AttemptFits
    <3>3. BootSlot' = SlotOf(e.seq)
      BY <1>1, <1>12, <2>2, <3>1, <3>2, WriteWinner DEF WriteEntry
    <3>4. pc' = AfterEntry BY <1>12, <2>2 DEF WriteEntry
    <3>5. pc' \in {"off", "update"} /\ (pc' = "update" => entryWrite.purpose = "mark")
      BY <1>1, <3>4 DEF AfterEntry, TypeOK
    <3> QED BY <1>12, <3>2, <3>3, <3>5 DEF WriteEntry
  <2> QED BY <2>1, <2>2
<1>13. CASE NoUpdate \/ OpenSource \/ Validate \/ EraseSlot \/ CopyHead \/ CopyRest
            \/ ConsumeRequest \/ Cleanup
  BY <1>3, <1>13 DEF NoUpdate, OpenSource, Validate, EraseSlot, CopyHead, CopyRest, ConsumeRequest,
                     Cleanup, history
<1>14. CASE Switch
  <2>1. Destination \in Slot /\ PlanSwitch(Destination).entry.seq <= MaxSeq
    BY <1>1, <1>2, <1>14 DEF Switch, Selects, Typed, AttemptFits
  <2>2. LET plan == PlanSwitch(Destination)
        IN /\ SlotOf(plan.entry.seq) = Destination /\ plan.entry.state = "new"
           /\ Outranks(plan.entry, plan.sector, otadata[1 - plan.sector])
           /\ ValidSectors # {} => plan.sector # ActiveSector
    BY <1>1, <2>1, PlanIsEntry
  <2> QED BY <1>3, <1>14, <2>2 DEF Switch, WriteEntryFor, history
<1>15. ASSUME NEW file \in Shelf, Stage(file) \/ RemoveFile(file) PROVE EntryAimed' /\ RunsSelected'
  BY <1>15 DEF Stage, RemoveFile
<1>16. ASSUME NEW contents, CopyTrigger(contents) PROVE EntryAimed' /\ RunsSelected'
  BY <1>16 DEF CopyTrigger
<1> QED BY <1>4, <1>5, <1>6, <1>7, <1>8, <1>9, <1>11, <1>12, <1>13, <1>14, <1>15, <1>16 DEF Next

LEMMA InitAimed == Init => EntryAimed /\ RunsSelected
  BY DEF Init, EntryAimed, RunsSelected, Writing, EntrySteps, AttemptSteps, CopySteps

\* An attempt erases and writes the slot otadata does not select, which is not
\* the one the code runs from, unless a mark-valid write failed before it.
\* (ota_update.rs inactive_app_slot, erase_and_copy)
THEOREM UpdateSparesRunning == Spec => RunningSlotUntouched
<1>1. Typed /\ RunsSelected /\ [Next]_vars =>
        ["mark" \notin mishaps => image'[running] = image[running]]_vars
  <2> SUFFICES ASSUME Typed, RunsSelected, [Next]_vars, "mark" \notin mishaps
               PROVE  image'[running] = image[running]
    OBVIOUS
  <2>1. CASE UNCHANGED image BY <2>1
  <2>2. CASE EraseSlot \/ CopyHead \/ CopyRest
    <3>1. running = BootSlot
      BY <2>2 DEF EraseSlot, CopyHead, CopyRest, RunsSelected, AttemptSteps, CopySteps
    <3>2. Destination # running /\ Destination \in Slot /\ running \in Slot
      BY <3>1, Selection DEF Selects, Typed
    <3>3. ASSUME NEW to, SetImage(to) PROVE image'[running] = image[running]
      BY <3>2, <3>3 DEF SetImage, Typed, TypeOK
    <3> QED BY <2>1, <2>2, <3>3 DEF EraseSlot, CopyHead, CopyRest
  <2> QED BY <2>1, <2>2 DEF Next, vars, Boot, RollBack, Recover, NoRecovery, Mark, EraseEntry,
             WriteEntry, NoUpdate, OpenSource, Validate, ConsumeRequest, Switch, Cleanup, Stage,
             RemoveFile, CopyTrigger, PowerCut
<1>2. Spec => [](Typed /\ EntryAimed /\ RunsSelected)
  BY InitTyped, InitAimed, TypeStep, AimStep, PTL DEF Spec
<1> QED BY <1>1, <1>2, PTL DEF Spec, RunningSlotUntouched

\* A select entry that reaches otadata selects the slot its writer meant,
\* whichever flash operations failed before and whatever else the sectors hold.
\* (proto/src/ota.rs plan_switch, active_app_slot)
THEOREM SwitchIsExact == Spec => EntrySelectsIntended
<1> DEFINE Meant == CASE entryWrite.purpose = "switch" -> Destination
                      [] entryWrite.purpose = "recover" -> 0
                      [] entryWrite.purpose = "mark" -> running
<1>1. Typed /\ Typed' /\ EntryAimed /\ [Next]_vars =>
        [pc = "writeEntry" /\ otadata' # otadata => BootSlot' = Meant]_vars
  <2> SUFFICES ASSUME Typed, Typed', EntryAimed, [Next]_vars, pc = "writeEntry", otadata' # otadata
               PROVE  BootSlot' = Meant
    OBVIOUS
  <2>1. WriteEntry
    BY DEF Next, vars, Boot, RollBack, Recover, NoRecovery, Mark, EraseEntry, NoUpdate, OpenSource,
           Validate, EraseSlot, CopyHead, CopyRest, ConsumeRequest, Switch, Cleanup, Stage, RemoveFile,
           CopyTrigger, PowerCut
  <2>2. TypeOK /\ TypeOK' BY DEF Typed
  <2>3. PICK s \in Sector : s = entryWrite.sector BY <2>2 DEF TypeOK
  <2>4. PICK e \in Entry : e = entryWrite.entry BY DEF Typed, AttemptFits, EntrySteps
  <2>5. BootSlot' = SlotOf(e.seq)
    BY <2>1, <2>2, <2>3, <2>4, WriteWinner DEF WriteEntry, EntryAimed, EntrySteps
  <2> QED BY <2>2, <2>4, <2>5 DEF EntryAimed, EntrySteps, TypeOK
<1>2. Spec => [](Typed /\ EntryAimed /\ RunsSelected)
  BY InitTyped, InitAimed, TypeStep, AimStep, PTL DEF Spec
<1> QED BY <1>1, <1>2, PTL DEF Spec, EntrySelectsIntended
-----------------------------------------------------------------------------
(* What the bootloader finds. *)

LEMMA InitComplete == Init => SlotsComplete
<1> SUFFICES ASSUME Init PROVE SlotsComplete OBVIOUS
<1>1. pc = "off" /\ image[0] \in Images BY DEF Init, Slot
<1>2. TypeOK BY InitTyped DEF Typed
<1>3. CASE otadata = [s \in Sector |-> Blank]
  <2>1. ValidSectors = {} BY <1>3 DEF ValidSectors, Bootable
  <2> QED BY <1>1, <1>2, <2>1, Selection DEF Selects, SlotsComplete, Confirmed, Writing, EntrySteps,
                                             AttemptSteps, CopySteps
<1>4. CASE otadata = [s \in Sector |-> IF s = 0 THEN EntryAt(1, "valid") ELSE Blank]
  <2>1. otadata[0] = EntryAt(1, "valid") /\ otadata[1] = Blank BY <1>4 DEF Sector
  <2>2. ValidSectors = {0}
    <3>1. EntryAt(1, "valid") \in Entry BY MaxSeqAssumption DEF EntryAt, Entry, State
    <3>2. Bootable(otadata[0]) /\ ~Bootable(otadata[1])
      BY <2>1, <3>1, BlankAssumption DEF Bootable, EntryAt
    <3> QED BY <3>2 DEF ValidSectors, Sector
  <2>3. ActiveSector = 0 /\ ActiveEntry = EntryAt(1, "valid") /\ Other = Blank
    BY <2>1, <2>2 DEF ActiveSector, ActiveEntry, Other
  <2>4. BootSlot = 0 BY <2>2, <2>3 DEF BootSlot, EntryAt
  <2> QED BY <1>1, <2>2, <2>3, <2>4 DEF SlotsComplete, Confirmed, Writing, EntrySteps, AttemptSteps,
                                         CopySteps, Bootable, EntryAt
<1> QED BY <1>3, <1>4 DEF Init

LEMMA CompleteStep ==
  Typed /\ Typed' /\ EntryAimed /\ RunsSelected /\ SlotsComplete /\ [Next]_vars => SlotsComplete'
<1> SUFFICES ASSUME Typed, Typed', EntryAimed, RunsSelected, SlotsComplete, [Next]_vars, mishaps' = {}
             PROVE  SlotsComplete'
  BY DEF SlotsComplete
<1>1. TypeOK /\ TypeOK' BY DEF Typed
<1>2. Selects /\ Selects' BY Selection, PTL
\* Nothing went wrong so far.
<1>3. mishaps = {}
  BY DEF Next, vars, history, Boot, RollBack, Recover, NoRecovery, Mark, EraseEntry, WriteEntry,
         EntryFails, NoUpdate, OpenSource, Validate, EraseSlot, CopyHead, CopyRest, ConsumeRequest,
         Switch, Cleanup, Stage, RemoveFile, CopyTrigger, PowerCut
<1> DEFINE Complete ==
      /\ pc # "bricked"
      /\ image[BootSlot] \in Images
      /\ Confirmed \/ image[FallbackSlot] \in Images
      /\ ValidSectors # {} /\ Bootable(Other) => Other.state = "valid"
           Trying ==
      /\ pc \in AttemptSteps \union {"update", "writeEntry"} \/ Writing("switch") => Confirmed
      /\ pc \in {"consume", "switch"} \/ Writing("switch") => image[Destination] \in Images
      /\ ~Writing("recover")
           Marking ==
      Writing("mark") => /\ entryWrite.entry.state = "valid"
                         /\ image[running] \in Images
                         /\ pc = "eraseEntry" => /\ ValidSectors # {} /\ ~Confirmed
                                                 /\ ActiveSector = entryWrite.sector
<1>4. Complete /\ Trying /\ Marking BY <1>3 DEF SlotsComplete
<1>5. SUFFICES Complete' /\ Trying' /\ Marking' BY DEF SlotsComplete
<1> USE DEF Writing, EntrySteps, AttemptSteps, CopySteps
\* A step that writes neither sector nor slot keeps what the bootloader finds.
<1>6. ASSUME UNCHANGED <<otadata, image>>
      PROVE  /\ pc' # "bricked" => Complete'
             /\ Confirmed' = Confirmed /\ Destination' = Destination /\ ActiveSector' = ActiveSector
             /\ (ValidSectors # {})' = (ValidSectors # {})
  BY <1>4, <1>6, SameSelection DEF Confirmed, FallbackSlot
<1>7. CASE UNCHANGED vars
  BY <1>4, <1>6, <1>7 DEF vars
<1>8. CASE Boot
  <2>1. /\ BootSlot' = BootSlot /\ ActiveSector' = ActiveSector /\ Other' = Other
        /\ Confirmed' = Confirmed
        /\ FallbackSlot' = FallbackSlot
    BY <1>1, <1>8, BootKeeps DEF Confirmed, FallbackSlot
  <2> QED BY <1>1, <1>4, <1>8, <2>1, BootKeeps DEF Boot
<1>9. CASE RollBack
  \* Only the active entry can be on trial.
  <2>1. /\ ValidSectors # {} /\ ActiveEntry.state = "pending"
        /\ otadata' = [otadata EXCEPT ![ActiveSector] = EntryAt(ActiveEntry.seq, "aborted")]
    <3>1. PICK active \in Sector : active = ActiveSector BY <1>1, <1>2 DEF Selects
    <3> DEFINE onTrial(t) == otadata[t] # Blank /\ otadata[t].state = "pending"
    <3>2. AfterRollback = [t \in Sector |-> IF onTrial(t) THEN EntryAt(otadata[t].seq, "aborted")
                                           ELSE otadata[t]]
          \/ AfterRollback = [t \in Sector |-> otadata[t]]
      BY DEF AfterRollback
    <3>3. [t \in Sector |-> otadata[t]] = otadata BY <1>1 DEF TypeOK
    <3>4. \A t \in Sector : onTrial(t) => t = active
      <4> SUFFICES ASSUME NEW t \in Sector, onTrial(t), t # active PROVE FALSE OBVIOUS
      <4>1. Bootable(otadata[t]) BY DEF Bootable
      <4>2. t = 1 - active BY DEF Sector
      <4>3. ValidSectors # {} BY <4>1 DEF ValidSectors
      <4> QED BY <1>4, <3>1, <4>1, <4>2, <4>3 DEF Other
    <3> HIDE DEF onTrial
    <3>5. onTrial(active)
      <4> SUFFICES ASSUME ~onTrial(active) PROVE FALSE OBVIOUS
      <4>1. AfterRollback = [t \in Sector |-> otadata[t]] BY <3>2, <3>4
      <4> QED BY <1>9, <3>3, <4>1 DEF RollBack
    <3>6. otadata' = [otadata EXCEPT ![active] = EntryAt(otadata[active].seq, "aborted")]
      BY <1>1, <1>9, <3>2, <3>3, <3>4, <3>5 DEF RollBack, TypeOK
    <3>7. ValidSectors # {} BY <3>5 DEF onTrial, ValidSectors, Bootable
    <3> QED BY <3>1, <3>5, <3>6, <3>7 DEF onTrial, ActiveEntry
  <2> DEFINE lost == EntryAt(ActiveEntry.seq, "aborted")
  <2>2. lost \in Entry /\ ~Bootable(lost)
    BY <1>1, <1>2, <2>1 DEF Selects, EntryAt, Entry, State, Bootable
  <2> HIDE DEF lost
  <2>3. /\ BootSlot' = FallbackSlot
        /\ ValidSectors' # {} => /\ ActiveEntry' = Other /\ Bootable(Other) /\ ~Bootable(Other')
    BY <1>1, <2>1, <2>2, LoseActive DEF lost
  <2> QED BY <1>4, <1>9, <2>1, <2>3 DEF RollBack, Confirmed
<1>10. CASE Mark
  <2>1. CASE MarkWanted
    <3>1. running = BootSlot BY <1>10 DEF Mark, RunsSelected
    <3>2. ~Confirmed BY <2>1 DEF MarkWanted, Confirmed
    <3> QED BY <1>1, <1>4, <1>6, <1>10, <2>1, <3>1, <3>2, MarkIsEntry
            DEF Mark, WriteEntryFor, MarkWanted, history
  <2>2. CASE ~MarkWanted
    <3>1. Confirmed
      BY <1>1, <1>2, <2>2 DEF MarkWanted, Confirmed, Selects, Entry, State, Bootable
    <3> QED BY <1>4, <1>6, <1>10, <2>2, <3>1 DEF Mark, history
  <2> QED BY <2>1, <2>2
<1>11. CASE NoRecovery \/ PowerCut
  BY <1>4, <1>6, <1>11 DEF NoRecovery, PowerCut, history
<1>12. Recover => FALSE BY DEF Recover
<1>13. CASE EraseEntry
  <2>1. PICK s \in Sector : s = entryWrite.sector BY <1>1 DEF TypeOK
  <2>2. EntryFails => entryWrite.purpose = "switch" /\ pc' = "cleanup"
    BY <1>1, <1>4, <1>13 DEF EraseEntry, EntryFails, AfterFailedEntry, TypeOK
  <2>3. entryWrite.purpose \in {"mark", "switch"}
    BY <1>1, <1>4, <1>13 DEF EraseEntry, TypeOK
  <2>4. CASE EntryFails /\ UNCHANGED otadata
    BY <1>4, <1>6, <1>13, <2>2, <2>4 DEF EraseEntry
  <2>5. CASE otadata' = [otadata EXCEPT ![s] = Blank] /\ entryWrite.purpose = "switch"
    <3>1. /\ BootSlot' = BootSlot /\ Destination' = Destination
          /\ ValidSectors' = {} <=> ValidSectors = {}
          /\ ValidSectors # {} => ActiveEntry' = ActiveEntry /\ ~Bootable(Other')
      BY <1>1, <1>13, <2>1, <2>5, EraseOther DEF EraseEntry, EntryAimed
    <3>2. Confirmed' BY <1>4, <1>13, <2>5, <3>1 DEF EraseEntry, Confirmed
    <3> QED BY <1>4, <1>13, <2>2, <2>5, <3>1, <3>2 DEF EraseEntry
  <2>6. CASE otadata' = [otadata EXCEPT ![s] = Blank] /\ entryWrite.purpose = "mark"
    <3>1. /\ ValidSectors # {} /\ s = ActiveSector /\ ~Confirmed
      BY <1>4, <1>13, <2>1, <2>6 DEF EraseEntry
    <3>2. /\ BootSlot' = FallbackSlot
          /\ ValidSectors' # {} => /\ ActiveEntry' = Other /\ Bootable(Other) /\ ~Bootable(Other')
      BY <1>1, <2>6, <3>1, LoseActive DEF Bootable
    <3>3. Confirmed' BY <1>4, <3>1, <3>2 DEF Confirmed
    <3> QED BY <1>4, <1>13, <2>2, <2>6, <3>1, <3>2, <3>3 DEF EraseEntry
  <2> QED BY <1>13, <2>1, <2>3, <2>4, <2>5, <2>6 DEF EraseEntry
<1>14. CASE WriteEntry
  <2>1. entryWrite.purpose \in {"mark", "switch"}
    BY <1>1, <1>4, <1>14 DEF WriteEntry, TypeOK
  <2>2. CASE EntryFails /\ UNCHANGED otadata
    BY <1>4, <1>6, <1>14, <2>1, <2>2 DEF WriteEntry, EntryFails, AfterFailedEntry
  <2>3. CASE ~(EntryFails /\ UNCHANGED otadata)
    <3>1. PICK s \in Sector : s = entryWrite.sector BY <1>1 DEF TypeOK
    <3>2. PICK e \in Entry : e = entryWrite.entry BY <1>14 DEF WriteEntry, Typed, AttemptFits
    <3>3. /\ ValidSectors' # {} /\ ActiveSector' = s /\ ActiveEntry' = e
          /\ BootSlot' = SlotOf(e.seq) /\ Other' = otadata[1 - s]
      BY <1>1, <1>14, <2>3, <3>1, <3>2, WriteWinner DEF WriteEntry, EntryAimed
    <3>4. PICK active \in Sector : active = ActiveSector BY <1>2, <1>1 DEF Selects
    \* The other sector holds the entry that was selected, or none.
    <3>5. /\ Bootable(Other') => /\ ValidSectors # {} /\ Other' = ActiveEntry
                                 /\ SlotOf(Other'.seq) = BootSlot
          /\ ~Bootable(Other') => ValidSectors = {} /\ BootSlot = 0
      <4>1. ~Bootable(otadata[s])
        BY <1>14, <3>1 DEF WriteEntry, EntryAimed, Bootable
      <4>2. CASE ValidSectors # {}
        <5>1. active # s /\ Bootable(otadata[active])
          BY <1>1, <1>2, <3>4, <4>1, <4>2 DEF Selects, ActiveEntry
        <5>2. active = 1 - s BY <5>1 DEF Sector
        <5> QED BY <1>1, <1>2, <3>3, <3>4, <4>2, <5>1, <5>2 DEF Selects, ActiveEntry
      <4>3. CASE ValidSectors = {}
        BY <1>1, <1>2, <3>3, <4>3 DEF Selects, Sector
      <4> QED BY <4>2, <4>3
    <3>6. Bootable(Other') => Other'.state = "valid"
      BY <1>4, <1>14, <3>5 DEF WriteEntry, Confirmed
    <3>7. FallbackSlot' = BootSlot BY <3>5 DEF FallbackSlot
    <3>8. UNCHANGED image /\ pc' = AfterEntry /\ UNCHANGED <<running, entryWrite>>
      BY <1>14, <2>3 DEF WriteEntry
    <3>9. CASE entryWrite.purpose = "switch"
      BY <1>4, <1>14, <3>2, <3>3, <3>6, <3>7, <3>8, <3>9 DEF WriteEntry, EntryAimed, AfterEntry
    <3>10. CASE entryWrite.purpose = "mark"
      <4>1. Confirmed' BY <1>4, <1>14, <3>2, <3>3, <3>10 DEF WriteEntry, Confirmed
      <4> QED BY <1>4, <1>14, <3>2, <3>3, <3>6, <3>8, <3>10, <4>1 DEF WriteEntry, EntryAimed, AfterEntry
    <3> QED BY <2>1, <3>9, <3>10
  <2> QED BY <2>2, <2>3
<1>15. CASE EraseSlot \/ CopyHead \/ CopyRest
  <2>1. UNCHANGED otadata BY <1>15 DEF EraseSlot, CopyHead, CopyRest
  <2>2. Confirmed BY <1>4, <1>15 DEF EraseSlot, CopyHead, CopyRest
  <2>3. /\ Confirmed' /\ BootSlot' = BootSlot /\ Destination' = Destination
        /\ ValidSectors' = ValidSectors /\ Other' = Other
    BY <2>1, <2>2, SameSelection DEF Confirmed
  <2>4. BootSlot \in Slot /\ Destination \in Slot /\ Destination # BootSlot
    BY <1>1, <1>2 DEF Selects
  <2>5. \A to : SetImage(to) => image'[BootSlot] = image[BootSlot] /\ image'[Destination] = to
    BY <1>1, <2>4 DEF SetImage, TypeOK
  <2>6. image'[BootSlot] \in Images
    BY <1>4, <1>15, <2>5 DEF EraseSlot, CopyHead, CopyRest
  <2>7. pc' = "consume" => image'[Destination] \in Images
    BY <1>15, <2>5 DEF EraseSlot, CopyHead, CopyRest, Typed, AttemptFits
  <2> QED BY <1>4, <1>15, <2>3, <2>6, <2>7 DEF EraseSlot, CopyHead, CopyRest
<1>16. CASE NoUpdate \/ OpenSource \/ Validate \/ ConsumeRequest \/ Cleanup \/ Switch
  BY <1>4, <1>6, <1>16 DEF NoUpdate, OpenSource, Validate, ConsumeRequest, Cleanup, Switch,
                           WriteEntryFor, history
<1>17. ASSUME NEW file \in Shelf, Stage(file) \/ RemoveFile(file) PROVE Complete' /\ Trying' /\ Marking'
  BY <1>4, <1>6, <1>17 DEF Stage, RemoveFile
<1>18. ASSUME NEW contents, CopyTrigger(contents) PROVE Complete' /\ Trying' /\ Marking'
  BY <1>4, <1>6, <1>18 DEF CopyTrigger
<1> QED BY <1>7, <1>8, <1>9, <1>10, <1>11, <1>12, <1>13, <1>14, <1>15, <1>16, <1>17, <1>18 DEF Next

\* Whenever the power goes and whichever flash or card operation fails, the
\* bootloader finds a complete image in the slot it selects, also when it gives
\* up an entry on trial, as long as no mark-valid write failed and the recovery
\* combo was not used. (ota_update.rs, proto/src/ota.rs)
THEOREM NeverBricked == Spec => []BootsCompleteImage
<1>1. SlotsComplete => BootsCompleteImage BY DEF SlotsComplete, BootsCompleteImage
<1> QED BY <1>1, InitTyped, InitAimed, InitComplete, TypeStep, AimStep, CompleteStep, PTL DEF Spec
=============================================================================
