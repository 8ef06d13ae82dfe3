------------------------------ MODULE OtaUpdate ------------------------------
(***************************************************************************)
(* The boot-time firmware update of fw/src/ota_update.rs with the otadata  *)
(* arithmetic of proto/src/ota.rs: recovery combo, mark-valid, validation  *)
(* of the card image, erase and copy into the inactive slot, consumption   *)
(* of the one-shot request, and the otadata switch.  Each flash and card   *)
(* operation is a step, so the power may be cut between any two.           *)
(*                                                                         *)
(* The two otadata sectors hold select entries; a sector that is erased,   *)
(* torn or has a bad CRC is Blank.  A slot's image is a complete image, a  *)
(* Partial one (its first sector, with the magic byte, is written, the     *)
(* rest is not) or Empty (no magic byte).                                  *)
(***************************************************************************)
EXTENDS Integers

CONSTANTS Images,        \* complete application images
          Shelf,         \* names of picker-selectable image files on the card
          Trigger,       \* the one-shot file FWUPDATE.BIN
          NoFile, Blank, Empty, Partial, Corrupt, Missing,
          MaxSeq,        \* bound on ota_seq: nothing that would pass it starts
          Bootloaders    \* subset of {"plain", "rollback"}

ASSUME MaxSeqAssumption == MaxSeq \in Nat \ {0} \* the factory entry's seq is 1
ASSUME NamesAssumption == Trigger \notin Shelf /\ NoFile \notin Shelf \union {Trigger}
ASSUME ImagesAssumption == {Empty, Partial, Corrupt, Missing} \intersect Images = {}
ASSUME BootloadersAssumption == Bootloaders \subseteq {"plain", "rollback"}

VARIABLES otadata,     \* the two select-entry sectors
          image,       \* what each app slot holds
          card,        \* contents of the image files on the card
          pending,     \* the picker's request, FWPEND.BIN
          bootloader,  \* which second-stage bootloader this device has
          running,     \* the slot this code runs from
          pc,          \* next step of the boot
          source,      \* the file the update in progress reads
          entryWrite,  \* the select entry being written
          armed,       \* history: requests made and not yet answered
          mishaps      \* history: "mark" once a mark-valid write has failed,
                       \* "recovery" once the combo has been honoured

vars == <<otadata, image, card, pending, bootloader, running, pc, source,
          entryWrite, armed, mishaps>>
history == <<armed, mishaps>>

Slot   == {0, 1}
Sector == {0, 1}
State  == {"new", "pending", "valid", "aborted"}
Name   == Shelf \union {Trigger}
Entry  == [seq : 1 .. MaxSeq, state : State]
EntryAt(seq, state) == [seq |-> seq, state |-> state]
ASSUME BlankAssumption == Blank \notin Entry

Bootable(entry) == entry # Blank /\ entry.state # "aborted"

-----------------------------------------------------------------------------
(* Select-entry arithmetic. *)

ValidSectors == {s \in Sector : Bootable(otadata[s])}

\* The sector of the highest valid seq, the first one on a tie.
ActiveSector ==
  IF 0 \in ValidSectors /\ (1 \in ValidSectors => otadata[0].seq >= otadata[1].seq)
  THEN 0 ELSE 1

ActiveEntry == otadata[ActiveSector]

\* active_app_slot, with the bootloader's default for erased otadata.
BootSlot == IF ValidSectors = {} THEN 0 ELSE (ActiveEntry.seq - 1) % 2

\* Faulty variant: the update goes to the slot otadata selects.
DestinationSelected == BootSlot

\* The slot an update goes to: not the one otadata selects.
Destination == 1 - BootSlot

\* Faulty variants: the smallest seq that maps to dest, not strictly higher;
\* the next seq, whatever slot it maps to.
SwitchNotHigher(dest) ==
  LET seq == IF ValidSectors = {} THEN 0 ELSE ActiveEntry.seq
  IN  [sector |-> IF ValidSectors = {} THEN 0 ELSE 1 - ActiveSector,
       entry  |-> EntryAt(IF seq % 2 = dest THEN seq + 1 ELSE seq, "new")]
SwitchToNextSeq(dest) ==
  [sector |-> IF ValidSectors = {} THEN 0 ELSE 1 - ActiveSector,
   entry  |-> EntryAt(IF ValidSectors = {} THEN 1 ELSE ActiveEntry.seq + 1, "new")]

\* plan_switch: the smallest higher seq that maps to dest, in the other sector.
PlanSwitch(dest) ==
  LET seq == IF ValidSectors = {} THEN 0 ELSE ActiveEntry.seq
  IN  [sector |-> IF ValidSectors = {} THEN 0 ELSE 1 - ActiveSector,
       entry  |-> EntryAt(IF seq % 2 = dest THEN seq + 1 ELSE seq + 2, "new")]

\* plan_mark_app_valid: the active entry again, in its own sector, as valid.
MarkWanted == ValidSectors # {} /\ ActiveEntry.state \in {"new", "pending"}
PlanMark == [sector |-> ActiveSector, entry |-> EntryAt(ActiveEntry.seq, "valid")]

WriteEntryFor(purpose, write) ==
  /\ entryWrite' = [purpose |-> purpose, sector |-> write.sector, entry |-> write.entry]
  /\ pc' = "eraseEntry"
-----------------------------------------------------------------------------
Init ==
  /\ otadata \in {[s \in Sector |-> Blank],
                  [s \in Sector |-> IF s = 0 THEN EntryAt(1, "valid") ELSE Blank]}
  /\ \E factory \in Images : image = [s \in Slot |-> IF s = 0 THEN factory ELSE Empty]
  /\ card \in [Name -> Images \union {Corrupt, Missing}]
  /\ card[Trigger] = Missing
  /\ pending = NoFile
  /\ bootloader \in Bootloaders
  /\ running = 0
  /\ pc = "off"
  /\ source = NoFile
  /\ entryWrite = [purpose |-> "mark", sector |-> 0, entry |-> Blank]
  /\ armed = {}
  /\ mishaps = {}

\* The second-stage bootloader starts the slot otadata selects.  With rollback
\* it first gives up an entry still pending, then puts a new one on trial.
AfterRollback ==
  [s \in Sector |->
     IF bootloader = "rollback" /\ otadata[s] # Blank /\ otadata[s].state = "pending"
     THEN EntryAt(otadata[s].seq, "aborted") ELSE otadata[s]]

Boot ==
  /\ pc = "off"
  /\ otadata = AfterRollback
  /\ running' = BootSlot
  /\ otadata' =
       IF bootloader = "rollback" /\ ValidSectors # {} /\ ActiveEntry.state = "new"
       THEN [otadata EXCEPT ![ActiveSector].state = "pending"] ELSE otadata
  /\ pc' = IF image[BootSlot] \in Images THEN "recovery" ELSE "bricked"
  /\ UNCHANGED <<image, card, pending, bootloader, source, entryWrite, history>>

RollBack ==
  /\ pc = "off"
  /\ otadata # AfterRollback
  /\ otadata' = AfterRollback
  /\ UNCHANGED <<image, card, pending, bootloader, running, pc, source, entryWrite, history>>

\* main(): the combo is sampled first.  recover_to_slot0 acts only when otadata
\* selects slot 1 and slot 0 starts with the image magic.
RecoveryApplies == ValidSectors # {} /\ BootSlot = 1 /\ image[0] # Empty

Recover ==
  /\ pc = "recovery"
  /\ RecoveryApplies
  /\ PlanSwitch(0).entry.seq <= MaxSeq
  /\ WriteEntryFor("recover", PlanSwitch(0))
  /\ mishaps' = mishaps \union {"recovery"}
  /\ UNCHANGED <<otadata, image, card, pending, bootloader, running, source, armed>>

NoRecovery ==
  /\ pc = "recovery"
  /\ pc' = "mark"
  /\ UNCHANGED <<otadata, image, card, pending, bootloader, running, source,
                 entryWrite, history>>

\* mark_running_slot_valid.
Mark ==
  /\ pc = "mark"
  /\ IF MarkWanted THEN WriteEntryFor("mark", PlanMark)
                   ELSE pc' = "update" /\ UNCHANGED entryWrite
  /\ UNCHANGED <<otadata, image, card, pending, bootloader, running, source, history>>

\* write_select_entry erases the sector, then writes the 32 bytes; what follows
\* depends on which of its three callers it returns to.
AfterEntry == CASE entryWrite.purpose = "mark" -> "update"
                [] entryWrite.purpose \in {"recover", "switch"} -> "off"
AfterFailedEntry == CASE entryWrite.purpose = "mark" -> "update"
                      [] entryWrite.purpose = "recover" -> "mark"
                      [] entryWrite.purpose = "switch" -> "cleanup"
EntryFails ==
  /\ pc' = AfterFailedEntry
  /\ mishaps' = IF entryWrite.purpose = "mark" THEN mishaps \union {"mark"} ELSE mishaps

EraseEntry ==
  /\ pc = "eraseEntry"
  /\ \/ /\ otadata' = [otadata EXCEPT ![entryWrite.sector] = Blank]
        /\ pc' = "writeEntry"
        /\ UNCHANGED mishaps
     \/ /\ otadata' \in {otadata, [otadata EXCEPT ![entryWrite.sector] = Blank]}
        /\ EntryFails
  /\ UNCHANGED <<image, card, pending, bootloader, running, source, entryWrite, armed>>

WriteEntry ==
  /\ pc = "writeEntry"
  /\ \/ /\ otadata' = [otadata EXCEPT ![entryWrite.sector] = entryWrite.entry]
        /\ pc' = AfterEntry
        /\ armed' = IF entryWrite.purpose = "switch" THEN armed \ {source} ELSE armed
        /\ UNCHANGED mishaps
     \/ EntryFails /\ UNCHANGED <<otadata, armed>>
  /\ UNCHANGED <<image, card, pending, bootloader, running, source, entryWrite>>
-----------------------------------------------------------------------------
(* apply_pending_update, on the display task before it serves commands. *)

\* consume_pending_source truncates the request, then removes it; it succeeds
\* only if the request is really gone.
Consume(file) ==
  IF file = Trigger
  THEN card' = [card EXCEPT ![Trigger] = Missing] /\ UNCHANGED pending
  ELSE pending' = NoFile /\ UNCHANGED card
ConsumeFails(file) ==
  IF file = Trigger
  THEN /\ UNCHANGED pending
       /\ \/ UNCHANGED card
          \/ card[Trigger] # Missing /\ card' = [card EXCEPT ![Trigger] = Corrupt]
  ELSE pending' \in {pending, NoFile} /\ UNCHANGED card

RequestGone == IF source = Trigger THEN card[Trigger] = Missing ELSE pending = NoFile

\* The card is not there, no file is asked for, or it cannot be opened: the reader
\* starts, and a request of the picker that was read is consumed.
NoUpdate ==
  /\ pc = "update"
  /\ \/ UNCHANGED <<card, pending>>
     \/ pending # NoFile /\ Consume(pending)
  /\ pc' = "app"
  /\ UNCHANGED <<otadata, image, bootloader, running, source, entryWrite, history>>

\* The picker's request wins over the trigger file, unless it cannot be read.
OpenSource ==
  /\ pc = "update"
  /\ source' \in {pending, Trigger} \ {NoFile}
  /\ card[source'] # Missing
  /\ PlanSwitch(Destination).entry.seq <= MaxSeq
  /\ pc' = "validate"
  /\ UNCHANGED <<otadata, image, card, pending, bootloader, running, entryWrite, history>>

\* Pass 1 reads the whole image; a read error rejects it like a bad image does.
Validate ==
  /\ pc = "validate"
  /\ \/ card[source] \in Images /\ pc' = "eraseSlot"
     \/ pc' = "cleanup"
  /\ UNCHANGED <<otadata, image, card, pending, bootloader, running, source,
                 entryWrite, history>>

\* Pass 2 erases and streams; it stops at the first flash or card read error.
SetImage(to) == image' = [image EXCEPT ![Destination] = to]

EraseSlot ==
  /\ pc = "eraseSlot"
  /\ \/ SetImage(Empty) /\ pc' = "copyHead"
     \/ (SetImage(Empty) \/ UNCHANGED image) /\ pc' = "cleanup"
  /\ UNCHANGED <<otadata, card, pending, bootloader, running, source, entryWrite, history>>

CopyHead ==
  /\ pc = "copyHead"
  /\ \/ SetImage(Partial) /\ pc' = "copyRest"
     \/ UNCHANGED image /\ pc' = "cleanup"
  /\ UNCHANGED <<otadata, card, pending, bootloader, running, source, entryWrite, history>>

\* Faulty variant: a copy cut short counts as done.
CopyRestUnchecked ==
  /\ pc = "copyRest"
  /\ SetImage(card[source]) \/ UNCHANGED image
  /\ pc' = "consume"
  /\ UNCHANGED <<otadata, card, pending, bootloader, running, source, entryWrite, history>>

CopyRest ==
  /\ pc = "copyRest"
  /\ \/ SetImage(card[source]) /\ pc' = "consume"
     \/ UNCHANGED image /\ pc' = "cleanup"
  /\ UNCHANGED <<otadata, card, pending, bootloader, running, source, entryWrite, history>>

\* Faulty variant: the switch goes ahead although the request is still there.
ConsumeRegardless ==
  /\ pc = "consume"
  /\ Consume(source) \/ ConsumeFails(source)
  /\ pc' = "switch"
  /\ UNCHANGED <<otadata, image, bootloader, running, source, entryWrite, history>>

\* The request is consumed before otadata is switched, or there is no switch.
ConsumeRequest ==
  /\ pc = "consume"
  /\ \/ Consume(source) /\ pc' = "switch"
     \/ ConsumeFails(source) /\ pc' = "cleanup"
  /\ UNCHANGED <<otadata, image, bootloader, running, source, entryWrite, history>>

Switch ==
  /\ pc = "switch"
  /\ WriteEntryFor("switch", PlanSwitch(Destination))
  /\ UNCHANGED <<otadata, image, card, pending, bootloader, running, source, history>>

\* Any failed attempt: the request is removed so that it does not run again.
Cleanup ==
  /\ pc = "cleanup"
  /\ Consume(source) \/ ConsumeFails(source)
  /\ pc' = "app"
  /\ UNCHANGED <<otadata, image, bootloader, running, source, entryWrite, mishaps>>
  /\ armed' = IF RequestGone' THEN armed \ {source} ELSE armed
-----------------------------------------------------------------------------
(* The running reader, the user and the power. *)

\* Settings picker: stage_selected_update rewrites FWPEND.BIN, then a reset.
Stage(file) ==
  /\ pc = "app"
  /\ card[file] # Missing
  /\ \/ pending' = file /\ pc' = "off" /\ armed' = (armed \ Shelf) \union {file}
     \/ pending' \in {pending, NoFile} /\ UNCHANGED <<pc, armed>>
  /\ UNCHANGED <<otadata, image, card, bootloader, running, source, entryWrite, mishaps>>

\* The user edits the card: an image copied as FWUPDATE.BIN, a file removed
\* from the shelf.
CopyTrigger(contents) ==
  /\ pc = "app"
  /\ card' = [card EXCEPT ![Trigger] = contents]
  /\ armed' = armed \union {Trigger}
  /\ UNCHANGED <<otadata, image, pending, bootloader, running, pc, source, entryWrite,
                 mishaps>>

RemoveFile(file) ==
  /\ pc = "app"
  /\ card' = [card EXCEPT ![file] = Missing]
  /\ UNCHANGED <<otadata, image, pending, bootloader, running, pc, source,
                 entryWrite, history>>

PowerCut ==
  /\ pc \notin {"off", "bricked"}
  /\ pc' = "off"
  /\ UNCHANGED <<otadata, image, card, pending, bootloader, running, source,
                 entryWrite, history>>

Next ==
  \/ Boot \/ RollBack \/ Recover \/ NoRecovery \/ Mark \/ EraseEntry \/ WriteEntry
  \/ NoUpdate \/ OpenSource \/ Validate \/ EraseSlot \/ CopyHead \/ CopyRest
  \/ ConsumeRequest \/ Switch \/ Cleanup
  \/ \E file \in Shelf : Stage(file) \/ RemoveFile(file)
  \/ \E contents \in Images \union {Corrupt} : CopyTrigger(contents)
  \/ PowerCut

Spec == Init /\ [][Next]_vars
-----------------------------------------------------------------------------
\* Types: every sequence number written is one the bootloader counts as valid.
TypeOK ==
  /\ otadata \in [Sector -> Entry \union {Blank}]
  /\ image \in [Slot -> Images \union {Empty, Partial}]
  /\ card \in [Name -> Images \union {Corrupt, Missing}]
  /\ pending \in Shelf \union {NoFile}
  /\ bootloader \in Bootloaders
  /\ running \in Slot
  /\ pc \in {"off", "bricked", "recovery", "mark", "eraseEntry", "writeEntry",
             "update", "validate", "eraseSlot", "copyHead", "copyRest", "consume",
             "switch", "cleanup", "app"}
  /\ source \in Name \union {NoFile}
  /\ entryWrite \in [purpose : {"recover", "mark", "switch"}, sector : Sector,
                     entry : Entry \union {Blank}]
  /\ armed \subseteq Name
  /\ mishaps \subseteq {"mark", "recovery"}

\* Whatever the moment of a power cut and whichever flash or card operation
\* fails, the bootloader starts a complete image: an interrupted copy is never
\* selected, also when a trial entry is rolled back (ota_update.rs: a corrupt
\* image that reached otadata would brick the device).  Not promised once the
\* recovery combo was used or the running slot could not be marked valid.
BootsCompleteImage == mishaps = {} => pc # "bricked"

\* An update never erases or writes the slot the code is running from, as long
\* as no mark-valid write failed between its erase and its write.
RunningSlotUntouched ==
  []["mark" \notin mishaps => image'[running] = image[running]]_vars

\* ota_update.rs on the recovery combo: it cannot switch into a slot 0 that does
\* not hold a valid image.
RecoveryFindsImage ==
  pc = "eraseEntry" /\ entryWrite.purpose = "recover" => image[0] \in Images

\* A written select entry selects what its writer meant, however flash
\* operations failed before: the slot just flashed for an update, slot 0 for
\* recovery, the running one for mark-valid.
EntrySelectsIntended ==
  [][pc = "writeEntry" /\ otadata' # otadata =>
       BootSlot' = CASE entryWrite.purpose = "switch" -> Destination
                     [] entryWrite.purpose = "recover" -> 0
                     [] entryWrite.purpose = "mark" -> running]_vars

\* Each attempt answers a request nobody answered before: an image applied, or
\* one that failed and was cleaned up, never runs again on a later boot.
AttemptIsRequested ==
  pc \in {"validate", "eraseSlot", "copyHead", "copyRest", "consume", "switch"}
    => source \in armed
=============================================================================
