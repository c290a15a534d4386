--------------------------- MODULE OffsetPersist ---------------------------
(***************************************************************************)
(* The magnetometer offset across reboots: the filter learns it, the       *)
(* fusion task offers it in an overwrite mailbox, the persist task writes  *)
(* it to one flash sector when OffsetPersistPolicy says so, and setup()    *)
(* loads it back as the filter's seed.  Power may fail between any two     *)
(* steps, also inside the EEPROM commit, which erases the sector and then  *)
(* programs it.                                                            *)
(*                                                                         *)
(* Offsets are integers.  Of the offset's variance only one bit matters    *)
(* here: whether it has reached VALIDATED_MAX_DEG2.                        *)
(***************************************************************************)
EXTENDS Integers, Sequences

CONSTANTS
  Limit,        \* OFFSET_LIMIT_DEG
  Change,       \* CHANGE_DEG
  MinInterval,  \* MIN_INTERVAL, in ticks
  StaticSeed,   \* offset_seed_deg of tuning.toml
  PriorIsLow,   \* p0_offset_deg2 <= VALIDATED_MAX_DEG2, as in tuning.toml
  Garbage,      \* what a half-programmed sector holds
  NoOffset,     \* std::nullopt
  MaxOffset,    \* bound: offsets explored, beyond Limit
  MaxAge        \* bound: ticks a sample may age inside the persist task

ASSUME OffsetAssumption ==
  /\ Limit \in Nat /\ Change \in Nat /\ MaxOffset \in Nat
  /\ StaticSeed \in -Limit .. Limit /\ Limit <= MaxOffset
  /\ Garbage \notin Int /\ NoOffset \notin Int
ASSUME TimeAssumption ==
  MinInterval \in Nat /\ MaxAge \in Nat /\ MaxAge <= MinInterval
ASSUME PriorAssumption == PriorIsLow \in BOOLEAN

VARIABLES
  powered,
  offset, low,     \* the filter's mag offset; its variance is validated
  anchored,        \* TinyEkfFilter::_initialized: a valid fix came this boot
  mailbox,         \* the offset mailbox: <<>> or one sample
  persistPc, held, \* the persist task and the sample it works on
  written, lastOffset, since,  \* OffsetPersistPolicy; since: now - _last_write
  flash,           \* the sector
  record,          \* history: the offset of the last record written completely
  rest             \* history: ticks since the sector was last erased this boot

filterVars  == <<offset, low, anchored>>
policyVars  == <<written, lastOffset, since>>
persistVars == <<persistPc, held>>
flashVars   == <<flash, record>>
offsetVars == <<powered, filterVars, mailbox, persistVars, policyVars, flashVars, rest>>

Offsets == -MaxOffset .. MaxOffset
Sample  == [offset : Offsets, low : BOOLEAN, age : 0 .. MaxAge]
NoSample == [offset |-> 0, low |-> FALSE, age |-> 0]
LongAgo == MinInterval + MaxAge    \* where since and rest stop counting

Blank   == [state |-> "blank", value |-> 0]
Torn    == [state |-> "torn",  value |-> Garbage]
Stored(value) == [state |-> "valid", value |-> value]

Abs(n) == IF n < 0 THEN -n ELSE n

-----------------------------------------------------------------------------
(* offset_store::validate, on what the sector holds. *)

\* Mutated form: the CRC is not compared.
ValidateWithoutCrc(sector) ==
  IF sector.state = "blank" THEN NoOffset ELSE sector.value

\* A foreign or erased sector fails the magic, a torn one the CRC.
Validate(sector) ==
  IF sector.state = "valid" /\ Abs(sector.value) <= Limit
    THEN sector.value ELSE NoOffset

Load == Validate(flash)

SeedAtBoot == IF Load = NoOffset THEN StaticSeed ELSE Load

FreshPolicy == written' = FALSE /\ lastOffset' = 0 /\ since' = 0

OffsetInit ==
  /\ powered = FALSE
  /\ offset = StaticSeed /\ low = PriorIsLow /\ anchored = FALSE
  /\ mailbox = <<>> /\ persistPc = "receive" /\ held = NoSample
  /\ written = FALSE /\ lastOffset = 0 /\ since = 0
  /\ flash \in {Blank} \cup {Stored(value) : value \in -Limit .. Limit}
  /\ record = IF flash.state = "valid" THEN flash.value ELSE StaticSeed
  /\ rest = LongAgo

\* setup() loads the seed and starts the tasks; the first predict() applies it.
Boot ==
  /\ ~powered
  /\ powered' = TRUE
  /\ offset' = SeedAtBoot /\ low' = PriorIsLow /\ anchored' = FALSE
  /\ mailbox' = <<>> /\ persistPc' = "receive" /\ held' = NoSample
  /\ FreshPolicy
  /\ rest' = LongAgo
  /\ UNCHANGED flashVars

PowerLoss ==
  /\ powered
  /\ powered' = FALSE
  /\ UNCHANGED <<filterVars, mailbox, persistVars, policyVars, flashVars, rest>>

\* A sample waits in the mailbox less than a tick, and ages at most MaxAge in
\* the persist task: fusion prints at 10 Hz and a commit takes milliseconds.
Tick ==
  /\ powered
  /\ mailbox = <<>>
  /\ persistPc # "receive" => held.age < MaxAge
  /\ since' = IF since < LongAgo THEN since + 1 ELSE since
  /\ rest' = IF rest < LongAgo THEN rest + 1 ELSE rest
  /\ held' = IF persistPc = "receive" THEN held ELSE [held EXCEPT !.age = @ + 1]
  /\ UNCHANGED <<powered, filterVars, mailbox, persistPc, written, lastOffset, flashVars>>

-----------------------------------------------------------------------------
(* The filter, as far as the offset goes.  Scalar updates move the offset  *)
(* a little and do not wrap it.                                            *)

Nudge(from) == {to \in Offsets : Abs(to - from) <= 1}

\* predict(): the random walk lets the variance grow, also while the offset is
\* pinned, and the magnetometer shrinks it: it may cross the bound either way.
FilterPredict ==
  /\ powered
  /\ offset' \in Nudge(offset)
  /\ low' \in BOOLEAN
  /\ UNCHANGED <<powered, anchored, mailbox, persistVars, policyVars, flashVars, rest>>

\* update() with the first valid fix: the offset takes up the heading jump and
\* is wrapped; the covariance is left alone.
FilterFirstFix ==
  /\ powered /\ ~anchored
  /\ anchored' = TRUE
  /\ offset' \in -Limit .. Limit
  /\ UNCHANGED <<powered, low, mailbox, persistVars, policyVars, flashVars, rest>>

FusionPrint ==
  /\ powered
  /\ mailbox' = <<[offset |-> offset, low |-> low, age |-> 0]>>
  /\ UNCHANGED <<powered, filterVars, persistVars, policyVars, flashVars, rest>>

-----------------------------------------------------------------------------
(* The persist task. *)

\* Mutated form: the interval is measured from boot only.
DueWithoutInterval(sample) ==
  /\ sample.low
  /\ written => Abs(sample.offset - lastOffset) >= Change

\* Mutated form: the change test is inverted.
DueUnchanged(sample) ==
  /\ sample.low
  /\ written => since - sample.age >= MinInterval
  /\ written => Abs(sample.offset - lastOffset) < Change

\* OffsetPersistPolicy::due
Due(sample) ==
  /\ sample.low
  /\ written => since - sample.age >= MinInterval
  /\ written => Abs(sample.offset - lastOffset) >= Change

PersistReceive ==
  /\ powered /\ persistPc = "receive"
  /\ mailbox # <<>>
  /\ mailbox' = <<>>
  /\ IF Due(Head(mailbox))
       THEN held' = Head(mailbox) /\ persistPc' = "erase"
       ELSE UNCHANGED persistVars
  /\ UNCHANGED <<powered, filterVars, policyVars, flashVars, rest>>

\* offset_store_eeprom::save: EEPROM.commit() erases the sector ...
CommitErase ==
  /\ powered /\ persistPc = "erase"
  /\ flash' = Blank /\ rest' = 0
  /\ persistPc' = "program"
  /\ UNCHANGED <<powered, filterVars, mailbox, held, policyVars, record>>

\* ... and programs it, page by page.
CommitProgram ==
  /\ powered /\ persistPc = "program"
  /\ flash' = Torn
  /\ persistPc' = "verify"
  /\ UNCHANGED <<powered, filterVars, mailbox, held, policyVars, record, rest>>

\* Mutated form: the record is built from the filter, not from the sample.
CommitDoneLatest ==
  /\ powered /\ persistPc = "verify"
  /\ flash' = Stored(offset) /\ record' = offset
  /\ persistPc' = "mark"
  /\ UNCHANGED <<powered, filterVars, mailbox, held, policyVars, rest>>

CommitDone ==
  /\ powered /\ persistPc = "verify"
  /\ flash' = Stored(held.offset) /\ record' = held.offset
  /\ persistPc' = "mark"
  /\ UNCHANGED <<powered, filterVars, mailbox, held, policyVars, rest>>

\* OffsetPersistPolicy::mark_written, with the sample's own time.
MarkWritten ==
  /\ powered /\ persistPc = "mark"
  /\ written' = TRUE /\ lastOffset' = held.offset /\ since' = held.age
  /\ persistPc' = "receive" /\ held' = NoSample
  /\ UNCHANGED <<powered, filterVars, mailbox, flashVars, rest>>

Persist ==
  PersistReceive \/ CommitErase \/ CommitProgram \/ CommitDone \/ MarkWritten

OffsetNext ==
  \/ Boot \/ PowerLoss \/ Tick
  \/ FilterPredict \/ FilterFirstFix \/ FusionPrint
  \/ Persist

OffsetSpec == OffsetInit /\ [][OffsetNext]_offsetVars

(* The board boots when powered, the fusion task prints, and time passes:  *)
(* strongly fair, as it is the model that makes a tick wait for the        *)
(* mailbox.  No fairness says that power fails or that a fix arrives.      *)
OffsetFairSpec ==
  /\ OffsetSpec
  /\ WF_offsetVars(Boot) /\ SF_offsetVars(Tick)
  /\ WF_offsetVars(FusionPrint) /\ WF_offsetVars(Persist)

-----------------------------------------------------------------------------
(* Properties. *)

OffsetTypeOK ==
  /\ powered \in BOOLEAN /\ low \in BOOLEAN /\ anchored \in BOOLEAN
  /\ offset \in Offsets
  /\ mailbox \in {<<>>} \cup {<<s>> : s \in Sample}
  /\ persistPc \in {"receive", "erase", "program", "verify", "mark"}
  /\ held \in Sample
  /\ written \in BOOLEAN /\ lastOffset \in Offsets /\ since \in 0 .. LongAgo
  /\ flash \in {Blank, Torn} \cup {Stored(value) : value \in Offsets}
  /\ record \in Offsets
  /\ rest \in 0 .. LongAgo

\* A power failure inside a commit costs the stored offset but never seeds the
\* filter with what it left: wherever the previous boots ended, the board starts
\* from the last record written completely, if it is in range, or from the
\* static seed.
SeedIsSane ==
  [][~powered /\ powered' => offset' \in {StaticSeed, record} \cap -Limit .. Limit]_offsetVars

\* Erases of the sector within one boot stay a MinInterval apart, less the time
\* a commit may lag its sample (offset_store.h: "flash writes minutes-apart").
ErasesAreSpaced == [][flash' = Blank => rest >= MinInterval - MaxAge]_flash

\* Between writes the policy remembers exactly what the sector holds, however
\* the filter moved on during the commit: the next change is measured from it.
PolicyMatchesFlash ==
  powered /\ written /\ persistPc \in {"receive", "erase"} => flash = Stored(lastOffset)

Behind(value) ==
  /\ powered /\ low /\ offset = value
  /\ flash.state = "valid" => Abs(value - flash.value) >= Change

\* An offset that settles, validated, on a board that stays powered reaches the
\* sector: the interval and the change test delay a write but never lose it.
SettledOffsetIsStored == \A value \in Offsets : []<>~Behind(value)

\* "A write is due only when ... the offset is GNSS-validated ... the mag alone
\* can never shrink it that far" (offset_store.h): no erase without a fix.  The code
\* does not keep it: the prior variance is already at the bound.
ErasedOnlyAfterFix == [][flash' = Blank => anchored]_flash
=============================================================================
