------------------------------ MODULE BioTask -------------------------------
(***************************************************************************)
(* The fingerprint sensor, shared by two tasks: bio_task (biometric.c)     *)
(* runs one command at a time, and the card task (cbor_bio_enroll.c,       *)
(* check_user_presence, the UV token of clientPIN) hands it commands       *)
(* through a queue and waits for the next event on another.  A wait that   *)
(* ends before its command leaves the command running, and its event is    *)
(* what the next wait finds.  A reply of the sensor that is given up may   *)
(* still come, and is then read as that of a later command: Sensor has the *)
(* line between them, here is what comes of it.                            *)
(*                                                                         *)
(* Time is not modelled: a wait may end at any moment, because             *)
(* bio_run_enroll ignores the timeout it is given.                         *)
(***************************************************************************)
EXTENDS Templates, FiniteSetsExt, Sequences, SequencesExt

CONSTANTS
    CmdDepth,  \* room in bio_cmd_q
    EvtDepth,  \* room in bio_evt_q
    NameSlots  \* bound: the slots whose finger the host names

\* What bio_task is given, how far it is with it, and whether the card task
\* waits for it still.
Commands == [type : {"enroll", "remove", "verify"}, id : Slots \cup {None},
             own : BOOLEAN, stage : {"start", "look", "model", "done"}]

ASSUME QueueAssumption ==
    CmdDepth \in Nat \ {0} /\ EvtDepth \in Nat \ {0} /\ None \notin Commands

VARIABLES
    stored,    \* templates in the sensor
    cmdq, evtq,
    running,   \* the command bio_task executes, with its stage, or None
    cancel,    \* bio_cancel_requested
    count,     \* bio_template_count
    used,      \* bio_slot_used
    valid,     \* bio_slot_cache_valid
    card,      \* what the card task is doing
    pending,   \* bio_pending_template_id while bio_enroll_pending, else None
    names      \* slots with a friendly name, in RAM and in EF_BIO_NAMES

\* What the checks remember, and the code does not.
VARIABLES
    unsettled, \* slots with a command whose own answer nobody waited for, or
               \* did not say what was done, or used while doubtful
    foreign,   \* settled slots whose name was given to another finger
    doubtful,  \* slots scanned while bio_task used the sensor, or misread, or
               \* with a store or delete since that was reported as failed
    late       \* a reply was given up, and may be taken for a later one: every
               \* slot is doubtful

queues == <<cmdq, evtq>>
cache == <<count, used, valid>>
ghosts == <<unsettled, foreign, doubtful, late>>
vars == <<stored, running, cancel, queues, cache, card, pending, names,
          ghosts>>

Idle == [at |-> "idle"]
Starting == [at |-> "start"]
Waits(s) == card.at = "wait" /\ card.slot = s

\* Commands bio_task has not finished.
Outstanding == Range(cmdq) \cup ({running} \ {None})
Disown(q) == [i \in DOMAIN q |-> [q[i] EXCEPT !.own = FALSE]]

Init == /\ stored = {} /\ running = None /\ cancel = FALSE
        /\ cmdq = <<>> /\ evtq = <<>>
        /\ count = 0 /\ used = {} /\ valid = FALSE
        /\ card = Starting /\ pending = None
        /\ names = {}
        /\ unsettled = {} /\ foreign = {}
        /\ doubtful = {} /\ late = FALSE
-----------------------------------------------------------------------------
(* The card task: the start, and the slot cache.                           *)

\* Between scans the count is asked only whether it is 0; a missing reply is
\* taken for one, with a count nobody wrote.
Recount == {0, Cardinality(Slots)}

\* bio_task is there from here on.
BioInit ==
    /\ card = Starting
    /\ card' = Idle
    /\ count' \in Recount
    /\ UNCHANGED <<stored, running, cancel, queues, used, valid, pending, names, ghosts>>

\* A request that needs the cache starts; which one is chosen when it has it.
Ask ==
    /\ card = Idle
    /\ card' = [at |-> IF valid THEN "ready" ELSE "count", next |-> 0]
    /\ UNCHANGED <<stored, running, cancel, queues, cache, pending, names, ghosts>>

ScanFails ==
    /\ card.at = "count"
    /\ card' = Idle
    /\ UNCHANGED <<stored, running, cancel, queues, cache, pending, names, ghosts>>

\* The reply to be read may be that of another command: two tasks are on one
\* UART, without a lock, and what comes late is not flushed.
Stray == late \/ (running # None /\ card.at \in {"count", "scan"})

\* In a scan a count above the number of slots is as good as that number.
Counts == 0..Cardinality(Slots)

ScanCount ==
    /\ card.at = "count"
    /\ count' \in Counts
    /\ used' = {}
    /\ card' = [card EXCEPT !.at = "scan"]
    /\ doubtful' = IF running # None \/ late \/ count' # Cardinality(stored) THEN Slots ELSE {}
    /\ UNCHANGED <<stored, running, cancel, queues, valid, pending, names,
                   unsettled, foreign, late>>

\* Every error, a timeout too, is taken for an empty slot.
ScanSlot ==
    /\ card.at = "scan" /\ card.next \in Slots /\ Cardinality(used) < count
    /\ \/ /\ card.next \in stored \/ Stray
          /\ used' = used \cup {card.next}
          /\ UNCHANGED doubtful
       \/ /\ UNCHANGED used
          /\ doubtful' = doubtful \cup ({card.next} \cap stored)
    /\ card' = [card EXCEPT !.next = @ + 1]
    /\ UNCHANGED <<stored, running, cancel, queues, count, valid, pending,
                   names, unsettled, foreign, late>>

ScanEnd ==
    /\ card.at = "scan"
    /\ card.next \notin Slots \/ Cardinality(used) >= count
    /\ count' = Cardinality(used)
    /\ valid' = TRUE
    /\ card' = [card EXCEPT !.at = "ready", !.next = 0]
    /\ UNCHANGED <<stored, running, cancel, queues, used, pending, names,
                   ghosts>>

Scanning == card.at = "scan"
Ready == card.at = "ready"
-----------------------------------------------------------------------------
(* The card task: requests.                                                *)

\* enumerateEnrollments, and every request that finds no slot it may use
Enumerate ==
    /\ Ready
    /\ card' = Idle
    /\ UNCHANGED <<stored, running, cancel, queues, cache, pending, names, ghosts>>

Free == Slots \ used

EnrollBegin ==
    /\ Ready
    /\ card' = Idle
    /\ Free # {}
    /\ pending' = Min(Free)
    /\ unsettled' = unsettled \cup ({pending'} \cap doubtful)
    /\ UNCHANGED <<stored, running, cancel, queues, cache, names, foreign, doubtful, late>>

SetFriendlyName(s) ==
    /\ Ready /\ s \in NameSlots
    /\ card' = Idle
    /\ s \in used
    /\ names' = names \cup {s}
    /\ foreign' = foreign \ {s}
    /\ unsettled' = unsettled \cup ({s} \cap doubtful)
    /\ UNCHANGED <<stored, running, cancel, queues, cache, pending, doubtful, late>>

\* What bio_begin_* leaves in the event queue.
FlushedMut == evtq
Flushed == <<>>

Hand(what, type, s) ==
    /\ Len(cmdq) < CmdDepth
    /\ evtq' = Flushed
    /\ cmdq' = Append(cmdq, [type |-> type, id |-> s, own |-> TRUE,
                             stage |-> "start"])
    /\ card' = [at |-> "wait", what |-> what, slot |-> s,
                clean |-> Outstanding = {}]

HandFails ==
    /\ Len(cmdq) = CmdDepth
    /\ evtq' = Flushed
    /\ card' = Idle
    /\ UNCHANGED cmdq

CaptureNext ==
    /\ card = Idle /\ pending # None
    /\ \/ Hand("enroll", "enroll", pending) /\ UNCHANGED pending
       \/ HandFails /\ pending' = None
    /\ UNCHANGED <<stored, running, cancel, cache, names, ghosts>>

RemoveTemplate(s) ==
    /\ Ready
    /\ s \in used
    /\ Hand("remove", "remove", s) \/ HandFails
    /\ UNCHANGED <<stored, running, cancel, cache, pending, names, ghosts>>

\* check_user_presence ("touch"), the UV token of clientPIN ("token")
Verify(why) ==
    /\ card = Idle /\ count > 0
    /\ Hand(why, "verify", None) \/ HandFails
    /\ UNCHANGED <<stored, running, cancel, cache, pending, names, ghosts>>

EnrollCancel ==
    /\ card = Idle /\ pending # None
    /\ cancel' = TRUE
    /\ pending' = None
    /\ UNCHANGED <<stored, running, queues, cache, card, names, ghosts>>
-----------------------------------------------------------------------------
(* The card task: the end of a wait.                                       *)

\* The event the card task hopes for; it acts on the first one, or on none
\* when the wait times out.
Awaited == IF card.what \in {"touch", "token"} THEN "verify" ELSE card.what
Answers(ok) ==
    \/ /\ evtq # <<>>
       /\ ok = (Head(evtq).type = Awaited)
       /\ evtq' = Disown(Tail(evtq))
    \/ evtq = <<>> /\ ~ok /\ UNCHANGED evtq

ClearNameMut(s) == UNCHANGED <<names, foreign>>
ClearName(s) == /\ names' = names \ {s}
                /\ foreign' = foreign \ {s}

AnsweredOwn == evtq # <<>> /\ Head(evtq).own

\* After the answer of its own command a slot is settled, unless another
\* command for it is still to come.
Unsettled(ok) ==
    IF AnsweredOwn
    THEN IF ok /\ \A c \in Outstanding : c.id # card.slot
         THEN unsettled \ {card.slot} ELSE unsettled
    ELSE unsettled \cup (Slots \cap {card.slot})

EndWait(what, ok) ==
    /\ card.at = "wait" /\ card.what = what
    /\ Answers(ok)
    /\ card' = Idle
    /\ cmdq' = Disown(cmdq)
    /\ running' = IF running = None THEN None ELSE [running EXCEPT !.own = FALSE]
    /\ unsettled' = Unsettled(ok)
    /\ UNCHANGED <<stored, cache, doubtful, late>>

PendingAfterMut(ok) == IF ok THEN pending ELSE None
PendingAfter(ok) == None

Captured(ok) ==
    /\ EndWait("enroll", ok)
    /\ pending' = PendingAfter(ok)
    /\ IF ok THEN ClearName(card.slot) ELSE UNCHANGED <<names, foreign>>
    /\ UNCHANGED cancel

Removed(ok) ==
    /\ EndWait("remove", ok)
    /\ IF ok
       THEN /\ ClearName(card.slot)
            /\ pending' = IF pending = card.slot THEN None ELSE pending
       ELSE UNCHANGED <<names, foreign, pending>>
    /\ UNCHANGED cancel

\* A touch that timed out cancels; a token request that timed out does not.
Verified(why, ok) ==
    /\ EndWait(why, ok)
    /\ cancel' = (cancel \/ (why = "touch" /\ evtq = <<>>))
    /\ UNCHANGED <<pending, names, foreign>>

CardReturns == \E ok \in BOOLEAN :
    Captured(ok) \/ Removed(ok) \/ Verified("touch", ok) \/ Verified("token", ok)
-----------------------------------------------------------------------------
(* bio_task.                                                               *)

Take ==
    /\ running = None /\ cmdq # <<>>
    /\ running' = Head(cmdq)
    /\ cmdq' = Tail(cmdq)
    /\ cancel' = FALSE
    /\ doubtful' = IF Scanning THEN Slots ELSE doubtful
    /\ UNCHANGED <<stored, evtq, cache, card, pending, names, unsettled, foreign,
                   late>>

Stage(types, stage) == running # None /\ running.type \in types /\ running.stage = stage

\* The command ends; its event is dropped when the queue is full.
Emit(type) ==
    /\ running' = None
    /\ evtq' = IF Len(evtq) < EvtDepth
               THEN Append(evtq, [type |-> type, own |-> running.own]) ELSE evtq

\* The loops look at cancel first and at the sensor next: a cancel that comes
\* in between does not stop this round.
Look ==
    /\ Stage({"verify", "enroll"}, "start") /\ ~cancel
    /\ running' = [running EXCEPT !.stage = "look"]
    /\ UNCHANGED <<stored, cancel, queues, cache, card, pending, names, ghosts>>

\* A finger that matches, none within the time, an error, a cancel, or a missing
\* reply taken for a match.
VerifyEnds ==
    /\ \/ Stage({"verify"}, "start") /\ Emit("failed")
       \/ Stage({"verify"}, "look") /\ Emit("failed")
       \/ Stage({"verify"}, "look") /\ Emit(running.type)
    /\ UNCHANGED <<stored, cancel, cmdq, cache, card, pending, names, ghosts>>

\* Two images of the finger make a model; cancel is looked at until then.
AfterFingersMut == "done"
AfterFingers == "model"

Fingers ==
    /\ Stage({"enroll"}, "look")
    /\ running' = [running EXCEPT !.stage = AfterFingers]
    /\ UNCHANGED <<stored, cancel, queues, cache, card, pending, names, ghosts>>

GivesUpMut == Stage({"enroll"}, "start") /\ cancel
GivesUp == \E stage \in {"start", "look", "model"} : Stage({"enroll"}, stage)

EnrollFails ==
    /\ GivesUp
    /\ Emit("failed")
    /\ UNCHANGED <<stored, cancel, cmdq, cache, card, pending, names, ghosts>>

\* r302_store_model and r302_delete_model wait a second for the reply, and go
\* by what they read: what was done may be reported as failed, and by the reply
\* of another command what failed as done.
Unheard == /\ Emit("failed")
           /\ doubtful' = doubtful \cup {running.id}
           /\ unsettled' = unsettled \cup {running.id}
Heard == /\ running' = [running EXCEPT !.stage = "done"]
         /\ UNCHANGED <<evtq, doubtful, unsettled>>
Misheard == Stray /\ Heard

Store ==
    /\ Stage({"enroll"}, "model")
    /\ \/ /\ stored' = stored \cup {running.id}
          /\ foreign' = foreign \cup ({running.id} \cap (names \ unsettled))
          /\ Heard \/ Unheard
       \/ Misheard /\ UNCHANGED <<stored, foreign>>
    /\ UNCHANGED <<cancel, cmdq, cache, card, pending, names, late>>

Delete ==
    /\ Stage({"remove"}, "start")
    /\ \/ stored' = stored \ {running.id} /\ (Heard \/ Unheard)
       \/ /\ UNCHANGED stored
          /\ \/ Misheard
             \/ Emit("failed") /\ UNCHANGED <<doubtful, unsettled>>
    /\ UNCHANGED <<cancel, cmdq, cache, card, pending, names, foreign, late>>

ValidAfterMut == valid
ValidAfter == FALSE

\* bio_update_template_count, which may fail and leave the old count,
\* bio_invalidate_slot_cache, and the event
Done ==
    /\ Stage({"enroll", "remove"}, "done")
    /\ count' \in Recount
    /\ valid' = ValidAfter
    /\ Emit(running.type)
    /\ UNCHANGED <<stored, cancel, cmdq, used, card, pending, names, ghosts>>

\* What bio_task does whether or not a finger is put on the sensor.
TaskStep == Take \/ Look \/ VerifyEnds \/ EnrollFails \/ Store \/ Delete \/ Done

\* get_reply gives up: the reply, when it comes, is read in the place of the
\* next one, and so is every reply after it.
Straggles ==
    /\ ~late /\ (running # None \/ card.at \in {"count", "scan"})
    /\ late' = TRUE
    /\ doubtful' = Slots
    /\ UNCHANGED <<stored, running, cancel, queues, cache, card, pending, names,
                   unsettled, foreign>>
-----------------------------------------------------------------------------
\* The sensor and the flash keep their contents, the RAM does not.  r302_init
\* drops what has come from the sensor, not what is still to come.
PowerLoss ==
    /\ running' = None /\ cancel' = FALSE
    /\ cmdq' = <<>> /\ evtq' = <<>>
    /\ count' = 0 /\ used' = {} /\ valid' = FALSE
    /\ card' = Starting /\ pending' = None
    /\ unsettled' = unsettled \cup {s \in Slots : Waits(s) \/ \E c \in Outstanding : c.id = s}
    /\ late' \in {FALSE, late} /\ doubtful' = IF late' THEN Slots ELSE {}
    /\ UNCHANGED <<stored, names, foreign>>

Next == \/ BioInit \/ Ask \/ ScanFails \/ ScanCount \/ ScanSlot \/ ScanEnd
        \/ Enumerate \/ EnrollBegin \/ CaptureNext \/ EnrollCancel
        \/ \E s \in Slots : SetFriendlyName(s) \/ RemoveTemplate(s)
        \/ \E why \in {"touch", "token"} : Verify(why)
        \/ CardReturns
        \/ TaskStep \/ Fingers \/ Straggles
        \/ PowerLoss

Spec == Init /\ [][Next]_vars

\* bio_task runs whenever it has a command, and every wait of its loops and
\* of the sensor's replies is bounded; nobody has to put a finger on it.  Each
\* of its steps moves running.
FairSpec == Spec /\ WF_running(TaskStep)
-----------------------------------------------------------------------------
CardStates ==
    {Idle, Starting}
    \cup [at : {"ready", "count", "scan"}, next : Nat]
    \cup [at : {"wait"}, what : {"enroll", "remove", "touch", "token"},
          slot : Slots \cup {None}, clean : BOOLEAN]

TypeOK ==
    /\ stored \subseteq Slots /\ used \subseteq Slots
    /\ cmdq \in Seq(Commands) /\ Len(cmdq) <= CmdDepth
    /\ evtq \in Seq([type : {"enroll", "remove", "verify", "failed"}, own : BOOLEAN])
    /\ Len(evtq) <= EvtDepth
    /\ running \in Commands \cup {None}
    /\ cancel \in BOOLEAN /\ count \in Nat /\ valid \in BOOLEAN
    /\ card \in CardStates
    /\ pending \in Slots \cup {None}
    /\ names \subseteq Slots
    /\ unsettled \subseteq Slots /\ foreign \subseteq Slots /\ doubtful \subseteq Slots
    /\ late \in BOOLEAN

\* While nothing else was left running, whatever event ends a wait is the
\* answer to the command that was handed over for it (biometric.c:366-404).
AnswersOwn ==
    card.at = "wait" /\ card.clean => \A i \in DOMAIN evtq : evtq[i].own

\* A cache of the slots that was read while bio_task slept is exact whenever
\* it is used, whatever bio_task did since, but for a slot that was misread or
\* whose store or delete was reported as failed and was not
\* (biometric.c:48-85, 220-248).
CacheTrue ==
    valid /\ ~Stage({"enroll", "remove"}, "done")
        => \A s \in Slots \ doubtful : s \in used <=> s \in stored

\* The slot an enrolment was promised is free, unless a command for it was
\* left running or reported as failed and was not, or the slot was doubtful
\* when it was promised (cbor_bio_enroll.c:302-309, 341).
PendingFree ==
    pending # None /\ pending \notin unsettled /\ ~Waits(pending)
        => pending \notin stored

\* A friendly name belongs to a stored finger, the one it was given to, unless
\* a command for its slot was left running or reported as failed and was not,
\* or the slot was doubtful when it was used (cbor_bio_enroll.c:338, 405).
NamesOwn ==
    \A s \in names \ unsettled : ~Waits(s) => s \in stored /\ s \notin foreign

\* When the answer of its own command says so, the finger the card task asked
\* for is in the sensor, or is gone from it, until a reply of the sensor is
\* given up (biometric.c:182-248, r302.c:41-113).
AnswerTrue ==
    card.at = "wait" /\ ~late /\ evtq # <<>> /\ Head(evtq).own =>
        /\ Head(evtq).type = "enroll" => card.slot \in stored
        /\ Head(evtq).type = "remove" => card.slot \notin stored

\* bio_task comes back from every command, also when it misses the cancel
\* that was meant for it (biometric.c:276).
TaskComesBack == []<>(running = None)
=============================================================================
