------------------------------- MODULE Sensor -------------------------------
(***************************************************************************)
(* The fingerprint sensor at the other end of a UART (drivers/r302.c), and *)
(* the runs of commands the two tasks of biometric.c make of it: verify,   *)
(* enroll and remove in bio_task, the scan of the slots in the card task.  *)
(* BioTask has the queues between them and takes a run as a few steps.     *)
(*                                                                         *)
(* A reply does not say which command it is for: whoever reads takes the   *)
(* oldest one.  It is given up after a second, when the command may still  *)
(* be carried out and its reply still come; nothing is flushed, and there  *)
(* is no lock.  A run is clean when the line was quiet as it began, none   *)
(* of its replies timed out and the other task was not at the sensor.      *)
(***************************************************************************)
EXTENDS Templates, Sequences

CONSTANTS
    Prints,   \* fingers put on the sensor
    MaxLate   \* bound of the model on the packets left on the line by a timeout

ASSUME SensorAssumption ==
    /\ None \notin Prints \cup {"search", "other", "nothing"}
    /\ MaxLate \in Nat \ {0}

Tasks == {"bio", "card"}
Other(t) == IF t = "bio" THEN "card" ELSE "bio"

VARIABLES
    library,  \* sensor: the template in each slot
    image,    \* sensor: the last image taken
    buffer,   \* sensor: char buffers 1 and 2
    tx, rx,   \* the line: commands not yet carried out, replies not yet read
    run,      \* what each task runs, at which command, for which slot
    waiting,  \* the tasks inside get_reply
    clean,    \* history: the run of bio_task is clean
    pad,      \* history: the finger at the last image of a clean run of bio_task
    changed,  \* history: the library changed since that run began
    from      \* history: the command whose reply its match was read from

sensor == <<library, image, buffer>>
history == <<clean, pad, changed, from>>
sensorVars == <<sensor, tx, rx, run, waiting, history>>

NoRun == [op |-> "none", at |-> "done", slot |-> 0]
Ends == {"done", "failed", "match"}
Rests(t) == run[t].at \in Ends
Quiet == tx = <<>> /\ rx = <<>>

\* The command a task sends at each place of a run.
Command(t) ==
    LET at == run[t].at
    IN  CASE at \in {"image1", "image2", "off"} -> [do |-> "image", arg |-> 0]
          [] at = "tz1" -> [do |-> "tz", arg |-> 1]
          [] at = "tz2" -> [do |-> "tz", arg |-> 2]
          [] at \in {"store", "load", "delete"} -> [do |-> at, arg |-> run[t].slot]
          [] OTHER -> [do |-> at, arg |-> 0]

\* bio_init asks for the password and the count before there are tasks; if
\* the password is not answered, no run begins until the next start.
Start == [op |-> "start", at |-> "password", slot |-> 0]
Supported == run["bio"].op = "start" => run["bio"].at = "done"

First == [verify |-> "image1", enroll |-> "image1", remove |-> "delete", scan |-> "count"]

\* Mutant: a search goes by whatever is in buffer 1.
AfterTzMut(op, code) == IF op = "enroll" THEN "off" ELSE "search"

\* After the image was converted, or was not: an enrolment fails, verify takes
\* another image.
AfterTz(op, code) ==
    IF code = "ok" THEN IF op = "enroll" THEN "off" ELSE "search"
    ELSE IF op = "enroll" THEN "failed" ELSE "image1"

\* Where a run goes with the code of a reply: verify and enroll wait for a
\* finger and for its removal, the count at the end may fail.
After(op, at, code) ==
    LET IfOk(next) == IF code = "ok" THEN next ELSE "failed"
    IN  CASE at = "image1" -> IF code = "ok" THEN "tz1" ELSE at
          [] at = "image2" -> IF code = "ok" THEN "tz2" ELSE at
          [] at = "off" -> IF code # "nofinger" THEN at
                           ELSE IF op = "enroll" THEN "image2" ELSE "image1"
          [] at = "tz1" -> AfterTz(op, code)
          [] at = "search" -> IF code = "no" THEN "off" ELSE IfOk("match")
          [] at = "tz2" -> IfOk("model")
          [] at = "model" -> IfOk("store")
          [] at = "count" -> "done"
          [] OTHER -> IfOk("count")

\* Mutant: the rest of the reply is not asked for.
NeededMut(do) == 1

\* The length below which a reply that says ok is not one to the command.
Needed(do) == IF do = "search" THEN 5 ELSE 3

\* Whether the reply r is one for the command: its length is looked at, by
\* search and count only when it says ok.
CodeOf(do, r) ==
    IF do \in {"search", "count"}
    THEN IF r.code = "ok" /\ r.size < Needed(do) THEN "error" ELSE r.code
    ELSE IF r.size = 1 THEN r.code ELSE "error"

SensorInit ==
    /\ library = [s \in Slots |-> None] /\ image = None
    /\ buffer = [b \in {1, 2} |-> None]
    /\ tx = <<>> /\ rx = <<>>
    /\ run = [bio |-> Start, card |-> NoRun]
    /\ waiting = {}
    /\ clean = FALSE /\ pad = None
    /\ changed = FALSE /\ from = None

-----------------------------------------------------------------------------
\* The sensor.

Templates == {s \in Slots : library[s] # None}
Answer(code, size, data) == /\ tx' = Tail(tx)
                            /\ rx' = Append(rx, [code |-> code, size |-> size, data |-> data,
                                                 match |-> code = "ok" /\ Head(tx).do = "search"])
Asked(do) == tx # <<>> /\ Head(tx).do = do
Arg == Head(tx).arg

\* Any command may fail.
Fails == /\ tx # <<>> /\ Answer("bad", 1, 0)
         /\ UNCHANGED <<sensor, run, waiting, history>>

TakeImage ==
    /\ Asked("image")
    /\ \E f \in Prints \cup {None} :
          /\ Answer(IF f = None THEN "nofinger" ELSE "ok", 1, 0)
          /\ image' = IF f = None THEN image ELSE f
          /\ pad' = IF clean THEN f ELSE None
    /\ UNCHANGED <<library, buffer, run, waiting, clean, changed, from>>

Convert ==
    /\ Asked("tz") /\ image # None
    /\ Answer("ok", 1, 0)
    /\ buffer' = [buffer EXCEPT ![Arg] = image]
    /\ UNCHANGED <<library, image, run, waiting, history>>

\* The two characters must be of one finger.
Combine ==
    /\ Asked("model") /\ buffer[1] = buffer[2]
    /\ Answer("ok", 1, 0)
    /\ UNCHANGED <<sensor, run, waiting, history>>

StoreModel ==
    /\ Asked("store")
    /\ Answer("ok", 1, 0)
    /\ library' = [library EXCEPT ![Arg] = buffer[1]]
    /\ changed' = clean
    /\ UNCHANGED <<image, buffer, run, waiting, clean, pad, from>>

DeleteModel ==
    /\ Asked("delete")
    /\ Answer("ok", 1, 0)
    /\ library' = [library EXCEPT ![Arg] = None]
    /\ changed' = clean
    /\ UNCHANGED <<image, buffer, run, waiting, clean, pad, from>>

\* A template is read into buffer 1, where an enrolment keeps its own.
LoadModel ==
    /\ Asked("load")
    /\ IF Arg \in Templates
       THEN Answer("ok", 1, 0) /\ buffer' = [buffer EXCEPT ![1] = library[Arg]]
       ELSE Answer("no", 1, 0) /\ UNCHANGED buffer
    /\ UNCHANGED <<library, image, run, waiting, history>>

Search ==
    /\ Asked("search")
    /\ LET found == {s \in Templates : library[s] = buffer[1]}
       IN  IF found = {} THEN Answer("no", 5, 0) ELSE \E s \in found : Answer("ok", 5, s)
    /\ UNCHANGED <<sensor, run, waiting, history>>

Password ==
    /\ Asked("password")
    /\ Answer("ok", 1, 0)
    /\ UNCHANGED <<sensor, run, waiting, history>>

Count ==
    /\ Asked("count")
    /\ Answer("ok", 3, 0)
    /\ UNCHANGED <<sensor, run, waiting, history>>

-----------------------------------------------------------------------------
\* The tasks.

\* What is remembered of a clean run once it is over or no longer clean.
Forget == pad' = None /\ changed' = FALSE

Begin(t, op, s) ==
    /\ Supported /\ Rests(t)
    /\ LET u == Other(t)
       IN  /\ run' = [run EXCEPT ![t] = [op |-> op, at |-> First[op], slot |-> s],
                                 ![u] = IF Rests(u) THEN NoRun ELSE @]
           /\ clean' = (t = "bio" /\ Quiet /\ Rests(u))
    /\ Forget /\ from' = None
    /\ UNCHANGED <<sensor, tx, rx, waiting>>

\* write_packet is three writes: with both tasks in it, neither command may
\* arrive.
Send(t) ==
    /\ ~Rests(t) /\ t \notin waiting
    /\ waiting' = waiting \cup {t}
    /\ tx' = Append(tx, Command(t)) \/ (Other(t) \in waiting /\ tx' = <<>>)
    /\ UNCHANGED <<sensor, rx, run, history>>

\* The scan: the slots in their order, to the last or until as many were
\* found as counted, which is left open here; an error is an empty slot.
ScanAfter(r, code) ==
    IF r.at = "count" /\ code # "ok" THEN {[r EXCEPT !.at = "failed"]}
    ELSE LET next == IF r.at = "count" THEN 0 ELSE r.slot + 1
         IN  {[r EXCEPT !.at = "done"]} \cup
             {[r EXCEPT !.at = "load", !.slot = s] : s \in {next} \cap Slots}

\* A task goes on with a code and, after a search, the slot it came with.
GoOn(t, code, data) ==
    /\ waiting' = waiting \ {t}
    /\ LET r == run[t]
       IN  IF t = "card" THEN \E next \in ScanAfter(r, code) : run' = [run EXCEPT ![t] = next]
           ELSE run' = [run EXCEPT ![t] = [r EXCEPT
                   !.at = After(r.op, r.at, code),
                   !.slot = IF r.at = "search" /\ code = "ok" THEN data ELSE @]]

Matched(t) == t = "bio" /\ run'["bio"].at = "match"

Receive(t) ==
    /\ t \in waiting /\ rx # <<>>
    /\ rx' = Tail(rx)
    /\ GoOn(t, CodeOf(Command(t).do, Head(rx)), Head(rx).data)
    /\ from' = IF Matched(t) THEN IF Head(rx).match THEN "search" ELSE "other" ELSE from
    /\ UNCHANGED <<sensor, tx, clean, pad, changed>>

\* Both tasks read bytes of one reply, and neither has it.
Tear ==
    /\ waiting = Tasks /\ rx # <<>>
    /\ rx' = Tail(rx)
    /\ UNCHANGED <<sensor, tx, run, waiting, history>>

\* No reply within a second, one with a wrong checksum, one too long: 255, 14
\* and 1, which the caller takes for a length.  Where it will do, the code is
\* read from what nothing was written to.
NoReply(t) ==
    /\ t \in waiting
    /\ \/ Len(tx) + Len(rx) <= MaxLate /\ UNCHANGED rx
       \/ rx # <<>> /\ rx' = Tail(rx)
    /\ \E code \in {"ok", "no", "nofinger", "error"} :
          \E data \in Slots : GoOn(t, code, data)
    /\ from' = IF Matched(t) THEN "nothing" ELSE from
    /\ clean' = FALSE /\ Forget
    /\ UNCHANGED <<sensor, tx>>

\* The loops that wait for a finger end after a time, by a cancel, or after
\* errors; nothing is under way then.
GiveUp ==
    /\ run["bio"].at \in {"image1", "image2", "off"} /\ "bio" \notin waiting
    /\ run' = [run EXCEPT !["bio"].at = "failed"]
    /\ UNCHANGED <<sensor, tx, rx, waiting, history>>

\* r302_init drops what has come; a command may still be at the sensor.
Restart ==
    /\ Len(tx) <= MaxLate
    /\ run' = [bio |-> Start, card |-> NoRun]
    /\ waiting' = {} /\ rx' = <<>>
    /\ clean' = FALSE /\ Forget /\ from' = None
    /\ UNCHANGED <<sensor, tx>>

SensorNext ==
    \/ Fails \/ TakeImage \/ Convert \/ Combine \/ StoreModel \/ DeleteModel
    \/ LoadModel \/ Search \/ Count \/ Password
    \/ Begin("bio", "verify", 0) \/ Begin("card", "scan", 0)
    \/ \E s \in Slots : Begin("bio", "enroll", s) \/ Begin("bio", "remove", s)
    \/ \E t \in Tasks : Send(t) \/ Receive(t) \/ NoReply(t)
    \/ Tear \/ GiveUp \/ Restart

SensorSpec == SensorInit /\ [][SensorNext]_sensorVars
-----------------------------------------------------------------------------
SensorTypeOK ==
    /\ library \in [Slots -> Prints \cup {None}] /\ image \in Prints \cup {None}
    /\ buffer \in [{1, 2} -> Prints \cup {None}]
    /\ \A t \in Tasks : run[t].slot \in Slots
    /\ Len(tx) <= MaxLate + 2 /\ Len(rx) <= MaxLate + 2
    /\ waiting \subseteq Tasks
    /\ clean \in BOOLEAN /\ changed \in BOOLEAN
    /\ pad \in Prints \cup {None}
    /\ from \in {None, "search", "other", "nothing"}

\* A match is read from a reply to a search, or from a reply that was not
\* received: replies of other commands that come late or are those of the
\* other task are shorter, and the length keeps them from being taken for a
\* match (r302.c:257-263, biometric.c:159-164).
MatchFromSearch == run["bio"].at = "match" => from # "other"

\* A clean run ends true, whatever earlier runs that timed out or met the
\* other task left in the sensor's buffers and in its library: a match is the
\* slot of the finger that was on the sensor, an enrolment left that finger
\* in its slot, a removal nothing, and one that failed changed nothing
\* (biometric.c:122-248).
OutcomeTrue == clean =>
    LET r == run["bio"]
    IN  /\ r.at = "match" => pad # None /\ library[r.slot] = pad
        /\ r.at = "done" => library[r.slot] = IF r.op = "enroll" THEN pad ELSE None
        /\ r.at = "failed" => ~changed
=============================================================================
