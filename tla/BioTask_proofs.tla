--------------------------- MODULE BioTask_proofs ---------------------------
(***************************************************************************)
(* Proofs about BioTask, for every set of template numbers and every depth *)
(* of the two queues, and at the end about the driver its commands go to,  *)
(* module Sensor, for every set of fingers.                                *)
(***************************************************************************)
EXTENDS BioTask, Sensor, SequenceTheorems, FiniteSetTheorems, WellFoundedInduction, TLAPS

(* Commands and waits name a slot when they are about one, and what is     *)
(* still in the queue has not begun.                                       *)
Named(c) == c.type \in {"enroll", "remove"} => c.id \in Slots
NamedInv ==
    /\ \A i \in DOMAIN cmdq : Named(cmdq[i]) /\ cmdq[i].stage = "start"
    /\ running # None => Named(running)
    /\ card.at = "wait" => (card.slot \in Slots <=> card.what \in {"enroll", "remove"})

TypeInv == TypeOK /\ NamedInv

(* A command that is its wait's own is the last one handed over, and after *)
(* its event there is no other.                                            *)
AskedFor(c) == card.at = "wait" /\ c.id = card.slot /\ c.type = Awaited
OwnInv ==
    /\ \A i \in DOMAIN cmdq : cmdq[i].own => AskedFor(cmdq[i]) /\ i = Len(cmdq)
    /\ running # None /\ running.own => AskedFor(running) /\ cmdq = <<>>
    /\ \A i \in DOMAIN evtq : evtq[i].own =>
          /\ card.at = "wait" /\ evtq[i].type \in {Awaited, "failed"}
          /\ running = None /\ cmdq = <<>>

(* Nothing else is left running in a clean wait                            *)
CleanInv ==
    card.at = "wait" /\ card.clean =>
        /\ \A i \in DOMAIN cmdq : cmdq[i].own
        /\ running # None => running.own
        /\ \A i \in DOMAIN evtq : evtq[i].own

(* What nobody waits for any more is known to be unsettled                 *)
Known(c) == c.own \/ c.id \notin Slots \/ c.id \in unsettled
ForeignInv ==
    /\ \A i \in DOMAIN cmdq : Known(cmdq[i])
    /\ running # None => Known(running)

(* What a command that is waited for says it did is so                     *)
Says(type, s) == (type = "enroll" => s \in stored) /\ (type = "remove" => s \notin stored)
ResultInv ==
    ~late => /\ running # None /\ running.own /\ running.stage = "done" => Says(running.type, running.id)
             /\ \A i \in DOMAIN evtq : evtq[i].own => Says(evtq[i].type, card.slot)

(* The scan has seen the slots below the next one, unless it was disturbed *)
Below(n) == {s \in stored : s < n}
ScanInv ==
    /\ card.at \in {"count", "scan"} => ~valid
    /\ card.at = "count" => card.next = 0
    /\ late => doubtful = Slots
    /\ Scanning /\ doubtful # Slots =>
          /\ running = None /\ count = Cardinality(stored)
          /\ used \subseteq Below(card.next) /\ Below(card.next) \subseteq used \cup doubtful

(* The cache is off by the command that has just ended, at most            *)
CacheInv ==
    valid => \A s \in Slots \ doubtful : (s \in used <=> s \in stored)
                          \/ (Stage({"enroll", "remove"}, "done") /\ s = running.id)
ReadyInv ==
    Ready => \A s \in Slots \ (unsettled \cup doubtful) : s \in used <=> s \in stored

(* A slot that is settled, and that no command of the wait has changed, is *)
(* as its name and the promise of it say.                                  *)
Good(s) ==
    s \notin unsettled =>
        /\ s \in names => s \in stored /\ s \notin foreign
        /\ pending = s => s \notin stored
Unanswered ==
    \/ \E i \in DOMAIN cmdq : cmdq[i].own
    \/ running # None /\ running.own /\ running.stage # "done"
    \/ \E i \in DOMAIN evtq : evtq[i].own /\ evtq[i].type = "failed"
SlotInv == \A s \in Slots : ~Waits(s) \/ Unanswered => Good(s)

-----------------------------------------------------------------------------
(* Queues and what the card task does *)

Events == [type : {"enroll", "remove", "verify", "failed"}, own : BOOLEAN]
Wanting == [at : {"ready", "count", "scan"}, next : Nat]
Waiting == [at : {"wait"}, what : {"enroll", "remove", "touch", "token"},
            slot : Slots \cup {None}, clean : BOOLEAN]

LEMMA QueueFacts ==
    ASSUME NEW R, NEW q \in Seq(R)
    PROVE  /\ Len(q) \in Nat /\ DOMAIN q = 1..Len(q) /\ (Len(q) = 0 <=> q = <<>>)
           /\ \A i \in DOMAIN q : q[i] \in R
           /\ q # <<>> => /\ 1 \in DOMAIN q /\ Head(q) = q[1] /\ Tail(q) \in Seq(R)
                          /\ Len(Tail(q)) = Len(q) - 1
                          /\ \A i \in DOMAIN Tail(q) : i + 1 \in DOMAIN q /\ Tail(q)[i] = q[i + 1]
           /\ \A x \in R : /\ Append(q, x) \in Seq(R) /\ Len(Append(q, x)) = Len(q) + 1
                           /\ \A i \in DOMAIN Append(q, x) : Append(q, x)[i] = IF i \in DOMAIN q THEN q[i] ELSE x
                           /\ \A i \in DOMAIN Append(q, x) : i \notin DOMAIN q => i = Len(Append(q, x))
                           /\ DOMAIN q \subseteq DOMAIN Append(q, x)
                           /\ Len(q) + 1 \in DOMAIN Append(q, x) /\ Len(q) + 1 \notin DOMAIN q
<1>1. Len(q) \in Nat /\ DOMAIN q = 1..Len(q) /\ \A i \in DOMAIN q : q[i] \in R
    BY LenProperties, ElementOfSeq
<1>2. Len(q) = 0 <=> q = <<>>
    BY EmptySeq
<1>3. ASSUME q # <<>>
      PROVE  /\ 1 \in DOMAIN q /\ Head(q) = q[1] /\ Tail(q) \in Seq(R)
             /\ Len(Tail(q)) = Len(q) - 1
             /\ \A i \in DOMAIN Tail(q) : i + 1 \in DOMAIN q /\ Tail(q)[i] = q[i + 1]
  <2>1. /\ Tail(q) \in Seq(R) /\ Len(Tail(q)) = Len(q) - 1 /\ Head(q) = q[1]
        /\ \A i \in 1..Len(Tail(q)) : Tail(q)[i] = q[i + 1]
      BY <1>3, HeadTailProperties
  <2>2. DOMAIN Tail(q) = 1..Len(Tail(q))
      BY <2>1, LenProperties
  <2> QED
      BY <1>1, <1>2, <1>3, <2>1, <2>2
<1>4. ASSUME NEW x \in R
      PROVE  /\ Append(q, x) \in Seq(R) /\ Len(Append(q, x)) = Len(q) + 1
             /\ \A i \in DOMAIN Append(q, x) : Append(q, x)[i] = IF i \in DOMAIN q THEN q[i] ELSE x
             /\ \A i \in DOMAIN Append(q, x) : i \notin DOMAIN q => i = Len(Append(q, x))
             /\ DOMAIN q \subseteq DOMAIN Append(q, x)
             /\ Len(q) + 1 \in DOMAIN Append(q, x) /\ Len(q) + 1 \notin DOMAIN q
  <2>1. /\ Append(q, x) \in Seq(R) /\ Len(Append(q, x)) = Len(q) + 1
        /\ \A i \in 1..Len(q) : Append(q, x)[i] = q[i]
        /\ Append(q, x)[Len(q) + 1] = x
      BY AppendProperties
  <2>2. DOMAIN Append(q, x) = 1..(Len(q) + 1)
      BY <2>1, LenProperties
  <2> QED
      BY <1>1, <2>1, <2>2
<1> QED
    BY <1>1, <1>2, <1>3, <1>4

LEMMA DisownCommands ==
    ASSUME NEW q \in Seq(Commands)
    PROVE  /\ Disown(q) \in Seq(Commands) /\ Len(Disown(q)) = Len(q) /\ DOMAIN Disown(q) = DOMAIN q
           /\ \A i \in DOMAIN q : ~Disown(q)[i].own /\ \A f \in {"type", "id", "stage"} : Disown(q)[i][f] = q[i][f]
<1>1. Len(q) \in Nat /\ DOMAIN q = 1..Len(q) /\ \A i \in DOMAIN q : q[i] \in Commands
    BY QueueFacts
<1>2. \A i \in DOMAIN q : [q[i] EXCEPT !.own = FALSE] \in Commands
    BY <1>1 DEF Commands
<1>3. \A i \in DOMAIN q : /\ ~[q[i] EXCEPT !.own = FALSE].own
                          /\ \A f \in {"type", "id", "stage"} : [q[i] EXCEPT !.own = FALSE][f] = q[i][f]
    BY <1>1 DEF Commands
<1>4. Disown(q) \in [1..Len(q) -> Commands] /\ DOMAIN Disown(q) = DOMAIN q
    BY <1>1, <1>2 DEF Disown
<1>5. Disown(q) \in Seq(Commands)
    BY <1>1, <1>4, SeqDef
<1>6. Len(Disown(q)) = Len(q)
    BY <1>1, <1>4, <1>5, LenProperties
<1> QED
    BY <1>3, <1>4, <1>5, <1>6 DEF Disown

LEMMA DisownEvents ==
    ASSUME NEW q \in Seq(Events)
    PROVE  /\ Disown(q) \in Seq(Events) /\ Len(Disown(q)) = Len(q) /\ DOMAIN Disown(q) = DOMAIN q
           /\ \A i \in DOMAIN q : ~Disown(q)[i].own /\ Disown(q)[i].type = q[i].type
<1>1. Len(q) \in Nat /\ DOMAIN q = 1..Len(q) /\ \A i \in DOMAIN q : q[i] \in Events
    BY QueueFacts
<1>2. \A i \in DOMAIN q : [q[i] EXCEPT !.own = FALSE] \in Events
    BY <1>1 DEF Events
<1>3. \A i \in DOMAIN q : ~[q[i] EXCEPT !.own = FALSE].own /\ [q[i] EXCEPT !.own = FALSE].type = q[i].type
    BY <1>1 DEF Events
<1>4. Disown(q) \in [1..Len(q) -> Events] /\ DOMAIN Disown(q) = DOMAIN q
    BY <1>1, <1>2 DEF Disown
<1>5. Disown(q) \in Seq(Events)
    BY <1>1, <1>4, SeqDef
<1>6. Len(Disown(q)) = Len(q)
    BY <1>1, <1>4, <1>5, LenProperties
<1> QED
    BY <1>3, <1>4, <1>5, <1>6 DEF Disown

LEMMA CardFacts ==
    ASSUME TypeOK
    PROVE  /\ card = Idle <=> card.at = "idle"
           /\ card = Starting <=> card.at = "start"
           /\ card.at \in {"start", "idle", "ready", "count", "scan", "wait"}
           /\ card.at \in {"ready", "count", "scan"} => card \in Wanting
           /\ card.at = "wait" => card \in Waiting
<1>1. card \in {Idle, Starting} \cup Wanting \cup Waiting
    BY DEF TypeOK, CardStates, Wanting, Waiting
<1>2. CASE card \in {Idle, Starting}
    BY <1>2 DEF Idle, Starting
<1>3. CASE card \in Wanting
    BY <1>3 DEF Wanting, Idle, Starting
<1>4. CASE card \in Waiting
    BY <1>4 DEF Waiting, Idle, Starting
<1> QED
    BY <1>1, <1>2, <1>3, <1>4

(* The lowest slot *)
LEMMA Lowest ==
    ASSUME NEW S \in SUBSET Nat, S # {}
    PROVE  Min(S) \in S
<1>1. PICK R : IsWellFoundedOn(R, Nat) /\ \A i, j \in Nat : <<j, i>> \in R <=> j < i
    BY NatLessThanWellFounded DEF OpToRel
<1>2. PICK i \in S : \A j \in S : <<j, i>> \notin R
    BY <1>1, WFMin
<1>3. i \in Nat /\ \A j \in S : j \in Nat /\ ~(j < i)
    BY <1>1, <1>2
<1>4. \A j \in S : i <= j
    BY <1>3
<1> QED
    BY <1>2, <1>4 DEF Min

-----------------------------------------------------------------------------
(* What the steps do to the queues and to the running command *)

Kinds == {"enroll", "remove", "verify"}
Whys == {"enroll", "remove", "touch", "token"}

LEMMA TypeFacts ==
    ASSUME TypeOK
    PROVE  /\ cmdq \in Seq(Commands) /\ evtq \in Seq(Events)
           /\ running # None => running \in Commands
           /\ Slots \subseteq Nat /\ None \notin Slots /\ IsFiniteSet(Slots)
           /\ None \notin Commands
BY TemplateAssumption, QueueAssumption DEF TypeOK, Events

LEMMA HandFacts ==
    ASSUME TypeOK, NEW what \in Whys, NEW type \in Kinds, NEW s \in Slots \cup {None}, Hand(what, type, s)
    PROVE  /\ cmdq' \in Seq(Commands) /\ Len(cmdq') <= CmdDepth
           /\ evtq' = <<>> /\ DOMAIN evtq' = {} /\ evtq' \in Seq(Events)
           /\ card' \in Waiting /\ card'.at = "wait" /\ card'.what = what /\ card'.slot = s
           /\ card'.clean = (Outstanding = {})
           /\ DOMAIN cmdq \subseteq DOMAIN cmdq'
           /\ \A i \in DOMAIN cmdq : cmdq'[i] = cmdq[i]
           /\ \A i \in DOMAIN cmdq' \ DOMAIN cmdq :
                 /\ i = Len(cmdq') /\ cmdq'[i].type = type /\ cmdq'[i].id = s
                 /\ cmdq'[i].own /\ cmdq'[i].stage = "start"
           /\ \E i \in DOMAIN cmdq' : cmdq'[i].own
<1> DEFINE c == [type |-> type, id |-> s, own |-> TRUE, stage |-> "start"]
<1>1. c \in Commands /\ c.type = type /\ c.id = s /\ c.own /\ c.stage = "start"
    BY DEF Commands, Kinds
<1>2. cmdq' = Append(cmdq, c) /\ evtq' = <<>> /\ Len(cmdq) < CmdDepth
    BY DEF Hand, Flushed
<1> HIDE DEF c
<1>3. cmdq \in Seq(Commands) /\ CmdDepth \in Nat
    BY TypeFacts, QueueAssumption
<1>4. /\ Len(cmdq) \in Nat /\ cmdq' \in Seq(Commands) /\ Len(cmdq') = Len(cmdq) + 1
      /\ \A i \in DOMAIN cmdq' : cmdq'[i] = IF i \in DOMAIN cmdq THEN cmdq[i] ELSE c
      /\ \A i \in DOMAIN cmdq' : i \notin DOMAIN cmdq => i = Len(cmdq')
      /\ DOMAIN cmdq \subseteq DOMAIN cmdq'
      /\ Len(cmdq) + 1 \in DOMAIN cmdq' /\ Len(cmdq) + 1 \notin DOMAIN cmdq
    BY <1>1, <1>2, <1>3, QueueFacts
<1>5. Len(cmdq') <= CmdDepth
    BY <1>2, <1>3, <1>4
<1>6. /\ card' \in Waiting /\ card'.at = "wait" /\ card'.what = what /\ card'.slot = s
      /\ card'.clean = (Outstanding = {})
    BY DEF Hand, Waiting, Whys
<1>7. DOMAIN evtq' = {} /\ evtq' \in Seq(Events)
    BY <1>2, EmptySeq, LenProperties
<1> QED
    BY <1>1, <1>2, <1>4, <1>5, <1>6, <1>7

LEMMA DisownFacts ==
    ASSUME TypeOK, running' = IF running = None THEN None ELSE [running EXCEPT !.own = FALSE]
    PROVE  /\ (running' = None) <=> (running = None)
           /\ running # None => /\ running' \in Commands /\ ~running'.own
                                /\ running'.type = running.type /\ running'.id = running.id
                                /\ running'.stage = running.stage
<1>1. CASE running = None
    BY <1>1
<1>2. CASE running # None
  <2>1. running \in Commands /\ running' = [running EXCEPT !.own = FALSE]
      BY <1>2, TypeFacts
  <2>2. /\ [running EXCEPT !.own = FALSE] \in Commands /\ ~[running EXCEPT !.own = FALSE].own
        /\ [running EXCEPT !.own = FALSE].type = running.type /\ [running EXCEPT !.own = FALSE].id = running.id
        /\ [running EXCEPT !.own = FALSE].stage = running.stage
      BY <2>1 DEF Commands
  <2> QED
      BY <1>2, <2>1, <2>2, TypeFacts
<1> QED
    BY <1>1, <1>2

LEMMA EndFacts ==
    ASSUME TypeOK, NEW what, NEW ok \in BOOLEAN, EndWait(what, ok)
    PROVE  /\ card.at = "wait" /\ card \in Waiting /\ card.what = what /\ card' = Idle
           /\ cmdq' \in Seq(Commands) /\ Len(cmdq') = Len(cmdq) /\ DOMAIN cmdq' = DOMAIN cmdq
           /\ \A i \in DOMAIN cmdq : /\ ~cmdq'[i].own /\ cmdq'[i].type = cmdq[i].type
                                     /\ cmdq'[i].id = cmdq[i].id /\ cmdq'[i].stage = cmdq[i].stage
           /\ evtq' \in Seq(Events) /\ Len(evtq') <= EvtDepth
           /\ \A i \in DOMAIN evtq' : ~evtq'[i].own
           /\ evtq = <<>> => ~ok
           /\ evtq # <<>> => 1 \in DOMAIN evtq /\ Head(evtq) = evtq[1] /\ (ok <=> evtq[1].type = Awaited)
<1>1. card.at = "wait" /\ card \in Waiting /\ card.what = what /\ card' = Idle
    BY CardFacts DEF EndWait
<1>2. cmdq \in Seq(Commands) /\ evtq \in Seq(Events)
    BY TypeFacts
<1>3. /\ cmdq' \in Seq(Commands) /\ Len(cmdq') = Len(cmdq) /\ DOMAIN cmdq' = DOMAIN cmdq
      /\ \A i \in DOMAIN cmdq : /\ ~cmdq'[i].own /\ cmdq'[i].type = cmdq[i].type
                                /\ cmdq'[i].id = cmdq[i].id /\ cmdq'[i].stage = cmdq[i].stage
  <2>1. cmdq' = Disown(cmdq)
      BY DEF EndWait
  <2>2. \A i \in DOMAIN cmdq : \A f \in {"type", "id", "stage"} : cmdq'[i][f] = cmdq[i][f]
      BY <1>2, <2>1, DisownCommands
  <2>3. \A i \in DOMAIN cmdq : cmdq'[i].type = cmdq[i].type /\ cmdq'[i].id = cmdq[i].id /\ cmdq'[i].stage = cmdq[i].stage
      BY <2>2
  <2> QED
      BY <1>2, <2>1, <2>3, DisownCommands
<1>4. CASE evtq = <<>>
  <2>1. evtq' = evtq /\ ~ok
      BY <1>4 DEF EndWait, Answers
  <2>2. DOMAIN evtq = {}
      BY <1>4, EmptySeq, LenProperties
  <2> QED
      BY <1>1, <1>2, <1>3, <1>4, <2>1, <2>2 DEF TypeOK
<1>5. CASE evtq # <<>>
  <2>1. evtq' = Disown(Tail(evtq)) /\ ok = (Head(evtq).type = Awaited)
      BY <1>5 DEF EndWait, Answers
  <2>2. /\ Len(evtq) \in Nat /\ Tail(evtq) \in Seq(Events) /\ Len(Tail(evtq)) = Len(evtq) - 1
        /\ 1 \in DOMAIN evtq /\ Head(evtq) = evtq[1]
      BY <1>2, <1>5, QueueFacts
  <2>3. evtq' \in Seq(Events) /\ Len(evtq') = Len(evtq) - 1 /\ \A i \in DOMAIN evtq' : ~evtq'[i].own
      BY <2>1, <2>2, DisownEvents
  <2>4. Len(evtq') <= EvtDepth
    <3>1. Len(evtq) <= EvtDepth /\ EvtDepth \in Nat
        BY QueueAssumption DEF TypeOK
    <3> QED
        BY <2>2, <2>3, <3>1
  <2> QED
      BY <1>1, <1>3, <1>5, <2>1, <2>2, <2>3, <2>4
<1> QED
    BY <1>4, <1>5

LEMMA EmitFacts ==
    ASSUME TypeOK, running # None, NEW type \in Kinds \cup {"failed"}, Emit(type)
    PROVE  /\ running' = None /\ evtq' \in Seq(Events) /\ Len(evtq') <= EvtDepth
           /\ DOMAIN evtq \subseteq DOMAIN evtq'
           /\ \A i \in DOMAIN evtq : evtq'[i] = evtq[i]
           /\ \A i \in DOMAIN evtq' \ DOMAIN evtq : evtq'[i].type = type /\ evtq'[i].own = running.own
<1> DEFINE e == [type |-> type, own |-> running.own]
<1>1. e \in Events /\ e.type = type /\ e.own = running.own
    BY TypeFacts DEF Events, Commands, Kinds
<1>2. running' = None /\ evtq' = IF Len(evtq) < EvtDepth THEN Append(evtq, e) ELSE evtq
    BY DEF Emit
<1> HIDE DEF e
<1>3. evtq \in Seq(Events) /\ EvtDepth \in Nat /\ Len(evtq) <= EvtDepth
    BY TypeFacts, QueueAssumption DEF TypeOK
<1>4. CASE Len(evtq) < EvtDepth
  <2>1. evtq' = Append(evtq, e)
      BY <1>2, <1>4
  <2>2. /\ Len(evtq) \in Nat /\ evtq' \in Seq(Events) /\ Len(evtq') = Len(evtq) + 1
        /\ \A i \in DOMAIN evtq' : evtq'[i] = IF i \in DOMAIN evtq THEN evtq[i] ELSE e
        /\ DOMAIN evtq \subseteq DOMAIN evtq'
      BY <1>1, <1>3, <2>1, QueueFacts
  <2>3. Len(evtq') <= EvtDepth
      BY <1>3, <1>4, <2>2
  <2> QED
      BY <1>1, <1>2, <2>2, <2>3
<1>5. CASE ~(Len(evtq) < EvtDepth)
    BY <1>2, <1>3, <1>5
<1> QED
    BY <1>4, <1>5

LEMMA TakeFacts ==
    ASSUME TypeOK, Take
    PROVE  /\ running = None /\ cmdq # <<>> /\ 1 \in DOMAIN cmdq /\ running' = cmdq[1]
           /\ running' \in Commands /\ running' # None
           /\ cmdq' \in Seq(Commands) /\ Len(cmdq) \in Nat /\ Len(cmdq') = Len(cmdq) - 1
           /\ \A i \in DOMAIN cmdq' : i + 1 \in DOMAIN cmdq /\ cmdq'[i] = cmdq[i + 1]
           /\ \A i \in DOMAIN cmdq : i # 1 => i - 1 \in DOMAIN cmdq' /\ cmdq'[i - 1] = cmdq[i]
           /\ cmdq' = <<>> <=> Len(cmdq) = 1
<1>1. cmdq \in Seq(Commands) /\ running = None /\ cmdq # <<>> /\ cmdq' = Tail(cmdq) /\ running' = Head(cmdq)
    BY TypeFacts DEF Take
<1>2. /\ Len(cmdq) \in Nat /\ DOMAIN cmdq = 1..Len(cmdq) /\ 1 \in DOMAIN cmdq /\ Head(cmdq) = cmdq[1]
      /\ Tail(cmdq) \in Seq(Commands) /\ Len(Tail(cmdq)) = Len(cmdq) - 1
      /\ \A i \in DOMAIN Tail(cmdq) : i + 1 \in DOMAIN cmdq /\ Tail(cmdq)[i] = cmdq[i + 1]
      /\ \A i \in DOMAIN cmdq : cmdq[i] \in Commands
    BY <1>1, QueueFacts
<1>3. DOMAIN cmdq' = 1..Len(cmdq') /\ (cmdq' = <<>> <=> Len(cmdq') = 0)
    BY <1>1, <1>2, QueueFacts
<1>4. \A i \in DOMAIN cmdq : i # 1 => i - 1 \in DOMAIN cmdq' /\ (i - 1) + 1 = i
    BY <1>1, <1>2, <1>3
<1>5. cmdq' = <<>> <=> Len(cmdq) = 1
    BY <1>1, <1>2, <1>3
<1>6. \A i \in DOMAIN cmdq : i # 1 => i - 1 \in DOMAIN cmdq' /\ cmdq'[i - 1] = cmdq[i]
    BY <1>1, <1>2, <1>4
<1> QED
    BY <1>1, <1>2, <1>5, <1>6, TypeFacts

LEMMA StageFacts ==
    ASSUME TypeOK, running # None, NEW stage \in {"start", "look", "model", "done"},
           running' = [running EXCEPT !.stage = stage]
    PROVE  /\ running' \in Commands /\ running' # None
           /\ running'.type = running.type /\ running'.id = running.id /\ running'.own = running.own
           /\ running'.stage = stage
<1>1. running \in Commands
    BY TypeFacts
<1>2. /\ [running EXCEPT !.stage = stage] \in Commands
      /\ [running EXCEPT !.stage = stage].type = running.type /\ [running EXCEPT !.stage = stage].id = running.id
      /\ [running EXCEPT !.stage = stage].own = running.own
      /\ [running EXCEPT !.stage = stage].stage = stage
    BY <1>1 DEF Commands
<1> QED
    BY <1>2, TypeFacts

(* A step of bio_task other than Take lets its command go on, or ends it,  *)
(* and changes at most the slot of the command.                            *)
Moves(stage) ==
    /\ running.stage # "done"
    /\ running' = [running EXCEPT !.stage = stage] /\ evtq' = evtq
    /\ IF stage = "done" THEN Stray \/ Says(running.type, running.id)' ELSE stored' = stored /\ foreign' = foreign
EndsAs(type) ==
    /\ Emit(type)
    /\ \/ stored' = stored /\ foreign' = foreign
       \/ running.id \in unsettled' /\ running.id \in doubtful'
    /\ \/ type = "failed" /\ running.stage # "done"
       \/ (type = running.type /\ (type = "verify" \/ (running.stage = "done" /\ stored' = stored)))

LEMMA TaskFacts ==
    ASSUME TypeInv, TaskStep \/ Fingers, ~Take
    PROVE  /\ running # None /\ running \in Commands /\ cmdq' = cmdq /\ card' = card
           /\ UNCHANGED <<names, pending, late, used>> /\ stored' \subseteq Slots
           /\ unsettled \subseteq unsettled' /\ doubtful \subseteq doubtful'
           /\ unsettled' \subseteq Slots /\ doubtful' \subseteq Slots
           /\ stored' = stored \/ (running.id \in Slots /\ running.type \in {"enroll", "remove"} /\ running.stage # "done")
           /\ foreign' \subseteq Slots
           /\ \A s \in Slots \ {running.id} : (s \in stored' <=> s \in stored) /\ (s \in foreign' <=> s \in foreign)
           /\ (\E stage \in {"look", "model", "done"} : Moves(stage)) \/ (\E type \in Kinds \cup {"failed"} : EndsAs(type))
<1>1. /\ stored \subseteq Slots /\ foreign \subseteq Slots /\ names \subseteq Slots
      /\ unsettled \subseteq Slots /\ doubtful \subseteq Slots
      /\ (running # None => running \in Commands /\ Named(running))
    BY TypeFacts DEF TypeInv, NamedInv, TypeOK
<1>2. CASE Look
  <2>1. running # None /\ Moves("look")
      BY <1>2 DEF Look, Stage, Moves, queues, ghosts
  <2> QED
      BY <1>1, <1>2, <2>1 DEF Look, queues, cache, ghosts
<1>3. CASE Fingers
  <2>1. running # None /\ Moves("model")
      BY <1>3 DEF Fingers, AfterFingers, Stage, Moves, queues, ghosts
  <2> QED
      BY <1>1, <1>3, <2>1 DEF Fingers, queues, cache, ghosts
<1>4. CASE VerifyEnds
  <2>1. /\ running # None /\ running.type = "verify" /\ running.stage # "done"
        /\ (Emit("failed") \/ Emit("verify")) /\ stored' = stored /\ foreign' = foreign
      BY <1>4 DEF VerifyEnds, Stage, ghosts
  <2>2. EndsAs("failed") \/ EndsAs("verify")
      BY <2>1 DEF EndsAs
  <2> QED
      BY <1>1, <1>4, <2>1, <2>2 DEF VerifyEnds, cache, ghosts, Kinds
<1>5. CASE EnrollFails
  <2>1. running # None /\ running.stage # "done" /\ Emit("failed") /\ stored' = stored /\ foreign' = foreign
      BY <1>5 DEF EnrollFails, GivesUp, Stage, ghosts
  <2>2. EndsAs("failed")
      BY <2>1 DEF EndsAs
  <2> QED
      BY <1>1, <1>5, <2>1, <2>2 DEF EnrollFails, cache, ghosts
<1>6. CASE Store
  <2>1. /\ running # None /\ running.type = "enroll" /\ running.stage = "model"
        /\ \/ stored' = stored \cup {running.id} /\ foreign' = foreign \cup ({running.id} \cap (names \ unsettled))
           \/ Misheard /\ stored' = stored /\ foreign' = foreign
        /\ Heard \/ Unheard
      BY <1>6 DEF Store, Stage, Misheard
  <2>2. running.id \in Slots
      BY <1>1, <2>1 DEF Named
  <2>3. (\E stage \in {"look", "model", "done"} : Moves(stage)) \/ (\E type \in Kinds \cup {"failed"} : EndsAs(type))
    <3>1. CASE Heard
      <4>1. running' = [running EXCEPT !.stage = "done"] /\ evtq' = evtq
          BY <3>1 DEF Heard
      <4>2. running'.type = running.type /\ running'.id = running.id
          BY <2>1, <4>1, StageFacts DEF TypeInv
      <4>3. Stray \/ Says(running.type, running.id)'
          BY <2>1, <4>2 DEF Says, Misheard
      <4>4. Moves("done")
          BY <2>1, <4>1, <4>3 DEF Moves
      <4> QED
          BY <4>4
    <3>2. CASE Unheard
      <4>1. EndsAs("failed")
          BY <2>1, <3>2 DEF EndsAs, Unheard
      <4> QED
          BY <4>1
    <3> QED
        BY <2>1, <3>1, <3>2
  <2>4. /\ unsettled \subseteq unsettled' /\ doubtful \subseteq doubtful'
        /\ unsettled' \subseteq Slots /\ doubtful' \subseteq Slots
      BY <1>1, <2>1, <2>2 DEF Heard, Unheard
  <2>6. /\ cmdq' = cmdq /\ card' = card /\ UNCHANGED <<names, pending, late, used>>
      BY <1>6 DEF Store, cache
  <2>7. \A s \in Slots \ {running.id} : (s \in stored' <=> s \in stored) /\ (s \in foreign' <=> s \in foreign)
      BY <2>1
  <2>8. running.stage # "done" /\ stored' \subseteq Slots /\ foreign' \subseteq Slots /\ running \in Commands
      BY <1>1, <2>1, <2>2
  <2> QED
      BY <2>1, <2>2, <2>3, <2>4, <2>6, <2>7, <2>8
<1>7. CASE Delete
  <2>1. /\ running # None /\ running.type = "remove" /\ running.stage = "start" /\ foreign' = foreign
        /\ \/ stored' = stored \ {running.id} /\ (Heard \/ Unheard)
           \/ stored' = stored /\ Misheard
           \/ stored' = stored /\ Emit("failed") /\ UNCHANGED <<doubtful, unsettled>>
      BY <1>7 DEF Delete, Stage
  <2>2. running.id \in Slots
      BY <1>1, <2>1 DEF Named
  <2>3. (\E stage \in {"look", "model", "done"} : Moves(stage)) \/ (\E type \in Kinds \cup {"failed"} : EndsAs(type))
    <3>1. CASE Heard /\ (Stray \/ stored' = stored \ {running.id})
      <4>1. running' = [running EXCEPT !.stage = "done"] /\ evtq' = evtq
          BY <3>1 DEF Heard
      <4>2. running'.type = running.type /\ running'.id = running.id
          BY <2>1, <4>1, StageFacts DEF TypeInv
      <4>3. Stray \/ Says(running.type, running.id)'
          BY <2>1, <3>1, <4>2 DEF Says
      <4>4. Moves("done")
          BY <2>1, <4>1, <4>3 DEF Moves
      <4> QED
          BY <4>4
    <3>2. CASE Unheard \/ (stored' = stored /\ Emit("failed"))
      <4>1. EndsAs("failed")
          BY <2>1, <3>2 DEF EndsAs, Unheard
      <4> QED
          BY <4>1
    <3> QED
        BY <2>1, <3>1, <3>2 DEF Misheard
  <2>4. /\ unsettled \subseteq unsettled' /\ doubtful \subseteq doubtful'
        /\ unsettled' \subseteq Slots /\ doubtful' \subseteq Slots
      BY <1>1, <2>1, <2>2 DEF Heard, Unheard, Misheard
  <2>6. /\ cmdq' = cmdq /\ card' = card /\ UNCHANGED <<names, pending, late, used>>
      BY <1>7 DEF Delete, cache
  <2>7. \A s \in Slots \ {running.id} : (s \in stored' <=> s \in stored) /\ (s \in foreign' <=> s \in foreign)
      BY <2>1
  <2>8. running.stage # "done" /\ stored' \subseteq Slots /\ foreign' \subseteq Slots /\ running \in Commands
      BY <1>1, <2>1
  <2> QED
      BY <2>1, <2>2, <2>3, <2>4, <2>6, <2>7, <2>8
<1>8. CASE Done
  <2>1. /\ running # None /\ running.type \in {"enroll", "remove"} /\ running.stage = "done"
        /\ Emit(running.type) /\ stored' = stored /\ foreign' = foreign
      BY <1>8 DEF Done, Stage, ghosts
  <2>2. EndsAs(running.type) /\ running.type \in Kinds
      BY <2>1 DEF EndsAs, Kinds
  <2> QED
      BY <1>1, <1>8, <2>1, <2>2 DEF Done, ghosts
<1> QED
    BY <1>2, <1>3, <1>4, <1>5, <1>6, <1>7, <1>8 DEF TaskStep

-----------------------------------------------------------------------------
(* Types *)

(* The part of TypeInv about the commands and the waits *)
CommsOK ==
    /\ cmdq \in Seq(Commands) /\ Len(cmdq) <= CmdDepth
    /\ evtq \in Seq(Events) /\ Len(evtq) <= EvtDepth
    /\ running \in Commands \cup {None}
    /\ card \in CardStates
    /\ NamedInv
RestOK ==
    /\ stored \subseteq Slots /\ used \subseteq Slots
    /\ cancel \in BOOLEAN /\ count \in Nat /\ valid \in BOOLEAN
    /\ pending \in Slots \cup {None}
    /\ names \subseteq Slots
    /\ unsettled \subseteq Slots /\ foreign \subseteq Slots /\ doubtful \subseteq Slots
    /\ late \in BOOLEAN

LEMMA Parts == TypeInv <=> CommsOK /\ RestOK
BY DEF TypeInv, TypeOK, CommsOK, RestOK, Events

(* A command handed over leaves well-formed commands and waits *)
LEMMA HandType ==
    ASSUME TypeInv, running' = running,
           NEW what \in Whys, NEW type \in Kinds, NEW s \in Slots \cup {None},
           what \in {"enroll", "remove"} <=> type \in {"enroll", "remove"},
           s \in Slots <=> type \in {"enroll", "remove"},
           Hand(what, type, s)
    PROVE  CommsOK'
<1>1. TypeOK /\ NamedInv
    BY DEF TypeInv
<1>2. /\ cmdq' \in Seq(Commands) /\ Len(cmdq') <= CmdDepth
      /\ evtq' \in Seq(Events) /\ Len(evtq') <= EvtDepth
  <2>1. Len(<<>>) = 0 /\ EvtDepth \in Nat
      BY EmptySeq, QueueAssumption
  <2>2. 0 <= EvtDepth
      BY <2>1
  <2> QED
      BY <1>1, <2>1, <2>2, HandFacts
<1>3. card' \in CardStates
    BY <1>1, HandFacts DEF CardStates, Waiting
<1>4. card'.at = "wait" /\ (card'.slot \in Slots <=> card'.what \in {"enroll", "remove"})
    BY <1>1, HandFacts
<1>5. \A i \in DOMAIN cmdq' : Named(cmdq'[i]) /\ cmdq'[i].stage = "start"
  <2>1. ASSUME NEW i \in DOMAIN cmdq' PROVE Named(cmdq'[i]) /\ cmdq'[i].stage = "start"
    <3>1. CASE i \in DOMAIN cmdq
        BY <1>1, <3>1, HandFacts DEF NamedInv
    <3>2. CASE i \notin DOMAIN cmdq
      <4>1. cmdq'[i].type = type /\ cmdq'[i].id = s /\ cmdq'[i].stage = "start"
          BY <1>1, <3>2, HandFacts
      <4> QED
          BY <4>1 DEF Named
    <3> QED
        BY <3>1, <3>2
  <2> QED
      BY <2>1
<1>6. running' \in Commands \cup {None} /\ (running' # None => Named(running'))
    BY <1>1 DEF TypeOK, NamedInv
<1>7. NamedInv'
    BY <1>4, <1>5, <1>6 DEF NamedInv, Named
<1> QED
    BY <1>2, <1>3, <1>6, <1>7 DEF CommsOK

LEMMA FailType ==
    ASSUME TypeInv, running' = running, HandFails
    PROVE  CommsOK'
<1>1. TypeOK /\ NamedInv /\ cmdq' = cmdq /\ evtq' = <<>> /\ card' = Idle
    BY DEF TypeInv, HandFails, Flushed
<1>2. evtq' \in Seq(Events) /\ Len(evtq') <= EvtDepth
  <2>1. Len(<<>>) = 0 /\ EvtDepth \in Nat /\ <<>> \in Seq(Events)
      BY EmptySeq, QueueAssumption
  <2>2. 0 <= EvtDepth
      BY <2>1
  <2> QED
      BY <1>1, <2>1, <2>2
<1>3. card' \in CardStates /\ card'.at # "wait"
    BY <1>1 DEF CardStates, Idle
<1>4. NamedInv'
    BY <1>1, <1>3 DEF NamedInv
<1> QED
    BY <1>1, <1>2, <1>3, <1>4 DEF CommsOK, TypeOK

LEMMA InitType == Init => TypeInv
<1> SUFFICES ASSUME Init PROVE TypeInv
    OBVIOUS
<1>1. DOMAIN cmdq = {} /\ cmdq \in Seq(Commands) /\ evtq \in Seq(Events) /\ Len(cmdq) = 0 /\ Len(evtq) = 0
    BY EmptySeq, LenProperties DEF Init
<1>2. 0 <= CmdDepth /\ 0 <= EvtDepth
    BY QueueAssumption
<1>3. card \in CardStates /\ card.at # "wait"
    BY DEF Init, CardStates, Starting
<1>4. CommsOK
    BY <1>1, <1>2, <1>3 DEF Init, CommsOK, NamedInv
<1>5. RestOK
    BY DEF Init, RestOK
<1> QED
    BY <1>4, <1>5, Parts

(* The commands and the waits stay well formed when the card task only     *)
(* changes what it is doing.                                               *)
LEMMA CardType ==
    ASSUME TypeInv, UNCHANGED <<cmdq, evtq, running>>, card' \in {Idle} \cup Wanting
    PROVE  CommsOK'
<1>1. TypeOK /\ NamedInv
    BY DEF TypeInv
<1>2. card' \in CardStates /\ card'.at # "wait"
    BY DEF CardStates, Wanting, Idle
<1>3. NamedInv'
    BY <1>1, <1>2 DEF NamedInv
<1> QED
    BY <1>1, <1>2, <1>3 DEF CommsOK, TypeOK, Events

LEMMA StepComms == TypeInv /\ [Next]_vars => CommsOK'
<1> SUFFICES ASSUME TypeInv, [Next]_vars PROVE CommsOK'
    OBVIOUS
<1>a. TypeOK /\ NamedInv
    BY DEF TypeInv
<1>1. CASE Ask \/ ScanFails \/ BioInit \/ ScanCount \/ ScanSlot \/ ScanEnd \/ Enumerate
           \/ EnrollBegin \/ EnrollCancel
  <2>1. card' \in {Idle} \cup Wanting
    <3>1. CASE Ask
        BY <3>1 DEF Ask, Wanting
    <3>2. CASE ScanFails \/ BioInit \/ Enumerate \/ EnrollBegin \/ EnrollCancel
        BY <3>2 DEF ScanFails, BioInit, Enumerate, EnrollBegin, EnrollCancel
    <3>3. CASE ScanCount \/ ScanSlot \/ ScanEnd
      <4>1. card \in Wanting
          BY <1>a, <3>3, CardFacts DEF ScanCount, ScanSlot, ScanEnd
      <4>2. card' \in {[card EXCEPT !.at = "scan"], [card EXCEPT !.next = @ + 1],
                       [card EXCEPT !.at = "ready", !.next = 0]}
          BY <3>3 DEF ScanCount, ScanSlot, ScanEnd
      <4>3. card.next \in Nat /\ card.next + 1 \in Nat
          BY <4>1 DEF Wanting
      <4>4. [card EXCEPT !.next = @ + 1] \in Wanting
          BY <4>1, <4>3 DEF Wanting
      <4>5. [card EXCEPT !.at = "scan"] \in Wanting /\ [card EXCEPT !.at = "ready", !.next = 0] \in Wanting
          BY <4>1 DEF Wanting
      <4> QED
          BY <4>2, <4>4, <4>5
    <3> QED
        BY <1>1, <3>1, <3>2, <3>3
  <2>2. UNCHANGED <<cmdq, evtq, running>>
      BY <1>1 DEF Ask, ScanFails, BioInit, ScanCount, ScanSlot, ScanEnd, Enumerate, EnrollBegin, EnrollCancel, queues
  <2> QED
      BY <2>1, <2>2, CardType
<1>2. ASSUME NEW s \in Slots, SetFriendlyName(s) PROVE CommsOK'
    BY <1>2, CardType DEF SetFriendlyName, queues
<1>3. CASE CaptureNext
  <2>1. running' = running /\ pending \in Slots
        /\ (Hand("enroll", "enroll", pending) \/ HandFails)
      BY <1>a, <1>3 DEF CaptureNext, TypeOK
  <2>2. ASSUME Hand("enroll", "enroll", pending) PROVE CommsOK'
      BY <2>1, <2>2, HandType DEF Whys, Kinds
  <2> QED
      BY <2>1, <2>2, FailType
<1>4. ASSUME NEW s \in Slots, RemoveTemplate(s) PROVE CommsOK'
  <2>1. running' = running /\ (Hand("remove", "remove", s) \/ HandFails)
      BY <1>4 DEF RemoveTemplate
  <2>2. ASSUME Hand("remove", "remove", s) PROVE CommsOK'
      BY <2>1, <2>2, HandType DEF Whys, Kinds
  <2> QED
      BY <2>1, <2>2, FailType
<1>5. ASSUME NEW why \in {"touch", "token"}, Verify(why) PROVE CommsOK'
  <2>1. running' = running /\ (Hand(why, "verify", None) \/ HandFails)
      BY <1>5 DEF Verify
  <2>2. ASSUME Hand(why, "verify", None) PROVE CommsOK'
      BY <2>1, <2>2, HandType, TemplateAssumption DEF Whys, Kinds
  <2> QED
      BY <2>1, <2>2, FailType
<1>6. ASSUME NEW what, NEW ok \in BOOLEAN, EndWait(what, ok) PROVE CommsOK'
  <2>1. /\ cmdq' \in Seq(Commands) /\ Len(cmdq') = Len(cmdq) /\ DOMAIN cmdq' = DOMAIN cmdq
        /\ \A i \in DOMAIN cmdq : /\ cmdq'[i].type = cmdq[i].type
                                  /\ cmdq'[i].id = cmdq[i].id /\ cmdq'[i].stage = cmdq[i].stage
        /\ evtq' \in Seq(Events) /\ Len(evtq') <= EvtDepth /\ card' = Idle
      BY <1>a, <1>6, EndFacts
  <2>2. \A i \in DOMAIN cmdq' : Named(cmdq'[i]) /\ cmdq'[i].stage = "start"
      BY <1>a, <2>1 DEF NamedInv, Named
  <2>3. running' = IF running = None THEN None ELSE [running EXCEPT !.own = FALSE]
      BY <1>6 DEF EndWait
  <2>4. running' \in Commands \cup {None} /\ (running' # None => Named(running'))
    <3>1. CASE running = None
        BY <2>3, <3>1
    <3>2. CASE running # None
      <4>1. running' \in Commands /\ running'.type = running.type /\ running'.id = running.id
          BY <1>a, <2>3, <3>2, DisownFacts
      <4> QED
          BY <1>a, <3>2, <4>1 DEF NamedInv, Named
    <3> QED
        BY <3>1, <3>2
  <2>5. card' \in CardStates /\ card'.at # "wait"
      BY <2>1 DEF CardStates, Idle
  <2>6. NamedInv'
      BY <2>2, <2>4, <2>5 DEF NamedInv, Named
  <2> QED
      BY <1>a, <2>1, <2>4, <2>5, <2>6 DEF CommsOK, TypeOK
<1>7. CASE CardReturns
  <2>1. PICK what \in Whys, ok \in BOOLEAN : EndWait(what, ok)
      BY <1>7 DEF CardReturns, Captured, Removed, Verified, Whys
  <2> QED
      BY <1>6, <2>1
<1>8. CASE Take
  <2>1. /\ running' = cmdq[1] /\ running' \in Commands /\ 1 \in DOMAIN cmdq
        /\ cmdq' \in Seq(Commands) /\ Len(cmdq) \in Nat /\ Len(cmdq') = Len(cmdq) - 1
        /\ \A i \in DOMAIN cmdq' : i + 1 \in DOMAIN cmdq /\ cmdq'[i] = cmdq[i + 1]
      BY <1>a, <1>8, TakeFacts
  <2>2. Len(cmdq') <= CmdDepth
    <3>1. Len(cmdq) <= CmdDepth /\ CmdDepth \in Nat
        BY <1>a, QueueAssumption DEF TypeOK
    <3> QED
        BY <2>1, <3>1
  <2>3. \A i \in DOMAIN cmdq' : Named(cmdq'[i]) /\ cmdq'[i].stage = "start"
      BY <1>a, <2>1 DEF NamedInv
  <2>4. Named(running')
      BY <1>a, <2>1 DEF NamedInv
  <2>5. card' = card /\ evtq' = evtq
      BY <1>8 DEF Take
  <2>6. NamedInv'
      BY <1>a, <2>3, <2>4, <2>5 DEF NamedInv, Named
  <2> QED
      BY <1>a, <2>1, <2>2, <2>5, <2>6 DEF CommsOK, TypeOK, Events
<1>9. CASE (TaskStep \/ Fingers) /\ ~Take
  <2>1. running # None /\ cmdq' = cmdq /\ card' = card
      BY <1>9, TaskFacts
  <2>2. CASE \E stage \in {"look", "model", "done"} : Moves(stage)
    <3>1. PICK stage \in {"look", "model", "done"} : Moves(stage)
        BY <2>2
    <3>2. running' = [running EXCEPT !.stage = stage] /\ evtq' = evtq
        BY <3>1 DEF Moves
    <3>3. running' \in Commands /\ running'.type = running.type /\ running'.id = running.id
        BY <1>a, <2>1, <3>2, StageFacts
    <3>4. NamedInv'
        BY <1>a, <2>1, <3>3 DEF NamedInv, Named
    <3> QED
        BY <1>a, <2>1, <3>2, <3>3, <3>4 DEF CommsOK, TypeOK, Events
  <2>3. CASE \E type \in Kinds \cup {"failed"} : EndsAs(type)
    <3>1. PICK type \in Kinds \cup {"failed"} : Emit(type)
        BY <2>3 DEF EndsAs
    <3>2. running' = None /\ evtq' \in Seq(Events) /\ Len(evtq') <= EvtDepth
        BY <1>a, <2>1, <3>1, EmitFacts
    <3>3. NamedInv'
        BY <1>a, <2>1, <3>2 DEF NamedInv, Named
    <3> QED
        BY <1>a, <2>1, <3>2, <3>3 DEF CommsOK, TypeOK
  <2> QED
      BY <1>9, <2>2, <2>3, TaskFacts
<1>10. CASE PowerLoss
  <2>1. running' = None /\ cmdq' = <<>> /\ evtq' = <<>> /\ card' = Starting
      BY <1>10 DEF PowerLoss
  <2>2. DOMAIN cmdq' = {} /\ cmdq' \in Seq(Commands) /\ evtq' \in Seq(Events) /\ Len(cmdq') = 0 /\ Len(evtq') = 0
      BY <2>1, EmptySeq, LenProperties
  <2>3. 0 <= CmdDepth /\ 0 <= EvtDepth
      BY QueueAssumption
  <2>4. card' \in CardStates /\ card'.at # "wait"
      BY <2>1 DEF CardStates, Starting
  <2> QED
      BY <2>1, <2>2, <2>3, <2>4 DEF CommsOK, NamedInv
<1>11. CASE Straggles \/ UNCHANGED vars
    BY <1>a, <1>11 DEF Straggles, vars, queues, CommsOK, NamedInv, TypeOK, Events
<1> QED
    BY <1>1, <1>2, <1>3, <1>4, <1>5, <1>7, <1>8, <1>9, <1>10, <1>11 DEF Next, TaskStep

LEMMA CardinalityFacts ==
    ASSUME NEW S \in SUBSET Slots
    PROVE  IsFiniteSet(S) /\ Cardinality(S) \in Nat
BY TemplateAssumption, FS_Subset, FS_CardinalityType

(* What the end of a wait does to the rest *)
LEMMA EndRest ==
    ASSUME TypeInv, NEW what \in Whys, NEW ok \in BOOLEAN, EndWait(what, ok)
    PROVE  /\ UNCHANGED <<stored, count, used, valid, doubtful, late>>
           /\ unsettled' \subseteq Slots
           /\ \A s \in Slots : s # card.slot => (s \in unsettled' <=> s \in unsettled)
           /\ ~AnsweredOwn /\ card.slot \in Slots => card.slot \in unsettled'
           /\ AnsweredOwn => \/ unsettled' = unsettled
                             \/ ok /\ \A c \in Outstanding : c.id # card.slot
<1>1. unsettled' = Unsettled(ok) /\ unsettled \subseteq Slots
    BY DEF EndWait, TypeInv, TypeOK
<1> QED
    BY <1>1 DEF EndWait, cache, Unsettled

LEMMA StepRest == TypeInv /\ [Next]_vars => RestOK'
<1> SUFFICES ASSUME TypeInv, [Next]_vars PROVE RestOK'
    OBVIOUS
<1>a. TypeOK /\ RestOK /\ NamedInv
    BY Parts DEF TypeInv
<1>0. CASE BioInit
  <2>1. count' \in Nat
      BY <1>0, CardinalityFacts DEF BioInit, Recount
  <2> QED
      BY <1>a, <1>0, <2>1 DEF BioInit, ghosts, RestOK
<1>1. CASE Ask \/ ScanFails \/ Enumerate
    BY <1>a, <1>1 DEF Ask, ScanFails, Enumerate, cache, ghosts, RestOK
<1>2. CASE ScanCount
  <2>1. count' \in Nat
      BY <1>a, <1>2, CardinalityFacts DEF ScanCount, Counts, RestOK
  <2>2. used' = {} /\ doubtful' \subseteq Slots
      BY <1>2 DEF ScanCount
  <2> QED
      BY <1>a, <1>2, <2>1, <2>2 DEF ScanCount, RestOK
<1>3. CASE ScanSlot
  <2>1. used' \subseteq Slots /\ doubtful' \subseteq Slots
      BY <1>a, <1>3 DEF ScanSlot, RestOK
  <2> QED
      BY <1>a, <1>3, <2>1 DEF ScanSlot, RestOK
<1>4. CASE ScanEnd
  <2>1. count' \in Nat
      BY <1>a, <1>4, CardinalityFacts DEF ScanEnd, RestOK
  <2> QED
      BY <1>a, <1>4, <2>1 DEF ScanEnd, ghosts, RestOK
<1>5. CASE EnrollBegin
  <2>1. Free \in SUBSET Nat /\ Free # {} /\ pending' = Min(Free)
      BY <1>5, TemplateAssumption DEF EnrollBegin, Free
  <2>2. pending' \in Slots
      BY <2>1, Lowest DEF Free
  <2>3. unsettled' \subseteq Slots
      BY <1>a, <1>5 DEF EnrollBegin, RestOK
  <2> QED
      BY <1>a, <1>5, <2>2, <2>3 DEF EnrollBegin, cache, RestOK
<1>6. ASSUME NEW s \in Slots, SetFriendlyName(s) PROVE RestOK'
    BY <1>a, <1>6 DEF SetFriendlyName, cache, RestOK
<1>7. CASE CaptureNext
  <2>1. pending' \in Slots \cup {None}
      BY <1>a, <1>7 DEF CaptureNext, RestOK
  <2> QED
      BY <1>a, <1>7, <2>1 DEF CaptureNext, cache, ghosts, RestOK
<1>8. ASSUME NEW s \in Slots, RemoveTemplate(s) PROVE RestOK'
    BY <1>a, <1>8 DEF RemoveTemplate, cache, ghosts, RestOK
<1>9. ASSUME NEW why \in {"touch", "token"}, Verify(why) PROVE RestOK'
    BY <1>a, <1>9 DEF Verify, cache, ghosts, RestOK
<1>10. CASE EnrollCancel
    BY <1>a, <1>10 DEF EnrollCancel, cache, ghosts, RestOK
<1>11. CASE CardReturns
  <2>1. PICK what \in Whys, ok \in BOOLEAN :
            /\ EndWait(what, ok)
            /\ pending' \in {None, pending} /\ cancel' \in {cancel, TRUE}
            /\ names' \subseteq names /\ foreign' \subseteq foreign
    <3>1. PICK ok \in BOOLEAN : Captured(ok) \/ Removed(ok) \/ Verified("touch", ok) \/ Verified("token", ok)
        BY <1>11 DEF CardReturns
    <3>2. CASE Captured(ok)
        BY <3>2 DEF Captured, PendingAfter, ClearName, Whys
    <3>3. CASE Removed(ok)
        BY <3>3 DEF Removed, ClearName, Whys
    <3>4. ASSUME NEW why \in {"touch", "token"}, Verified(why, ok)
          PROVE  /\ EndWait(why, ok) /\ why \in Whys
                 /\ pending' = pending /\ names' = names /\ foreign' = foreign
                 /\ cancel' \in {cancel, TRUE}
      <4>1. cancel \in BOOLEAN /\ cancel' = (cancel \/ (why = "touch" /\ evtq = <<>>))
          BY <1>a, <3>4 DEF Verified, RestOK
      <4>2. cancel' \in {cancel, TRUE}
          BY <4>1
      <4> QED
          BY <3>4, <4>2 DEF Verified, Whys
    <3> QED
        BY <3>1, <3>2, <3>3, <3>4
  <2>2. unsettled' \subseteq Slots /\ UNCHANGED <<stored, count, used, valid, doubtful, late>>
      BY <2>1, EndRest
  <2>3. cancel' \in BOOLEAN /\ pending' \in Slots \cup {None} /\ names' \subseteq Slots /\ foreign' \subseteq Slots
      BY <1>a, <2>1 DEF RestOK
  <2> QED
      BY <1>a, <2>2, <2>3 DEF RestOK
<1>12. CASE Take
  <2>1. doubtful' \subseteq Slots
      BY <1>a, <1>12 DEF Take, RestOK
  <2> QED
      BY <1>a, <1>12, <2>1 DEF Take, cache, RestOK
<1>13. CASE (TaskStep \/ Fingers) /\ ~Take
  <2>1. /\ UNCHANGED <<names, pending, late, used>>
        /\ stored' \subseteq Slots /\ foreign' \subseteq Slots
        /\ unsettled' \subseteq Slots /\ doubtful' \subseteq Slots
      BY <1>13, TaskFacts
  <2>2. cancel' = cancel
      BY <1>13 DEF TaskStep, Fingers, Look, VerifyEnds, EnrollFails, Store, Delete, Done
  <2>3. count' \in Nat /\ valid' \in BOOLEAN
    <3>1. CASE Done
      <4>1. \A n \in Recount : n \in Nat
          BY CardinalityFacts DEF Recount
      <4> QED
          BY <3>1, <4>1 DEF Done, ValidAfter
    <3>2. CASE ~Done
      <4>1. count' = count /\ valid' = valid
          BY <1>13, <3>2 DEF TaskStep, Fingers, Look, VerifyEnds, EnrollFails, Store, Delete, cache
      <4> QED
          BY <1>a, <4>1 DEF RestOK
    <3> QED
        BY <3>1, <3>2
  <2> QED
      BY <1>a, <2>1, <2>2, <2>3 DEF RestOK
<1>14. CASE PowerLoss
  <2>1. count' \in Nat
      BY <1>14 DEF PowerLoss
  <2>2. late' \in BOOLEAN /\ doubtful' \subseteq Slots
      BY <1>a, <1>14 DEF PowerLoss, RestOK
  <2> QED
      BY <1>a, <1>14, <2>1, <2>2 DEF PowerLoss, RestOK
<1>15. CASE Straggles \/ UNCHANGED vars
    BY <1>a, <1>15 DEF Straggles, vars, cache, ghosts, RestOK
<1> QED
    BY <1>0, <1>1, <1>2, <1>3, <1>4, <1>5, <1>6, <1>7, <1>8, <1>9, <1>10, <1>11, <1>12, <1>13, <1>14, <1>15
       DEF Next, TaskStep

LEMMA StepType == TypeInv /\ [Next]_vars => TypeInv'
<1> SUFFICES ASSUME TypeInv, [Next]_vars PROVE TypeInv'
    OBVIOUS
<1>1. CommsOK' /\ RestOK'
    BY StepComms, StepRest
<1>2. (TypeInv <=> CommsOK /\ RestOK)'
    BY DEF TypeInv, TypeOK, CommsOK, RestOK, Events
<1> QED
    BY <1>1, <1>2

-----------------------------------------------------------------------------
(* The steps by what they do to the commands, the events and the waits *)

CardMove ==
    /\ card.at # "wait" /\ card'.at # "wait"
    /\ UNCHANGED <<stored, running, cmdq, evtq, late>> /\ unsettled \subseteq unsettled'
HandMove(what, type, s) ==
    /\ card.at # "wait" /\ Hand(what, type, s)
    /\ Awaited' = type /\ (s \in Slots <=> type \in {"enroll", "remove"})
    /\ UNCHANGED <<stored, running, pending, names, ghosts, cache>>
DropMove ==
    /\ card.at # "wait" /\ HandFails /\ pending' \in {pending, None}
    /\ UNCHANGED <<stored, running, names, ghosts, cache>>
TaskMove == (TaskStep \/ Fingers) /\ ~Take

LEMMA Moved ==
    ASSUME TypeInv, Next
    PROVE  \/ CardMove
           \/ \E what \in Whys, type \in Kinds, s \in Slots \cup {None} : HandMove(what, type, s)
           \/ DropMove
           \/ \E what \in Whys, ok \in BOOLEAN : EndWait(what, ok)
           \/ Take \/ TaskMove \/ Straggles \/ PowerLoss
<1>a. TypeOK /\ NamedInv /\ pending \in Slots \cup {None}
    BY DEF TypeInv, TypeOK
<1>1. CASE Ask \/ ScanFails \/ BioInit \/ ScanCount \/ ScanSlot \/ ScanEnd \/ Enumerate \/ EnrollBegin \/ EnrollCancel
  <2>1. card.at # "wait"
      BY <1>a, <1>1, CardFacts DEF Ask, ScanFails, BioInit, Starting, ScanCount, ScanSlot, ScanEnd, Enumerate, EnrollBegin,
                                   EnrollCancel, Ready
  <2>2. card'.at # "wait"
    <3>1. CASE Ask
        BY <3>1 DEF Ask
    <3>2. CASE ScanFails \/ BioInit \/ Enumerate \/ EnrollBegin
        BY <3>2 DEF ScanFails, BioInit, Enumerate, EnrollBegin, Idle
    <3>3. CASE EnrollCancel
        BY <2>1, <3>3 DEF EnrollCancel
    <3>4. CASE ScanCount \/ ScanSlot \/ ScanEnd
      <4>1. card \in Wanting
          BY <1>a, <3>4, CardFacts DEF ScanCount, ScanSlot, ScanEnd
      <4>2. card' \in {[card EXCEPT !.at = "scan"], [card EXCEPT !.next = @ + 1],
                       [card EXCEPT !.at = "ready", !.next = 0]}
          BY <3>4 DEF ScanCount, ScanSlot, ScanEnd
      <4>3. [card EXCEPT !.next = @ + 1].at = card.at
          BY <4>1 DEF Wanting
      <4>4. [card EXCEPT !.at = "scan"].at = "scan" /\ [card EXCEPT !.at = "ready", !.next = 0].at = "ready"
          BY <4>1 DEF Wanting
      <4> QED
          BY <2>1, <4>2, <4>3, <4>4
    <3> QED
        BY <1>1, <3>1, <3>2, <3>3, <3>4
  <2> QED
      BY <1>1, <2>1, <2>2 DEF CardMove, Ask, ScanFails, BioInit, ScanCount, ScanSlot, ScanEnd, Enumerate,
                              EnrollBegin, EnrollCancel, queues, ghosts
<1>2. ASSUME NEW s \in Slots, SetFriendlyName(s) PROVE CardMove
    BY <1>2 DEF CardMove, SetFriendlyName, Ready, Idle, queues
<1>3. CASE CaptureNext
  <2>1. card.at # "wait" /\ pending \in Slots
      BY <1>a, <1>3, CardFacts DEF CaptureNext, Idle
  <2>2. CASE HandFails
      BY <1>3, <2>1, <2>2 DEF CaptureNext, DropMove
  <2>3. CASE Hand("enroll", "enroll", pending) /\ UNCHANGED pending
    <3>1. card'.what = "enroll" /\ card'.at = "wait"
        BY <2>3 DEF Hand
    <3>2. Awaited' = "enroll"
        BY <3>1 DEF Awaited
    <3>3. HandMove("enroll", "enroll", pending)
        BY <1>3, <2>1, <2>3, <3>2 DEF HandMove, CaptureNext
    <3> QED
        BY <2>1, <3>3 DEF Whys, Kinds
  <2> QED
      BY <1>3, <2>2, <2>3 DEF CaptureNext
<1>4. ASSUME NEW s \in Slots, RemoveTemplate(s)
      PROVE  DropMove \/ HandMove("remove", "remove", s)
  <2>1. card.at # "wait"
      BY <1>4 DEF RemoveTemplate, Ready
  <2>2. CASE HandFails
      BY <1>4, <2>1, <2>2 DEF RemoveTemplate, DropMove
  <2>3. CASE Hand("remove", "remove", s)
    <3>1. card'.what = "remove" /\ card'.at = "wait"
        BY <2>3 DEF Hand
    <3>2. Awaited' = "remove"
        BY <3>1 DEF Awaited
    <3> QED
        BY <1>4, <2>1, <2>3, <3>2 DEF HandMove, RemoveTemplate
  <2> QED
      BY <1>4, <2>2, <2>3 DEF RemoveTemplate
<1>5. ASSUME NEW why \in {"touch", "token"}, Verify(why)
      PROVE  DropMove \/ HandMove(why, "verify", None)
  <2>1. card.at # "wait" /\ None \notin Slots
      BY <1>5, TemplateAssumption DEF Verify, Idle
  <2>2. CASE HandFails
      BY <1>5, <2>1, <2>2 DEF Verify, DropMove
  <2>3. CASE Hand(why, "verify", None)
    <3>1. card'.what = why /\ card'.at = "wait"
        BY <2>3 DEF Hand
    <3>2. Awaited' = "verify"
        BY <3>1 DEF Awaited
    <3> QED
        BY <1>5, <2>1, <2>3, <3>2 DEF HandMove, Verify
  <2> QED
      BY <1>5, <2>2, <2>3 DEF Verify
<1>6. CASE CardReturns
    BY <1>6 DEF CardReturns, Captured, Removed, Verified, Whys
<1> QED
    BY <1>1, <1>2, <1>3, <1>4, <1>5, <1>6 DEF Next, TaskMove, TaskStep, Whys, Kinds

LEMMA NoOwn ==
    ASSUME OwnInv, card.at # "wait"
    PROVE  /\ \A i \in DOMAIN cmdq : ~cmdq[i].own
           /\ running # None => ~running.own
           /\ \A i \in DOMAIN evtq : ~evtq[i].own
BY DEF OwnInv, AskedFor

LEMMA EmptyFacts == DOMAIN <<>> = {}
<1>1. <<>> \in Seq({}) /\ Len(<<>>) = 0
    BY EmptySeq
<1> QED
    BY <1>1, LenProperties

LEMMA StepOwn == TypeInv /\ OwnInv /\ [Next]_vars => OwnInv'
<1> SUFFICES ASSUME TypeInv, OwnInv, [Next]_vars PROVE OwnInv'
    OBVIOUS
<1>a. TypeOK
    BY DEF TypeInv
<1>1. CASE CardMove
    BY <1>1, NoOwn DEF CardMove, OwnInv
<1>2. ASSUME NEW what \in Whys, NEW type \in Kinds, NEW s \in Slots \cup {None}, HandMove(what, type, s)
      PROVE  OwnInv'
  <2>1. Hand(what, type, s) /\ card.at # "wait" /\ running' = running /\ Awaited' = type
      BY <1>2 DEF HandMove
  <2>2. /\ DOMAIN evtq' = {} /\ card'.at = "wait" /\ card'.slot = s
        /\ \A i \in DOMAIN cmdq : cmdq'[i] = cmdq[i]
        /\ \A i \in DOMAIN cmdq' \ DOMAIN cmdq :
              i = Len(cmdq') /\ cmdq'[i].type = type /\ cmdq'[i].id = s
      BY <1>a, <2>1, HandFacts
  <2>3. ASSUME NEW i \in DOMAIN cmdq', cmdq'[i].own PROVE AskedFor(cmdq[i])' /\ i = Len(cmdq')
    <3>1. i \notin DOMAIN cmdq
        BY <2>1, <2>2, <2>3, NoOwn
    <3> QED
        BY <2>1, <2>2, <3>1 DEF AskedFor
  <2>4. running' # None => ~running'.own
      BY <2>1, NoOwn
  <2> QED
      BY <2>2, <2>3, <2>4 DEF OwnInv
<1>3. CASE DropMove
  <2>1. /\ DOMAIN evtq' = {} /\ cmdq' = cmdq /\ running' = running
        /\ card.at # "wait"
      BY <1>3, EmptyFacts DEF DropMove, HandFails, Flushed
  <2>2. \A i \in DOMAIN cmdq' : ~cmdq'[i].own
      BY <2>1, NoOwn
  <2>3. running' # None => ~running'.own
      BY <2>1, NoOwn
  <2> QED
      BY <2>1, <2>2, <2>3 DEF OwnInv
<1>4. ASSUME NEW what \in Whys, NEW ok \in BOOLEAN, EndWait(what, ok) PROVE OwnInv'
  <2>1. /\ \A i \in DOMAIN cmdq' : ~cmdq'[i].own
        /\ \A i \in DOMAIN evtq' : ~evtq'[i].own
      BY <1>a, <1>4, EndFacts
  <2>2. running' # None => ~running'.own
      BY <1>a, <1>4, DisownFacts DEF EndWait
  <2> QED
      BY <2>1, <2>2 DEF OwnInv
<1>5. CASE Take
  <2>1. /\ cmdq # <<>> /\ 1 \in DOMAIN cmdq /\ running' = cmdq[1] /\ Len(cmdq) \in Nat /\ Len(cmdq') = Len(cmdq) - 1
        /\ \A i \in DOMAIN cmdq' : i + 1 \in DOMAIN cmdq /\ cmdq'[i] = cmdq[i + 1]
        /\ (cmdq' = <<>> <=> Len(cmdq) = 1)
        /\ card' = card /\ evtq' = evtq
      BY <1>a, <1>5, TakeFacts DEF Take
  <2>2. \A i \in DOMAIN evtq' : ~evtq'[i].own
      BY <2>1 DEF OwnInv
  <2>3. running'.own => AskedFor(running)' /\ cmdq' = <<>>
      BY <2>1 DEF OwnInv, AskedFor, Awaited
  <2>4. ASSUME NEW i \in DOMAIN cmdq', cmdq'[i].own PROVE AskedFor(cmdq[i])' /\ i = Len(cmdq')
    <3>1. AskedFor(cmdq[i + 1]) /\ i + 1 = Len(cmdq)
        BY <2>1, <2>4 DEF OwnInv
    <3>2. i \in Int
      <4>1. cmdq' \in Seq(Commands)
          BY <1>a, <1>5, TakeFacts
      <4>2. DOMAIN cmdq' = 1..Len(cmdq') /\ Len(cmdq') \in Nat
          BY <4>1, LenProperties
      <4> QED
          BY <4>2
    <3>3. i = Len(cmdq')
        BY <2>1, <3>1, <3>2
    <3> QED
        BY <2>1, <3>1, <3>3 DEF AskedFor, Awaited
  <2> QED
      BY <2>2, <2>3, <2>4 DEF OwnInv
<1>6. CASE TaskMove
  <2>1. running # None /\ running \in Commands /\ cmdq' = cmdq /\ card' = card
      BY <1>6, TaskFacts DEF TaskMove
  <2>2. \A i \in DOMAIN evtq : ~evtq[i].own
      BY <2>1 DEF OwnInv
  <2>3. ASSUME NEW i \in DOMAIN cmdq', cmdq'[i].own PROVE AskedFor(cmdq[i])' /\ i = Len(cmdq')
      BY <2>1, <2>3 DEF OwnInv, AskedFor, Awaited
  <2>4. ASSUME NEW stage \in {"look", "model", "done"}, Moves(stage) PROVE OwnInv'
    <3>1. running' = [running EXCEPT !.stage = stage] /\ evtq' = evtq
        BY <2>4 DEF Moves
    <3>2. running'.type = running.type /\ running'.id = running.id /\ running'.own = running.own
        BY <1>a, <2>1, <3>1, StageFacts
    <3>3. running'.own => AskedFor(running)' /\ cmdq' = <<>>
        BY <2>1, <3>2 DEF OwnInv, AskedFor, Awaited
    <3> QED
        BY <2>2, <2>3, <3>1, <3>3 DEF OwnInv
  <2>5. ASSUME NEW type \in Kinds \cup {"failed"}, EndsAs(type) PROVE OwnInv'
    <3>1. Emit(type) /\ type \in {running.type, "failed"}
        BY <2>5 DEF EndsAs
    <3>2. /\ running' = None
          /\ \A i \in DOMAIN evtq : evtq'[i] = evtq[i]
          /\ \A i \in DOMAIN evtq' \ DOMAIN evtq : evtq'[i].type = type /\ evtq'[i].own = running.own
        BY <1>a, <2>1, <3>1, EmitFacts
    <3>3. ASSUME NEW i \in DOMAIN evtq', evtq'[i].own
          PROVE  card'.at = "wait" /\ evtq'[i].type \in {Awaited', "failed"} /\ running' = None /\ cmdq' = <<>>
      <4>1. evtq'[i].type = type /\ running.own
          BY <2>2, <3>2, <3>3
      <4>2. AskedFor(running) /\ cmdq = <<>>
          BY <2>1, <4>1 DEF OwnInv
      <4>3. Awaited' = Awaited
          BY <2>1 DEF Awaited
      <4> QED
          BY <2>1, <3>1, <3>2, <4>1, <4>2, <4>3 DEF AskedFor
    <3> QED
        BY <2>3, <3>2, <3>3 DEF OwnInv
  <2> QED
      BY <1>6, <2>4, <2>5, TaskFacts DEF TaskMove
<1>7. CASE PowerLoss
  <2>1. DOMAIN cmdq' = {} /\ DOMAIN evtq' = {} /\ running' = None
      BY <1>7, EmptyFacts DEF PowerLoss
  <2> QED
      BY <2>1 DEF OwnInv
<1>8. CASE Straggles \/ UNCHANGED vars
    BY <1>8 DEF Straggles, vars, queues, OwnInv, AskedFor, Awaited
<1> QED
    BY <1>1, <1>2, <1>3, <1>4, <1>5, <1>6, <1>7, <1>8, Moved

LEMMA RestartHalts == PowerLoss => card'.at = "start"
<1> SUFFICES ASSUME PowerLoss PROVE card'.at = "start"
    OBVIOUS
<1>1. card' = Starting
    BY DEF PowerLoss
<1> QED
    BY <1>1 DEF Starting

LEMMA StepClean == TypeInv /\ CleanInv /\ [Next]_vars => CleanInv'
<1> SUFFICES ASSUME TypeInv, CleanInv, [Next]_vars, card'.at = "wait", card'.clean
             PROVE  /\ \A i \in DOMAIN cmdq' : cmdq'[i].own
                    /\ running' # None => running'.own
                    /\ \A i \in DOMAIN evtq' : evtq'[i].own
    BY DEF CleanInv
<1>a. TypeOK
    BY DEF TypeInv
<1>1. ~CardMove /\ ~DropMove /\ ~PowerLoss
  <2>1. ~PowerLoss
      BY RestartHalts
  <2>2. ~CardMove /\ ~DropMove
      BY DEF CardMove, DropMove, HandFails, Idle
  <2> QED
      BY <2>1, <2>2
<1>2. ASSUME NEW what, NEW ok, EndWait(what, ok) PROVE FALSE
    BY <1>2 DEF EndWait, Idle
<1>3. ASSUME NEW what \in Whys, NEW type \in Kinds, NEW s \in Slots \cup {None}, HandMove(what, type, s)
      PROVE  /\ \A i \in DOMAIN cmdq' : cmdq'[i].own
             /\ running' # None => running'.own
             /\ \A i \in DOMAIN evtq' : evtq'[i].own
  <2>1. Hand(what, type, s) /\ running' = running
      BY <1>3 DEF HandMove
  <2>2. /\ DOMAIN evtq' = {} /\ Outstanding = {}
        /\ \A i \in DOMAIN cmdq' \ DOMAIN cmdq : cmdq'[i].own
      BY <1>a, <2>1, HandFacts
  <2>3. running = None /\ DOMAIN cmdq = {}
      BY <2>2 DEF Outstanding, Range
  <2> QED
      BY <2>1, <2>2, <2>3
<1>4. CASE Take
  <2>1. /\ 1 \in DOMAIN cmdq /\ running' = cmdq[1] /\ card' = card /\ evtq' = evtq
        /\ \A i \in DOMAIN cmdq' : i + 1 \in DOMAIN cmdq /\ cmdq'[i] = cmdq[i + 1]
      BY <1>a, <1>4, TakeFacts DEF Take
  <2> QED
      BY <2>1 DEF CleanInv
<1>5. CASE TaskMove
  <2>1. running # None /\ cmdq' = cmdq /\ card' = card
      BY <1>5, TaskFacts DEF TaskMove
  <2>2. running.own /\ \A i \in DOMAIN evtq : evtq[i].own
      BY <2>1 DEF CleanInv
  <2>3. ASSUME NEW stage \in {"look", "model", "done"}, Moves(stage)
        PROVE  evtq' = evtq /\ running'.own
      BY <1>a, <2>1, <2>2, <2>3, StageFacts DEF Moves
  <2>4. ASSUME NEW type \in Kinds \cup {"failed"}, EndsAs(type)
        PROVE  running' = None /\ \A i \in DOMAIN evtq' : evtq'[i].own
    <3>1. Emit(type)
        BY <2>4 DEF EndsAs
    <3>2. /\ running' = None
          /\ \A i \in DOMAIN evtq : evtq'[i] = evtq[i]
          /\ \A i \in DOMAIN evtq' \ DOMAIN evtq : evtq'[i].own = running.own
        BY <1>a, <2>1, <3>1, EmitFacts
    <3> QED
        BY <2>2, <3>2
  <2> QED
      BY <1>5, <2>1, <2>2, <2>3, <2>4, TaskFacts DEF TaskMove, CleanInv
<1>6. CASE Straggles \/ UNCHANGED vars
    BY <1>6 DEF Straggles, vars, queues, CleanInv
<1> QED
    BY <1>1, <1>2, <1>3, <1>4, <1>5, <1>6, Moved

(* After the event of its own command nothing is left running *)
LEMMA AnsweredFacts ==
    ASSUME TypeOK, OwnInv, AnsweredOwn
    PROVE  running = None /\ cmdq = <<>> /\ 1 \in DOMAIN evtq /\ evtq[1].own
<1>1. evtq \in Seq(Events) /\ evtq # <<>>
    BY TypeFacts DEF AnsweredOwn
<1>2. 1 \in DOMAIN evtq /\ Head(evtq) = evtq[1]
    BY <1>1, QueueFacts
<1> QED
    BY <1>2 DEF AnsweredOwn, OwnInv

LEMMA StepForeign == TypeInv /\ OwnInv /\ ForeignInv /\ [Next]_vars => ForeignInv'
<1> SUFFICES ASSUME TypeInv, OwnInv, ForeignInv, [Next]_vars PROVE ForeignInv'
    OBVIOUS
<1>a. TypeOK
    BY DEF TypeInv
<1>1. CASE CardMove
    BY <1>1 DEF CardMove, ForeignInv, Known
<1>2. ASSUME NEW what \in Whys, NEW type \in Kinds, NEW s \in Slots \cup {None}, HandMove(what, type, s)
      PROVE  ForeignInv'
  <2>1. Hand(what, type, s) /\ running' = running /\ unsettled' = unsettled
      BY <1>2 DEF HandMove, ghosts
  <2>2. /\ \A i \in DOMAIN cmdq : cmdq'[i] = cmdq[i]
        /\ \A i \in DOMAIN cmdq' \ DOMAIN cmdq : cmdq'[i].own
      BY <1>a, <2>1, HandFacts
  <2>3. \A i \in DOMAIN cmdq' : Known(cmdq[i])'
      BY <2>1, <2>2 DEF ForeignInv, Known
  <2> QED
      BY <2>1, <2>3 DEF ForeignInv, Known
<1>3. CASE DropMove
    BY <1>3 DEF DropMove, HandFails, ghosts, ForeignInv, Known
<1>4. ASSUME NEW what \in Whys, NEW ok \in BOOLEAN, EndWait(what, ok) PROVE ForeignInv'
  <2>1. CASE AnsweredOwn
    <3>1. running' = None /\ DOMAIN cmdq' = {}
      <4>1. running = None /\ cmdq = <<>> /\ DOMAIN cmdq' = DOMAIN cmdq
          BY <1>a, <1>4, <2>1, AnsweredFacts, EndFacts
      <4> QED
          BY <1>4, <4>1, EmptyFacts DEF EndWait
    <3> QED
        BY <3>1 DEF ForeignInv
  <2>2. CASE ~AnsweredOwn
    <3>1. /\ \A s \in Slots : s # card.slot => (s \in unsettled' <=> s \in unsettled)
          /\ card.slot \in Slots => card.slot \in unsettled'
        BY <1>4, <2>2, EndRest
    <3>2. ASSUME NEW i \in DOMAIN cmdq' PROVE Known(cmdq[i])'
      <4>1. i \in DOMAIN cmdq /\ cmdq'[i].id = cmdq[i].id
          BY <1>a, <1>4, <3>2, EndFacts
      <4>2. Known(cmdq[i]) /\ (cmdq[i].own => cmdq[i].id = card.slot)
          BY <4>1 DEF ForeignInv, OwnInv, AskedFor
      <4> QED
          BY <3>1, <4>1, <4>2 DEF Known
    <3>3. ASSUME running' # None PROVE Known(running)'
      <4>1. running' = IF running = None THEN None ELSE [running EXCEPT !.own = FALSE]
          BY <1>4 DEF EndWait
      <4>2. running # None /\ running'.id = running.id
          BY <1>a, <3>3, <4>1, DisownFacts
      <4>3. Known(running) /\ (running.own => running.id = card.slot)
          BY <4>2 DEF ForeignInv, OwnInv, AskedFor
      <4> QED
          BY <3>1, <4>2, <4>3 DEF Known
    <3> QED
        BY <3>2, <3>3 DEF ForeignInv
  <2> QED
      BY <2>1, <2>2
<1>5. CASE Take
  <2>1. /\ 1 \in DOMAIN cmdq /\ running' = cmdq[1] /\ unsettled' = unsettled
        /\ \A i \in DOMAIN cmdq' : i + 1 \in DOMAIN cmdq /\ cmdq'[i] = cmdq[i + 1]
      BY <1>a, <1>5, TakeFacts DEF Take
  <2> QED
      BY <2>1 DEF ForeignInv, Known
<1>6. CASE TaskMove
  <2>1. running # None /\ cmdq' = cmdq /\ unsettled \subseteq unsettled'
      BY <1>6, TaskFacts DEF TaskMove
  <2>2. running' = None \/ (running'.id = running.id /\ running'.own = running.own)
      BY <1>a, <1>6, <2>1, TaskFacts, StageFacts DEF TaskMove, Moves, EndsAs, Emit
  <2> QED
      BY <2>1, <2>2 DEF ForeignInv, Known
<1>7. CASE PowerLoss
  <2>1. DOMAIN cmdq' = {} /\ running' = None
      BY <1>7, EmptyFacts DEF PowerLoss
  <2> QED
      BY <2>1 DEF ForeignInv
<1>8. CASE Straggles \/ UNCHANGED vars
    BY <1>8 DEF Straggles, vars, queues, ghosts, ForeignInv, Known
<1> QED
    BY <1>1, <1>2, <1>3, <1>4, <1>5, <1>6, <1>7, <1>8, Moved

LEMMA StepResult == TypeInv /\ OwnInv /\ ResultInv /\ [Next]_vars => ResultInv'
<1> SUFFICES ASSUME TypeInv, OwnInv, ResultInv, [Next]_vars PROVE ResultInv'
    OBVIOUS
<1>a. TypeOK /\ NamedInv
    BY DEF TypeInv
<1>1. CASE CardMove
    BY <1>1, NoOwn DEF CardMove, ResultInv, Says
<1>2. ASSUME NEW what \in Whys, NEW type \in Kinds, NEW s \in Slots \cup {None}, HandMove(what, type, s)
      PROVE  ResultInv'
  <2>1. Hand(what, type, s) /\ running' = running /\ stored' = stored /\ late' = late
      BY <1>2 DEF HandMove, ghosts
  <2>2. DOMAIN evtq' = {}
      BY <1>a, <2>1, HandFacts
  <2> QED
      BY <2>1, <2>2 DEF ResultInv, Says
<1>3. CASE DropMove
  <2>1. running' = running /\ stored' = stored /\ late' = late /\ DOMAIN evtq' = {}
      BY <1>3, EmptyFacts DEF DropMove, HandFails, Flushed, ghosts
  <2> QED
      BY <2>1 DEF ResultInv, Says
<1>4. ASSUME NEW what \in Whys, NEW ok \in BOOLEAN, EndWait(what, ok) PROVE ResultInv'
  <2>1. stored' = stored /\ \A i \in DOMAIN evtq' : ~evtq'[i].own
      BY <1>a, <1>4, EndFacts, EndRest
  <2>2. running' # None => ~running'.own
      BY <1>a, <1>4, DisownFacts DEF EndWait
  <2> QED
      BY <2>1, <2>2 DEF ResultInv
<1>5. CASE Take
  <2>1. /\ 1 \in DOMAIN cmdq /\ running' = cmdq[1] /\ UNCHANGED <<stored, evtq, card, late>>
      BY <1>a, <1>5, TakeFacts DEF Take
  <2>2. running'.stage = "start"
      BY <1>a, <2>1 DEF NamedInv
  <2> QED
      BY <2>1, <2>2 DEF ResultInv, Says
<1>6. CASE TaskMove
  <2>1. running # None /\ card' = card /\ late' = late
      BY <1>6, TaskFacts DEF TaskMove
  <2>2. \A i \in DOMAIN evtq : ~evtq[i].own
      BY <2>1 DEF OwnInv
  <2>3. ASSUME NEW stage \in {"look", "model", "done"}, Moves(stage) PROVE ResultInv'
    <3>1. running'.stage = stage /\ running'.own = running.own /\ evtq' = evtq
        BY <1>a, <2>1, <2>3, StageFacts DEF Moves
    <3>2. running.own => card.at = "wait"
        BY <2>1 DEF OwnInv, AskedFor
    <3>3. running.own /\ ~late => ~Stray
        BY <3>2 DEF Stray
    <3>4. running.own /\ ~late /\ stage = "done" => Says(running.type, running.id)'
        BY <2>3, <3>3 DEF Moves
    <3> QED
        BY <2>1, <2>2, <3>1, <3>4 DEF ResultInv
  <2>4. ASSUME NEW type \in Kinds \cup {"failed"}, EndsAs(type) PROVE ResultInv'
    <3>1. Emit(type)
        BY <2>4 DEF EndsAs
    <3>2. /\ running' = None
          /\ \A i \in DOMAIN evtq : evtq'[i] = evtq[i]
          /\ \A i \in DOMAIN evtq' \ DOMAIN evtq : evtq'[i].type = type /\ evtq'[i].own = running.own
        BY <1>a, <2>1, <3>1, EmitFacts
    <3>3. ASSUME running.own, ~late PROVE Says(type, card.slot)'
      <4>1. card.slot = running.id
          BY <2>1, <3>3 DEF OwnInv, AskedFor
      <4>2. CASE type = "failed" \/ type = "verify"
          BY <4>2 DEF Says
      <4>3. CASE type = running.type /\ running.stage = "done" /\ stored' = stored
        <5>1. Says(running.type, running.id)
            BY <2>1, <3>3, <4>3 DEF ResultInv
        <5> QED
            BY <2>1, <4>1, <4>3, <5>1 DEF Says
      <4> QED
          BY <2>4, <4>2, <4>3 DEF EndsAs
    <3>4. ASSUME ~late, NEW i \in DOMAIN evtq', evtq'[i].own PROVE Says(evtq[i].type, card.slot)'
        BY <2>2, <3>2, <3>3, <3>4 DEF Says
    <3> QED
        BY <2>1, <3>2, <3>4 DEF ResultInv
  <2> QED
      BY <1>6, <2>3, <2>4, TaskFacts DEF TaskMove
<1>7. CASE PowerLoss
  <2>1. DOMAIN evtq' = {} /\ running' = None
      BY <1>7, EmptyFacts DEF PowerLoss
  <2> QED
      BY <2>1 DEF ResultInv
<1>8. CASE Straggles \/ UNCHANGED vars
    BY <1>8 DEF Straggles, vars, queues, ghosts, ResultInv, Says
<1> QED
    BY <1>1, <1>2, <1>3, <1>4, <1>5, <1>6, <1>7, <1>8, Moved

-----------------------------------------------------------------------------
(* The cache of the slots *)

(* A scan that nothing disturbed ends with the stored templates, but for   *)
(* those it misread.                                                       *)
LEMMA ScanDone ==
    ASSUME TypeInv, ScanInv, ScanEnd, NEW s \in Slots \ doubtful
    PROVE  s \in used <=> s \in stored
<1>1. stored \subseteq Slots /\ card.at = "scan" /\ card \in Wanting /\ doubtful # Slots
    BY CardFacts DEF TypeInv, TypeOK, ScanEnd
<1>2. /\ used \subseteq Below(card.next) /\ Below(card.next) \subseteq used \cup doubtful
      /\ count = Cardinality(stored)
    BY <1>1 DEF ScanInv, Scanning
<1>3. card.next \in Nat /\ used \subseteq stored
    BY <1>1, <1>2 DEF Wanting, Below
<1>4. CASE card.next \notin Slots
  <2>1. ASSUME s \in stored PROVE s < card.next
    <3>1. s \in Nat
        BY TemplateAssumption
    <3>2. card.next \notin 0..s
        BY <1>4, TemplateAssumption
    <3> QED
        BY <1>3, <3>1, <3>2
  <2> QED
      BY <1>2, <1>3, <2>1 DEF Below
<1>5. CASE Cardinality(used) >= count
  <2>1. IsFiniteSet(stored) /\ Cardinality(stored) \in Nat
      BY <1>1, CardinalityFacts
  <2>2. Cardinality(used) <= Cardinality(stored) /\ Cardinality(used) \in Nat
      BY <1>3, <2>1, FS_Subset, FS_CardinalityType
  <2>3. Cardinality(used) = Cardinality(stored)
      BY <1>2, <1>5, <2>1, <2>2
  <2> QED
      BY <1>3, <2>1, <2>3, FS_Subset
<1> QED
    BY <1>4, <1>5 DEF ScanEnd

LEMMA HandAt ==
    ASSUME CaptureNext \/ (\E s \in Slots : RemoveTemplate(s)) \/ (\E why \in {"touch", "token"} : Verify(why))
    PROVE  card'.at \in {"idle", "wait"}
<1>1. HandFails => card'.at = "idle"
    BY DEF HandFails, Idle
<1>2. ASSUME NEW what, NEW type, NEW s, Hand(what, type, s) PROVE card'.at = "wait"
    BY <1>2 DEF Hand
<1> QED
    BY <1>1, <1>2 DEF CaptureNext, RemoveTemplate, Verify

LEMMA StepScan == TypeInv /\ ScanInv /\ [Next]_vars => ScanInv'
<1> SUFFICES ASSUME TypeInv, ScanInv, [Next]_vars PROVE ScanInv'
    OBVIOUS
<1>a. TypeOK
    BY DEF TypeInv
<1>1. CASE Ask
  <2>1. card' = [at |-> IF valid THEN "ready" ELSE "count", next |-> 0] /\ UNCHANGED <<valid, late, doubtful>>
      BY <1>1 DEF Ask, cache, ghosts
  <2>2. card'.at = (IF valid THEN "ready" ELSE "count") /\ card'.next = 0
      BY <2>1
  <2> QED
      BY <2>1, <2>2 DEF ScanInv, Scanning
<1>2. ASSUME card'.at \notin {"count", "scan"}, late' => doubtful' = Slots PROVE ScanInv'
    BY <1>2 DEF ScanInv, Scanning
<1>b. UNCHANGED <<late, doubtful>> => (late' => doubtful' = Slots)
    BY DEF ScanInv
<1>3. CASE ScanCount
  <2>1. card \in Wanting /\ card.at = "count" /\ card' = [card EXCEPT !.at = "scan"]
      BY <1>a, <1>3, CardFacts DEF ScanCount
  <2>2. card'.at = "scan" /\ card'.next = 0 /\ ~valid /\ valid' = valid
      BY <1>3, <2>1 DEF Wanting, ScanInv, ScanCount
  <2>3. /\ stored' = stored /\ late' = late /\ used' = {} /\ running' = running
        /\ running # None \/ late \/ count' # Cardinality(stored) => doubtful' = Slots
      BY <1>3 DEF ScanCount
  <2>4. Below(card.next)' = {}
    <3>1. stored \subseteq Nat
        BY <1>a, TemplateAssumption DEF TypeOK
    <3>2. \A s \in stored : ~(s < 0)
        BY <3>1
    <3> QED
        BY <2>2, <2>3, <3>2 DEF Below
  <2> QED
      BY <2>2, <2>3, <2>4 DEF ScanInv, Scanning
<1>4. CASE ScanSlot
  <2>1. card \in Wanting /\ card.at = "scan" /\ card' = [card EXCEPT !.next = @ + 1] /\ card.next \in Slots
      BY <1>a, <1>4, CardFacts DEF ScanSlot
  <2>2. card'.at = "scan" /\ card'.next = card.next + 1
      BY <2>1 DEF Wanting
  <2>3. /\ ~valid /\ UNCHANGED <<valid, running, stored, count, late>>
        /\ doubtful \subseteq doubtful' /\ doubtful' \subseteq Slots
      BY <1>a, <1>4, <2>1 DEF ScanInv, ScanSlot, TypeOK
  <2>4. ASSUME doubtful' # Slots
        PROVE  /\ running' = None /\ count' = Cardinality(stored)'
               /\ used' \subseteq Below(card.next)' /\ Below(card.next)' \subseteq used' \cup doubtful'
    <3>1. /\ doubtful # Slots /\ ~late /\ running = None /\ count = Cardinality(stored)
          /\ used \subseteq Below(card.next) /\ Below(card.next) \subseteq used \cup doubtful
        BY <2>1, <2>3, <2>4 DEF ScanInv, Scanning
    <3>2. \/ card.next \in stored /\ used' = used \cup {card.next} /\ doubtful' = doubtful
          \/ used' = used /\ doubtful' = doubtful \cup ({card.next} \cap stored)
        BY <1>4, <3>1 DEF ScanSlot, Stray
    <3>3. stored \subseteq Nat /\ card.next \in Nat
        BY <1>a, <2>1, TemplateAssumption DEF TypeOK
    <3>4. \A s \in stored : s < card.next + 1 <=> s < card.next \/ s = card.next
        BY <3>3
    <3>5. {s \in stored : s < card.next + 1} = Below(card.next) \cup ({card.next} \cap stored)
        BY <3>4 DEF Below
    <3>6. Below(card.next)' = Below(card.next) \cup ({card.next} \cap stored)
        BY <2>2, <2>3, <3>5 DEF Below
    <3> QED
        BY <2>3, <3>1, <3>2, <3>6
  <2>5. late' => doubtful' = Slots
      BY <2>3 DEF ScanInv
  <2> QED
      BY <2>2, <2>3, <2>4, <2>5 DEF ScanInv, Scanning
<1>5. CASE ScanFails \/ BioInit \/ ScanEnd \/ Enumerate \/ EnrollBegin \/ EnrollCancel
           \/ (\E s \in Slots : SetFriendlyName(s)) \/ PowerLoss
  <2>1. CASE ScanEnd
    <3>1. card \in Wanting /\ card' = [card EXCEPT !.at = "ready", !.next = 0]
        BY <1>a, <2>1, CardFacts DEF ScanEnd
    <3>2. card'.at = "ready" /\ UNCHANGED <<late, doubtful>>
        BY <2>1, <3>1 DEF Wanting, ScanEnd, ghosts
    <3> QED
        BY <1>2, <1>b, <3>2
  <2>2. CASE ~ScanEnd
    <3>1. card'.at \in {"idle", "start"}
        BY <1>5, <2>2, RestartHalts DEF ScanFails, BioInit, Enumerate, EnrollBegin, EnrollCancel, SetFriendlyName, Idle
    <3>2. late' => doubtful' = Slots
      <4>1. CASE PowerLoss
          BY <4>1 DEF PowerLoss
      <4>2. CASE ~PowerLoss
          BY <1>b, <1>5, <2>2, <4>2 DEF ScanFails, BioInit, Enumerate, EnrollBegin, EnrollCancel, SetFriendlyName, ghosts
      <4> QED
          BY <4>1, <4>2
    <3> QED
        BY <1>2, <3>1, <3>2
  <2> QED
      BY <2>1, <2>2
<1>6. CASE CaptureNext \/ (\E s \in Slots : RemoveTemplate(s)) \/ (\E why \in {"touch", "token"} : Verify(why))
  <2>1. card'.at \in {"idle", "wait"}
      BY <1>6, HandAt
  <2>2. UNCHANGED <<late, doubtful>>
      BY <1>6 DEF CaptureNext, RemoveTemplate, Verify, ghosts
  <2> QED
      BY <1>2, <1>b, <2>1, <2>2
<1>7. CASE CardReturns
  <2>1. card'.at = "idle" /\ UNCHANGED <<late, doubtful>>
      BY <1>7 DEF CardReturns, Captured, Removed, Verified, EndWait, Idle
  <2> QED
      BY <1>2, <1>b, <2>1
<1>8. CASE Take
  <2>1. card' = card /\ valid' = valid /\ late' = late /\ doubtful' = IF Scanning THEN Slots ELSE doubtful
      BY <1>8 DEF Take, cache
  <2> QED
      BY <2>1 DEF ScanInv, Scanning
<1>9. CASE TaskMove
  <2>1. /\ running # None /\ card' = card /\ late' = late
        /\ doubtful \subseteq doubtful' /\ doubtful' \subseteq Slots
      BY <1>9, TaskFacts DEF TaskMove
  <2>3. late \/ Scanning => doubtful' = Slots
      BY <2>1 DEF ScanInv
  <2>2. valid' => valid
      BY <1>9 DEF TaskMove, TaskStep, Fingers, Look, VerifyEnds, EnrollFails, Store, Delete, Done, ValidAfter, cache
  <2> QED
      BY <2>1, <2>2, <2>3 DEF ScanInv, Scanning
<1>11. CASE Straggles
  <2>1. UNCHANGED <<card, valid>> /\ doubtful' = Slots
      BY <1>11 DEF Straggles, cache
  <2> QED
      BY <2>1 DEF ScanInv, Scanning
<1>10. CASE UNCHANGED vars
  <2>1. UNCHANGED <<card, valid, doubtful, late, used, running, count, stored>>
      BY <1>10 DEF vars, cache, ghosts
  <2> QED
      BY <2>1 DEF ScanInv, Scanning, Below
<1> QED
    BY <1>1, <1>3, <1>4, <1>5, <1>6, <1>7, <1>8, <1>9, <1>10, <1>11 DEF Next, TaskMove, TaskStep

LEMMA StepCache == TypeInv /\ ScanInv /\ CacheInv /\ [Next]_vars => CacheInv'
<1> SUFFICES ASSUME TypeInv, ScanInv, CacheInv, [Next]_vars PROVE CacheInv'
    OBVIOUS
<1>a. TypeOK
    BY DEF TypeInv
<1>1. ASSUME UNCHANGED <<stored, running, valid, used, doubtful>> PROVE CacheInv'
    BY <1>1 DEF CacheInv, Stage
<1>2. CASE Ask \/ ScanFails \/ BioInit \/ Enumerate \/ EnrollBegin \/ EnrollCancel
           \/ (\E s \in Slots : SetFriendlyName(s))
           \/ CaptureNext \/ (\E s \in Slots : RemoveTemplate(s)) \/ (\E why \in {"touch", "token"} : Verify(why))
    BY <1>1, <1>2 DEF Ask, ScanFails, BioInit, Enumerate, EnrollBegin, EnrollCancel, SetFriendlyName,
                      CaptureNext, RemoveTemplate, Verify, cache, ghosts
<1>3. CASE ScanCount \/ ScanSlot \/ PowerLoss
  <2>1. ~valid'
      BY <1>3 DEF ScanCount, ScanSlot, PowerLoss, ScanInv
  <2> QED
      BY <2>1 DEF CacheInv
<1>4. CASE ScanEnd
  <2>1. UNCHANGED <<stored, used, doubtful>>
      BY <1>4 DEF ScanEnd, ghosts
  <2> QED
      BY <1>4, <2>1, ScanDone DEF CacheInv
<1>5. CASE CardReturns
  <2>1. PICK what \in Whys, ok \in BOOLEAN : EndWait(what, ok)
      BY <1>5 DEF CardReturns, Captured, Removed, Verified, Whys
  <2>2. UNCHANGED <<stored, used, valid, doubtful>>
      BY <2>1, EndRest
  <2>3. /\ running' = None <=> running = None
        /\ running # None => running'.type = running.type /\ running'.id = running.id /\ running'.stage = running.stage
      BY <1>a, <2>1, DisownFacts DEF EndWait
  <2> QED
      BY <2>2, <2>3 DEF CacheInv, Stage
<1>6. CASE Take
  <2>1. UNCHANGED <<stored, used, valid>> /\ running = None /\ Slots \ doubtful' \subseteq Slots \ doubtful
      BY <1>6 DEF Take, cache
  <2> QED
      BY <2>1 DEF CacheInv, Stage
<1>7. CASE TaskMove
  <2>1. /\ running # None /\ running \in Commands /\ used' = used /\ doubtful \subseteq doubtful'
        /\ \A s \in Slots \ {running.id} : (s \in stored' <=> s \in stored)
        /\ stored' = stored \/ running.type \in {"enroll", "remove"}
      BY <1>7, TaskFacts DEF TaskMove
  <2>2. CASE Done
      BY <2>2 DEF Done, ValidAfter, CacheInv
  <2>3. CASE ~Done
    <3>1. valid' = valid /\ ~Stage({"enroll", "remove"}, "done")
      <4>1. valid' = valid
          BY <1>7, <2>3 DEF TaskMove, TaskStep, Fingers, Look, VerifyEnds, EnrollFails, Store, Delete, cache
      <4>2. running.stage # "done" \/ running.type = "verify"
          BY <1>7, <2>3 DEF TaskMove, TaskStep, Fingers, Look, VerifyEnds, EnrollFails, GivesUp, Store, Delete, Stage
      <4> QED
          BY <4>1, <4>2 DEF Stage
    <3>2. ASSUME valid', NEW s \in Slots \ doubtful' PROVE s \in used <=> s \in stored
        BY <2>1, <3>1, <3>2 DEF CacheInv
    <3>3. ASSUME valid', NEW stage \in {"look", "model", "done"}, Moves(stage) PROVE CacheInv'
      <4>1. /\ running' # None /\ running'.stage = stage /\ running'.id = running.id /\ running'.type = running.type
            /\ stage # "done" => stored' = stored
          BY <1>a, <2>1, <3>3, StageFacts DEF Moves
      <4> QED
          BY <2>1, <3>2, <3>3, <4>1 DEF CacheInv, Stage
    <3>4. ASSUME valid', NEW type \in Kinds \cup {"failed"}, EndsAs(type) PROVE CacheInv'
      <4>1. stored' = stored \/ running.id \in doubtful'
          BY <3>4 DEF EndsAs
      <4> QED
          BY <2>1, <3>2, <3>4, <4>1 DEF CacheInv
    <3>5. CASE ~valid'
        BY <3>5 DEF CacheInv
    <3> QED
        BY <1>7, <3>3, <3>4, <3>5, TaskFacts DEF TaskMove
  <2> QED
      BY <2>2, <2>3
<1>9. CASE Straggles
  <2>1. doubtful' = Slots
      BY <1>9 DEF Straggles
  <2> QED
      BY <2>1 DEF CacheInv
<1>8. CASE UNCHANGED vars
    BY <1>1, <1>8 DEF vars, cache, ghosts
<1> QED
    BY <1>2, <1>3, <1>4, <1>5, <1>6, <1>7, <1>8, <1>9 DEF Next, TaskMove, TaskStep

LEMMA StepReady ==
    TypeInv /\ OwnInv /\ ForeignInv /\ ScanInv /\ CacheInv /\ ReadyInv /\ [Next]_vars => ReadyInv'
<1> SUFFICES ASSUME TypeInv, OwnInv, ForeignInv, ScanInv, CacheInv, ReadyInv, [Next]_vars
             PROVE  ReadyInv'
    OBVIOUS
<1>a. TypeOK
    BY DEF TypeInv
<1>1. ASSUME card.at # "wait", running # None PROVE running.id \notin Slots \ unsettled
    BY <1>1, NoOwn DEF ForeignInv, Known
<1>2. ASSUME card'.at # "ready" PROVE ReadyInv'
    BY <1>2 DEF ReadyInv, Ready
<1>3. CASE Ask
  <2>1. card.at # "wait" /\ UNCHANGED <<stored, used, doubtful, unsettled>>
      BY <1>3 DEF Ask, Idle, cache, ghosts
  <2>2. card'.at = "ready" => valid
      BY <1>3 DEF Ask
  <2> QED
      BY <1>1, <2>1, <2>2 DEF ReadyInv, Ready, CacheInv, Stage
<1>4. CASE ScanFails \/ BioInit \/ Enumerate \/ EnrollBegin \/ EnrollCancel
           \/ (\E s \in Slots : SetFriendlyName(s)) \/ PowerLoss \/ CardReturns
  <2>1. CASE CardReturns
      BY <1>2, <2>1 DEF CardReturns, Captured, Removed, Verified, EndWait, Idle
  <2>2. CASE ~CardReturns
    <3>1. card'.at \in {"idle", "start"}
        BY <1>4, <2>2, RestartHalts DEF ScanFails, BioInit, Enumerate, EnrollBegin, EnrollCancel, SetFriendlyName, Idle
    <3> QED
        BY <1>2, <3>1
  <2> QED
      BY <2>1, <2>2
<1>5. CASE CaptureNext \/ (\E s \in Slots : RemoveTemplate(s)) \/ (\E why \in {"touch", "token"} : Verify(why))
  <2>1. card'.at \in {"idle", "wait"}
      BY <1>5, HandAt
  <2> QED
      BY <1>2, <2>1
<1>6. CASE ScanCount \/ ScanSlot
  <2>1. card \in Wanting /\ card' \in {[card EXCEPT !.at = "scan"], [card EXCEPT !.next = @ + 1]}
        /\ card.at \in {"count", "scan"}
      BY <1>a, <1>6, CardFacts DEF ScanCount, ScanSlot
  <2>2. [card EXCEPT !.at = "scan"].at = "scan" /\ [card EXCEPT !.next = @ + 1].at = card.at
      BY <2>1 DEF Wanting
  <2> QED
      BY <1>2, <2>1, <2>2
<1>7. CASE ScanEnd
  <2>1. UNCHANGED <<stored, used, doubtful>>
      BY <1>7 DEF ScanEnd, ghosts
  <2> QED
      BY <1>7, <2>1, ScanDone DEF ReadyInv
<1>8. CASE Take
  <2>1. UNCHANGED <<card, stored, used, unsettled>> /\ Slots \ doubtful' \subseteq Slots \ doubtful
      BY <1>8 DEF Take, cache
  <2> QED
      BY <2>1 DEF ReadyInv, Ready
<1>9. CASE TaskMove
  <2>1. /\ running # None /\ UNCHANGED <<card, used>>
        /\ unsettled \subseteq unsettled' /\ doubtful \subseteq doubtful'
        /\ \A s \in Slots \ {running.id} : (s \in stored' <=> s \in stored)
      BY <1>9, TaskFacts DEF TaskMove
  <2>2. ASSUME card.at = "ready" PROVE ReadyInv'
    <3>1. running.id \notin Slots \ unsettled
        BY <1>1, <2>1, <2>2
    <3> QED
        BY <2>1, <3>1 DEF ReadyInv, Ready
  <2> QED
      BY <1>2, <2>1, <2>2
<1>10. CASE UNCHANGED vars
    BY <1>10 DEF vars, cache, ghosts, ReadyInv, Ready
<1>11. CASE Straggles
  <2>1. doubtful' = Slots
      BY <1>11 DEF Straggles
  <2> QED
      BY <2>1 DEF ReadyInv
<1> QED
    BY <1>3, <1>4, <1>5, <1>6, <1>7, <1>8, <1>9, <1>10, <1>11 DEF Next, TaskMove, TaskStep

-----------------------------------------------------------------------------
(* What is known of a settled slot *)

LEMMA GoodKept ==
    ASSUME NEW s \in Slots, Good(s),
           s \in stored' <=> s \in stored, s \in names' <=> s \in names, s \in foreign' <=> s \in foreign,
           s \in unsettled => s \in unsettled',
           pending' \in {pending, None}
    PROVE  Good(s)'
BY TemplateAssumption DEF Good

LEMMA EndSlot ==
    ASSUME TypeInv, CardReturns
    PROVE  \E what \in Whys, ok \in BOOLEAN :
              /\ EndWait(what, ok) /\ pending' \in {pending, None}
              /\ \A s \in Slots : s # card.slot \/ ~ok =>
                    (s \in names' <=> s \in names) /\ (s \in foreign' <=> s \in foreign)
              /\ ok /\ what \in {"enroll", "remove"} =>
                    card.slot \notin names' /\ (card.slot \in Slots => pending' # card.slot)
<1>1. PICK ok \in BOOLEAN : Captured(ok) \/ Removed(ok) \/ Verified("touch", ok) \/ Verified("token", ok)
    BY DEF CardReturns
<1>2. CASE Captured(ok)
  <2>1. EndWait("enroll", ok) /\ pending' = None
      BY <1>2 DEF Captured, PendingAfter
  <2>2. \/ ok /\ names' = names \ {card.slot} /\ foreign' = foreign \ {card.slot}
        \/ ~ok /\ names' = names /\ foreign' = foreign
      BY <1>2 DEF Captured, ClearName
  <2>3. card.slot \in Slots => None # card.slot
      BY TemplateAssumption
  <2> QED
      BY <2>1, <2>2, <2>3 DEF Whys
<1>3. CASE Removed(ok)
  <2>1. EndWait("remove", ok)
      BY <1>3 DEF Removed
  <2>2. \/ /\ ok /\ names' = names \ {card.slot} /\ foreign' = foreign \ {card.slot}
           /\ pending' = IF pending = card.slot THEN None ELSE pending
        \/ ~ok /\ names' = names /\ foreign' = foreign /\ pending' = pending
      BY <1>3 DEF Removed, ClearName
  <2>3. card.slot \in Slots => None # card.slot
      BY TemplateAssumption
  <2> QED
      BY <2>1, <2>2, <2>3 DEF Whys
<1>4. ASSUME NEW why \in {"touch", "token"}, Verified(why, ok)
      PROVE  EndWait(why, ok) /\ why \in Whys /\ UNCHANGED <<pending, names, foreign>>
    BY <1>4 DEF Verified, Whys
<1> QED
    BY <1>1, <1>2, <1>3, <1>4

LEMMA EndGood ==
    ASSUME TypeInv, OwnInv, SlotInv, CardReturns, NEW s \in Slots
    PROVE  Good(s)'
<1> SUFFICES ASSUME s \notin unsettled' PROVE Good(s)'
    BY DEF Good
<1>a. TypeOK /\ NamedInv
    BY DEF TypeInv
<1>1. PICK what \in Whys, ok \in BOOLEAN :
              /\ EndWait(what, ok) /\ pending' \in {pending, None}
              /\ \A n \in Slots : n # card.slot \/ ~ok =>
                    (n \in names' <=> n \in names) /\ (n \in foreign' <=> n \in foreign)
              /\ ok /\ what \in {"enroll", "remove"} =>
                    card.slot \notin names' /\ (card.slot \in Slots => pending' # card.slot)
    BY EndSlot
<1>2. /\ stored' = stored /\ card.at = "wait" /\ card.what = what
      /\ s # card.slot => (s \in unsettled' <=> s \in unsettled)
      /\ ~AnsweredOwn /\ card.slot \in Slots => card.slot \in unsettled'
      /\ AnsweredOwn /\ ~ok => unsettled' = unsettled
    BY <1>a, <1>1, EndRest, EndFacts
<1>3. CASE s # card.slot
  <2>1. Good(s)
      BY <1>3 DEF SlotInv, Waits
  <2> QED
      BY <1>1, <1>2, <1>3, <2>1, GoodKept
<1>4. CASE s = card.slot /\ ok
  <2>1. what \in {"enroll", "remove"}
      BY <1>a, <1>2, <1>4 DEF NamedInv
  <2> QED
      BY <1>1, <1>4, <2>1 DEF Good
<1>5. CASE s = card.slot /\ ~ok
  <2>1. AnsweredOwn
      BY <1>2, <1>5
  <2>2. 1 \in DOMAIN evtq /\ evtq[1].own
      BY <1>a, <2>1, AnsweredFacts
  <2>3. evtq[1].type # Awaited
      BY <1>a, <1>1, <1>5, <2>1, EndFacts DEF AnsweredOwn
  <2>4. evtq[1].type = "failed"
      BY <2>2, <2>3 DEF OwnInv
  <2>5. Good(s)
      BY <2>2, <2>4 DEF SlotInv, Unanswered
  <2> QED
      BY <1>1, <1>2, <1>5, <2>1, <2>5, GoodKept
<1> QED
    BY <1>3, <1>4, <1>5

LEMMA TaskGood ==
    ASSUME TypeInv, OwnInv, ForeignInv, SlotInv, TaskMove, NEW s \in Slots,
           ~Waits(s)' \/ Unanswered'
    PROVE  Good(s)'
<1> SUFFICES ASSUME s \notin unsettled' PROVE Good(s)'
    BY DEF Good
<1>1. /\ running # None /\ running \in Commands /\ cmdq' = cmdq /\ card' = card
      /\ UNCHANGED <<names, pending>> /\ unsettled \subseteq unsettled'
      /\ \A n \in Slots \ {running.id} : (n \in stored' <=> n \in stored) /\ (n \in foreign' <=> n \in foreign)
      /\ (\E stage \in {"look", "model", "done"} : Moves(stage)) \/ (\E type \in Kinds \cup {"failed"} : EndsAs(type))
    BY TaskFacts DEF TaskMove
<1>2. \A i \in DOMAIN evtq : ~evtq[i].own
    BY <1>1 DEF OwnInv
\* What an unanswered command was doing before
<1>3. ASSUME Unanswered'
      PROVE  \/ \E i \in DOMAIN cmdq : cmdq[i].own
             \/ running.own /\ running.stage # "done" /\ ((stored' = stored /\ foreign' = foreign) \/ running.id \in unsettled')
  <2>1. ASSUME NEW stage \in {"look", "model", "done"}, Moves(stage)
        PROVE  \/ \E i \in DOMAIN cmdq : cmdq[i].own
               \/ running.own /\ running.stage # "done" /\ stored' = stored /\ foreign' = foreign
    <3>1. running'.own = running.own /\ running'.stage = stage /\ evtq' = evtq /\ running.stage # "done"
        BY <1>1, <2>1, StageFacts DEF Moves, TypeInv
    <3>2. stage # "done" => stored' = stored /\ foreign' = foreign
        BY <2>1 DEF Moves
    <3> QED
        BY <1>1, <1>2, <1>3, <3>1, <3>2 DEF Unanswered
  <2>2. ASSUME NEW type \in Kinds \cup {"failed"}, EndsAs(type)
        PROVE  \/ \E i \in DOMAIN cmdq : cmdq[i].own
               \/ running.own /\ running.stage # "done" /\ ((stored' = stored /\ foreign' = foreign) \/ running.id \in unsettled')
    <3>1. Emit(type)
        BY <2>2 DEF EndsAs
    <3>2. /\ running' = None
          /\ \A i \in DOMAIN evtq : evtq'[i] = evtq[i]
          /\ \A i \in DOMAIN evtq' \ DOMAIN evtq : evtq'[i].type = type /\ evtq'[i].own = running.own
        BY <1>1, <3>1, EmitFacts DEF TypeInv
    <3>3. (\E i \in DOMAIN cmdq : cmdq[i].own) \/ (running.own /\ type = "failed")
        BY <1>1, <1>2, <1>3, <3>2 DEF Unanswered
    <3>4. running.type # "failed"
        BY <1>1 DEF Commands
    <3> QED
        BY <2>2, <3>3, <3>4 DEF EndsAs
  <2> QED
      BY <1>1, <2>1, <2>2
<1>4. CASE s # running.id
  <2>1. running.own => ~Waits(s)
      BY <1>1, <1>4 DEF OwnInv, AskedFor, Waits
  <2>2. ~Waits(s) \/ Unanswered
      BY <1>1, <1>3, <2>1 DEF Waits, Unanswered
  <2>3. Good(s)
      BY <2>2 DEF SlotInv
  <2> QED
      BY <1>1, <1>4, <2>3, GoodKept
<1>5. CASE s = running.id
  <2>1. running.own
      BY <1>1, <1>5 DEF ForeignInv, Known
  <2>2. card.at = "wait" /\ card.slot = s /\ cmdq = <<>>
      BY <1>1, <1>5, <2>1 DEF OwnInv, AskedFor
  <2>3. Unanswered'
      BY <1>1, <2>2 DEF Waits
  <2>4. ~\E i \in DOMAIN cmdq : cmdq[i].own
      BY <2>2, EmptyFacts
  <2>5. running.stage # "done" /\ stored' = stored /\ foreign' = foreign
      BY <1>3, <1>5, <2>3, <2>4
  <2>6. Good(s)
      BY <1>1, <2>1, <2>5 DEF SlotInv, Unanswered
  <2> QED
      BY <1>1, <2>5, <2>6, GoodKept
<1> QED
    BY <1>4, <1>5

LEMMA StepSlot ==
    TypeInv /\ OwnInv /\ ForeignInv /\ ReadyInv /\ SlotInv /\ [Next]_vars => SlotInv'
<1> SUFFICES ASSUME TypeInv, OwnInv, ForeignInv, ReadyInv, SlotInv, [Next]_vars,
                    NEW s \in Slots, ~Waits(s)' \/ Unanswered'
             PROVE  Good(s)'
    BY DEF SlotInv
<1>a. TypeOK
    BY DEF TypeInv
<1>b. card.at # "wait" => Good(s)
    BY DEF SlotInv, Waits
<1>1. CASE Ask \/ ScanFails \/ BioInit \/ Enumerate \/ EnrollCancel \/ ScanCount \/ ScanSlot \/ ScanEnd
  <2>1. card.at # "wait"
      BY <1>1 DEF Ask, ScanFails, BioInit, Enumerate, EnrollCancel, ScanCount, ScanSlot, ScanEnd,
                  Idle, Starting, Ready
  <2>2. /\ UNCHANGED <<stored, names, foreign, unsettled>>
        /\ pending' \in {pending, None}
    <3>1. CASE ScanCount
        BY <3>1 DEF ScanCount
    <3>2. CASE ScanSlot
        BY <3>2 DEF ScanSlot
    <3>3. CASE Ask \/ ScanFails \/ BioInit \/ Enumerate \/ EnrollCancel \/ ScanEnd
        BY <3>3 DEF Ask, ScanFails, BioInit, Enumerate, EnrollCancel, ScanEnd, ghosts
    <3> QED
        BY <1>1, <3>1, <3>2, <3>3
  <2> QED
      BY <1>b, <2>1, <2>2, GoodKept
<1>2. CASE EnrollBegin
  <2>1. /\ Ready /\ pending' = Min(Free) /\ Free # {} /\ Free \in SUBSET Nat
        /\ UNCHANGED <<stored, names, foreign>> /\ unsettled' = unsettled \cup ({pending'} \cap doubtful)
      BY <1>2, TemplateAssumption DEF EnrollBegin, Free, ghosts
  <2>2. pending' \in Slots /\ pending' \notin used
      BY <2>1, Lowest DEF Free
  <2>3. pending' \notin unsettled' => pending' \notin stored
      BY <2>1, <2>2 DEF ReadyInv
  <2>4. Good(s)
      BY <1>b, <2>1 DEF Ready
  <2> QED
      BY <2>1, <2>3, <2>4 DEF Good
<1>3. ASSUME NEW n \in Slots, SetFriendlyName(n) PROVE Good(s)'
  <2>1. /\ Ready /\ n \in used /\ names' = names \cup {n} /\ foreign' = foreign \ {n}
        /\ unsettled' = unsettled \cup ({n} \cap doubtful)
        /\ UNCHANGED <<stored, pending>>
      BY <1>3 DEF SetFriendlyName
  <2>2. Good(s)
      BY <1>b, <2>1 DEF Ready
  <2>3. CASE s = n
      BY <2>1, <2>2, <2>3 DEF Good, ReadyInv
  <2>4. CASE s # n
      BY <2>1, <2>2, <2>4, GoodKept
  <2> QED
      BY <2>3, <2>4
<1>4. CASE CaptureNext \/ (\E n \in Slots : RemoveTemplate(n)) \/ (\E why \in {"touch", "token"} : Verify(why))
  <2>1. card.at # "wait"
      BY <1>4 DEF CaptureNext, RemoveTemplate, Verify, Idle, Ready
  <2>2. UNCHANGED <<stored, names, foreign, unsettled>> /\ pending' \in {pending, None}
      BY <1>4 DEF CaptureNext, RemoveTemplate, Verify, ghosts
  <2> QED
      BY <1>b, <2>1, <2>2, GoodKept
<1>5. CASE CardReturns
    BY <1>5, EndGood
<1>6. CASE Take
  <2>1. /\ 1 \in DOMAIN cmdq /\ running' = cmdq[1] /\ UNCHANGED <<card, evtq, stored, names, pending, unsettled, foreign>>
        /\ \A i \in DOMAIN cmdq' : i + 1 \in DOMAIN cmdq /\ cmdq'[i] = cmdq[i + 1]
      BY <1>a, <1>6, TakeFacts DEF Take
  <2>2. ~Waits(s) \/ Unanswered
      BY <2>1 DEF Waits, Unanswered
  <2>3. Good(s)
      BY <2>2 DEF SlotInv
  <2> QED
      BY <2>1, <2>3, GoodKept
<1>7. CASE TaskMove
    BY <1>7, TaskGood
<1>8. CASE PowerLoss
  <2>1. /\ pending' = None /\ UNCHANGED <<stored, names, foreign>>
        /\ unsettled \subseteq unsettled' /\ (Waits(s) => s \in unsettled')
      BY <1>8 DEF PowerLoss
  <2>2. Waits(s) => Good(s)'
      BY <2>1 DEF Good
  <2>3. ~Waits(s) => Good(s)
      BY DEF SlotInv
  <2> QED
      BY <2>1, <2>2, <2>3, GoodKept
<1>9. CASE Straggles \/ UNCHANGED vars
    BY <1>9 DEF Straggles, vars, queues, ghosts, SlotInv, Waits, Unanswered, Good
<1> QED
    BY <1>1, <1>2, <1>3, <1>4, <1>5, <1>6, <1>7, <1>8, <1>9 DEF Next, TaskMove, TaskStep

-----------------------------------------------------------------------------
(* What the run checks, for every sensor and every queue *)

IndInv ==
    /\ TypeInv /\ OwnInv /\ CleanInv /\ ForeignInv /\ ResultInv
    /\ ScanInv /\ CacheInv /\ ReadyInv /\ SlotInv

LEMMA InitInv == Init => IndInv
<1> SUFFICES ASSUME Init PROVE IndInv
    OBVIOUS
<1>1. TypeInv
    BY InitType
<1>2. DOMAIN cmdq = {} /\ DOMAIN evtq = {} /\ running = None /\ card.at = "start" /\ ~valid /\ names = {} /\ pending = None
    BY EmptyFacts DEF Init, Starting
<1>3. OwnInv /\ CleanInv /\ ForeignInv /\ ResultInv
    BY <1>2 DEF OwnInv, CleanInv, ForeignInv, ResultInv
<1>4. ScanInv /\ CacheInv /\ ReadyInv
    BY <1>2 DEF Init, ScanInv, CacheInv, ReadyInv, Ready, Scanning
<1>5. SlotInv
    BY <1>2, TemplateAssumption DEF SlotInv, Good
<1> QED
    BY <1>1, <1>3, <1>4, <1>5 DEF IndInv

LEMMA Inductive == Spec => []IndInv
<1>1. IndInv /\ [Next]_vars => IndInv'
    BY StepType, StepOwn, StepClean, StepForeign, StepResult, StepScan, StepCache, StepReady, StepSlot DEF IndInv
<1> QED
    BY InitInv, <1>1, PTL DEF Spec

(* The queues, the cache and the requests keep their forms, and the queues *)
(* their limits (biometric.c:33-85, 366-404).                              *)
THEOREM TypeCorrect == Spec => []TypeOK
<1>1. IndInv => TypeOK
    BY DEF IndInv, TypeInv
<1> QED
    BY Inductive, <1>1, PTL

(* While nothing else was left running, whatever event ends a wait is the  *)
(* answer to its own command (biometric.c:366-404).                        *)
THEOREM OwnAnswers == Spec => []AnswersOwn
<1>1. IndInv => AnswersOwn
    BY DEF IndInv, CleanInv, AnswersOwn
<1> QED
    BY Inductive, <1>1, PTL

(* A cache of the slots that was read while bio_task slept is exact when   *)
(* it is used, whatever bio_task did since, but for a slot that was        *)
(* misread, or whose store or delete was reported as failed and was not    *)
(* (biometric.c:48-85, 220-248).                                           *)
THEOREM CacheExact == Spec => []CacheTrue
<1>1. IndInv => CacheTrue
  <2>1. TypeInv => used \subseteq Slots /\ stored \subseteq Slots
      BY DEF TypeInv, TypeOK
  <2> QED
      BY <2>1 DEF IndInv, CacheInv, CacheTrue
<1> QED
    BY Inductive, <1>1, PTL

(* The slot an enrolment was promised is free, unless a command for it was *)
(* left running or reported as failed and was not, or the slot was         *)
(* doubtful when it was promised (cbor_bio_enroll.c:302-309, 341).         *)
THEOREM PromiseFree == Spec => []PendingFree
<1>1. IndInv => PendingFree
  <2>1. TypeInv => pending \in Slots \cup {None}
      BY DEF TypeInv, TypeOK
  <2> QED
      BY <2>1 DEF IndInv, SlotInv, Good, PendingFree
<1> QED
    BY Inductive, <1>1, PTL

(* A friendly name belongs to the stored finger it was given to, unless a  *)
(* command for its slot was left running or reported as failed and was     *)
(* not, or the slot was doubtful when it was used                          *)
(* (cbor_bio_enroll.c:338, 405).                                           *)
THEOREM NamesTheirs == Spec => []NamesOwn
<1>1. IndInv => NamesOwn
  <2>1. TypeInv => names \subseteq Slots
      BY DEF TypeInv, TypeOK
  <2> QED
      BY <2>1 DEF IndInv, SlotInv, Good, NamesOwn
<1> QED
    BY Inductive, <1>1, PTL

(* When the answer of its own command says so, the finger asked for is in  *)
(* the sensor, or is gone from it, until a reply of the sensor is given up *)
(* (biometric.c:182-248, r302.c:41-113).                                   *)
THEOREM AnswersTrue == Spec => []AnswerTrue
<1>1. IndInv => AnswerTrue
  <2> SUFFICES ASSUME IndInv, ~late, evtq # <<>>, Head(evtq).own
               PROVE  Says(Head(evtq).type, card.slot)
      BY DEF AnswerTrue, Says
  <2>1. evtq \in Seq(Events)
      BY TypeFacts DEF IndInv, TypeInv
  <2>2. 1 \in DOMAIN evtq /\ Head(evtq) = evtq[1]
      BY <2>1, QueueFacts
  <2> QED
      BY <2>2 DEF IndInv, ResultInv
<1> QED
    BY Inductive, <1>1, PTL

-----------------------------------------------------------------------------
(***************************************************************************)
(* The sensor driver: module Sensor                                        *)
(***************************************************************************)
Places == {"image1", "image2", "off", "tz1", "tz2", "search", "count", "model", "store",
           "load", "delete", "password", "done", "failed", "match"}
Runs == [op : {"none", "start", "verify", "enroll", "remove", "scan"}, at : Places, slot : Slots]
Orders == [do : Places \cup {"image", "tz"}, arg : Nat]
Codes == {"ok", "bad", "no", "nofinger"}
Replies == [code : Codes, size : {1, 3, 5}, data : Slots, match : BOOLEAN]

(* Who waits for a reply is in the middle of a run, and a reply as long as *)
(* that to a search which says ok is one to a search.                      *)
LineInv ==
    /\ run \in [Tasks -> Runs] /\ tx \in Seq(Orders) /\ rx \in Seq(Replies)
    /\ \A i \in DOMAIN rx : rx[i].code = "ok" /\ rx[i].size = 5 => rx[i].match
    /\ waiting \subseteq Tasks /\ \A t \in waiting : ~Rests(t)

(* What holds of a clean run at each of its places.                        *)
Allowed == [verify |-> {"image1", "tz1", "search", "off", "match", "failed"},
            enroll |-> {"image1", "tz1", "off", "image2", "tz2", "model", "store", "count",
                        "done", "failed"},
            remove |-> {"delete", "count", "done", "failed"}]
Fits(op, at, slot) ==
    /\ op \in {"verify", "enroll", "remove"} /\ at \in Allowed[op]
    /\ changed => at \in {"count", "done"}
    /\ at = "tz1" => pad # None /\ image = pad
    /\ at = "search" => pad # None /\ buffer[1] = pad
    /\ at = "tz2" => image = pad
    /\ at = "model" => buffer[2] = pad
    /\ at = "store" => buffer[1] = pad
    /\ at \in {"count", "done"} => library[slot] = IF op = "enroll" THEN pad ELSE None
    /\ at = "match" => pad # None /\ library[slot] = pad

(* A clean run has one command or one reply on the line, its own: it is as *)
(* far as its place says, or as far as the reply takes it.                 *)
Code == CodeOf(Command("bio").do, Head(rx))
NextSlot == IF run["bio"].at = "search" /\ Code = "ok" THEN Head(rx).data ELSE run["bio"].slot
StepInv == clean =>
    LET r == run["bio"]
    IN  /\ Rests("card")
        /\ rx = <<>> => Fits(r.op, r.at, r.slot)
        /\ rx # <<>> => Fits(r.op, After(r.op, r.at, Code), NextSlot)
        /\ "bio" \notin waiting => Quiet
        /\ "bio" \in waiting => \/ Len(tx) = 1 /\ Head(tx) = Command("bio") /\ rx = <<>>
                                \/ tx = <<>> /\ Len(rx) = 1

LEMMA SlotFacts == Slots \subseteq Nat /\ 0 \in Slots
<1>1. PICK s \in Slots : TRUE
    BY TemplateAssumption
<1>2. 0 \in 0..s
    BY <1>1, TemplateAssumption
<1> QED
    BY <1>1, <1>2, TemplateAssumption

LEMMA CommandFacts ==
    ASSUME LineInv, NEW t \in Tasks
    PROVE  Command(t) \in Orders
<1>1. run[t] \in Runs /\ run[t].at \in Places /\ run[t].slot \in Nat
    BY SlotFacts DEF LineInv, Runs
<1>2. CASE run[t].at \in {"image1", "image2", "off"}
    BY <1>2, <1>1 DEF Command, Orders
<1>3. CASE run[t].at \in {"tz1", "tz2"}
    BY <1>3, <1>1 DEF Command, Orders
<1>4. CASE run[t].at \in {"store", "load", "delete"}
    BY <1>4, <1>1 DEF Command, Orders, Places
<1>5. CASE run[t].at \notin {"image1", "image2", "off", "tz1", "tz2", "store", "load", "delete"}
    BY <1>5, <1>1 DEF Command, Orders
<1> QED
    BY <1>2, <1>3, <1>4, <1>5

(* A reply takes the place of the oldest command.                          *)
LEMMA AnswerFacts ==
    ASSUME LineInv, NEW code \in Codes, NEW size \in {1, 3, 5}, NEW data \in Slots,
           tx # <<>>, Answer(code, size, data), code = "ok" /\ size = 5 => Head(tx).do = "search"
    PROVE  /\ tx' \in Seq(Orders) /\ rx' \in Seq(Replies) /\ rx' # <<>>
           /\ Len(tx') = Len(tx) - 1 /\ Len(rx') = Len(rx) + 1
           /\ \A i \in DOMAIN rx' : rx'[i].code = "ok" /\ rx'[i].size = 5 => rx'[i].match
           /\ rx = <<>> => Head(rx').code = code /\ Head(rx').size = size /\ Head(rx').data = data
<1> DEFINE r == [code |-> code, size |-> size, data |-> data,
                 match |-> code = "ok" /\ Head(tx).do = "search"]
<1>1. r \in Replies /\ r.code = code /\ r.size = size /\ r.data = data
      /\ (r.code = "ok" /\ r.size = 5 => r.match)
    BY DEF Replies
<1>2. tx' = Tail(tx) /\ rx' = Append(rx, r)
    BY DEF Answer
<1> HIDE DEF r
<1>3. tx \in Seq(Orders) /\ rx \in Seq(Replies)
    BY DEF LineInv
<1>4. tx' \in Seq(Orders) /\ Len(tx') = Len(tx) - 1
    BY <1>2, <1>3, QueueFacts
<1>5. /\ rx' \in Seq(Replies) /\ Len(rx') = Len(rx) + 1 /\ rx' # <<>>
      /\ \A i \in DOMAIN rx' : rx'[i] = IF i \in DOMAIN rx THEN rx[i] ELSE r
    <2>1. /\ rx' \in Seq(Replies) /\ Len(rx') = Len(rx) + 1
          /\ \A i \in DOMAIN rx' : rx'[i] = IF i \in DOMAIN rx THEN rx[i] ELSE r
        BY <1>1, <1>2, <1>3, QueueFacts
    <2>2. Len(rx) \in Nat
        BY <1>3, QueueFacts
    <2>3. Len(rx') # 0
        BY <2>1, <2>2
    <2> QED
        BY <2>1, <2>3, QueueFacts
<1>6. rx = <<>> => Head(rx') = r
    <2>1. rx = <<>> => DOMAIN rx = {}
        OBVIOUS
    <2>2. Head(rx') = rx'[1] /\ 1 \in DOMAIN rx'
        BY <1>5, QueueFacts
    <2> QED
        BY <1>5, <2>1, <2>2
<1>7. \A i \in DOMAIN rx' : rx'[i].code = "ok" /\ rx'[i].size = 5 => rx'[i].match
    BY <1>1, <1>5 DEF LineInv
<1> QED
    BY <1>1, <1>4, <1>5, <1>6, <1>7

(* A reply is read and the place of a run moves.                           *)
LEMMA AfterFacts ==
    ASSUME NEW op, NEW at \in Places, NEW code
    PROVE  /\ After(op, at, code) \in Places
           /\ After(op, at, code) = "match" => at = "search" /\ code = "ok"
<1>1. AfterTz(op, code) \in {"off", "search", "failed", "image1"}
    BY DEF AfterTz
<1>2. CASE at \in {"image1", "image2", "off"}
    BY <1>2 DEF After, Places
<1>3. CASE at \in {"tz1", "search", "count"}
    BY <1>1, <1>3 DEF After, Places
<1>4. CASE at \notin {"image1", "image2", "off", "tz1", "search", "count"}
    BY <1>4 DEF After, Places
<1> QED
    BY <1>2, <1>3, <1>4

LEMMA ScanFacts ==
    ASSUME NEW r \in Runs, NEW code, NEW next \in ScanAfter(r, code)
    PROVE  next \in Runs
<1>1. r.slot \in Slots /\ \A a \in Places : [r EXCEPT !.at = a] \in Runs
    BY DEF Runs
<1>2. \A s \in Slots : [r EXCEPT !.at = "load", !.slot = s] \in Runs
    BY DEF Runs, Places
<1>3. "failed" \in Places /\ "done" \in Places
    BY DEF Places
<1> QED
    BY <1>1, <1>2, <1>3 DEF ScanAfter

LEMMA GoOnFacts ==
    ASSUME LineInv, NEW t \in waiting, NEW code, NEW data \in Slots, GoOn(t, code, data)
    PROVE  /\ run' \in [Tasks -> Runs] /\ \A u \in Tasks \ {t} : run'[u] = run[u]
           /\ waiting' = waiting \ {t}
           /\ Matched(t) => t = "bio" /\ run["bio"].at = "search" /\ code = "ok"
           /\ t = "bio" => run'["bio"] = [run["bio"] EXCEPT
                  !.at = After(run["bio"].op, run["bio"].at, code),
                  !.slot = IF run["bio"].at = "search" /\ code = "ok" THEN data ELSE run["bio"].slot]
<1>1. t \in Tasks /\ run[t] \in Runs /\ run[t].at \in Places /\ run[t].slot \in Slots
    BY DEF LineInv, Runs
<1>2. CASE t = "card"
    <2>1. PICK next \in ScanAfter(run[t], code) : run' = [run EXCEPT ![t] = next]
        BY <1>2 DEF GoOn
    <2>2. next \in Runs
        BY <1>1, <2>1, ScanFacts
    <2> QED
        BY <1>1, <1>2, <2>1, <2>2 DEF GoOn, LineInv, Matched
<1>3. CASE t # "card"
    <2>1. t = "bio"
        BY <1>1, <1>3 DEF Tasks
    <2> DEFINE at == After(run["bio"].op, run["bio"].at, code)
               slot == IF run["bio"].at = "search" /\ code = "ok" THEN data ELSE run["bio"].slot
    <2>2. at \in Places /\ slot \in Slots
        BY <1>1, <2>1, AfterFacts
    <2>3. at = "match" => run["bio"].at = "search" /\ code = "ok"
        BY <1>1, <2>1, AfterFacts
    <2>4. run' = [run EXCEPT !["bio"] = [run["bio"] EXCEPT !.at = at, !.slot = slot]]
        BY <2>1 DEF GoOn
    <2> HIDE DEF at, slot
    <2>5. [run["bio"] EXCEPT !.at = at, !.slot = slot] \in Runs
          /\ [run["bio"] EXCEPT !.at = at, !.slot = slot].at = at
        BY <1>1, <2>1, <2>2 DEF Runs
    <2>6. run' \in [Tasks -> Runs] /\ \A u \in Tasks \ {t} : run'[u] = run[u]
        BY <1>1, <2>1, <2>4, <2>5 DEF LineInv
    <2>7. run'["bio"] = [run["bio"] EXCEPT !.at = at, !.slot = slot] /\ run'["bio"].at = at
        BY <1>1, <2>1, <2>4, <2>5 DEF LineInv
    <2>8. waiting' = waiting \ {t}
        BY DEF GoOn
    <2> QED
        BY <2>1, <2>3, <2>6, <2>7, <2>8 DEF Matched, at, slot
<1> QED
    BY <1>2, <1>3

LEMMA LineInit == SensorInit => LineInv
<1> SUFFICES ASSUME SensorInit PROVE LineInv
    OBVIOUS
<1>1. Start \in Runs /\ NoRun \in Runs
    BY SlotFacts DEF Start, NoRun, Runs, Places
<1>2. tx \in Seq(Orders) /\ rx \in Seq(Replies) /\ DOMAIN rx = {}
    BY DEF SensorInit
<1> QED
    BY <1>1, <1>2 DEF SensorInit, LineInv, Tasks

LEMMA LineAnswer ==
    ASSUME LineInv, NEW code \in Codes, NEW size \in {1, 3, 5}, NEW data \in Slots,
           tx # <<>>, Answer(code, size, data), code = "ok" /\ size = 5 => Head(tx).do = "search",
           UNCHANGED <<run, waiting>>
    PROVE  LineInv'
<1>1. /\ tx' \in Seq(Orders) /\ rx' \in Seq(Replies)
      /\ \A i \in DOMAIN rx' : rx'[i].code = "ok" /\ rx'[i].size = 5 => rx'[i].match
    BY AnswerFacts
<1> QED
    BY <1>1 DEF LineInv, Rests

(* A sensor's step answers the oldest command.                             *)
SensorStep ==
    \/ Fails \/ TakeImage \/ Convert \/ Combine \/ StoreModel \/ DeleteModel
    \/ LoadModel \/ Search \/ Count \/ Password

LEMMA SensorAnswers ==
    ASSUME SensorStep
    PROVE  /\ tx # <<>> /\ UNCHANGED <<run, waiting, clean, from>>
           /\ \E code \in Codes, size \in {1, 3, 5}, data \in Slots :
                 Answer(code, size, data) /\ (code = "ok" /\ size = 5 => Head(tx).do = "search")
<1>1. 0 \in Slots
    BY SlotFacts
<1>2. CASE Fails
    <2>1. Answer("bad", 1, 0)
        BY <1>2 DEF Fails
    <2> QED
        BY <1>1, <1>2, <2>1 DEF Fails, history, Codes
<1>3. CASE TakeImage
    <2>1. PICK f \in Prints \cup {None} : Answer(IF f = None THEN "nofinger" ELSE "ok", 1, 0)
        BY <1>3 DEF TakeImage
    <2>2. (IF f = None THEN "nofinger" ELSE "ok") \in Codes
        BY DEF Codes
    <2> QED
        BY <1>1, <1>3, <2>1, <2>2 DEF TakeImage, Asked
<1>4. CASE Convert \/ Combine \/ StoreModel \/ DeleteModel \/ Password
    <2>1. Answer("ok", 1, 0)
        BY <1>4 DEF Convert, Combine, StoreModel, DeleteModel, Password
    <2> QED
        BY <1>1, <1>4, <2>1 DEF Convert, Combine, StoreModel, DeleteModel, Password, history,
                                Asked, Codes
<1>5. CASE LoadModel
    <2>1. Answer("ok", 1, 0) \/ Answer("no", 1, 0)
        BY <1>5 DEF LoadModel
    <2> QED
        BY <1>1, <1>5, <2>1 DEF LoadModel, Asked, history, Codes
<1>6. CASE Search
    <2>1. Answer("no", 5, 0) \/ \E s \in Templates : Answer("ok", 5, s)
        BY <1>6 DEF Search
    <2>2. Templates \subseteq Slots
        BY DEF Templates
    <2>3. tx # <<>> /\ Head(tx).do = "search" /\ UNCHANGED <<run, waiting, clean, from>>
        BY <1>6 DEF Search, Asked, history
    <2> QED
        BY <1>1, <2>1, <2>2, <2>3 DEF Codes
<1>7. CASE Count
    <2>1. Answer("ok", 3, 0)
        BY <1>7 DEF Count
    <2> QED
        BY <1>1, <1>7, <2>1 DEF Count, Asked, history, Codes
<1> QED
    BY <1>2, <1>3, <1>4, <1>5, <1>6, <1>7 DEF SensorStep

LEMMA LineSensor == ASSUME LineInv, SensorStep PROVE LineInv'
<1>1. tx # <<>> /\ UNCHANGED <<run, waiting>>
    BY SensorAnswers
<1>2. PICK code \in Codes, size \in {1, 3, 5}, data \in Slots :
          Answer(code, size, data) /\ (code = "ok" /\ size = 5 => Head(tx).do = "search")
    BY SensorAnswers
<1> QED
    BY <1>1, <1>2, LineAnswer

LEMMA LineBegin ==
    ASSUME LineInv, NEW t \in Tasks, NEW op \in {"verify", "enroll", "remove", "scan"}, NEW s \in Slots,
           Begin(t, op, s)
    PROVE  LineInv'
<1> DEFINE u == Other(t)
           begun == [op |-> op, at |-> First[op], slot |-> s]
<1>1. u \in Tasks /\ u # t /\ Tasks = {t, u}
    BY DEF Tasks, Other
<1>2. First[op] \in Places
    BY DEF First, Places
<1>3. begun \in Runs /\ NoRun \in Runs
    BY <1>2, SlotFacts DEF Runs, NoRun, Places
<1>4. run' = [run EXCEPT ![t] = begun, ![u] = IF Rests(u) THEN NoRun ELSE run[u]]
    BY <1>1 DEF Begin, LineInv
<1>5. Rests(t) /\ UNCHANGED <<tx, rx, waiting>>
    BY DEF Begin
<1> HIDE DEF u, begun
<1>6. run' \in [Tasks -> Runs]
    BY <1>1, <1>3, <1>4 DEF LineInv
<1>7. ASSUME NEW v \in waiting'
      PROVE  run'[v] = run[v] /\ ~Rests(v)
    <2>1. v \in waiting /\ ~Rests(v) /\ v # t /\ v \in Tasks
        BY <1>5, <1>7 DEF LineInv
    <2> QED
        BY <1>1, <1>3, <1>4, <2>1 DEF LineInv
<1> QED
    BY <1>5, <1>6, <1>7 DEF LineInv, Rests

LEMMA LineStep == LineInv /\ [SensorNext]_sensorVars => LineInv'
<1> SUFFICES ASSUME LineInv, [SensorNext]_sensorVars PROVE LineInv'
    OBVIOUS
<1>1. CASE SensorStep
    BY <1>1, LineSensor
<1>2. CASE Begin("bio", "verify", 0) \/ Begin("card", "scan", 0)
    BY <1>2, LineBegin, SlotFacts DEF Tasks
<1>3. CASE \E s \in Slots : Begin("bio", "enroll", s) \/ Begin("bio", "remove", s)
    BY <1>3, LineBegin DEF Tasks
<1>4. ASSUME NEW t \in Tasks, Send(t) PROVE LineInv'
    <2>1. Command(t) \in Orders
        BY CommandFacts
    <2>2. tx' = Append(tx, Command(t)) \/ tx' = <<>>
        BY <1>4 DEF Send
    <2>3. tx' \in Seq(Orders)
        <3>1. tx \in Seq(Orders) /\ <<>> \in Seq(Orders)
            BY DEF LineInv
        <3>2. Append(tx, Command(t)) \in Seq(Orders)
            BY <2>1, <3>1, QueueFacts
        <3> QED
            BY <2>2, <3>1, <3>2
    <2> QED
        BY <1>4, <2>3 DEF Send, LineInv, history, Rests
<1>5. ASSUME rx # <<>>, rx' = Tail(rx)
      PROVE  rx' \in Seq(Replies)
             /\ \A i \in DOMAIN rx' : rx'[i].code = "ok" /\ rx'[i].size = 5 => rx'[i].match
    BY <1>5, QueueFacts DEF LineInv
<1>6. ASSUME NEW t \in waiting, NEW code, NEW data \in Slots, GoOn(t, code, data),
             tx' = tx, rx' = rx \/ (rx # <<>> /\ rx' = Tail(rx))
      PROVE LineInv'
    <2>1. /\ run' \in [Tasks -> Runs] /\ \A u \in Tasks \ {t} : run'[u] = run[u]
          /\ waiting' = waiting \ {t}
        BY <1>6, GoOnFacts
    <2>2. \A u \in waiting' : run'[u] = run[u] /\ ~Rests(u)
        BY <2>1 DEF LineInv
    <2>3. rx' \in Seq(Replies)
          /\ \A i \in DOMAIN rx' : rx'[i].code = "ok" /\ rx'[i].size = 5 => rx'[i].match
        BY <1>5, <1>6 DEF LineInv
    <2> QED
        BY <1>6, <2>1, <2>2, <2>3 DEF LineInv, Rests
<1>7. ASSUME NEW t \in Tasks, Receive(t) PROVE LineInv'
    <2>1. rx # <<>> /\ Head(rx) \in Replies
        BY <1>7, QueueFacts DEF Receive, LineInv
    <2>2. Head(rx).data \in Slots
        BY <2>1 DEF Replies
    <2> QED
        BY <1>6, <1>7, <2>2 DEF Receive
<1>8. ASSUME NEW t \in Tasks, NoReply(t) PROVE LineInv'
    BY <1>6, <1>8 DEF NoReply, sensor
<1>9. CASE Tear
    BY <1>5, <1>9 DEF Tear, LineInv, Rests, history
<1>10. CASE GiveUp
    <2>1. "failed" \in Places /\ run["bio"] \in Runs /\ "bio" \in Tasks
        BY DEF Places, LineInv, Tasks
    <2>2. [run["bio"] EXCEPT !.at = "failed"] \in Runs
        BY <2>1 DEF Runs
    <2>3. run' = [run EXCEPT !["bio"] = [run["bio"] EXCEPT !.at = "failed"]]
        BY <1>10 DEF GiveUp
    <2>4. run' \in [Tasks -> Runs] /\ \A u \in Tasks \ {"bio"} : run'[u] = run[u]
        BY <2>1, <2>2, <2>3 DEF LineInv
    <2> QED
        BY <1>10, <2>4 DEF GiveUp, LineInv, Rests, history
<1>11. CASE Restart
    <2>1. Start \in Runs /\ NoRun \in Runs
        BY SlotFacts DEF Start, NoRun, Runs, Places
    <2>2. rx' = <<>> /\ rx' \in Seq(Replies) /\ DOMAIN rx' = {}
        BY <1>11 DEF Restart
    <2> QED
        BY <1>11, <2>1, <2>2 DEF Restart, LineInv, Tasks, sensor
<1>12. CASE UNCHANGED sensorVars
    BY <1>12 DEF sensorVars, LineInv, Rests
<1> QED
    BY <1>1, <1>2, <1>3, <1>4, <1>7, <1>8, <1>9, <1>10, <1>11, <1>12 DEF SensorNext, SensorStep

(* A match is read from a reply to a search: only a reply to a search is   *)
(* as long as the driver demands of it.                                    *)
LEMMA MatchStep ==
    ASSUME LineInv, MatchFromSearch, [SensorNext]_sensorVars
    PROVE  MatchFromSearch'
<1>1. CASE SensorStep
    BY <1>1, SensorAnswers DEF MatchFromSearch
<1>2. ASSUME NEW t \in Tasks, NEW op \in {"verify", "enroll", "remove", "scan"}, NEW s \in Slots,
             Begin(t, op, s)
      PROVE  MatchFromSearch'
    BY <1>2, SensorAssumption DEF Begin, MatchFromSearch
<1>3. CASE Begin("bio", "verify", 0) \/ Begin("card", "scan", 0)
    BY <1>2, <1>3, SlotFacts DEF Tasks
<1>4. CASE \E s \in Slots : Begin("bio", "enroll", s) \/ Begin("bio", "remove", s)
    BY <1>2, <1>4 DEF Tasks
<1>5. CASE Tear \/ \E t \in Tasks : Send(t)
    BY <1>5 DEF Send, Tear, history, MatchFromSearch
<1>6. ASSUME NEW t \in Tasks, Receive(t) PROVE MatchFromSearch'
    <2> DEFINE code == CodeOf(Command(t).do, Head(rx))
    <2>1. /\ t \in waiting /\ rx # <<>> /\ GoOn(t, code, Head(rx).data)
          /\ from' = IF Matched(t) THEN IF Head(rx).match THEN "search" ELSE "other" ELSE from
        BY <1>6 DEF Receive
    <2>2. 1 \in DOMAIN rx /\ Head(rx) = rx[1] /\ Head(rx) \in Replies
        BY <2>1, QueueFacts DEF LineInv
    <2>3. Head(rx).data \in Slots /\ Head(rx).size \in {1, 3, 5}
        BY <2>2 DEF Replies
    <2>4. Head(rx).code = "ok" /\ Head(rx).size = 5 => Head(rx).match
        BY <2>2 DEF LineInv
    <2> HIDE DEF code
    <2>5. CASE Matched(t)
        <3>1. t = "bio" /\ run["bio"].at = "search" /\ code = "ok"
            BY <2>1, <2>3, <2>5, GoOnFacts
        <3>2. Command(t).do = "search"
            BY <3>1 DEF Command
        <3>3. Head(rx).code = "ok" /\ ~(Head(rx).size < 5)
            BY <3>1, <3>2 DEF code, CodeOf, Needed
        <3>4. Head(rx).size = 5
            BY <2>3, <3>3
        <3> QED
            BY <2>1, <2>4, <2>5, <3>3, <3>4 DEF MatchFromSearch
    <2>6. CASE ~Matched(t)
        <3>1. from' = from
            BY <2>1, <2>6
        <3>2. CASE t = "bio"
            BY <2>6, <3>2 DEF Matched, MatchFromSearch
        <3>3. CASE t # "bio"
            <4>1. run'["bio"] = run["bio"]
                BY <2>1, <2>3, <3>3, GoOnFacts DEF Tasks
            <4> QED
                BY <3>1, <4>1 DEF MatchFromSearch
        <3> QED
            BY <3>2, <3>3
    <2> QED
        BY <2>5, <2>6
<1>7. ASSUME NEW t \in Tasks, NoReply(t) PROVE MatchFromSearch'
    <2>1. PICK code \in {"ok", "no", "nofinger", "error"} : \E data \in Slots : GoOn(t, code, data)
        BY <1>7 DEF NoReply
    <2>2. t \in waiting /\ from' = IF Matched(t) THEN "nothing" ELSE from
        BY <1>7 DEF NoReply
    <2>3. CASE Matched(t)
        BY <2>2, <2>3 DEF MatchFromSearch
    <2>4. CASE ~Matched(t)
        <3>1. CASE t = "bio"
            BY <2>4, <3>1 DEF Matched, MatchFromSearch
        <3>2. CASE t # "bio"
            <4>1. run'["bio"] = run["bio"]
                BY <2>1, <2>2, <3>2, GoOnFacts DEF Tasks
            <4> QED
                BY <2>2, <2>4, <4>1 DEF MatchFromSearch
        <3> QED
            BY <3>1, <3>2
    <2> QED
        BY <2>3, <2>4
<1>8. CASE GiveUp
    <2>1. run'["bio"].at = "failed"
        <3>1. run["bio"] \in Runs /\ "bio" \in Tasks
            BY DEF LineInv, Tasks
        <3>2. [run["bio"] EXCEPT !.at = "failed"].at = "failed"
            BY <3>1 DEF Runs
        <3> QED
            BY <1>8, <3>1, <3>2 DEF GiveUp, LineInv
    <2> QED
        BY <2>1 DEF MatchFromSearch
<1>9. CASE Restart \/ UNCHANGED sensorVars
    BY <1>9 DEF Restart, Start, sensorVars, history, MatchFromSearch
<1> QED
    BY <1>1, <1>3, <1>4, <1>5, <1>6, <1>7, <1>8, <1>9 DEF SensorNext, SensorStep

(* MatchFromSearch of Sensor (r302.c:257-263): no reply but one to a search *)
(* is taken for a match, however late it comes and whoever it was for.     *)
THEOREM MatchSearched == SensorSpec => []MatchFromSearch
<1>1. SensorInit => LineInv /\ MatchFromSearch
    BY LineInit DEF SensorInit, Start, MatchFromSearch
<1>2. LineInv /\ MatchFromSearch /\ [SensorNext]_sensorVars => LineInv' /\ MatchFromSearch'
    BY LineStep, MatchStep
<1> QED
    BY <1>1, <1>2, PTL DEF SensorSpec

(* Nothing is on the line but what the tasks wait for and what timeouts    *)
(* left there.                                                             *)
RoomInv == Len(tx) + Len(rx) <= MaxLate + Cardinality(waiting)

LEMMA WaitingFacts ==
    ASSUME NEW W, W \subseteq Tasks
    PROVE  /\ Cardinality(W) \in Nat /\ Cardinality(W) <= 2
           /\ \A t \in Tasks \ W : Cardinality(W \cup {t}) = Cardinality(W) + 1
           /\ \A t \in W : Cardinality(W \ {t}) = Cardinality(W) - 1
<1>1. IsFiniteSet(Tasks) /\ Cardinality(Tasks) = 2
    <2>1. IsFiniteSet({"bio"}) /\ Cardinality({"bio"}) = 1
        BY FS_Singleton
    <2>2. Tasks = {"bio"} \cup {"card"} /\ "card" \notin {"bio"}
        BY DEF Tasks
    <2>3. IsFiniteSet({"bio"} \cup {"card"}) /\ Cardinality({"bio"} \cup {"card"}) = 2
        BY <2>1, <2>2, FS_AddElement
    <2> QED
        BY <2>2, <2>3
<1>2. IsFiniteSet(W) /\ Cardinality(W) <= 2
    BY <1>1, FS_Subset
<1>3. Cardinality(W) \in Nat
    BY <1>2, FS_CardinalityType
<1>4. \A t \in Tasks \ W : Cardinality(W \cup {t}) = Cardinality(W) + 1
    BY <1>2, FS_AddElement
<1>5. \A t \in W : Cardinality(W \ {t}) = Cardinality(W) - 1
    BY <1>2, FS_RemoveElement
<1> QED
    BY <1>2, <1>3, <1>4, <1>5

LEMMA RoomStep ==
    ASSUME LineInv, RoomInv, [SensorNext]_sensorVars
    PROVE  RoomInv'
<1> DEFINE n == Cardinality(waiting)
<1>1. MaxLate \in Nat /\ Len(tx) \in Nat /\ Len(rx) \in Nat /\ n \in Nat
    BY WaitingFacts, QueueFacts, SensorAssumption DEF LineInv
<1>2. Len(tx) + Len(rx) <= MaxLate + n
    BY DEF RoomInv
<1>3. rx # <<>> => Len(Tail(rx)) = Len(rx) - 1
    BY QueueFacts DEF LineInv
<1> HIDE DEF n
<1>4. CASE SensorStep
    <2>1. PICK code \in Codes, size \in {1, 3, 5}, data \in Slots :
              Answer(code, size, data) /\ (code = "ok" /\ size = 5 => Head(tx).do = "search")
        BY <1>4, SensorAnswers
    <2>2. waiting' = waiting /\ tx # <<>>
        BY <1>4, SensorAnswers
    <2>3. Len(tx') = Len(tx) - 1 /\ Len(rx') = Len(rx) + 1
        BY <2>1, <2>2, AnswerFacts
    <2> QED
        BY <1>1, <1>2, <2>2, <2>3 DEF RoomInv, n
<1>5. ASSUME UNCHANGED <<tx, rx, waiting>> PROVE RoomInv'
    BY <1>5 DEF RoomInv
<1>6. CASE \/ Begin("bio", "verify", 0) \/ Begin("card", "scan", 0)
           \/ \E s \in Slots : Begin("bio", "enroll", s) \/ Begin("bio", "remove", s)
    BY <1>5, <1>6 DEF Begin
<1>7. ASSUME NEW t \in Tasks, Send(t) PROVE RoomInv'
    <2>1. t \notin waiting /\ waiting' = waiting \cup {t} /\ rx' = rx
          /\ (tx' = Append(tx, Command(t)) \/ tx' = <<>>)
        BY <1>7 DEF Send
    <2>2. Cardinality(waiting') = n + 1
        BY <2>1, WaitingFacts DEF LineInv, n
    <2>3. Command(t) \in Orders
        BY CommandFacts
    <2>4. Len(Append(tx, Command(t))) = Len(tx) + 1 /\ Len(<<>>) = 0
        BY <2>3, QueueFacts DEF LineInv
    <2>5. Len(tx') <= Len(tx) + 1 /\ Len(rx') = Len(rx) /\ Len(tx') \in Nat
        BY <1>1, <2>1, <2>4
    <2> QED
        BY <1>1, <1>2, <2>2, <2>5 DEF RoomInv
<1>8. ASSUME NEW t \in waiting, waiting' = waiting \ {t}, tx' = tx,
             \/ rx # <<>> /\ rx' = Tail(rx)
             \/ rx' = rx /\ Len(tx) + Len(rx) <= MaxLate
      PROVE  RoomInv'
    <2>1. Cardinality(waiting') = n - 1 /\ Cardinality(waiting') \in Nat
        BY <1>8, WaitingFacts DEF LineInv, n
    <2> QED
        BY <1>1, <1>2, <1>3, <1>8, <2>1 DEF RoomInv
<1>9. ASSUME NEW t \in Tasks, Receive(t) PROVE RoomInv'
    BY <1>8, <1>9 DEF Receive, GoOn
<1>10. ASSUME NEW t \in Tasks, NoReply(t) PROVE RoomInv'
    BY <1>8, <1>10 DEF NoReply, GoOn, sensor
<1>11. CASE Tear
    <2>1. rx # <<>> /\ rx' = Tail(rx) /\ UNCHANGED <<tx, waiting>>
        BY <1>11 DEF Tear
    <2> QED
        BY <1>1, <1>2, <1>3, <2>1 DEF RoomInv, n
<1>12. CASE GiveUp \/ UNCHANGED sensorVars
    BY <1>5, <1>12 DEF GiveUp, sensorVars
<1>13. CASE Restart
    <2>1. Len(tx) <= MaxLate /\ tx' = tx /\ Len(rx') = 0
        BY <1>13 DEF Restart, sensor
    <2>2. Cardinality(waiting') = 0
        BY <1>13, FS_EmptySet DEF Restart
    <2> QED
        BY <1>1, <2>1, <2>2 DEF RoomInv
<1> QED
    BY <1>4, <1>6, <1>7, <1>9, <1>10, <1>11, <1>12, <1>13 DEF SensorNext, SensorStep

(* What is in the sensor is of a finger, or nothing.                       *)
HeldInv ==
    /\ library \in [Slots -> Prints \cup {None}] /\ image \in Prints \cup {None}
    /\ buffer \in [{1, 2} -> Prints \cup {None}]
    /\ clean \in BOOLEAN /\ changed \in BOOLEAN /\ pad \in Prints \cup {None}
    /\ from \in {None, "search", "other", "nothing"}

LEMMA HeldStep ==
    ASSUME HeldInv, [SensorNext]_sensorVars
    PROVE  HeldInv'
<1>1. CASE Fails \/ Combine \/ Search \/ Count \/ Password
    BY <1>1 DEF Fails, Combine, Search, Count, Password, HeldInv, sensor, history
<1>2. CASE TakeImage
    BY <1>2 DEF TakeImage, HeldInv
<1>3. CASE Convert
    BY <1>3 DEF Convert, HeldInv, history
<1>4. CASE StoreModel
    BY <1>4 DEF StoreModel, HeldInv
<1>5. CASE DeleteModel
    BY <1>5 DEF DeleteModel, HeldInv
<1>6. CASE LoadModel
    BY <1>6 DEF LoadModel, Templates, HeldInv, history
<1>7. CASE Begin("bio", "verify", 0) \/ Begin("card", "scan", 0)
    BY <1>7 DEF Begin, Forget, HeldInv, sensor
<1>8. CASE \E s \in Slots : Begin("bio", "enroll", s) \/ Begin("bio", "remove", s)
    BY <1>8 DEF Begin, Forget, HeldInv, sensor
<1>9. ASSUME NEW t \in Tasks, Send(t) \/ Receive(t) PROVE HeldInv'
    BY <1>9 DEF Send, Receive, HeldInv, sensor, history
<1>10. ASSUME NEW t \in Tasks, NoReply(t) PROVE HeldInv'
    BY <1>10 DEF NoReply, Forget, HeldInv, sensor
<1>11. CASE Tear \/ GiveUp \/ UNCHANGED sensorVars
    BY <1>11 DEF Tear, GiveUp, HeldInv, sensor, history, sensorVars
<1>12. CASE Restart
    BY <1>12 DEF Restart, Forget, HeldInv, sensor
<1> QED
    BY <1>1, <1>2, <1>3, <1>4, <1>5, <1>6, <1>7, <1>8, <1>9, <1>10, <1>11, <1>12 DEF SensorNext

(* The types of Sensor, with the bound of its line.                        *)
THEOREM SensorTypes == SensorSpec => []SensorTypeOK
<1>1. SensorInit => LineInv /\ RoomInv /\ HeldInv
    <2> SUFFICES ASSUME SensorInit PROVE LineInv /\ RoomInv /\ HeldInv
        OBVIOUS
    <2>1. Len(tx) = 0 /\ Len(rx) = 0 /\ Cardinality(waiting) = 0
        BY FS_EmptySet DEF SensorInit
    <2>2. RoomInv
        BY <2>1, SensorAssumption DEF RoomInv
    <2> QED
        BY <2>2, LineInit DEF SensorInit, HeldInv
<1>2. LineInv /\ RoomInv /\ HeldInv /\ [SensorNext]_sensorVars => LineInv' /\ RoomInv' /\ HeldInv'
    BY LineStep, RoomStep, HeldStep
<1>3. LineInv /\ RoomInv /\ HeldInv => SensorTypeOK
    <2> SUFFICES ASSUME LineInv, RoomInv, HeldInv PROVE SensorTypeOK
        OBVIOUS
    <2>1. Cardinality(waiting) \in Nat /\ Cardinality(waiting) <= 2
        BY WaitingFacts DEF LineInv
    <2>2. MaxLate \in Nat /\ Len(tx) \in Nat /\ Len(rx) \in Nat
        BY QueueFacts, SensorAssumption DEF LineInv
    <2>3. Len(tx) <= MaxLate + 2 /\ Len(rx) <= MaxLate + 2
        BY <2>1, <2>2 DEF RoomInv
    <2>4. \A t \in Tasks : run[t].slot \in Slots
        BY DEF LineInv, Runs
    <2> QED
        BY <2>3, <2>4 DEF LineInv, HeldInv, SensorTypeOK
<1> QED
    BY <1>1, <1>2, <1>3, PTL DEF SensorSpec

(* A run with a command on the line that nobody carried out yet.           *)
LEMMA CleanAsks ==
    ASSUME LineInv, StepInv, clean, tx # <<>>
    PROVE  /\ "bio" \in waiting /\ Rests("card") /\ rx = <<>>
           /\ Len(tx) = 1 /\ Head(tx) = Command("bio")
           /\ Fits(run["bio"].op, run["bio"].at, run["bio"].slot)
    BY DEF StepInv, Quiet

(* The reply to a clean run's command is the only packet on the line.      *)
LEMMA CleanAnswer ==
    ASSUME LineInv, StepInv, clean, tx # <<>>, UNCHANGED <<run, waiting, clean>>,
           NEW code \in Codes, NEW size \in {1, 3, 5}, NEW data \in Slots, Answer(code, size, data),
           code = "ok" /\ size = 5 => Head(tx).do = "search",
           NEW c, c = CodeOf(Head(tx).do, [code |-> code, size |-> size]),
           NEW op, op = run["bio"].op,
           NEW at, at = After(op, run["bio"].at, c),
           NEW slot, slot = IF run["bio"].at = "search" /\ c = "ok" THEN data ELSE run["bio"].slot,
           Fits(op, at, slot)'
    PROVE  StepInv'
<1>1. /\ "bio" \in waiting /\ Rests("card") /\ rx = <<>>
      /\ Len(tx) = 1 /\ Head(tx) = Command("bio")
    BY CleanAsks
<1>2. /\ tx' \in Seq(Orders) /\ rx' # <<>> /\ Len(tx') = Len(tx) - 1 /\ Len(rx') = Len(rx) + 1
      /\ Head(rx').code = code /\ Head(rx').size = size /\ Head(rx').data = data
    BY <1>1, AnswerFacts
<1>3. tx' = <<>> /\ Len(rx') = 1
    <2>1. Len(tx') = 0 /\ Len(rx) = 0
        BY <1>1, <1>2
    <2> QED
        BY <1>2, <2>1, QueueFacts
<1>4. Code' = c
    BY <1>1, <1>2 DEF Code, CodeOf, Command
<1>5. Rests("card")'
    BY <1>1 DEF Rests
<1>6. NextSlot' = slot
    BY <1>2, <1>4 DEF NextSlot
<1>7. After(run["bio"].op, run["bio"].at, Code)' = at
    BY <1>4
<1>8. Fits(run["bio"].op, After(run["bio"].op, run["bio"].at, Code), NextSlot)'
    BY <1>6, <1>7 DEF Fits
<1> QED
    BY <1>1, <1>2, <1>3, <1>5, <1>8 DEF StepInv

LEMMA PlaceFacts ==
    ASSUME LineInv
    PROVE  /\ run["bio"] \in Runs /\ run["bio"].at \in Places /\ run["bio"].slot \in Slots
           /\ Rests("bio") => "bio" \notin waiting
           /\ Rests("card") => "card" \notin waiting
    BY DEF LineInv, Runs, Tasks

(* Where a run goes from each of its places.                               *)
LEMMA AfterTable ==
    ASSUME NEW op, NEW code
    PROVE  /\ After(op, "image1", code) = IF code = "ok" THEN "tz1" ELSE "image1"
           /\ After(op, "image2", code) = IF code = "ok" THEN "tz2" ELSE "image2"
           /\ After(op, "off", code) = IF code # "nofinger" THEN "off"
                                         ELSE IF op = "enroll" THEN "image2" ELSE "image1"
           /\ After(op, "tz1", code) = IF code = "ok" THEN IF op = "enroll" THEN "off" ELSE "search"
                                         ELSE IF op = "enroll" THEN "failed" ELSE "image1"
           /\ After(op, "search", code) = IF code = "ok" THEN "match"
                                            ELSE IF code = "no" THEN "off" ELSE "failed"
           /\ After(op, "tz2", code) = IF code # "ok" THEN "failed" ELSE "model"
           /\ After(op, "model", code) = IF code # "ok" THEN "failed" ELSE "store"
           /\ \A at \in {"store", "delete"} : After(op, at, code) = IF code # "ok" THEN "failed" ELSE "count"
           /\ After(op, "count", code) = "done"
<1>1. AfterTz(op, code) = IF code = "ok" THEN IF op = "enroll" THEN "off" ELSE "search"
                           ELSE IF op = "enroll" THEN "failed" ELSE "image1"
    BY DEF AfterTz
<1>2. After(op, "tz1", code) = AfterTz(op, code)
    BY DEF After
<1>3. After(op, "search", code) = IF code = "ok" THEN "match"
                                   ELSE IF code = "no" THEN "off" ELSE "failed"
    BY DEF After
<1>4. /\ After(op, "image1", code) = IF code = "ok" THEN "tz1" ELSE "image1"
      /\ After(op, "image2", code) = IF code = "ok" THEN "tz2" ELSE "image2"
      /\ After(op, "off", code) = IF code # "nofinger" THEN "off"
                                    ELSE IF op = "enroll" THEN "image2" ELSE "image1"
      /\ After(op, "count", code) = "done"
    BY DEF After
<1>5. /\ After(op, "tz2", code) = IF code # "ok" THEN "failed" ELSE "model"
      /\ After(op, "model", code) = IF code # "ok" THEN "failed" ELSE "store"
    BY DEF After
<1>6. ASSUME NEW at \in {"store", "delete"}
      PROVE  After(op, at, code) = IF code # "ok" THEN "failed" ELSE "count"
    BY <1>6 DEF After
<1> QED
    BY <1>1, <1>2, <1>3, <1>4, <1>5, <1>6

LEMMA CleanFails == ASSUME LineInv, StepInv, Fails, clean' PROVE StepInv'
<1>0. PICK r, at : r = run["bio"] /\ at = After(r.op, r.at, "bad")
    OBVIOUS
<1>1. tx # <<>> /\ Answer("bad", 1, 0) /\ UNCHANGED <<library, image, buffer, run, waiting, clean, pad, changed>>
    BY DEF Fails, sensor, history
<1>2. Fits(r.op, r.at, r.slot)
    BY <1>0, <1>1, CleanAsks
<1>3. "bad" = CodeOf(Head(tx).do, [code |-> "bad", size |-> 1]) /\ "bad" \in Codes
    BY DEF CodeOf, Codes
<1>4. r.at \in {"image1", "image2", "off", "tz1", "search", "count", "tz2", "model", "store", "delete"}
    <2>1. "bio" \in waiting
        BY <1>1, CleanAsks
    <2> QED
        BY <1>0, <1>2, <2>1 DEF Fits, Allowed, LineInv, Rests, Ends
<1>5. /\ r.at \in {"image1", "image2", "off"} => at = r.at
      /\ r.at = "tz1" => at = IF r.op = "enroll" THEN "failed" ELSE "image1"
      /\ r.at = "count" => at = "done"
      /\ r.at \in {"search", "tz2", "model", "store", "delete"} => at = "failed"
    BY <1>0, AfterTable
<1>6. Fits(r.op, at, r.slot)'
    BY <1>1, <1>2, <1>4, <1>5 DEF Fits, Allowed
<1> QED
    BY <1>0, <1>1, <1>3, <1>6, CleanAnswer, SlotFacts

LEMMA CleanImage == ASSUME LineInv, StepInv, TakeImage, clean' PROVE StepInv'
<1>1. /\ tx # <<>> /\ Head(tx).do = "image" /\ UNCHANGED <<library, buffer, run, waiting, clean, changed>>
    BY DEF TakeImage, Asked
<1>2. PICK f \in Prints \cup {None} :
          /\ Answer(IF f = None THEN "nofinger" ELSE "ok", 1, 0)
          /\ image' = IF f = None THEN image ELSE f
          /\ pad' = f
    BY <1>1 DEF TakeImage
<1>0. PICK c, r, at : /\ c = IF f = None THEN "nofinger" ELSE "ok"
                      /\ r = run["bio"] /\ at = After(r.op, r.at, c)
    OBVIOUS
<1>3. Fits(r.op, r.at, r.slot) /\ Head(tx) = Command("bio")
    BY <1>0, <1>1, CleanAsks
<1>4. c = CodeOf(Head(tx).do, [code |-> c, size |-> 1]) /\ c \in Codes
    BY <1>0, <1>1 DEF CodeOf, Codes
<1>5. r.at \in {"image1", "image2", "off"}
    BY <1>0, <1>1, <1>3, PlaceFacts DEF Command, Places
<1>6. /\ r.at = "image1" => at = IF f = None THEN "image1" ELSE "tz1"
      /\ r.at = "image2" => at = IF f = None THEN "image2" ELSE "tz2"
      /\ r.at = "off" => at = IF f # None THEN "off" ELSE IF r.op = "enroll" THEN "image2" ELSE "image1"
    BY <1>0, AfterTable
<1>7. Answer(c, 1, 0)
    BY <1>0, <1>2
<1>8. Fits(r.op, at, r.slot)'
    BY <1>1, <1>2, <1>3, <1>5, <1>6 DEF Fits, Allowed
<1> QED
    <2>1. clean /\ 0 \in Slots /\ 1 \in {1, 3, 5} /\ (c = "ok" /\ 1 = 5 => Head(tx).do = "search")
        BY <1>1, SlotFacts
    <2>2. /\ r.op = run["bio"].op /\ at = After(r.op, run["bio"].at, c)
          /\ r.slot = IF run["bio"].at = "search" /\ c = "ok" THEN 0 ELSE run["bio"].slot
        BY <1>0, <1>5
    <2> QED
        BY <1>1, <1>4, <1>7, <1>8, <2>1, <2>2, CleanAnswer

LEMMA CleanOthers ==
    ASSUME LineInv, HeldInv, StepInv, clean',
           Convert \/ Combine \/ StoreModel \/ DeleteModel \/ Password \/ Count
    PROVE  StepInv'
<1>0. PICK r, at, size : /\ r = run["bio"] /\ at = After(r.op, r.at, "ok")
                         /\ size = IF Head(tx).do = "count" THEN 3 ELSE 1
    OBVIOUS
<1>1. tx # <<>> /\ UNCHANGED <<run, waiting, clean, pad>>
    BY DEF Convert, Combine, StoreModel, DeleteModel, Password, Count, Asked, history
<1>2. Answer("ok", size, 0) /\ size \in {1, 3, 5} /\ Head(tx).do # "search"
    BY <1>0 DEF Convert, Combine, StoreModel, DeleteModel, Password, Count, Asked
<1>3. Fits(r.op, r.at, r.slot) /\ Head(tx) = Command("bio")
    BY <1>0, <1>1, CleanAsks
<1>4. "ok" = CodeOf(Head(tx).do, [code |-> "ok", size |-> size]) /\ "ok" \in Codes
    BY <1>0, <1>2 DEF CodeOf, Needed, Codes
<1>5. r.at # "search"
    BY <1>0, <1>2, <1>3 DEF Command
<1>6. Fits(r.op, at, r.slot)'
    <2>1. CASE Convert
        <3>1. /\ Head(tx).do = "tz" /\ buffer' = [buffer EXCEPT ![Head(tx).arg] = image]
              /\ image # None /\ UNCHANGED <<library, image, changed>>
            BY <2>1 DEF Convert, Asked, history, Arg
        <3>2. r.at \in {"tz1", "tz2"}
            BY <1>0, <1>3, <3>1, PlaceFacts DEF Command, Places
        <3>3. Head(tx).arg = IF r.at = "tz1" THEN 1 ELSE 2
            BY <1>0, <1>3, <3>2 DEF Command
        <3>4. r.at = "tz1" => buffer'[1] = image
            BY <3>1, <3>3 DEF HeldInv
        <3>5. r.at = "tz2" => buffer'[2] = image
            BY <3>1, <3>3 DEF HeldInv
        <3>6. at = IF r.at = "tz2" THEN "model" ELSE IF r.op = "enroll" THEN "off" ELSE "search"
            BY <1>0, <3>2, AfterTable
        <3> QED
            BY <1>1, <1>3, <3>1, <3>2, <3>4, <3>5, <3>6 DEF Fits, Allowed
    <2>2. CASE Combine
        <3>1. /\ Head(tx).do = "model" /\ buffer[1] = buffer[2] /\ UNCHANGED <<library, image, buffer, changed>>
            BY <2>2 DEF Combine, Asked, sensor, history
        <3>2. r.at = "model"
            BY <1>0, <1>3, <3>1, PlaceFacts DEF Command, Places
        <3>3. at = "store"
            BY <1>0, <3>2, AfterTable
        <3> QED
            BY <1>1, <1>3, <3>1, <3>2, <3>3 DEF Fits, Allowed, HeldInv
    <2>3. CASE StoreModel
        <3>1. /\ Head(tx).do = "store" /\ library' = [library EXCEPT ![Head(tx).arg] = buffer[1]]
              /\ UNCHANGED <<image, buffer>>
            BY <2>3 DEF StoreModel, Asked, Arg
        <3>2. r.at = "store" /\ Head(tx).arg = r.slot /\ r.slot \in Slots
            BY <1>0, <1>3, <3>1, PlaceFacts DEF Command, Places
        <3>3. at = "count"
            BY <1>0, <3>2, AfterTable
        <3> QED
            BY <1>1, <1>3, <3>1, <3>2, <3>3 DEF Fits, Allowed, HeldInv
    <2>4. CASE DeleteModel
        <3>1. /\ Head(tx).do = "delete" /\ library' = [library EXCEPT ![Head(tx).arg] = None]
              /\ UNCHANGED <<image, buffer>>
            BY <2>4 DEF DeleteModel, Asked, Arg
        <3>2. r.at = "delete" /\ Head(tx).arg = r.slot /\ r.slot \in Slots
            BY <1>0, <1>3, <3>1, PlaceFacts DEF Command, Places
        <3>3. at = "count"
            BY <1>0, <3>2, AfterTable
        <3> QED
            BY <1>1, <1>3, <3>1, <3>2, <3>3 DEF Fits, Allowed, HeldInv
    <2>5. CASE Password
        <3>1. r.at = "password"
            BY <1>0, <1>3, <2>5, PlaceFacts DEF Password, Asked, Command, Places
        <3> QED
            BY <1>0, <1>3, <3>1 DEF Fits, Allowed
    <2>6. CASE Count
        <3>1. Head(tx).do = "count" /\ UNCHANGED <<library, image, buffer, changed>>
            BY <2>6 DEF Count, Asked, sensor, history
        <3>2. r.at = "count"
            BY <1>0, <1>3, <3>1, PlaceFacts DEF Command, Places
        <3>3. at = "done"
            BY <1>0, <3>2, AfterTable
        <3> QED
            BY <1>1, <1>3, <3>1, <3>2, <3>3 DEF Fits, Allowed, HeldInv
    <2> QED
        BY <2>1, <2>2, <2>3, <2>4, <2>5, <2>6
<1> QED
    <2>1. clean /\ 0 \in Slots
        BY <1>1, SlotFacts
    <2>2. /\ r.op = run["bio"].op /\ at = After(r.op, run["bio"].at, "ok")
          /\ r.slot = IF run["bio"].at = "search" /\ "ok" = "ok" THEN 0 ELSE run["bio"].slot
        BY <1>0, <1>5
    <2>3. "ok" = "ok" /\ size = 5 => Head(tx).do = "search"
        BY <1>0
    <2> QED
        BY <1>1, <1>2, <1>4, <1>6, <2>1, <2>2, <2>3, CleanAnswer

LEMMA CleanSearch == ASSUME LineInv, StepInv, Search, clean' PROVE StepInv'
<1>0. PICK r : r = run["bio"]
    OBVIOUS
<1>1. /\ tx # <<>> /\ Head(tx).do = "search"
      /\ UNCHANGED <<library, image, buffer, run, waiting, clean, pad, changed>>
    BY DEF Search, Asked, sensor, history
<1>2. Fits(r.op, r.at, r.slot) /\ Head(tx) = Command("bio")
    BY <1>0, <1>1, CleanAsks
<1>3. r.at = "search"
    BY <1>0, <1>1, <1>2, PlaceFacts DEF Command, Places
<1>4. pad # None /\ buffer[1] = pad /\ r.op = "verify" /\ ~changed
    BY <1>2, <1>3 DEF Fits, Allowed
<1>5. \/ Answer("no", 5, 0)
      \/ \E s \in Templates : library[s] = buffer[1] /\ Answer("ok", 5, s)
    BY DEF Search
<1>6. CASE Answer("no", 5, 0)
    <2>1. "no" = CodeOf(Head(tx).do, [code |-> "no", size |-> 5]) /\ "no" \in Codes
        BY <1>0, <1>1 DEF CodeOf, Codes
    <2>2. After(r.op, r.at, "no") = "off"
        BY <1>0, <1>3, AfterTable
    <2>3. Fits(r.op, "off", r.slot)'
        BY <1>0, <1>1, <1>4 DEF Fits, Allowed
    <2> QED
        BY <1>0, <1>1, <1>6, <2>1, <2>2, <2>3, CleanAnswer, SlotFacts
<1>7. ASSUME NEW s \in Templates, library[s] = buffer[1], Answer("ok", 5, s) PROVE StepInv'
    <2>1. "ok" = CodeOf(Head(tx).do, [code |-> "ok", size |-> 5]) /\ "ok" \in Codes
        BY <1>0, <1>1 DEF CodeOf, Needed, Codes
    <2>2. After(r.op, r.at, "ok") = "match"
        BY <1>0, <1>3, AfterTable
    <2>3. s \in Slots
        BY DEF Templates
    <2>4. Fits(r.op, "match", s)'
        BY <1>0, <1>1, <1>4, <1>7 DEF Fits, Allowed
    <2> QED
        BY <1>0, <1>1, <1>3, <1>7, <2>1, <2>2, <2>3, <2>4, CleanAnswer
<1> QED
    BY <1>5, <1>6, <1>7

LEMMA CleanSensor == ASSUME LineInv, HeldInv, StepInv, SensorStep PROVE StepInv'
<1>1. CASE ~clean'
    BY <1>1 DEF StepInv
<1>2. CASE clean' /\ LoadModel
    <2>1. tx # <<>> /\ clean /\ Head(tx).do = "load"
        BY <1>2 DEF LoadModel, Asked, history
    <2>2. Head(tx) = Command("bio") /\ run["bio"].at # "load"
        BY <2>1, CleanAsks DEF Fits, Allowed
    <2> QED
        BY <2>1, <2>2, PlaceFacts DEF Command, Places
<1>3. CASE clean' /\ ~LoadModel
    BY <1>3, CleanFails, CleanImage, CleanOthers, CleanSearch DEF SensorStep
<1> QED
    BY <1>1, <1>2, <1>3

LEMMA CleanBegin ==
    ASSUME LineInv, NEW t \in Tasks, NEW op \in {"verify", "enroll", "remove", "scan"}, NEW s \in Slots,
           t = "bio" => op # "scan", Begin(t, op, s)
    PROVE  StepInv'
<1>1. CASE ~clean'
    BY <1>1 DEF StepInv
<1>2. CASE clean'
    <2>1. /\ t = "bio" /\ Quiet /\ Rests("card") /\ Rests("bio") /\ Other("bio") = "card"
          /\ UNCHANGED <<tx, rx, waiting>> /\ pad' = None /\ changed' = FALSE
        BY <1>2 DEF Begin, Other, Forget
    <2>2. /\ run'["bio"] = [op |-> op, at |-> First[op], slot |-> s]
          /\ run'["card"] = NoRun
        BY <2>1 DEF Begin, LineInv, Tasks
    <2>3. PICK r, at : r = run'["bio"] /\ at = First[op]
        OBVIOUS
    <2>4. r.op = op /\ r.at = at /\ r.slot = s
        BY <2>2, <2>3
    <2>5. op \in {"verify", "enroll", "remove"} /\ at = IF op = "remove" THEN "delete" ELSE "image1"
        BY <2>1, <2>3 DEF First
    <2>6. Fits(r.op, r.at, r.slot)'
        BY <2>1, <2>4, <2>5 DEF Fits, Allowed
    <2>7. rx' = <<>> /\ Quiet' /\ "bio" \notin waiting'
        BY <2>1, PlaceFacts DEF Quiet
    <2>8. Rests("card")'
        BY <2>2 DEF Rests, NoRun, Ends
    <2>9. Fits(run["bio"].op, run["bio"].at, run["bio"].slot)'
        BY <2>3, <2>6 DEF Fits
    <2> QED
        BY <2>7, <2>8, <2>9 DEF StepInv
<1> QED
    BY <1>1, <1>2

LEMMA CleanSend == ASSUME LineInv, StepInv, NEW t \in Tasks, Send(t) PROVE StepInv'
<1>1. CASE ~clean'
    BY <1>1 DEF StepInv
<1>2. CASE clean'
    <2>1. clean /\ ~Rests(t) /\ t \notin waiting /\ waiting' = waiting \cup {t}
          /\ UNCHANGED <<library, image, buffer, rx, run, clean, pad, changed>>
        BY <1>2 DEF Send, sensor, history
    <2>2. Rests("card") /\ "card" \notin waiting /\ t = "bio" /\ Other(t) = "card"
        BY <2>1, PlaceFacts DEF StepInv, Tasks, Other
    <2>3. tx = <<>> /\ rx = <<>> /\ Fits(run["bio"].op, run["bio"].at, run["bio"].slot)
        BY <2>1, <2>2 DEF StepInv, Quiet
    <2>4. tx' = Append(<<>>, Command("bio"))
        BY <2>2, <2>3 DEF Send
    <2>5. Len(tx') = 1 /\ Head(tx') = Command("bio")
        BY <2>4
    <2>6. Command("bio")' = Command("bio") /\ Rests("card")'
        BY <2>1, <2>2 DEF Command, Rests
    <2>7. Fits(run["bio"].op, run["bio"].at, run["bio"].slot)'
        BY <2>1, <2>3 DEF Fits
    <2> QED
        BY <2>1, <2>2, <2>3, <2>5, <2>6, <2>7 DEF StepInv
<1> QED
    BY <1>1, <1>2

LEMMA CleanReceive == ASSUME LineInv, StepInv, NEW t \in Tasks, Receive(t) PROVE StepInv'
<1>1. CASE ~clean'
    BY <1>1 DEF StepInv
<1>2. CASE clean'
    <2>1. clean /\ t \in waiting /\ rx # <<>> /\ rx' = Tail(rx)
          /\ GoOn(t, CodeOf(Command(t).do, Head(rx)), Head(rx).data)
          /\ UNCHANGED <<library, image, buffer, tx, clean, pad, changed>>
        BY <1>2 DEF Receive, sensor
    <2>2. Rests("card") /\ t = "bio"
        BY <2>1, PlaceFacts DEF StepInv, Tasks
    <2>3. /\ tx = <<>> /\ Len(rx) = 1
          /\ Fits(run["bio"].op, After(run["bio"].op, run["bio"].at, Code), NextSlot)
        BY <2>1, <2>2 DEF StepInv
    <2>4. Head(rx) \in Replies /\ Tail(rx) \in Seq(Replies) /\ Len(Tail(rx)) = 0
        BY <2>1, <2>3, QueueFacts DEF LineInv
    <2>5. rx' = <<>> /\ Head(rx).data \in Slots
        BY <2>1, <2>4, EmptySeq DEF Replies
    <2>6. GoOn("bio", Code, Head(rx).data) /\ "bio" \in waiting
        BY <2>1, <2>2 DEF Code
    <2>7. PICK at, slot, op : at = After(run["bio"].op, run["bio"].at, Code) /\ slot = NextSlot /\ op = run["bio"].op
        OBVIOUS
    <2>8. /\ waiting' = waiting \ {"bio"} /\ run'["card"] = run["card"]
          /\ run'["bio"] = [run["bio"] EXCEPT !.at = at, !.slot = slot]
        BY <2>5, <2>6, <2>7, GoOnFacts DEF NextSlot, Tasks
    <2>9. run'["bio"].at = at /\ run'["bio"].slot = slot /\ run'["bio"].op = op
        <3>1. run["bio"] \in Runs
            BY PlaceFacts
        <3> QED
            BY <2>7, <2>8, <3>1 DEF Runs
    <2>10. Fits(op, at, slot)
        BY <2>3, <2>7
    <2>11. Fits(run["bio"].op, run["bio"].at, run["bio"].slot)'
        BY <2>1, <2>9, <2>10 DEF Fits
    <2>12. Rests("card")' /\ Quiet' /\ "bio" \notin waiting'
        BY <2>1, <2>2, <2>3, <2>5, <2>8 DEF Rests, Quiet
    <2> QED
        BY <2>5, <2>11, <2>12 DEF StepInv
<1> QED
    BY <1>1, <1>2

LEMMA CleanGivesUp == ASSUME LineInv, StepInv, GiveUp PROVE StepInv'
<1>1. CASE ~clean'
    BY <1>1 DEF StepInv
<1>2. CASE clean'
    <2>1. /\ clean /\ run["bio"].at \in {"image1", "image2", "off"} /\ "bio" \notin waiting
          /\ run' = [run EXCEPT !["bio"] = [run["bio"] EXCEPT !.at = "failed"]]
          /\ UNCHANGED <<library, image, buffer, tx, rx, waiting, pad, changed>>
        BY <1>2 DEF GiveUp, sensor, history
    <2>2. Rests("card") /\ Quiet /\ rx = <<>> /\ Fits(run["bio"].op, run["bio"].at, run["bio"].slot)
        BY <2>1 DEF StepInv, Quiet
    <2>3. PICK op, at, slot : op = run["bio"].op /\ at = run["bio"].at /\ slot = run["bio"].slot
        OBVIOUS
    <2>4. run'["bio"].op = op /\ run'["bio"].at = "failed" /\ run'["bio"].slot = slot /\ run'["card"] = run["card"]
        <3>1. run["bio"] \in Runs
            BY PlaceFacts
        <3>2. run'["bio"] = [run["bio"] EXCEPT !.at = "failed"] /\ run'["card"] = run["card"]
            BY <2>1 DEF LineInv, Tasks
        <3> QED
            BY <2>3, <3>1, <3>2 DEF Runs
    <2>5. Fits(op, at, slot) /\ at \in {"image1", "image2", "off"}
        BY <2>1, <2>2, <2>3
    <2>6. Fits(run["bio"].op, run["bio"].at, run["bio"].slot)'
        BY <2>1, <2>4, <2>5 DEF Fits, Allowed
    <2>7. Rests("card")' /\ Quiet' /\ rx' = <<>>
        BY <2>1, <2>2, <2>4 DEF Rests, Quiet
    <2> QED
        BY <2>1, <2>6, <2>7 DEF StepInv
<1> QED
    BY <1>1, <1>2

LEMMA CleanStep == LineInv /\ HeldInv /\ StepInv /\ [SensorNext]_sensorVars => StepInv'
<1> SUFFICES ASSUME LineInv, HeldInv, StepInv, [SensorNext]_sensorVars PROVE StepInv'
    OBVIOUS
<1>1. CASE SensorStep
    BY <1>1, CleanSensor
<1>2. CASE Begin("bio", "verify", 0) \/ Begin("card", "scan", 0)
    BY <1>2, CleanBegin, SlotFacts DEF Tasks
<1>3. CASE \E s \in Slots : Begin("bio", "enroll", s) \/ Begin("bio", "remove", s)
    BY <1>3, CleanBegin DEF Tasks
<1>4. CASE \E t \in Tasks : Send(t) \/ Receive(t)
    BY <1>4, CleanSend, CleanReceive
<1>5. CASE Restart \/ \E t \in Tasks : NoReply(t)
    BY <1>5 DEF Restart, NoReply, StepInv
<1>6. CASE Tear
    <2>1. "card" \in waiting /\ UNCHANGED clean
        BY <1>6 DEF Tear, Tasks, history
    <2> QED
        BY <2>1, PlaceFacts DEF StepInv
<1>7. CASE GiveUp
    BY <1>7, CleanGivesUp
<1>8. CASE UNCHANGED sensorVars
    <2>1. UNCHANGED <<library, image, buffer, tx, rx, run, waiting, clean, pad, changed>>
        BY <1>8 DEF sensorVars, sensor, history
    <2> QED
        BY <2>1 DEF StepInv, Fits, Rests, Quiet, Command, Code, NextSlot
<1> QED
    BY <1>1, <1>2, <1>3, <1>4, <1>5, <1>6, <1>7, <1>8 DEF SensorNext, SensorStep

(* OutcomeTrue of Sensor (biometric.c:122-248): a run that nothing         *)
(* disturbed ends as it says, whatever was left in the sensor before it.   *)
THEOREM OutcomeRight == SensorSpec => []OutcomeTrue
<1>1. SensorInit => LineInv /\ HeldInv /\ StepInv
    BY LineInit DEF SensorInit, HeldInv, StepInv
<1>2. LineInv /\ HeldInv /\ StepInv /\ [SensorNext]_sensorVars => LineInv' /\ HeldInv' /\ StepInv'
    BY LineStep, HeldStep, CleanStep
<1>3. LineInv /\ StepInv => OutcomeTrue
    <2> SUFFICES ASSUME LineInv, StepInv, clean PROVE OutcomeTrue
        BY DEF OutcomeTrue
    <2>1. Rests("bio") => Fits(run["bio"].op, run["bio"].at, run["bio"].slot)
        BY PlaceFacts DEF StepInv, Quiet
    <2> QED
        BY <2>1 DEF Fits, OutcomeTrue, Rests, Ends
<1> QED
    BY <1>1, <1>2, <1>3, PTL DEF SensorSpec
=============================================================================
