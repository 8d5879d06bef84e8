----------------------------- MODULE Otp_proofs ------------------------------
(***************************************************************************)
(* Proofs about Otp, for every limit of the counters, number of sessions,  *)
(* set of seeds and number of configurations.                              *)
(***************************************************************************)
EXTENDS Otp, TLAPS

(* A key was configured once, and two slots share one only after a swap    *)
(* that the power cut.                                                     *)
KeysOld ==
    /\ \A k \in 1..MaxKeys : k > keys => last[k] = None
    /\ \A s \in Slot : slot[s] # None => slot[s].key <= keys
KeysDiffer ==
    slot[1] # None /\ slot[2] # None /\ slot[1].key = slot[2].key => slot[1].key \in excused

(* What a handler has still to write: the slot's own record with another   *)
(* count, or the first slot of a swap.                                     *)
OwnRecord ==
    LET rec == slot[todo.slot]
    IN  /\ rec # None /\ todo.rec # None
        /\ todo.rec.key = rec.key /\ todo.rec.kind = rec.kind
        /\ rec.kind = "hotp" => todo.first
TodoInv ==
    todo # None =>
        /\ scan = Done
        /\ IF todo.swap
           THEN /\ todo.slot = 2 /\ ~todo.first /\ KeysIn(Slot) \subseteq excused
                /\ todo.rec # None => todo.rec.key \in excused
           ELSE OwnRecord

(* The session counter that goes with the count of the slot *)
With(s) == IF slot[s].kind = "yubico" THEN session[s] ELSE 0

(* What was typed last with the key in the slot comes before what the slot *)
(* types next: after the write under way, after init_otp has counted the   *)
(* slot up, or at once.                                                    *)
InOrder(s) ==
    LET p == last[slot[s].key]
    IN  IF todo # None /\ todo.slot = s
        THEN /\ todo.rec.count # 0 /\ Before(p, <<todo.rec.count, With(s)>>)
             /\ ~todo.first => p[1] <= slot[s].count
        ELSE IF scan <= s /\ slot[s].kind = "yubico" THEN p[1] <= slot[s].count
        ELSE slot[s].count # 0 /\ Before(p, <<slot[s].count, With(s)>>)
Ordered(s) ==
    slot[s] # None /\ slot[s].kind # "static" /\ slot[s].key \notin excused
        /\ last[slot[s].key] # None => InOrder(s)

(* The bounds of a counter, also of one that has still to be written *)
Fits(rec) == rec # None /\ rec.kind = "yubico" =>
    rec.count < Word /\ (rec.key \in excused \/ rec.count <= MaxCounter)
TypeInv == TypeOK /\ (todo # None => Fits(todo.rec))

KeyInv == KeysOld /\ KeysDiffer /\ TodoInv
OrderInv == \A s \in Slot : Ordered(s)

(* The configurations in the slots, with the one a swap holds in RAM *)
Held == IF todo # None /\ todo.swap
        THEN KeysIn({1}) \cup (IF todo.rec = None THEN {} ELSE {todo.rec.key})
        ELSE KeysIn(Slot)
KeptInv == ~cut => Held = live

-----------------------------------------------------------------------------
(* The operators of the model *)

LEMMA LimitFacts == Limit \in Nat /\ Word <= Limit /\ MaxFactor + 1 <= Limit
BY OtpAssumption DEF Limit

(* Counting up never wraps past the limit: it grows or stays. *)
LEMMA NextCountFacts ==
    ASSUME NEW c \in 0..(Word - 1)
    PROVE  /\ NextCount(c) \in 0..(Word - 1)
           /\ NextCount(c) <= MaxCounter \/ NextCount(c) = c
<1>1. (c + 1) % Word \in 0..(Word - 1)
    BY OtpAssumption
<1> QED
    BY <1>1, OtpAssumption DEF NextCount

LEMMA WrapFacts ==
    ASSUME NEW n \in 0..(Sessions - 1)
    PROVE  (n + 1) % Sessions = IF n + 1 = Sessions THEN 0 ELSE n + 1
BY OtpAssumption

LEMMA Recount ==
    ASSUME NEW rec \in Records, NEW c \in 0..Limit
    PROVE  LET new == [rec EXCEPT !.count = c]
           IN  /\ new \in Records /\ new.count = c
               /\ new.key = rec.key /\ new.kind = rec.kind /\ new.seed = rec.seed
BY DEF Records

LEMMA RecordFacts ==
    ASSUME NEW rec \in Records
    PROVE  /\ rec.key \in 1..MaxKeys /\ rec.key \in Nat
           /\ rec.kind \in Kinds /\ rec.seed \in 0..MaxFactor
           /\ rec.count \in 0..Limit /\ rec.count \in Nat
<1>1. rec.key \in 1..MaxKeys /\ rec.kind \in Kinds /\ rec.seed \in Seeds /\ rec.count \in 0..Limit
    BY DEF Records
<1>2. rec.key \in Nat
    BY <1>1, OtpAssumption
<1>3. rec.seed \in 0..MaxFactor
    BY <1>1, OtpAssumption
<1>4. rec.count \in Nat
    BY <1>1, LimitFacts
<1> QED
    BY <1>1, <1>2, <1>3, <1>4

LEMMA KeysInFacts ==
    ASSUME NEW S, NEW s \in S, slot[s] # None
    PROVE  slot[s].key \in KeysIn(S)
BY DEF KeysIn

LEMMA CurrentFacts ==
    ASSUME NEW rec \in Records, Fits(rec)
    PROVE  /\ rec.kind = "yubico" =>
                 /\ Current(rec) \in 1..(Word - 1)
                 /\ rec.key \in excused \/ Current(rec) <= MaxCounter
                 /\ Current(rec) = IF rec.count = 0 THEN 1 ELSE rec.count
           /\ rec.kind = "hotp" =>
                 /\ Current(rec) \in Nat
                 /\ Current(rec) = IF rec.count = 0 THEN rec.seed ELSE rec.count
<1>1. rec # None
    BY NoneAssumption
<1>2. rec.count \in Nat /\ rec.seed \in Nat
    BY RecordFacts
<1>3. CASE rec.kind = "yubico"
    BY <1>1, <1>2, <1>3, OtpAssumption DEF Current, Fits
<1>4. CASE rec.kind = "hotp"
    BY <1>2, <1>4 DEF Current
<1> QED
    BY <1>3, <1>4

-----------------------------------------------------------------------------
(* Types *)

LEMMA InitInv == Init => TypeInv /\ KeyInv /\ OrderInv /\ KeptInv
<1> SUFFICES ASSUME Init PROVE TypeInv /\ KeyInv /\ OrderInv /\ KeptInv
    OBVIOUS
<1>1. slot \in [Slot -> Records \cup {None}] /\ \A s \in Slot : slot[s] = None
    BY DEF Init
<1>2. session \in [Slot -> 0..(Sessions - 1)]
    BY OtpAssumption DEF Init
<1>3. last \in [1..MaxKeys -> Passwords \cup {None}] /\ \A k \in 1..MaxKeys : last[k] = None
    BY DEF Init
<1>4. keys \in 0..MaxKeys /\ scan \in Slot \cup {Done} /\ live = {} /\ excused = {} /\ cut = FALSE
    BY OtpAssumption DEF Init, Slot
<1>5. todo = None
    BY DEF Init
<1>6. TypeInv
    BY <1>1, <1>2, <1>3, <1>4, <1>5 DEF TypeInv, TypeOK
<1>7. KeysIn(Slot) = {}
    BY <1>1 DEF KeysIn
<1>8. KeyInv /\ OrderInv
    BY <1>1, <1>3, <1>5 DEF KeyInv, KeysOld, KeysDiffer, TodoInv, OrderInv, Ordered, Slot
<1>9. KeptInv
    BY <1>4, <1>5, <1>7 DEF KeptInv, Held
<1> QED
    BY <1>6, <1>8, <1>9

LEMMA StepType == TypeInv /\ KeyInv /\ [Next]_vars => TypeInv'
<1> SUFFICES ASSUME TypeInv, KeyInv, [Next]_vars PROVE TypeInv'
    OBVIOUS
<1>a. /\ slot \in [Slot -> Records \cup {None}] /\ \A s \in Slot : Fits(slot[s])
      /\ session \in [Slot -> 0..(Sessions - 1)] /\ scan \in Slot \cup {Done}
      /\ todo \in Writes \cup {None} /\ (todo # None => Fits(todo.rec))
      /\ keys \in 0..MaxKeys /\ live \subseteq 1..keys /\ excused \subseteq 1..keys
      /\ last \in [1..MaxKeys -> Passwords \cup {None}] /\ cut \in BOOLEAN
    BY DEF TypeInv, TypeOK, Fits
<1>b. \A s \in Slot : slot[s] # None => slot[s] \in Records /\ slot[s].key \in 1..keys
  <2> SUFFICES ASSUME NEW s \in Slot, slot[s] # None
               PROVE  slot[s] \in Records /\ slot[s].key \in 1..keys
      OBVIOUS
  <2>1. slot[s] \in Records
      BY <1>a
  <2>2. slot[s].key \in 1..MaxKeys
      BY <2>1, RecordFacts
  <2>3. slot[s].key <= keys
      BY DEF KeyInv, KeysOld
  <2> QED
      BY <1>a, <2>1, <2>2, <2>3, OtpAssumption
<1>c. \A S \in SUBSET Slot : KeysIn(S) \subseteq 1..keys
    BY <1>b DEF KeysIn
<1>d. /\ slot' \in [Slot -> Records \cup {None}]
      /\ \A s \in Slot : Fits(slot[s])'
      /\ session' \in [Slot -> 0..(Sessions - 1)] /\ scan' \in Slot \cup {Done}
      /\ todo' \in Writes \cup {None} /\ (todo' # None => Fits(todo.rec)')
      /\ keys' \in 0..MaxKeys /\ live' \subseteq 1..keys' /\ excused' \subseteq 1..keys'
      /\ last' \in [1..MaxKeys -> Passwords \cup {None}] /\ cut' \in BOOLEAN
      => TypeInv'
    BY DEF TypeInv, TypeOK, Fits
<1>e. ASSUME NEW rec, Fits(rec), excused \subseteq excused'
      PROVE  rec # None /\ rec.kind = "yubico" =>
                rec.count < Word /\ (rec.key \in excused' \/ rec.count <= MaxCounter)
    BY <1>e DEF Fits
<1>1. CASE PowerLoss
  <2>1. session' \in [Slot -> 0..(Sessions - 1)]
      BY <1>1, OtpAssumption DEF PowerLoss
  <2>2. excused' \subseteq 1..keys /\ excused \subseteq excused'
    <3>1. CASE todo # None /\ todo.first
      <4>1. todo.slot \in Slot /\ todo.rec.key = slot[todo.slot].key /\ slot[todo.slot] # None
          BY <1>a, <3>1 DEF KeyInv, TodoInv, OwnRecord, Writes
      <4> QED
          BY <1>1, <1>a, <1>b, <3>1, <4>1 DEF PowerLoss
    <3>2. CASE ~(todo # None /\ todo.first)
        BY <1>1, <1>a, <3>2 DEF PowerLoss
    <3> QED
        BY <3>1, <3>2
  <2>3. scan' \in Slot /\ cut' \in BOOLEAN
      BY <1>1, <1>a DEF PowerLoss, Slot
  <2>4. todo' = None /\ UNCHANGED <<slot, keys, live, last>>
      BY <1>1 DEF PowerLoss
  <2> QED
      BY <1>a, <1>d, <1>e, <2>1, <2>2, <2>3, <2>4 DEF Fits
<1>2. CASE InitOtp
  <2>1. scan \in Slot /\ scan + 1 \in Slot \cup {Done}
      BY <1>2, <1>a DEF InitOtp, Slot, Done
  <2>2. excused' \subseteq 1..keys /\ excused \subseteq excused'
      BY <1>2, <1>a, <1>b, <2>1 DEF InitOtp
  <2>3. Counted(slot[scan]) \in Records \cup {None}
        /\ (Counted(slot[scan]) # None =>
                slot[scan] # None /\ Counted(slot[scan]).key = slot[scan].key
                /\ Counted(slot[scan]).kind = slot[scan].kind)
        /\ (Counted(slot[scan]) # None /\ slot[scan].kind = "yubico" =>
                /\ Counted(slot[scan]).count < Word
                /\ slot[scan].key \in excused \/ Counted(slot[scan]).count <= MaxCounter)
    <3>1. CASE slot[scan] # None /\ slot[scan].kind = "yubico"
      <4>1. slot[scan] \in Records /\ slot[scan].count \in 0..(Word - 1)
            /\ (slot[scan].key \in excused \/ slot[scan].count <= MaxCounter)
          BY <1>a, <1>b, <2>1, <3>1, RecordFacts, OtpAssumption DEF Fits
      <4>2. /\ NextCount(slot[scan].count) \in 0..(Word - 1)
            /\ slot[scan].key \in excused \/ NextCount(slot[scan].count) <= MaxCounter
          BY <4>1, NextCountFacts
      <4>3. NextCount(slot[scan].count) \in 0..Limit /\ NextCount(slot[scan].count) < Word
          BY <4>2, LimitFacts, OtpAssumption
      <4>4. Counted(slot[scan]) = [slot[scan] EXCEPT !.count = NextCount(slot[scan].count)]
          BY <3>1, <4>1 DEF Counted, Records
      <4> QED
          BY <3>1, <4>1, <4>2, <4>3, <4>4, Recount
    <3>2. CASE ~(slot[scan] # None /\ slot[scan].kind = "yubico")
        BY <1>a, <2>1, <3>2 DEF Counted
    <3> QED
        BY <3>1, <3>2
  <2>4. /\ slot' \in [Slot -> Records \cup {None}]
        /\ slot'[scan] = Counted(slot[scan]) /\ \A t \in Slot : t # scan => slot'[t] = slot[t]
      BY <1>2, <1>a, <2>1, <2>3 DEF InitOtp
  <2>5. \A s \in Slot : Fits(slot[s])'
      BY <1>a, <1>e, <2>2, <2>3, <2>4 DEF Fits
  <2>6. scan' = scan + 1 /\ UNCHANGED <<session, todo, keys, live, last, cut>>
      BY <1>2 DEF InitOtp
  <2> QED
      BY <1>a, <1>d, <1>e, <2>1, <2>2, <2>4, <2>5, <2>6 DEF Fits
<1>3. CASE Status
  <2>1. excused' \subseteq 1..keys /\ excused \subseteq excused'
      BY <1>3, <1>a, <1>c DEF Status
  <2> QED
      BY <1>3, <1>a, <1>d, <1>e, <2>1 DEF Status, Fits
<1>4. ASSUME NEW s \in Slot, PressYubico(s) PROVE TypeInv'
  <2>1. PICK c : c = Current(slot[s])
      OBVIOUS
  <2>2. /\ slot[s] # None /\ slot[s].kind = "yubico" /\ todo = None
        /\ last' = [last EXCEPT ![slot[s].key] = <<c, session[s]>>]
        /\ session' = [session EXCEPT ![s] = (@ + 1) % Sessions]
        /\ todo' = None \/ todo' = After(s, NextCount(c), slot[s].count = 0)
                        \/ todo' = After(s, c, slot[s].count = 0)
        /\ excused' \subseteq excused \cup {slot[s].key} /\ excused \subseteq excused'
        /\ UNCHANGED <<slot, scan, keys, live, cut>>
      BY <1>4, <2>1 DEF PressYubico, Idle
  <2>3. c \in 1..(Word - 1) /\ (slot[s].key \in excused \/ c <= MaxCounter)
      BY <1>a, <1>b, <2>1, <2>2, CurrentFacts
  <2>4. /\ NextCount(c) \in 0..(Word - 1)
        /\ slot[s].key \in excused \/ NextCount(c) <= MaxCounter
      BY <2>3, NextCountFacts, OtpAssumption
  <2>5. c \in 0..Limit /\ NextCount(c) \in 0..Limit /\ c < Word /\ NextCount(c) < Word
      BY <2>3, <2>4, LimitFacts, OtpAssumption
  <2>6. ASSUME NEW d \in 0..Limit, NEW b \in BOOLEAN, d < Word,
               slot[s].key \in excused \/ d <= MaxCounter, todo' = After(s, d, b)
        PROVE  todo' \in Writes /\ Fits(todo.rec)'
    <3>1. /\ [slot[s] EXCEPT !.count = d] \in Records
          /\ [slot[s] EXCEPT !.count = d].count = d
          /\ [slot[s] EXCEPT !.count = d].key = slot[s].key
        BY <1>b, <2>2, Recount
    <3>2. todo'.rec = [slot[s] EXCEPT !.count = d] /\ todo' \in Writes
        BY <2>6, <3>1 DEF After, Writes
    <3> QED
        BY <2>2, <2>6, <3>1, <3>2 DEF Fits
  <2>7. todo' \in Writes \cup {None} /\ (todo' # None => Fits(todo.rec)')
      BY <2>2, <2>3, <2>4, <2>5, <2>6
  <2>8. last' \in [1..MaxKeys -> Passwords \cup {None}]
    <3>1. <<c, session[s]>> \in Passwords
        BY <1>a, <2>5 DEF Passwords
    <3> QED
        BY <1>a, <2>2, <3>1
  <2>9. session' \in [Slot -> 0..(Sessions - 1)]
    <3>1. (session[s] + 1) % Sessions \in 0..(Sessions - 1)
        BY <1>a, WrapFacts, OtpAssumption
    <3> QED
        BY <1>a, <2>2, <3>1
  <2>10. excused' \subseteq 1..keys
      BY <1>a, <1>b, <2>2
  <2> QED
      BY <1>a, <1>d, <1>e, <2>2, <2>7, <2>8, <2>9, <2>10 DEF Fits
<1>5. ASSUME NEW s \in Slot, PressHotp(s) PROVE TypeInv'
  <2>1. PICK f : f = Current(slot[s])
      OBVIOUS
  <2>2. /\ slot[s] # None /\ slot[s].kind = "hotp" /\ todo = None /\ f <= MaxFactor
        /\ last' = [last EXCEPT ![slot[s].key] = <<f, 0>>]
        /\ todo' = After(s, f + 1, TRUE)
        /\ UNCHANGED <<slot, session, scan, keys, live, excused, cut>>
      BY <1>5, <2>1 DEF PressHotp, Idle
  <2>3. f \in Nat
      BY <1>a, <1>b, <2>1, <2>2, CurrentFacts
  <2>4. f \in 0..Limit /\ f + 1 \in 0..Limit
      BY <2>2, <2>3, LimitFacts, OtpAssumption
  <2>5. /\ [slot[s] EXCEPT !.count = f + 1] \in Records
        /\ [slot[s] EXCEPT !.count = f + 1].kind = "hotp"
      BY <1>b, <2>2, <2>4, Recount
  <2>6. todo'.rec = [slot[s] EXCEPT !.count = f + 1] /\ todo' \in Writes
      BY <2>2, <2>5 DEF After, Writes
  <2>7. Fits(todo.rec)'
      BY <2>5, <2>6 DEF Fits
  <2>8. last' \in [1..MaxKeys -> Passwords \cup {None}]
    <3>1. <<f, 0>> \in Passwords
        BY <2>4, OtpAssumption DEF Passwords
    <3> QED
        BY <1>a, <2>2, <3>1
  <2> QED
      BY <1>a, <1>d, <1>e, <2>2, <2>6, <2>7, <2>8 DEF Fits
<1>6. CASE Write
  <2>1. todo.slot \in Slot /\ todo.rec \in Records \cup {None}
      BY <1>6, <1>a DEF Write, Writes
  <2> QED
      BY <1>6, <1>a, <1>d, <1>e, <2>1 DEF Write, Fits
<1>7. ASSUME NEW s \in Slot, NEW kind \in Kinds, NEW seed \in Seeds, Configure(s, kind, seed)
      PROVE  TypeInv'
  <2>1. keys' = keys + 1 /\ keys + 1 \in 1..MaxKeys
      BY <1>7, <1>a, OtpAssumption DEF Configure
  <2>2. PICK rec : rec = [key |-> keys + 1, kind |-> kind, seed |-> seed, count |-> 0]
      OBVIOUS
  <2>3. rec \in Records /\ rec.count = 0
      BY <2>1, <2>2, LimitFacts DEF Records
  <2>4. slot' = [slot EXCEPT ![s] = rec] /\ todo = None
        /\ UNCHANGED <<session, scan, todo, last, excused, cut>>
      BY <1>7, <2>2 DEF Configure, Idle
  <2>5. live' \subseteq 1..keys' /\ excused \subseteq 1..keys'
    <3>1. 1..keys \subseteq 1..(keys + 1) /\ keys + 1 \in 1..(keys + 1)
        BY <1>a, OtpAssumption
    <3>2. live' \subseteq live \cup {keys + 1}
        BY <1>7 DEF Configure
    <3> QED
        BY <1>a, <2>1, <3>1, <3>2
  <2>6. \A t \in Slot : Fits(slot[t])'
    <3>1. rec.count < Word /\ rec.count <= MaxCounter
        BY <2>3, OtpAssumption
    <3> QED
        BY <1>a, <2>4, <3>1 DEF Fits
  <2> QED
      BY <1>a, <1>d, <2>1, <2>3, <2>4, <2>5, <2>6
<1>8. ASSUME NEW s \in Slot, DeleteSlot(s) PROVE TypeInv'
  <2>1. \A t \in Slot : slot'[t] = slot[t] \/ slot'[t] = None
      BY <1>8, <1>a DEF DeleteSlot
  <2> QED
      BY <1>8, <1>a, <1>d, <1>e, <2>1 DEF DeleteSlot, Fits
<1>9. ASSUME NEW s \in Slot, Update(s) PROVE TypeInv'
  <2>1. PICK c \in 0..(IF slot[s].kind = "yubico" THEN Word - 1 ELSE MaxFactor) :
            slot' = [slot EXCEPT ![s].count = c]
      BY <1>9 DEF Update
  <2>2. slot[s] \in Records /\ slot[s].key \in KeysIn({s})
      BY <1>9, <1>b, KeysInFacts DEF Update
  <2>3. c \in 0..Limit /\ (slot[s].kind = "yubico" => c < Word)
      BY <2>1, LimitFacts, OtpAssumption
  <2>4. /\ [slot[s] EXCEPT !.count = c] \in Records
        /\ [slot[s] EXCEPT !.count = c].count = c
        /\ [slot[s] EXCEPT !.count = c].key = slot[s].key
        /\ [slot[s] EXCEPT !.count = c].kind = slot[s].kind
      BY <2>2, <2>3, Recount
  <2>5. slot' = [slot EXCEPT ![s] = [slot[s] EXCEPT !.count = c]]
      BY <1>a, <2>1
  <2>6. excused' = excused \cup KeysIn({s}) /\ todo = None
        /\ UNCHANGED <<session, scan, todo, keys, live, last, cut>>
      BY <1>9 DEF Update, Idle
  <2>7. excused' \subseteq 1..keys
      BY <1>a, <1>c, <2>6
  <2>8. \A t \in Slot : Fits(slot[t])'
      BY <1>a, <1>e, <2>2, <2>3, <2>4, <2>5, <2>6 DEF Fits
  <2> QED
      BY <1>a, <1>d, <2>4, <2>5, <2>6, <2>7, <2>8
<1>10. CASE Swap
  <2>1. excused' \subseteq 1..keys /\ excused \subseteq excused'
      BY <1>10, <1>a, <1>c DEF Swap
  <2>2. slot' = [slot EXCEPT ![1] = slot[2]] /\ {1, 2} \subseteq Slot
      BY <1>10 DEF Swap, Slot
  <2>3. \A t \in Slot : slot'[t] = slot[t] \/ slot'[t] = slot[2]
      BY <1>a, <2>2
  <2>4. todo' = [slot |-> 2, rec |-> slot[1], first |-> FALSE, swap |-> TRUE]
      BY <1>10 DEF Swap, Second
  <2>5. todo' \in Writes /\ todo'.rec = slot[1]
      BY <1>a, <2>2, <2>4 DEF Writes
  <2>6. UNCHANGED <<session, scan, keys, live, last, cut>>
      BY <1>10 DEF Swap
  <2> QED
      BY <1>a, <1>d, <1>e, <2>1, <2>2, <2>3, <2>5, <2>6 DEF Fits
<1>11. CASE FactoryReset
    BY <1>11, <1>a, <1>d DEF FactoryReset, Idle, Fits
<1>12. CASE UNCHANGED vars
    BY <1>12, <1>a, <1>d DEF vars, Fits
<1> QED
    BY <1>1, <1>2, <1>3, <1>4, <1>5, <1>6, <1>7, <1>8, <1>9, <1>10, <1>11, <1>12 DEF Next

-----------------------------------------------------------------------------
(* Keys and what is still to write *)

LEMMA SlotFacts ==
    ASSUME TypeInv, KeyInv, NEW s \in Slot, slot[s] # None
    PROVE  /\ slot[s] \in Records /\ Fits(slot[s]) /\ slot[s].key \in Nat
           /\ slot[s].key \in 1..MaxKeys /\ slot[s].key <= keys /\ keys \in Nat
           /\ slot[s].count \in Nat /\ session[s] \in Nat /\ session[s] < Sessions
<1>1. slot[s] \in Records /\ Fits(slot[s]) /\ keys \in 0..MaxKeys /\ session[s] \in 0..(Sessions - 1)
    BY DEF TypeInv, TypeOK, Fits
<1>2. slot[s].key \in 1..MaxKeys /\ slot[s].key \in Nat /\ slot[s].count \in Nat
    BY <1>1, RecordFacts
<1>3. slot[s].key <= keys
    BY DEF KeyInv, KeysOld
<1>4. keys \in Nat /\ session[s] \in Nat /\ session[s] < Sessions
    BY <1>1, OtpAssumption
<1> QED
    BY <1>1, <1>2, <1>3, <1>4

(* After a press the record to be written is the slot's with another count *)
LEMMA AfterFacts ==
    ASSUME TypeInv, NEW s \in Slot, slot[s] # None, NEW c \in 0..Limit, NEW b \in BOOLEAN
    PROVE  LET w == After(s, c, b)
           IN  /\ w \in Writes /\ w # None /\ w.slot = s /\ w.first = b /\ ~w.swap
               /\ w.rec # None /\ w.rec.count = c
               /\ w.rec.key = slot[s].key /\ w.rec.kind = slot[s].kind
<1>1. slot[s] \in Records
    BY DEF TypeInv, TypeOK
<1>2. /\ [slot[s] EXCEPT !.count = c] \in Records /\ [slot[s] EXCEPT !.count = c].count = c
      /\ [slot[s] EXCEPT !.count = c].key = slot[s].key
      /\ [slot[s] EXCEPT !.count = c].kind = slot[s].kind
    BY <1>1, Recount
<1>3. After(s, c, b) \in Writes /\ After(s, c, b).rec = [slot[s] EXCEPT !.count = c]
    BY <1>2 DEF After, Writes
<1> QED
    BY <1>2, <1>3, NoneAssumption DEF After

(* What a press of a Yubico slot does to the state *)
LEMMA PressYubicoFacts ==
    ASSUME TypeInv, KeyInv, NEW s \in Slot, PressYubico(s)
    PROVE  LET rec == slot[s]
               c == Current(rec)
           IN  /\ rec # None /\ rec.kind = "yubico" /\ scan = Done /\ todo = None
               /\ c \in Nat /\ c >= 1 /\ c = (IF rec.count = 0 THEN 1 ELSE rec.count)
               /\ c \in 0..Limit /\ NextCount(c) \in 0..Limit
               /\ last' = [last EXCEPT ![rec.key] = <<c, session[s]>>]
               /\ session' = [session EXCEPT ![s] = (@ + 1) % Sessions]
               /\ IF session[s] + 1 = Sessions
                  THEN \/ NextCount(c) <= c /\ rec.key \in excused'
                       \/ NextCount(c) > c /\ todo' = After(s, NextCount(c), rec.count = 0)
                  ELSE IF rec.count = 0 THEN todo' = After(s, c, TRUE) ELSE todo' = None
               /\ \/ todo' = None
                  \/ \E d \in 0..Limit, b \in BOOLEAN : todo' = After(s, d, b)
               /\ excused \subseteq excused'
               /\ UNCHANGED <<slot, scan, keys, live, cut>>
<1>1. slot[s] # None /\ slot[s].kind = "yubico" /\ scan = Done /\ todo = None
    BY DEF PressYubico, Idle
<1> DEFINE rec == slot[s]
           c == Current(rec)
<1>2. c \in 1..(Word - 1) /\ c = (IF rec.count = 0 THEN 1 ELSE rec.count)
    BY <1>1, SlotFacts, CurrentFacts
<1>3. NextCount(c) \in 0..(Word - 1) /\ c \in Nat /\ c >= 1 /\ c \in 0..Limit
    BY <1>2, NextCountFacts, LimitFacts, OtpAssumption
<1>4. NextCount(c) \in 0..Limit /\ NextCount(c) \in Nat
    BY <1>3, LimitFacts, OtpAssumption
<1>5. /\ last' = [last EXCEPT ![rec.key] = <<c, session[s]>>]
      /\ session' = [session EXCEPT ![s] = (@ + 1) % Sessions]
      /\ UNCHANGED <<slot, scan, keys, live, cut>> /\ excused \subseteq excused'
      /\ todo' = IF rec.count = 0 \/ (session[s] + 1 = Sessions /\ NextCount(c) # c)
                 THEN After(s, IF session[s] + 1 = Sessions THEN NextCount(c) ELSE c, rec.count = 0)
                 ELSE None
      /\ session[s] + 1 = Sessions /\ NextCount(c) <= c => rec.key \in excused'
    BY DEF PressYubico
<1>6. NextCount(c) > c => NextCount(c) # c
    BY <1>3, <1>4
<1>7. NextCount(c) <= c \/ NextCount(c) > c
    BY <1>3, <1>4
<1>8. IF session[s] + 1 = Sessions
      THEN \/ NextCount(c) <= c /\ rec.key \in excused'
           \/ NextCount(c) > c /\ todo' = After(s, NextCount(c), rec.count = 0)
      ELSE IF rec.count = 0 THEN todo' = After(s, c, TRUE) ELSE todo' = None
    BY <1>5, <1>6, <1>7
<1>9. todo' = None \/ \E d \in 0..Limit, b \in BOOLEAN : todo' = After(s, d, b)
    BY <1>3, <1>4, <1>5
<1> QED
    BY <1>1, <1>2, <1>3, <1>4, <1>5, <1>8, <1>9

LEMMA PressHotpFacts ==
    ASSUME TypeInv, KeyInv, NEW s \in Slot, PressHotp(s)
    PROVE  LET f == Current(slot[s])
           IN  /\ slot[s] # None /\ slot[s].kind = "hotp" /\ scan = Done /\ todo = None
               /\ f \in Nat /\ f + 1 \in 0..Limit
               /\ last' = [last EXCEPT ![slot[s].key] = <<f, 0>>]
               /\ todo' = After(s, f + 1, TRUE)
               /\ UNCHANGED <<slot, session, scan, keys, live, excused, cut>>
<1>1. slot[s] # None /\ slot[s].kind = "hotp" /\ scan = Done /\ todo = None
    BY DEF PressHotp, Idle
<1> DEFINE f == Current(slot[s])
<1>2. f \in Nat
    BY <1>1, SlotFacts, CurrentFacts
<1>3. /\ f <= MaxFactor /\ todo' = After(s, f + 1, TRUE)
      /\ last' = [last EXCEPT ![slot[s].key] = <<f, 0>>]
      /\ UNCHANGED <<slot, session, scan, keys, live, excused, cut>>
    BY DEF PressHotp
<1>4. f + 1 \in 0..Limit
    BY <1>2, <1>3, LimitFacts, OtpAssumption
<1> QED
    BY <1>1, <1>2, <1>3, <1>4

(* init_otp changes at most the count of the slot it comes to *)
LEMMA InitOtpFacts ==
    ASSUME TypeInv, KeyInv, InitOtp
    PROVE  /\ scan \in Slot /\ scan' = scan + 1 /\ todo = None
           /\ \A s \in Slot : s # scan => slot'[s] = slot[s]
           /\ slot[scan] = None => slot'[scan] = None
           /\ slot[scan] # None =>
                 /\ slot'[scan] # None
                 /\ slot'[scan].key = slot[scan].key /\ slot'[scan].kind = slot[scan].kind
                 /\ slot[scan].kind # "yubico" => slot'[scan] = slot[scan]
                 /\ slot[scan].kind = "yubico" =>
                       slot[scan].key \in excused' \/ slot'[scan].count > slot[scan].count
           /\ excused \subseteq excused' /\ UNCHANGED <<session, todo, keys, live, last, cut>>
<1>1. scan \in Slot /\ scan' = scan + 1 /\ UNCHANGED <<session, todo, keys, live, last, cut>>
    BY DEF InitOtp, TypeInv, TypeOK
<1>2. todo = None
    BY DEF InitOtp, KeyInv, TodoInv
<1>3. slot' = [slot EXCEPT ![scan] = Counted(slot[scan])] /\ excused \subseteq excused'
      /\ slot \in [Slot -> Records \cup {None}]
    BY DEF InitOtp, TypeInv, TypeOK
<1>4. slot'[scan] = Counted(slot[scan]) /\ \A s \in Slot : s # scan => slot'[s] = slot[s]
    BY <1>1, <1>3
<1>5. CASE slot[scan] # None /\ slot[scan].kind = "yubico"
  <2> DEFINE rec == slot[scan]
             c == rec.count
  <2>1. rec \in Records /\ c \in 0..(Word - 1)
      BY <1>1, <1>5, SlotFacts, OtpAssumption DEF Fits
  <2>2. NextCount(c) \in 0..(Word - 1) /\ c \in Nat
      BY <2>1, NextCountFacts, OtpAssumption
  <2>3. NextCount(c) \in 0..Limit /\ NextCount(c) \in Nat
      BY <2>2, LimitFacts, OtpAssumption
  <2>4. /\ [rec EXCEPT !.count = NextCount(c)] \in Records
        /\ [rec EXCEPT !.count = NextCount(c)].count = NextCount(c)
        /\ [rec EXCEPT !.count = NextCount(c)].key = rec.key
        /\ [rec EXCEPT !.count = NextCount(c)].kind = rec.kind
      BY <2>1, <2>3, Recount
  <2>5. slot'[scan] = [rec EXCEPT !.count = NextCount(c)]
      BY <1>4, <1>5, <2>1 DEF Counted, Records
  <2>6. rec.key \in excused' \/ NextCount(c) > c
    <3>1. NextCount(c) <= c => rec.key \in excused'
        BY <1>5 DEF InitOtp
    <3>2. NextCount(c) <= c \/ NextCount(c) > c
        BY <2>2, <2>3
    <3> QED
        BY <3>1, <3>2
  <2> QED
      BY <1>1, <1>2, <1>3, <1>4, <1>5, <2>4, <2>5, <2>6, NoneAssumption
<1>6. CASE ~(slot[scan] # None /\ slot[scan].kind = "yubico")
    BY <1>1, <1>2, <1>3, <1>4, <1>6 DEF Counted
<1> QED
    BY <1>5, <1>6

LEMMA StepKeys == TypeInv /\ KeyInv /\ [Next]_vars => KeyInv'
<1> SUFFICES ASSUME TypeInv, KeyInv, [Next]_vars PROVE KeyInv'
    OBVIOUS
<1>a. /\ slot \in [Slot -> Records \cup {None}] /\ keys \in Nat /\ keys <= MaxKeys
      /\ last \in [1..MaxKeys -> Passwords \cup {None}] /\ excused \subseteq 1..keys
      /\ 1 \in Slot /\ 2 \in Slot
    BY OtpAssumption DEF TypeInv, TypeOK, Slot
<1>b. \A s \in Slot : slot[s] # None => slot[s].key \in 1..MaxKeys /\ slot[s].key \in Nat
                                        /\ slot[s].key <= keys
    BY SlotFacts
<1>c. /\ \A k \in 1..MaxKeys : k > keys => last[k] = None
      /\ KeysDiffer /\ TodoInv
    BY DEF KeyInv, KeysOld
\* The slots keep their keys, or lose them.
<1>d. ASSUME UNCHANGED <<keys, last>>, excused \subseteq excused',
             \A s \in Slot : slot'[s] # None => slot[s] # None /\ slot'[s].key = slot[s].key
      PROVE  KeysOld' /\ KeysDiffer'
    BY <1>a, <1>b, <1>c, <1>d DEF KeysOld, KeysDiffer
<1>1. CASE PowerLoss
    BY <1>1, <1>a, <1>d DEF PowerLoss, KeyInv, TodoInv
<1>2. CASE InitOtp
  <2>1. KeysOld' /\ KeysDiffer'
      BY <1>2, <1>a, <1>d, InitOtpFacts
  <2> QED
      BY <1>2, <2>1, InitOtpFacts DEF KeyInv, TodoInv
<1>3. CASE Status
  <2>1. todo = None
      BY <1>3, <1>c DEF Status, TodoInv, Done
  <2> QED
      BY <1>3, <1>d, <2>1 DEF Status, KeyInv, TodoInv
<1>4. ASSUME NEW s \in Slot, NEW c \in 0..Limit, NEW b \in BOOLEAN, NEW p,
             slot[s] # None, todo = None, scan = Done,
             slot[s].kind = "hotp" => b = TRUE,
             last' = [last EXCEPT ![slot[s].key] = p],
             todo' = None \/ todo' = After(s, c, b),
             excused \subseteq excused', UNCHANGED <<slot, scan, keys>>
      PROVE  KeyInv'
  <2>1. KeysOld'
      BY <1>4, <1>a, <1>b, <1>c DEF KeysOld
  <2>2. KeysDiffer'
      BY <1>4, <1>c DEF KeysDiffer
  <2>3. CASE todo' = After(s, c, b)
    <3>1. /\ todo'.slot = s /\ ~todo'.swap /\ todo'.first = b /\ todo'.rec # None
          /\ todo'.rec.key = slot[s].key /\ todo'.rec.kind = slot[s].kind
        BY <1>4, <2>3, AfterFacts
    <3>2. TodoInv'
        BY <1>4, <3>1 DEF TodoInv, OwnRecord
    <3> QED
        BY <2>1, <2>2, <3>2 DEF KeyInv
  <2>4. CASE todo' = None
      BY <2>1, <2>2, <2>4 DEF KeyInv, TodoInv
  <2> QED
      BY <1>4, <2>3, <2>4
<1>5. ASSUME NEW s \in Slot, PressYubico(s) PROVE KeyInv'
  <2>1. /\ slot[s] # None /\ slot[s].kind = "yubico" /\ scan = Done /\ todo = None
        /\ last' = [last EXCEPT ![slot[s].key] = <<Current(slot[s]), session[s]>>]
        /\ todo' = None \/ \E d \in 0..Limit, b \in BOOLEAN : todo' = After(s, d, b)
        /\ excused \subseteq excused' /\ UNCHANGED <<slot, scan, keys>>
      BY <1>5, PressYubicoFacts
  <2>2. CASE todo' = None
    <3>1. 0 \in 0..Limit
        BY LimitFacts
    <3> QED
        BY <1>4, <2>1, <2>2, <3>1
  <2>3. CASE \E d \in 0..Limit, b \in BOOLEAN : todo' = After(s, d, b)
      BY <1>4, <2>1, <2>3
  <2> QED
      BY <2>1, <2>2, <2>3
<1>6. ASSUME NEW s \in Slot, PressHotp(s) PROVE KeyInv'
  <2>1. /\ slot[s] # None /\ scan = Done /\ todo = None /\ Current(slot[s]) + 1 \in 0..Limit
        /\ last' = [last EXCEPT ![slot[s].key] = <<Current(slot[s]), 0>>]
        /\ todo' = After(s, Current(slot[s]) + 1, TRUE)
        /\ UNCHANGED <<slot, scan, keys, excused>>
      BY <1>6, PressHotpFacts
  <2> QED
      BY <1>4, <2>1
<1>7. CASE Write
  <2>1. todo # None /\ todo' = None /\ slot' = [slot EXCEPT ![todo.slot] = todo.rec]
        /\ UNCHANGED <<keys, last, excused>>
      BY <1>7 DEF Write
  <2>2. todo.slot \in Slot
      BY <2>1 DEF TypeInv, TypeOK, Writes
  <2>3. CASE todo.swap
    <3>1. todo.slot = 2 /\ (todo.rec # None => todo.rec.key \in excused)
        BY <1>c, <2>1, <2>3 DEF TodoInv
    <3>2. slot'[2] = todo.rec /\ slot'[1] = slot[1]
        BY <1>a, <2>1, <3>1
    <3>3. todo.rec # None => todo.rec.key <= keys
      <4>1. \A k \in excused : k <= keys
          BY <1>a
      <4> QED
          BY <3>1, <4>1
    <3>4. KeysOld'
        BY <1>a, <1>b, <1>c, <2>1, <3>2, <3>3 DEF KeysOld, Slot
    <3> QED
        BY <2>1, <3>1, <3>2, <3>4 DEF KeyInv, KeysDiffer, TodoInv
  <2>4. CASE ~todo.swap
    <3>1. slot[todo.slot] # None /\ todo.rec.key = slot[todo.slot].key
        BY <1>c, <2>1, <2>4 DEF TodoInv, OwnRecord
    <3> QED
        BY <1>a, <1>d, <2>1, <2>2, <3>1 DEF KeyInv, TodoInv
  <2> QED
      BY <2>3, <2>4
<1>8. ASSUME NEW s \in Slot, NEW kind \in Kinds, NEW seed \in Seeds, Configure(s, kind, seed)
      PROVE  KeyInv'
  <2>1. /\ keys' = keys + 1 /\ todo = None /\ UNCHANGED <<todo, last, excused>>
        /\ slot' = [slot EXCEPT ![s] = [key |-> keys + 1, kind |-> kind, seed |-> seed, count |-> 0]]
      BY <1>8 DEF Configure, Idle
  <2>2. slot'[s].key = keys + 1 /\ \A t \in Slot : t # s => slot'[t] = slot[t]
      BY <1>a, <2>1
  <2>3. KeysOld'
      BY <1>a, <1>b, <1>c, <2>1, <2>2 DEF KeysOld
  <2>4. KeysDiffer'
    <3>1. CASE s = 1
        BY <1>a, <1>b, <2>2, <3>1 DEF KeysDiffer
    <3>2. CASE s = 2
        BY <1>a, <1>b, <2>2, <3>2 DEF KeysDiffer
    <3> QED
        BY <3>1, <3>2 DEF Slot
  <2> QED
      BY <2>1, <2>3, <2>4 DEF KeyInv, TodoInv
<1>9. ASSUME NEW s \in Slot, DeleteSlot(s) PROVE KeyInv'
  <2>1. \A t \in Slot : slot'[t] = slot[t] \/ slot'[t] = None
      BY <1>9, <1>a DEF DeleteSlot
  <2> QED
      BY <1>9, <1>d, <2>1 DEF DeleteSlot, Idle, KeyInv, TodoInv
<1>10. ASSUME NEW s \in Slot, Update(s) PROVE KeyInv'
  <2>1. /\ slot[s] # None /\ todo = None /\ excused \subseteq excused' /\ UNCHANGED <<todo, keys, last>>
        /\ \E c : slot' = [slot EXCEPT ![s].count = c]
      BY <1>10 DEF Update, Idle
  <2>2. \A t \in Slot : slot'[t] # None => slot[t] # None /\ slot'[t].key = slot[t].key
      BY <1>a, <2>1, NoneAssumption DEF Records
  <2> QED
      BY <1>d, <2>1, <2>2 DEF KeyInv, TodoInv
<1>11. CASE Swap
  <2>1. /\ slot' = [slot EXCEPT ![1] = slot[2]] /\ excused' = excused \cup KeysIn(Slot)
        /\ todo' = [slot |-> 2, rec |-> slot[1], first |-> FALSE, swap |-> TRUE]
        /\ scan = Done /\ UNCHANGED <<scan, keys, last>>
      BY <1>11 DEF Swap, Idle, Second
  <2>2. slot'[1] = slot[2] /\ slot'[2] = slot[2]
      BY <1>a, <2>1 DEF Slot
  <2>3. \A s \in Slot : slot[s] # None => slot[s].key \in KeysIn(Slot)
      BY KeysInFacts
  <2>4. KeysOld' /\ KeysDiffer'
      BY <1>a, <1>b, <1>c, <2>1, <2>2, <2>3 DEF KeysOld, KeysDiffer, Slot
  <2>5. KeysIn(Slot)' \subseteq excused'
      BY <1>a, <2>1, <2>2, <2>3 DEF KeysIn, Slot
  <2>6. TodoInv'
      BY <1>a, <2>1, <2>3, <2>5 DEF TodoInv
  <2> QED
      BY <2>4, <2>6 DEF KeyInv
<1>12. CASE FactoryReset
    BY <1>12, <1>d DEF FactoryReset, Idle, KeyInv, TodoInv
<1>13. CASE UNCHANGED vars
    BY <1>13, <1>c, <1>d DEF vars, KeyInv, TodoInv, OwnRecord, KeysIn
<1> QED
    BY <1>1, <1>2, <1>3, <1>5, <1>6, <1>7, <1>8, <1>9, <1>10, <1>11, <1>12, <1>13 DEF Next

-----------------------------------------------------------------------------
(* Configurations *)

LEMMA ConfiguredRecord ==
    ASSUME TypeInv, NEW kind \in Kinds, NEW seed \in Seeds, keys < MaxKeys
    PROVE  [key |-> keys + 1, kind |-> kind, seed |-> seed, count |-> 0] \in Records
<1>1. keys + 1 \in 1..MaxKeys /\ 0 \in 0..Limit
    BY LimitFacts, OtpAssumption DEF TypeInv, TypeOK
<1> QED
    BY <1>1 DEF Records

LEMMA StepKept == TypeInv /\ KeyInv /\ KeptInv /\ [Next]_vars => KeptInv'
<1> SUFFICES ASSUME TypeInv, KeyInv, KeptInv, [Next]_vars, ~cut' PROVE Held' = live'
    BY DEF KeptInv
<1>a. /\ slot \in [Slot -> Records \cup {None}] /\ 1 \in Slot /\ 2 \in Slot
      /\ Other(1) = 2 /\ Other(2) = 1 /\ \A s \in Slot : s = 1 \/ s = 2
    BY DEF TypeInv, TypeOK, Slot, Other
<1>b. ~cut => Held = live
    BY DEF KeptInv
<1>c. /\ KeysIn({1}) = IF slot[1] # None THEN {slot[1].key} ELSE {}
      /\ KeysIn({2}) = IF slot[2] # None THEN {slot[2].key} ELSE {}
      /\ KeysIn(Slot) = KeysIn({1}) \cup KeysIn({2})
    BY <1>a DEF KeysIn
<1>d. /\ KeysIn({1})' = IF slot'[1] # None THEN {slot'[1].key} ELSE {}
      /\ KeysIn({2})' = IF slot'[2] # None THEN {slot'[2].key} ELSE {}
      /\ KeysIn(Slot)' = KeysIn({1})' \cup KeysIn({2})'
    BY <1>a DEF KeysIn
\* The slots keep their keys and no swap is under way.
<1>e. ASSUME ~cut, todo = None \/ ~todo.swap, todo' = None \/ ~todo'.swap, live' = live,
             \A s \in Slot : IF slot[s] = None THEN slot'[s] = None
                             ELSE slot'[s] # None /\ slot'[s].key = slot[s].key
      PROVE  Held' = live'
    BY <1>a, <1>b, <1>c, <1>d, <1>e DEF Held
<1>1. CASE PowerLoss
    BY <1>1, <1>e DEF PowerLoss
<1>2. CASE InitOtp
  <2>1. /\ scan \in Slot /\ todo = None /\ UNCHANGED <<todo, live, cut>>
        /\ \A s \in Slot : s # scan => slot'[s] = slot[s]
        /\ slot[scan] = None => slot'[scan] = None
        /\ slot[scan] # None => slot'[scan] # None /\ slot'[scan].key = slot[scan].key
      BY <1>2, InitOtpFacts
  <2> QED
      BY <1>e, <2>1
<1>3. CASE Status
  <2>1. todo = None
      BY <1>3 DEF Status, KeyInv, TodoInv, Done
  <2> QED
      BY <1>3, <1>e, <2>1 DEF Status
<1>4. ASSUME NEW s \in Slot, PressYubico(s) PROVE Held' = live'
  <2>1. /\ slot[s] # None /\ todo = None /\ UNCHANGED <<slot, live, cut>>
        /\ todo' = None \/ \E d \in 0..Limit, b \in BOOLEAN : todo' = After(s, d, b)
      BY <1>4, PressYubicoFacts
  <2>2. todo' = None \/ ~todo'.swap
      BY <2>1, AfterFacts
  <2> QED
      BY <1>e, <2>1, <2>2
<1>5. ASSUME NEW s \in Slot, PressHotp(s) PROVE Held' = live'
  <2>1. /\ slot[s] # None /\ todo = None /\ UNCHANGED <<slot, live, cut>>
        /\ Current(slot[s]) + 1 \in 0..Limit /\ todo' = After(s, Current(slot[s]) + 1, TRUE)
      BY <1>5, PressHotpFacts
  <2>2. ~todo'.swap
      BY <2>1, AfterFacts
  <2> QED
      BY <1>e, <2>1, <2>2
<1>6. CASE Write
  <2>1. /\ todo # None /\ todo' = None /\ slot' = [slot EXCEPT ![todo.slot] = todo.rec]
        /\ UNCHANGED <<live, cut>> /\ TodoInv
      BY <1>6 DEF Write, KeyInv
  <2>2. CASE todo.swap
    <3>1. todo.slot = 2
        BY <2>1, <2>2 DEF TodoInv
    <3>2. slot'[2] = todo.rec /\ slot'[1] = slot[1]
        BY <1>a, <2>1, <3>1
    <3> QED
        BY <1>b, <1>c, <1>d, <2>1, <2>2, <3>2 DEF Held
  <2>3. CASE ~todo.swap
    <3>1. slot[todo.slot] # None /\ todo.rec # None /\ todo.rec.key = slot[todo.slot].key
        BY <2>1, <2>3 DEF TodoInv, OwnRecord
    <3> QED
        BY <1>a, <1>e, <2>1, <2>3, <3>1
  <2> QED
      BY <2>2, <2>3
<1>7. ASSUME NEW s \in Slot, NEW kind \in Kinds, NEW seed \in Seeds, Configure(s, kind, seed)
      PROVE  Held' = live'
  <2>1. /\ todo = None /\ todo' = None /\ ~cut
        /\ slot' = [slot EXCEPT ![s] = [key |-> keys + 1, kind |-> kind, seed |-> seed, count |-> 0]]
        /\ live' = (live \cap KeysIn({Other(s)})) \cup {keys + 1}
      BY <1>7 DEF Configure, Idle
  <2>2. slot'[s] # None /\ slot'[s].key = keys + 1 /\ \A t \in Slot : t # s => slot'[t] = slot[t]
    <3>1. /\ slot'[s] = [key |-> keys + 1, kind |-> kind, seed |-> seed, count |-> 0]
          /\ \A t \in Slot : t # s => slot'[t] = slot[t]
        BY <1>a, <2>1
    <3>2. slot'[s] \in Records
        BY <1>7, <3>1, ConfiguredRecord DEF Configure
    <3> QED
        BY <3>1, <3>2, NoneAssumption
  <2>3. CASE s = 1
      BY <1>a, <1>b, <1>c, <1>d, <2>1, <2>2, <2>3 DEF Held
  <2>4. CASE s = 2
      BY <1>a, <1>b, <1>c, <1>d, <2>1, <2>2, <2>4 DEF Held
  <2> QED
      BY <1>a, <2>3, <2>4
<1>8. ASSUME NEW s \in Slot, DeleteSlot(s) PROVE Held' = live'
  <2>1. /\ todo = None /\ todo' = None /\ ~cut
        /\ slot' = [slot EXCEPT ![s] = None] /\ live' = live \cap KeysIn({Other(s)})
      BY <1>8 DEF DeleteSlot, Idle
  <2>2. slot'[s] = None /\ \A t \in Slot : t # s => slot'[t] = slot[t]
      BY <1>a, <2>1
  <2>3. CASE s = 1
      BY <1>a, <1>b, <1>c, <1>d, <2>1, <2>2, <2>3 DEF Held
  <2>4. CASE s = 2
      BY <1>a, <1>b, <1>c, <1>d, <2>1, <2>2, <2>4 DEF Held
  <2> QED
      BY <1>a, <2>3, <2>4
<1>9. ASSUME NEW s \in Slot, Update(s) PROVE Held' = live'
  <2>1. /\ slot[s] # None /\ todo = None /\ UNCHANGED <<todo, live, cut>>
        /\ \E c : slot' = [slot EXCEPT ![s].count = c]
      BY <1>9 DEF Update, Idle
  <2>2. slot' \in [Slot -> Records \cup {None}]
      BY StepType DEF TypeInv, TypeOK
  <2>3. \A t \in Slot : slot[t] = None => slot'[t] = None
      BY <1>a, <2>1
  <2>4. slot'[s] # None /\ slot'[s].key = slot[s].key
    <3>1. slot[s] \in Records
        BY <1>a, <2>1
    <3>2. PICK c \in 0..Limit : slot' = [slot EXCEPT ![s].count = c]
      <4>1. PICK c \in 0..(IF slot[s].kind = "yubico" THEN Word - 1 ELSE MaxFactor) :
                slot' = [slot EXCEPT ![s].count = c]
          BY <1>9 DEF Update
      <4>2. c \in 0..Limit
          BY LimitFacts, OtpAssumption
      <4> QED
          BY <4>1, <4>2
    <3>3. slot'[s] = [slot[s] EXCEPT !.count = c]
        BY <1>a, <3>2
    <3> QED
        BY <3>1, <3>3, Recount, NoneAssumption
  <2>5. \A t \in Slot : t # s => slot'[t] = slot[t]
      BY <1>a, <2>1
  <2> QED
      BY <1>e, <2>1, <2>3, <2>4, <2>5
<1>10. CASE Swap
  <2>1. /\ slot' = [slot EXCEPT ![1] = slot[2]] /\ todo = None /\ ~cut /\ live' = live
        /\ todo' = [slot |-> 2, rec |-> slot[1], first |-> FALSE, swap |-> TRUE]
      BY <1>10 DEF Swap, Idle, Second
  <2>2. todo' \in Writes
      BY <1>a, <2>1 DEF Writes
  <2>3. todo'.rec = slot[1] /\ todo'.swap /\ todo' # None
      BY <2>1, <2>2, NoneAssumption
  <2>4. slot'[1] = slot[2]
      BY <1>a, <2>1
  <2>5. Held' = KeysIn({1})' \cup (IF slot[1] = None THEN {} ELSE {slot[1].key})
      BY <2>3 DEF Held
  <2> QED
      BY <1>b, <1>c, <1>d, <2>1, <2>4, <2>5 DEF Held
<1>11. CASE FactoryReset
    BY <1>11, <1>a, <1>d DEF FactoryReset, Idle, Held
<1>12. CASE UNCHANGED vars
    BY <1>12, <1>b DEF vars, Held, KeysIn
<1> QED
    BY <1>1, <1>2, <1>3, <1>4, <1>5, <1>6, <1>7, <1>8, <1>9, <1>10, <1>11, <1>12 DEF Next

-----------------------------------------------------------------------------
(* The order of the passwords *)

LEMMA BeforePair ==
    ASSUME NEW p, NEW a, NEW b
    PROVE  Before(p, <<a, b>>) <=> p[1] < a \/ (p[1] = a /\ p[2] < b)
BY DEF Before

LEMMA LastFacts ==
    ASSUME TypeInv, NEW k \in 1..MaxKeys, last[k] # None
    PROVE  last[k][1] \in Nat /\ last[k][2] \in Nat
<1>1. last[k] \in Passwords
    BY DEF TypeInv, TypeOK
<1>2. last[k][1] \in 0..Limit /\ last[k][2] \in 0..(Sessions - 1)
    BY <1>1 DEF Passwords
<1> QED
    BY <1>2, LimitFacts, OtpAssumption

(* The keys a swap under way has excused *)
LEMMA SwapExcused ==
    ASSUME KeyInv, todo # None, todo.swap, NEW s \in Slot, slot[s] # None
    PROVE  slot[s].key \in excused
BY KeysInFacts DEF KeyInv, TodoInv

(* A slot that nothing happens to stays in order. *)
LEMMA OrderKept ==
    ASSUME NEW s \in Slot, Ordered(s), slot'[s] = slot[s],
           slot[s] # None => last'[slot[s].key] = last[slot[s].key],
           session'[s] = session[s], excused \subseteq excused',
           ~(todo # None /\ todo.slot = s), ~(todo' # None /\ todo'.slot = s),
           scan' <= s <=> scan <= s
    PROVE  Ordered(s)'
BY DEF Ordered, InOrder, With

LEMMA StepOrder == TypeInv /\ KeyInv /\ OrderInv /\ [Next]_vars => OrderInv'
<1> SUFFICES ASSUME TypeInv, KeyInv, OrderInv, [Next]_vars, NEW s \in Slot
             PROVE  Ordered(s)'
    BY DEF OrderInv
<1>a. /\ slot \in [Slot -> Records \cup {None}] /\ session \in [Slot -> 0..(Sessions - 1)]
      /\ scan \in Slot \cup {Done} /\ keys \in Nat /\ keys <= MaxKeys
      /\ last \in [1..MaxKeys -> Passwords \cup {None}] /\ todo \in Writes \cup {None}
    BY OtpAssumption DEF TypeInv, TypeOK
<1>b. Ordered(s)
    BY DEF OrderInv
<1>c. slot[s] # None => /\ slot[s].key \in 1..MaxKeys /\ slot[s].key <= keys /\ slot[s].key \in Nat
                        /\ slot[s].count \in Nat
    BY SlotFacts
<1>d. s \in {1, 2} /\ Done = 3
    BY DEF Slot, Done
<1>1. CASE PowerLoss
  <2> SUFFICES ASSUME slot[s] # None, slot[s].kind # "static", slot[s].key \notin excused',
                      last[slot[s].key] # None
               PROVE  InOrder(s)'
      BY <1>1 DEF PowerLoss, Ordered
  <2>1. /\ scan' = 1 /\ todo' = None /\ session'[s] = 0 /\ slot' = slot /\ last' = last
        /\ excused \subseteq excused'
        /\ todo # None /\ todo.first => todo.rec.key \in excused'
      BY <1>1 DEF PowerLoss
  <2>2. InOrder(s)
      BY <1>b, <2>1 DEF Ordered
  <2>3. todo # None /\ todo.slot = s => ~todo.first /\ slot[s].kind # "hotp"
      BY <2>1, SwapExcused DEF KeyInv, TodoInv, OwnRecord
  <2>4. last[slot[s].key][1] \in Nat
      BY <1>c, LastFacts
  <2>5. CASE slot[s].kind = "yubico"
    <3>1. \/ last[slot[s].key][1] <= slot[s].count
          \/ Before(last[slot[s].key], <<slot[s].count, With(s)>>)
        BY <2>2, <2>3 DEF InOrder
    <3>2. last[slot[s].key][1] <= slot[s].count
        BY <1>c, <2>4, <3>1, BeforePair
    <3>3. scan' <= s
        BY <1>d, <2>1
    <3> QED
        BY <2>1, <2>5, <3>2, <3>3 DEF InOrder
  <2>6. CASE slot[s].kind # "yubico"
    <3>1. slot[s].kind = "hotp"
        BY <1>a, <2>6, RecordFacts DEF Kinds
    <3>2. slot[s].count # 0 /\ Before(last[slot[s].key], <<slot[s].count, 0>>)
        BY <2>2, <2>3, <2>6, <3>1 DEF InOrder, With
    <3> QED
        BY <2>1, <2>6, <3>2 DEF InOrder, With
  <2> QED
      BY <2>5, <2>6
<1>2. CASE InitOtp
  <2>1. /\ scan \in Slot /\ scan' = scan + 1 /\ todo = None /\ todo' = None
        /\ excused \subseteq excused' /\ last' = last /\ session' = session
      BY <1>2, InitOtpFacts
  <2>2. CASE s # scan
    <3>1. slot'[s] = slot[s]
        BY <1>2, <2>2, InitOtpFacts
    <3>2. scan' <= s <=> scan <= s
        BY <1>d, <2>1, <2>2 DEF Slot
    <3> QED
        BY <1>b, <2>1, <3>1, <3>2, OrderKept
  <2>3. CASE s = scan /\ slot[s] # None /\ slot[s].kind = "yubico"
    <3>1. /\ slot'[s] # None /\ slot'[s].key = slot[s].key /\ slot'[s].kind = "yubico"
          /\ slot[s].key \in excused' \/ slot'[s].count > slot[s].count
        BY <1>2, <2>3, InitOtpFacts
    <3> SUFFICES ASSUME slot[s].key \notin excused', last[slot[s].key] # None
                 PROVE  InOrder(s)'
        BY <2>1, <3>1 DEF Ordered
    <3>2. scan <= s
        BY <1>d, <2>3
    <3>3. last[slot[s].key][1] <= slot[s].count
        BY <1>b, <2>1, <2>3, <3>2 DEF Ordered, InOrder
    <3>4. last[slot[s].key][1] \in Nat
        BY <1>c, <2>3, LastFacts
    <3>5. slot'[s].count \in Nat
        BY <3>1, StepType, RecordFacts DEF TypeInv, TypeOK
    <3>6. slot'[s].count # 0 /\ last[slot[s].key][1] < slot'[s].count
        BY <1>c, <2>3, <3>1, <3>3, <3>4, <3>5
    <3>7. Before(last[slot[s].key], <<slot'[s].count, With(s)'>>)
        BY <3>6, BeforePair
    <3>8. ~(scan' <= s)
        BY <1>d, <2>1, <2>3
    <3> QED
        BY <2>1, <3>1, <3>6, <3>7, <3>8 DEF InOrder
  <2>4. CASE s = scan /\ ~(slot[s] # None /\ slot[s].kind = "yubico")
    <3>1. slot'[s] = slot[s]
        BY <1>2, <2>4, InitOtpFacts
    <3> QED
        BY <1>b, <2>1, <2>4, <3>1 DEF Ordered, InOrder, With
  <2> QED
      BY <2>2, <2>3, <2>4
<1>3. CASE Status
    BY <1>3, KeysInFacts DEF Status, Ordered
\* A press in another slot
<1>4. ASSUME NEW t \in Slot, t # s, slot[t] # None, NEW p, NEW n, NEW c \in 0..Limit, NEW b \in BOOLEAN,
             todo = None, todo' = None \/ todo' = After(t, c, b),
             last' = [last EXCEPT ![slot[t].key] = p],
             session' = session \/ session' = [session EXCEPT ![t] = n],
             excused \subseteq excused', UNCHANGED <<slot, scan>>
      PROVE  Ordered(s)'
  <2>1. CASE slot[s] # None /\ slot[s].key = slot[t].key
    <3>1. slot[s].key \in excused
        BY <1>4, <2>1 DEF KeyInv, KeysDiffer, Slot
    <3> QED
        BY <1>4, <3>1 DEF Ordered
  <2>2. CASE ~(slot[s] # None /\ slot[s].key = slot[t].key)
    <3>1. slot[s] # None => last'[slot[s].key] = last[slot[s].key]
        BY <1>a, <1>4, <1>c, <2>2
    <3>2. session'[s] = session[s]
        BY <1>a, <1>4
    <3>3. ~(todo' # None /\ todo'.slot = s)
        BY <1>4, AfterFacts
    <3> QED
        BY <1>b, <1>4, <3>1, <3>2, <3>3, OrderKept
  <2> QED
      BY <2>1, <2>2
<1>5. ASSUME NEW t \in Slot, PressYubico(t) PROVE Ordered(s)'
  <2> DEFINE c == Current(slot[t])
  <2>1. /\ slot[t] # None /\ slot[t].kind = "yubico" /\ scan = Done /\ todo = None
        /\ c \in Nat /\ c >= 1 /\ c = (IF slot[t].count = 0 THEN 1 ELSE slot[t].count)
        /\ c \in 0..Limit /\ NextCount(c) \in 0..Limit
        /\ last' = [last EXCEPT ![slot[t].key] = <<c, session[t]>>]
        /\ session' = [session EXCEPT ![t] = (@ + 1) % Sessions]
        /\ todo' = None \/ \E d \in 0..Limit, b \in BOOLEAN : todo' = After(t, d, b)
        /\ excused \subseteq excused' /\ UNCHANGED <<slot, scan>>
      BY <1>5, PressYubicoFacts
  <2>2. IF session[t] + 1 = Sessions
        THEN \/ NextCount(c) <= c /\ slot[t].key \in excused'
             \/ NextCount(c) > c /\ todo' = After(t, NextCount(c), slot[t].count = 0)
        ELSE IF slot[t].count = 0 THEN todo' = After(t, c, TRUE) ELSE todo' = None
      BY <1>5, PressYubicoFacts
  <2>3. CASE t # s
    <3>1. CASE todo' = None
      <4>1. 0 \in 0..Limit
          BY LimitFacts
      <4> QED
          BY <1>4, <2>1, <2>3, <3>1, <4>1
    <3>2. CASE \E d \in 0..Limit, b \in BOOLEAN : todo' = After(t, d, b)
        BY <1>4, <2>1, <2>3, <3>2
    <3> QED
        BY <2>1, <3>1, <3>2
  <2>4. CASE t = s
    <3> SUFFICES ASSUME slot[s].key \notin excused' PROVE InOrder(s)'
        BY <2>1 DEF Ordered
    <3> DEFINE n == (session[s] + 1) % Sessions
    <3>1. last'[slot[s].key] = <<c, session[s]>> /\ session'[s] = n
        BY <1>a, <1>c, <2>1, <2>4
    <3>2. session[s] \in Nat /\ n = IF session[s] + 1 = Sessions THEN 0 ELSE session[s] + 1
        BY <1>a, WrapFacts, OtpAssumption
    <3>3. With(s)' = n /\ ~(scan' <= s) /\ slot'[s] = slot[s]
        BY <1>d, <2>1, <2>4, <3>1 DEF With
    <3>4. CASE session[s] + 1 = Sessions
      <4>1. NextCount(c) > c /\ todo' = After(s, NextCount(c), slot[s].count = 0)
          BY <2>2, <2>4, <3>4
      <4>2. /\ todo' # None /\ todo'.slot = s /\ todo'.rec.count = NextCount(c)
            /\ ~todo'.first => slot[s].count # 0
        <5>1. PICK b \in BOOLEAN : b = (slot[s].count = 0)
            OBVIOUS
        <5>2. slot[s] # None /\ NextCount(c) \in 0..Limit /\ todo' = After(s, NextCount(c), b)
            BY <2>1, <2>4, <4>1, <5>1
        <5> HIDE DEF c
        <5>3. todo' # None /\ todo'.slot = s /\ todo'.rec.count = NextCount(c) /\ todo'.first = b
            BY <5>2, AfterFacts
        <5> QED
            BY <5>1, <5>3
      <4>3. NextCount(c) # 0 /\ Before(<<c, session[s]>>, <<NextCount(c), n>>)
          BY <2>1, <4>1, BeforePair, LimitFacts
      <4>4. slot[s].count # 0 => c <= slot[s].count
          BY <1>c, <2>1, <2>4
      <4>5. <<c, session[s]>>[1] = c
          OBVIOUS
      <4> HIDE DEF c, n
      <4> QED
          BY <3>1, <3>3, <4>2, <4>3, <4>4, <4>5 DEF InOrder
    <3>5. CASE session[s] + 1 # Sessions
      <4>1. Before(<<c, session[s]>>, <<c, n>>)
          BY <3>2, <3>5, BeforePair
      <4>2. CASE slot[s].count = 0
        <5>1. todo' = After(s, c, TRUE)
            BY <2>2, <2>4, <3>5, <4>2
        <5>2. slot[s] # None /\ c \in 0..Limit
            BY <2>1, <2>4
        <5> HIDE DEF c
        <5>3. todo' # None /\ todo'.slot = s /\ todo'.rec.count = c /\ todo'.first
            BY <5>1, <5>2, AfterFacts
        <5> USE DEF c
        <5> QED
            BY <2>1, <3>1, <3>3, <4>1, <5>3 DEF InOrder
      <4>3. CASE slot[s].count # 0
        <5>1. todo' = None /\ c = slot[s].count
            BY <2>1, <2>2, <2>4, <3>5, <4>3
        <5> QED
            BY <3>1, <3>3, <4>1, <4>3, <5>1 DEF InOrder
      <4> QED
          BY <4>2, <4>3
    <3> QED
        BY <3>4, <3>5
  <2> QED
      BY <2>3, <2>4
<1>6. ASSUME NEW t \in Slot, PressHotp(t) PROVE Ordered(s)'
  <2> DEFINE f == Current(slot[t])
  <2>1. /\ slot[t] # None /\ slot[t].kind = "hotp" /\ scan = Done /\ todo = None
        /\ f \in Nat /\ f + 1 \in 0..Limit
        /\ last' = [last EXCEPT ![slot[t].key] = <<f, 0>>] /\ todo' = After(t, f + 1, TRUE)
        /\ UNCHANGED <<slot, session, scan, excused>>
      BY <1>6, PressHotpFacts
  <2>2. CASE t # s
      BY <1>4, <2>1, <2>2
  <2>3. CASE t = s
    <3>1. last'[slot[s].key] = <<f, 0>> /\ With(s)' = 0
        BY <1>a, <1>c, <2>1, <2>3 DEF With
    <3>2. todo' # None /\ todo'.slot = s /\ todo'.rec.count = f + 1 /\ todo'.first
        BY <2>1, <2>3, AfterFacts
    <3>3. f + 1 # 0 /\ Before(<<f, 0>>, <<f + 1, 0>>)
        BY <2>1, BeforePair
    <3> QED
        BY <2>1, <3>1, <3>2, <3>3 DEF Ordered, InOrder
  <2> QED
      BY <2>2, <2>3
<1>7. CASE Write
  <2>1. /\ todo # None /\ todo' = None /\ slot' = [slot EXCEPT ![todo.slot] = todo.rec]
        /\ UNCHANGED <<scan, last, session, excused>> /\ scan = Done /\ TodoInv
      BY <1>7 DEF Write, KeyInv, TodoInv
  <2>2. todo.slot \in Slot
      BY <1>a, <2>1 DEF Writes
  <2>3. CASE todo.slot # s
    <3>1. slot'[s] = slot[s]
        BY <1>a, <2>1, <2>2, <2>3
    <3> QED
        BY <1>b, <2>1, <2>3, <3>1, OrderKept
  <2>4. CASE todo.slot = s /\ todo.swap
    <3>1. slot'[s] = todo.rec
        BY <1>a, <2>1, <2>4
    <3>2. slot'[s] # None => slot'[s].key \in excused'
        BY <2>1, <2>4, <3>1 DEF TodoInv
    <3> QED
        BY <3>2 DEF Ordered
  <2>5. CASE todo.slot = s /\ ~todo.swap
    <3>1. slot'[s] = todo.rec
        BY <1>a, <2>1, <2>5
    <3>2. slot[s] # None /\ slot'[s].key = slot[s].key /\ slot'[s].kind = slot[s].kind
        BY <2>1, <2>5, <3>1 DEF TodoInv, OwnRecord
    <3>3. With(s)' = With(s)
        BY <2>1, <3>2 DEF With
    <3>4. ~(scan' <= s)
        BY <1>d, <2>1
    <3> QED
        BY <1>b, <2>1, <2>5, <3>1, <3>2, <3>3, <3>4 DEF Ordered, InOrder
  <2> QED
      BY <2>3, <2>4, <2>5
<1>8. ASSUME NEW t \in Slot, NEW kind \in Kinds, NEW seed \in Seeds, Configure(t, kind, seed)
      PROVE  Ordered(s)'
  <2>1. /\ keys < MaxKeys /\ todo = None /\ UNCHANGED <<todo, scan, session, last, excused>>
        /\ slot' = [slot EXCEPT ![t] = [key |-> keys + 1, kind |-> kind, seed |-> seed, count |-> 0]]
      BY <1>8 DEF Configure, Idle
  <2>2. CASE s = t
    <3>1. slot'[s].key = keys + 1 /\ last[keys + 1] = None
        BY <1>a, <2>1, <2>2, OtpAssumption DEF KeyInv, KeysOld
    <3> QED
        BY <2>1, <3>1 DEF Ordered
  <2>3. CASE s # t
      BY <1>a, <1>b, <2>1, <2>3, OrderKept
  <2> QED
      BY <2>2, <2>3
<1>9. ASSUME NEW t \in Slot, DeleteSlot(t) PROVE Ordered(s)'
  <2>1. /\ todo = None /\ UNCHANGED <<todo, scan, session, last, excused>>
        /\ slot'[s] = None \/ slot'[s] = slot[s]
      BY <1>9, <1>a DEF DeleteSlot, Idle
  <2> QED
      BY <1>b, <2>1, OrderKept DEF Ordered
<1>10. ASSUME NEW t \in Slot, Update(t) PROVE Ordered(s)'
  <2>1. /\ slot[t] # None /\ todo = None /\ excused \subseteq excused' /\ slot[t].key \in excused'
        /\ UNCHANGED <<todo, scan, session, last>>
        /\ \E c : slot' = [slot EXCEPT ![t].count = c]
      BY <1>10, KeysInFacts DEF Update, Idle
  <2>2. CASE s = t
    <3>1. slot'[s].key = slot[s].key
        BY <1>a, <2>1, <2>2, NoneAssumption DEF Records
    <3> QED
        BY <2>1, <2>2, <3>1 DEF Ordered
  <2>3. CASE s # t
    <3>1. slot'[s] = slot[s]
        BY <1>a, <2>1, <2>3
    <3> QED
        BY <1>b, <2>1, <3>1, OrderKept
  <2> QED
      BY <2>2, <2>3
<1>11. CASE Swap
  <2>1. slot' = [slot EXCEPT ![1] = slot[2]] /\ excused' = excused \cup KeysIn(Slot)
      BY <1>11 DEF Swap
  <2>2. slot'[s] = slot[1] \/ slot'[s] = slot[2]
      BY <1>a, <1>d, <2>1
  <2>3. slot'[s] # None => slot'[s].key \in excused'
      BY <2>1, <2>2, KeysInFacts DEF Slot
  <2> QED
      BY <2>3 DEF Ordered
<1>12. CASE FactoryReset
    BY <1>12 DEF FactoryReset, Ordered
<1>13. CASE UNCHANGED vars
    BY <1>13, <1>b DEF vars, Ordered, InOrder, With
<1> QED
    BY <1>1, <1>2, <1>3, <1>5, <1>6, <1>7, <1>8, <1>9, <1>10, <1>11, <1>12, <1>13 DEF Next

-----------------------------------------------------------------------------
(* The results *)

LEMMA Inductive == Spec => [](TypeInv /\ KeyInv /\ OrderInv /\ KeptInv)
<1>1. TypeInv /\ KeyInv /\ OrderInv /\ KeptInv /\ [Next]_vars => (TypeInv /\ KeyInv /\ OrderInv /\ KeptInv)'
    BY StepType, StepKeys, StepOrder, StepKept
<1> QED
    BY InitInv, <1>1, PTL DEF Spec

(* A Yubico slot's counter stays below its limit, and no number leaves its *)
(* range, through presses, restarts and every command of the host          *)
(* (otp.c:161-182, 204-318, 446-472).                                      *)
THEOREM TypeCorrect == Spec => []TypeOK
<1>1. TypeInv => TypeOK
    BY DEF TypeInv
<1> QED
    BY Inductive, <1>1, PTL

(* Whenever the button can be pressed the password it types comes after    *)
(* every one typed with the same key, unless its key is excused            *)
(* (otp.c:161-182, 204-318, 336-340).                                      *)
THEOREM PasswordsNew == Spec => []NextIsNew
<1>1. TypeInv /\ KeyInv /\ OrderInv => NextIsNew
  <2> SUFFICES ASSUME TypeInv, KeyInv, OrderInv, Idle, NEW s \in Slot,
                      slot[s] # None, slot[s].kind # "static", slot[s].key \notin excused,
                      last[slot[s].key] # None
               PROVE  Before(last[slot[s].key], Upcoming(s))
      BY DEF NextIsNew
  <2>1. ~(scan <= s) /\ todo = None
      BY DEF Idle, Slot, Done
  <2>2. slot[s].count # 0 /\ Before(last[slot[s].key], <<slot[s].count, With(s)>>)
      BY <2>1 DEF OrderInv, Ordered, InOrder
  <2>3. Current(slot[s]) = slot[s].count
    <3>1. slot[s].kind = "yubico" \/ slot[s].kind = "hotp"
        BY SlotFacts, RecordFacts DEF Kinds
    <3> QED
        BY <2>2, <3>1 DEF Current
  <2> QED
      BY <2>2, <2>3 DEF Upcoming, With
<1> QED
    BY Inductive, <1>1, PTL

(* No press, swap or restart loses a configuration, unless the power fails *)
(* between the two writes of a swap (otp.c:446-472).                       *)
THEOREM ConfigsSafe == Spec => []ConfigsKept
<1>1. KeptInv => ConfigsKept
    BY DEF KeptInv, ConfigsKept, Held
<1> QED
    BY Inductive, <1>1, PTL
=============================================================================
