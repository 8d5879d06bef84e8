----------------------------- MODULE Oath_proofs -----------------------------
(***************************************************************************)
(* Proofs about Oath, for every set of names, codes and PINs and every     *)
(* number of slots, keys and factors.                                      *)
(***************************************************************************)
EXTENDS Oath, TLAPS

Record == [name : Names, hotp : BOOLEAN, key : 1..MaxKeys, imf : 0..MaxImf]
Entry == [pin : Pins, left : 0..MaxOtpCounter]

(* The disjuncts of Next, once each *)
Step ==
    \/ Select \/ Unload \/ PowerLoss \/ Send \/ WriteEntry \/ Reset \/ FactoryReset
    \/ \E n \in Names, hotp \in BOOLEAN, imf \in {0, 1} : Put(n, hotp, imf)
    \/ \E n \in Names : Delete(n)
    \/ \E n \in Names : Calculate(n)
    \/ \E n, new \in Names : Rename(n, new)
    \/ \E c \in Codes \cup {None} : SetCode(c)
    \/ \E c \in Codes \cup {None} : Validate(c)
    \/ \E accepted \in BOOLEAN : ValidateShort(accepted)
    \/ \E p \in Pins : SetPin(p)
    \/ \E p \in Pins : VerifyPin(p)
    \/ \E p, new \in Pins : ChangePin(p, new)

LEMMA NextSteps == Next => Step
BY DEF Next, Step

(* What First picks is in the set it picks from *)
LEMMA FirstIn == ASSUME NEW S, NEW s \in First(S) PROVE s \in S
BY DEF First

LEMMA FindIn == ASSUME NEW n, NEW s \in Find(n)
                PROVE  s \in Slot /\ cred[s] # None /\ cred[s].name = n
BY FirstIn DEF Find, Named, Used

LEMMA PlaceIn == ASSUME NEW n, NEW s \in Place(n)
                 PROVE  /\ s \in Slot
                        /\ Named(n) # {} => s \in Named(n)
BY FirstIn DEF Place, Find, Named, Used

-----------------------------------------------------------------------------
(* Types *)

LEMMA InitType == Init => TypeOK
<1> SUFFICES ASSUME Init PROVE TypeOK
    OBVIOUS
<1>1. cred \in [Slot -> {None} \cup Record]
    BY DEF Init
<1>2. keys \in 0..MaxKeys
    BY OathAssumption DEF Init
<1>3. {validated, selected, clash} \subseteq BOOLEAN
    BY DEF Init
<1>4. lost \in 0..MaxLost
    BY OathAssumption DEF Init
<1> QED
    BY <1>1, <1>2, <1>3, <1>4 DEF Init, TypeOK, Record

LEMMA StepType == TypeOK /\ [Next]_vars => TypeOK'
<1> SUFFICES ASSUME TypeOK, [Next]_vars PROVE TypeOK'
    OBVIOUS
<1> USE DEF TypeOK
<1>1. CASE Select
    BY <1>1 DEF Select, otp, ValidAfter
<1>2. CASE Unload
    BY <1>2 DEF Unload, otp, ValidAfter
<1>3. CASE PowerLoss
    <2>1. lost' \in 0..MaxLost
        <3>1. lost \in Nat /\ lost' \in {lost, lost + 1} /\ lost' <= MaxLost
            BY <1>3, OathAssumption DEF PowerLoss
        <3> QED
            BY <3>1, OathAssumption
    <2> QED
        BY <1>3, <2>1 DEF PowerLoss
<1>4. CASE Send
    BY <1>4 DEF Send, otp
<1>0. 0 \in 0..MaxLost
    BY OathAssumption
<1>5. CASE Reset
    BY <1>0, <1>5 DEF Reset, Ready, Idle
<1>6. CASE FactoryReset
    BY <1>0, <1>6 DEF FactoryReset, Idle, ram
<1>7. ASSUME NEW n \in Names, NEW hotp \in BOOLEAN, NEW imf \in {0, 1}, Put(n, hotp, imf)
      PROVE  TypeOK'
    <2>1. keys + 1 \in 1..MaxKeys /\ keys' \in 0..MaxKeys /\ imf \in 0..MaxImf
        BY <1>7, OathAssumption DEF Put
    <2>2. PICK s \in Place(n) :
              cred' = [cred EXCEPT ![s] = [name |-> n, hotp |-> hotp, key |-> keys + 1, imf |-> imf]]
        BY <1>7 DEF Put
    <2>3. cred' \in [Slot -> {None} \cup Record]
        BY <2>1, <2>2 DEF Record
    <2> QED
        BY <1>7, <2>1, <2>3 DEF Put, otp, ram, Record
<1>8. ASSUME NEW n \in Names, Delete(n) PROVE TypeOK'
    BY <1>8 DEF Delete, otp, ram
<1>9. ASSUME NEW n \in Names, Calculate(n) PROVE TypeOK'
    <2>1. PICK s \in Find(n) :
              /\ cred[s].hotp /\ cred[s].imf < MaxImf
              /\ reply' = [key |-> cred[s].key, imf |-> cred[s].imf]
              /\ cred' = [cred EXCEPT ![s].imf = @ + 1]
        BY <1>9 DEF Calculate
    <2>2. s \in Slot /\ cred[s] \in Record
        BY <2>1, FindIn DEF Record
    <2>3. cred[s].imf + 1 \in 0..MaxImf
        BY <2>1, <2>2, OathAssumption DEF Record
    <2>4. cred' \in [Slot -> {None} \cup Record]
        BY <2>1, <2>2, <2>3 DEF Record
    <2>5. reply' \in Factors
        BY <2>1, <2>2 DEF Record, Factors
    <2> QED
        BY <1>9, <2>4, <2>5 DEF Calculate, otp, Record
<1>10. ASSUME NEW n \in Names, NEW new \in Names, Rename(n, new) PROVE TypeOK'
    <2>1. PICK s \in Find(n) : cred' = [cred EXCEPT ![s].name = new]
        BY <1>10 DEF Rename
    <2>2. s \in Slot /\ cred[s] \in Record
        BY <2>1, FindIn DEF Record
    <2>3. cred' \in [Slot -> {None} \cup Record]
        BY <2>1, <2>2 DEF Record
    <2>4. clash' \in BOOLEAN
        BY <1>10 DEF Rename
    <2> QED
        BY <1>10, <2>3, <2>4 DEF Rename, otp, ram, Record
<1>11. ASSUME NEW c \in Codes \cup {None}, SetCode(c) PROVE TypeOK'
    BY <1>11 DEF SetCode, otp
<1>12. ASSUME NEW c \in Codes \cup {None}, Validate(c) PROVE TypeOK'
    BY <1>12 DEF Validate, otp
<1>13. ASSUME NEW p \in Pins, SetPin(p) PROVE TypeOK'
    BY <1>0, <1>13 DEF SetPin, ram, MaxOtpCounter
<1>14. ASSUME NEW p \in Pins, VerifyPin(p) PROVE TypeOK'
    <2>1. otpPin \in Entry /\ LeftAfter \in 0..MaxOtpCounter /\ MaxOtpCounter \in 0..MaxOtpCounter
        BY <1>14 DEF VerifyPin, LeftAfter, MaxOtpCounter, Entry
    <2>2. entry' \in Outcomes
        BY <1>14, <2>1 DEF VerifyPin, Right, Outcomes
    <2>3. lost' \in 0..MaxLost
        BY <1>0, <1>14 DEF VerifyPin
    <2> QED
        BY <1>14, <2>2, <2>3 DEF VerifyPin, Outcomes
<1>15. ASSUME NEW p \in Pins, NEW new \in Pins, ChangePin(p, new) PROVE TypeOK'
    BY <1>0, <1>15 DEF ChangePin, Ready, Idle, ram, MaxOtpCounter
<1>17. ASSUME NEW accepted \in BOOLEAN, ValidateShort(accepted) PROVE TypeOK'
    BY <1>17 DEF ValidateShort, otp
<1>18. CASE WriteEntry
    <2>1. entry.left \in 0..MaxOtpCounter /\ entry.right \in BOOLEAN
        BY <1>18 DEF WriteEntry, Outcomes
    <2>2. otpPin' \in Entry
        BY <1>18, <2>1 DEF WriteEntry, Entry
    <2> QED
        BY <1>18, <2>1, <2>2 DEF WriteEntry, Entry
<1>16. CASE UNCHANGED vars
    BY <1>16 DEF vars, otp, ram
<1> QED
    BY <1>1, <1>2, <1>3, <1>4, <1>5, <1>6, <1>7, <1>8, <1>9, <1>10, <1>11, <1>12,
       <1>13, <1>14, <1>15, <1>16, <1>17, <1>18, NextSteps DEF Step

(* The variables keep their types (the state of oath.c). *)
THEOREM TypeCorrect == Spec => []TypeOK
BY InitType, StepType, PTL DEF Spec

-----------------------------------------------------------------------------
(* The PIN *)

(* What is left and what was wrong are no more than what was granted and   *)
(* what was lost; of a wrong PIN just compared, what will be left.         *)
Granted(left) == left + wrong <= MaxOtpCounter + lost
PaidFor ==
    entry # None =>
        IF entry.right THEN wrong = 0 /\ lost = 0
        ELSE Granted(entry.left) /\ otpPin.left \in {entry.left, entry.left + 1}
Counted ==
    /\ wrong \in Nat
    /\ otpPin # None /\ entry = None => Granted(otpPin.left)
    /\ PaidFor

(* The numbers, without the records they are in *)
LEMMA LeftFacts ==
    ASSUME TypeOK
    PROVE  /\ lost \in Nat /\ MaxOtpCounter = 3
           /\ otpPin # None => otpPin.left \in Nat /\ otpPin.left <= MaxOtpCounter
           /\ entry # None => entry.left \in Nat /\ entry.left <= MaxOtpCounter /\ entry.right \in BOOLEAN
BY OathAssumption DEF TypeOK, Outcomes, MaxOtpCounter

LEMMA StepVerify ==
    ASSUME TypeOK, Counted, NEW p \in Pins, VerifyPin(p)
    PROVE  Counted'
<1>1. /\ otpPin # None /\ otpPin' = otpPin /\ entry = None /\ entry' # None
      /\ entry'.right = Right(p)
      /\ entry'.left = IF Right(p) THEN MaxOtpCounter ELSE LeftAfter
    <2>1. entry' = [left |-> IF Right(p) THEN MaxOtpCounter ELSE LeftAfter, right |-> Right(p)]
        BY DEF VerifyPin
    <2>2. entry' # None
        <3>1. LeftAfter \in 0..MaxOtpCounter /\ MaxOtpCounter \in 0..MaxOtpCounter
            BY LeftFacts DEF LeftAfter, VerifyPin
        <3>2. entry' \in Outcomes
            BY <2>1, <3>1 DEF Outcomes, Right
        <3> QED
            BY <3>2, OathAssumption
    <2> QED
        BY <2>1, <2>2 DEF VerifyPin, Ready, Idle
<1>2. Granted(otpPin.left) /\ wrong \in Nat
    BY <1>1 DEF Counted
<1>3. CASE Right(p)
    <2>1. wrong' = 0 /\ lost' = 0
        BY <1>3 DEF VerifyPin
    <2> QED
        BY <1>1, <1>3, <2>1 DEF Counted, PaidFor
<1>4. CASE ~Right(p) /\ otpPin.left > 0
    <2>1. wrong' = wrong + 1 /\ lost' = lost /\ entry'.left = otpPin.left - 1
        BY <1>1, <1>4 DEF VerifyPin, LeftAfter
    <2>2. wrong' \in Nat /\ otpPin.left = entry'.left + 1 /\ Granted(entry.left)'
        BY <1>1, <1>2, <1>4, <2>1, LeftFacts DEF Granted
    <2> QED
        BY <1>1, <1>4, <2>2 DEF Counted, PaidFor
<1>5. CASE ~Right(p) /\ ~(otpPin.left > 0)
    <2>1. wrong' = wrong /\ lost' = lost /\ entry'.left = 0
        BY <1>1, <1>5 DEF VerifyPin, LeftAfter
    <2>2. otpPin.left = entry'.left /\ Granted(entry.left)'
        BY <1>1, <1>2, <1>5, <2>1, LeftFacts DEF Granted
    <2> QED
        BY <1>1, <1>2, <1>5, <2>1, <2>2 DEF Counted, PaidFor
<1> QED
    BY <1>3, <1>4, <1>5

LEMMA StepCounted == TypeOK /\ Counted /\ [Next]_vars => Counted'
<1> SUFFICES ASSUME TypeOK, Counted, [Next]_vars PROVE Counted'
    OBVIOUS
<1>1. CASE UNCHANGED <<otpPin, wrong, lost, entry>>
    BY <1>1 DEF Counted, PaidFor, Granted
<1>2. CASE Reset \/ FactoryReset
    BY <1>2 DEF Reset, FactoryReset, Ready, Idle, ram, Counted, PaidFor
<1>3. ASSUME NEW p \in Pins, SetPin(p) \/ \E new \in Pins : ChangePin(p, new) PROVE Counted'
    <2>1. wrong' = 0 /\ lost' = 0 /\ entry' = None /\ otpPin'.left = MaxOtpCounter
        BY <1>3 DEF SetPin, ChangePin, Ready, Idle, ram
    <2> QED
        BY <2>1 DEF Counted, PaidFor, Granted, MaxOtpCounter
<1>4. ASSUME NEW p \in Pins, VerifyPin(p) PROVE Counted'
    BY <1>4, StepVerify
<1>5. CASE WriteEntry
    <2>1. entry # None /\ entry' = None /\ UNCHANGED <<wrong, lost>>
        BY <1>5 DEF WriteEntry
    <2>2. otpPin # None /\ otpPin'.left = entry.left
        BY <1>5, <2>1 DEF WriteEntry, TypeOK
    <2>3. Granted(entry.left)
        BY <2>1, LeftFacts DEF Counted, PaidFor, Granted
    <2> QED
        BY <2>1, <2>2, <2>3 DEF Counted, PaidFor, Granted
<1>6. CASE PowerLoss
    <2>1. UNCHANGED <<otpPin, wrong>> /\ entry' = None /\ lost' = IF Unpaid THEN lost + 1 ELSE lost
        BY <1>6 DEF PowerLoss
    <2>2. CASE entry = None
        BY <2>1, <2>2 DEF Unpaid, Counted, PaidFor, Granted
    <2>3. CASE entry # None
        <3>1. otpPin # None
            BY <2>3 DEF TypeOK
        <3>2. CASE entry.right
            <4>1. wrong = 0 /\ lost = 0 /\ lost' \in Nat
                BY <2>1, <2>3, <3>2 DEF Counted, PaidFor
            <4>2. Granted(otpPin.left)'
                BY <2>1, <3>1, <4>1, LeftFacts DEF Granted
            <4> QED
                BY <2>1, <4>1, <4>2 DEF Counted, PaidFor
        <3>3. CASE ~entry.right
            <4>1. Granted(entry.left) /\ otpPin.left \in {entry.left, entry.left + 1} /\ wrong \in Nat
                BY <2>3, <3>3 DEF Counted, PaidFor
            <4>2. Granted(otpPin.left)'
                BY <2>1, <2>3, <3>1, <4>1, LeftFacts DEF Granted, Unpaid
            <4> QED
                BY <2>1, <4>1, <4>2 DEF Counted, PaidFor
        <3> QED
            BY <3>2, <3>3, <2>3, LeftFacts
    <2> QED
        BY <2>2, <2>3
<1> QED
    BY <1>1, <1>2, <1>3, <1>4, <1>5, <1>6, NextSteps DEF Step, vars, otp, ram, Select, Unload, Send,
       Put, Delete, Calculate, Rename, SetCode, Validate, ValidateShort

(* Between two right entries VERIFY PIN compares no more wrong PINs than   *)
(* the counter grants, and one for each loss of power between a comparison *)
(* and its write, whatever sessions, restarts and changes come between     *)
(* (oath.c:540).                                                           *)
THEOREM GuessesBounded == Spec => []GuessBudget
<1>1. Init => Counted
    BY DEF Init, Counted, PaidFor
<1>2. TypeOK /\ Counted => GuessBudget
    <2> SUFFICES ASSUME TypeOK, Counted, otpPin # None PROVE GuessBudget
        BY DEF GuessBudget
    <2>1. wrong \in Nat /\ lost \in Nat
        BY LeftFacts DEF Counted
    <2>2. wrong <= MaxOtpCounter + lost
        <3>1. CASE entry = None
            BY <2>1, <3>1, LeftFacts DEF Counted, Granted
        <3>2. CASE entry # None
            BY <2>1, <3>2, LeftFacts DEF Counted, PaidFor, Granted
        <3> QED
            BY <3>1, <3>2
    <2>3. ASSUME entry = None, wrong = MaxOtpCounter + lost PROVE ~(otpPin.left > 0)
        BY <2>1, <2>3, LeftFacts DEF Counted, Granted
    <2> QED
        BY <2>2, <2>3 DEF GuessBudget, Right
<1> QED
    BY <1>1, <1>2, InitType, StepType, StepCounted, PTL DEF Spec

-----------------------------------------------------------------------------
(* Sessions *)

LEMMA StepProven == SessionProven /\ [Next]_vars => SessionProven'
<1> SUFFICES ASSUME SessionProven, [Next]_vars PROVE SessionProven'
    OBVIOUS
<1> USE DEF SessionProven
<1>1. CASE Select \/ Unload \/ PowerLoss
    BY <1>1 DEF Select, Unload, PowerLoss, ValidAfter
<1>2. CASE Reset \/ FactoryReset
    BY <1>2 DEF Reset, FactoryReset
<1>3. ASSUME NEW c \in Codes \cup {None}, SetCode(c) PROVE SessionProven'
    BY <1>3 DEF SetCode
<1>4. ASSUME NEW c \in Codes \cup {None}, Validate(c) PROVE SessionProven'
    BY <1>4 DEF Validate
<1>5. CASE WriteEntry
    BY <1>5 DEF WriteEntry
<1>7. ASSUME NEW accepted \in BOOLEAN, ValidateShort(accepted) PROVE SessionProven'
    BY <1>7 DEF ValidateShort
<1>6. CASE UNCHANGED <<selected, validated, code, proven>>
    BY <1>6
<1> QED
    BY <1>1, <1>2, <1>3, <1>4, <1>5, <1>6, <1>7, NextSteps DEF Step, vars, ram, Send, Put, Delete,
       Calculate, Rename, SetPin, ChangePin, VerifyPin

(* While a code is set, a session has access only if it answered for the   *)
(* code or the PIN itself, or with a short response that was taken         *)
(* (oath.c:69, 81, 126, 262, 341, 350).                                    *)
THEOREM AccessProven == Spec => []SessionProven
<1>1. Init => SessionProven
    BY DEF Init, SessionProven
<1> QED
    BY <1>1, StepProven, PTL DEF Spec

(* Without access nothing changes but by a reset of all (oath.c:143, 191). *)
THEOREM LockedSteps == Spec => LockedKeeps
<1> DEFINE Kept == \/ UNCHANGED <<cred, code, answered>>
                   \/ Send
                   \/ code' = None /\ \A s \in Slot : cred'[s] = None
<1>1. ASSUME [Next]_vars, ~validated PROVE Kept
    <2>1. CASE Reset \/ FactoryReset
        BY <2>1 DEF Reset, FactoryReset
    <2>2. CASE ~(Reset \/ FactoryReset)
        BY <1>1, <2>2, NextSteps DEF Step, vars, Allowed, Select, Unload, PowerLoss, Put, Delete,
           Calculate, Rename, SetCode, Validate, ValidateShort, SetPin, VerifyPin, WriteEntry, ChangePin
    <2> QED
        BY <2>1, <2>2
<1>2. [Next]_vars => [~validated => Kept]_vars
    BY <1>1
<1> QED
    BY <1>2, PTL DEF Spec, LockedKeeps

-----------------------------------------------------------------------------
(* Names and codes *)

(* What a rename, a new credential, a removal and a code change in the     *)
(* slots: one of them at most, and the fields given here.                  *)
LEMMA RenamedSlot ==
    ASSUME TypeOK, NEW n, NEW new, Rename(n, new)
    PROVE  \E s \in Slot :
              /\ cred[s] # None
              /\ cred'[s].name = new
              /\ cred'[s].key = cred[s].key /\ cred'[s].imf = cred[s].imf
              /\ \A t \in Slot \ {s} : cred'[t] = cred[t]
<1>1. PICK s \in Find(n) : cred' = [cred EXCEPT ![s].name = new]
    BY DEF Rename
<1>2. s \in Slot /\ cred[s] # None /\ cred[s] \in Record
    BY <1>1, FindIn DEF TypeOK, Record
<1>3. cred'[s] = [cred[s] EXCEPT !.name = new]
    BY <1>1, <1>2 DEF TypeOK
<1>4. \A t \in Slot \ {s} : cred'[t] = cred[t]
    BY <1>1, <1>2 DEF TypeOK
<1>5. cred'[s].name = new /\ cred'[s].key = cred[s].key /\ cred'[s].imf = cred[s].imf
    BY <1>2, <1>3 DEF Record
<1> QED
    BY <1>2, <1>4, <1>5

LEMMA PutSlot ==
    ASSUME TypeOK, NEW n, NEW hotp, NEW imf, Put(n, hotp, imf)
    PROVE  \E s \in Slot :
              /\ Named(n) # {} => s \in Named(n)
              /\ cred'[s] = [name |-> n, hotp |-> hotp, key |-> keys + 1, imf |-> imf]
              /\ \A t \in Slot \ {s} : cred'[t] = cred[t]
<1>1. PICK s \in Place(n) :
          cred' = [cred EXCEPT ![s] = [name |-> n, hotp |-> hotp, key |-> keys + 1, imf |-> imf]]
    BY DEF Put
<1>2. s \in Slot /\ (Named(n) # {} => s \in Named(n))
    BY <1>1, PlaceIn
<1> QED
    BY <1>1, <1>2 DEF TypeOK

LEMMA DeletedSlot ==
    ASSUME TypeOK, NEW n, Delete(n)
    PROVE  \A t \in Slot : cred'[t] # None => cred'[t] = cred[t]
<1>1. PICK s \in Find(n) : cred' = [cred EXCEPT ![s] = None]
    BY DEF Delete
<1> QED
    BY <1>1, FindIn DEF TypeOK

LEMMA CalculatedSlot ==
    ASSUME TypeOK, NEW n, Calculate(n)
    PROVE  \E s \in Slot :
              /\ cred[s] # None
              /\ reply'.key = cred[s].key /\ reply'.imf = cred[s].imf
              /\ cred'[s].name = cred[s].name
              /\ cred'[s].key = cred[s].key /\ cred'[s].imf = cred[s].imf + 1
              /\ \A t \in Slot \ {s} : cred'[t] = cred[t]
<1>1. PICK s \in Find(n) :
          /\ reply' = [key |-> cred[s].key, imf |-> cred[s].imf]
          /\ cred' = [cred EXCEPT ![s].imf = @ + 1]
    BY DEF Calculate
<1>2. s \in Slot /\ cred[s] # None /\ cred[s] \in Record
    BY <1>1, FindIn DEF TypeOK, Record
<1>3. cred'[s] = [cred[s] EXCEPT !.imf = cred[s].imf + 1]
    BY <1>1, <1>2 DEF TypeOK
<1>4. \A t \in Slot \ {s} : cred'[t] = cred[t]
    BY <1>1, <1>2 DEF TypeOK
<1>5. /\ cred'[s].name = cred[s].name
      /\ cred'[s].key = cred[s].key /\ cred'[s].imf = cred[s].imf + 1
    BY <1>2, <1>3 DEF Record
<1>6. reply'.key = cred[s].key /\ reply'.imf = cred[s].imf
    BY <1>1
<1> QED
    BY <1>2, <1>4, <1>5, <1>6

LEMMA StepNames == TypeOK /\ NamesUnique /\ [Next]_vars => NamesUnique'
<1> SUFFICES ASSUME TypeOK, NamesUnique, [Next]_vars PROVE NamesUnique'
    OBVIOUS
<1> USE DEF NamesUnique, Used
<1>1. CASE UNCHANGED <<cred, clash>>
    BY <1>1
<1>2. CASE Reset \/ FactoryReset
    BY <1>2 DEF Reset, FactoryReset
<1>3. ASSUME NEW n \in Names, NEW hotp \in BOOLEAN, NEW imf \in {0, 1}, Put(n, hotp, imf)
      PROVE  NamesUnique'
    <2>1. PICK p \in Slot :
              /\ Named(n) # {} => p \in Named(n)
              /\ cred'[p] = [name |-> n, hotp |-> hotp, key |-> keys + 1, imf |-> imf]
              /\ \A t \in Slot \ {p} : cred'[t] = cred[t]
        BY <1>3, PutSlot
    <2>2. \A t \in Slot \ {p} : ~(~clash /\ cred[t] # None /\ cred[t].name = n)
        BY <2>1 DEF Named
    <2>3. clash' = clash /\ cred'[p].name = n
        BY <1>3, <2>1 DEF Put
    <2> QED
        BY <2>1, <2>2, <2>3
<1>4. ASSUME NEW n \in Names, Delete(n) PROVE NamesUnique'
    <2>1. \A t \in Slot : cred'[t] # None => cred'[t] = cred[t]
        BY <1>4, DeletedSlot
    <2> QED
        BY <1>4, <2>1 DEF Delete
<1>5. ASSUME NEW n \in Names, Calculate(n) PROVE NamesUnique'
    <2>1. PICK p \in Slot :
              /\ cred[p] # None /\ cred'[p].name = cred[p].name
              /\ \A t \in Slot \ {p} : cred'[t] = cred[t]
        BY <1>5, CalculatedSlot
    <2>2. clash' = clash
        BY <1>5 DEF Calculate
    <2> QED
        BY <2>1, <2>2
<1>6. ASSUME NEW n \in Names, NEW new \in Names, Rename(n, new) PROVE NamesUnique'
    <2>1. PICK p \in Slot :
              /\ cred[p] # None /\ cred'[p].name = new
              /\ \A t \in Slot \ {p} : cred'[t] = cred[t]
        BY <1>6, RenamedSlot
    <2>2. ~clash' => ~clash /\ \A t \in Slot : cred[t] # None => cred[t].name # new
        BY <1>6 DEF Rename, Named
    <2> QED
        BY <2>1, <2>2
<1> QED
    BY <1>1, <1>2, <1>3, <1>4, <1>5, <1>6, NextSteps DEF Step, vars, Select, Unload, PowerLoss,
       Send, SetCode, Validate, ValidateShort, SetPin, VerifyPin, WriteEntry, ChangePin

(* As long as no rename takes a name in use, no two credentials have the   *)
(* same name, and a request finds the one it names (oath.c:130, 169).      *)
THEOREM NoShadow == Spec => []NamesUnique
<1>1. Init => NamesUnique
    BY DEF Init, NamesUnique, Used
<1> QED
    BY <1>1, InitType, StepType, StepNames, PTL DEF Spec

(* What CodeOnce needs: keys are new when put and stay with their file,    *)
(* and the factor of a code not sent yet is used up too.                   *)
KeysOld ==
    /\ \A s \in Used : cred[s].key <= keys
    /\ \A a \in answered : a.key <= keys
    /\ reply # None => reply.key <= keys
KeysDiffer == \A s, t \in Used : cred[s].key = cred[t].key => s = t
Beyond(a) == \A s \in Used : cred[s].key = a.key => a.imf < cred[s].imf
FactorInv ==
    /\ KeysOld /\ KeysDiffer
    /\ \A a \in answered : Beyond(a)
    /\ reply # None => Beyond(reply)

LEMMA StepFactor == TypeOK /\ FactorInv /\ [Next]_vars => FactorInv'
<1> SUFFICES ASSUME TypeOK, FactorInv, [Next]_vars PROVE FactorInv'
    OBVIOUS
<1>0. keys \in Nat /\ \A s \in Used : cred[s] \in Record /\ cred[s].key \in Nat /\ cred[s].imf \in Nat
    BY OathAssumption DEF TypeOK, Used, Record
<1>00. /\ \A a \in answered : a.key \in Nat /\ a.imf \in Nat
       /\ reply # None => reply.key \in Nat /\ reply.imf \in Nat
    BY OathAssumption DEF TypeOK, Factors
<1> USE DEF FactorInv, KeysOld, KeysDiffer, Beyond, Used
<1>1. CASE UNCHANGED <<cred, reply, answered, keys>>
    BY <1>1
<1>2. CASE Reset \/ FactoryReset \/ PowerLoss
    BY <1>2 DEF Reset, FactoryReset, PowerLoss, ram
<1>3. CASE Send
    BY <1>3 DEF Send
<1>4. ASSUME NEW n \in Names, NEW hotp \in BOOLEAN, NEW imf \in {0, 1}, Put(n, hotp, imf)
      PROVE  FactorInv'
    <2>1. PICK p \in Slot :
              /\ cred'[p] = [name |-> n, hotp |-> hotp, key |-> keys + 1, imf |-> imf]
              /\ \A t \in Slot \ {p} : cred'[t] = cred[t]
        BY <1>4, PutSlot
    <2>2. cred'[p].key = keys + 1 /\ keys' = keys + 1 /\ UNCHANGED <<reply, answered>>
        BY <1>4, <2>1 DEF Put, ram
    <2>3. KeysOld'
        BY <1>0, <1>00, <2>1, <2>2
    <2>4. KeysDiffer'
        BY <1>0, <2>1, <2>2
    <2>5. ASSUME NEW a, a.key \in Nat, a.key <= keys, Beyond(a) PROVE Beyond(a)'
        BY <1>0, <2>1, <2>2, <2>5
    <2> QED
        BY <1>00, <2>2, <2>3, <2>4, <2>5
<1>5. ASSUME NEW n \in Names, Delete(n) PROVE FactorInv'
    <2>1. \A t \in Slot : cred'[t] # None => cred'[t] = cred[t]
        BY <1>5, DeletedSlot
    <2>2. UNCHANGED <<reply, answered, keys>>
        BY <1>5 DEF Delete, ram
    <2> QED
        BY <2>1, <2>2
<1>6. ASSUME NEW n \in Names, Calculate(n) PROVE FactorInv'
    <2>1. PICK p \in Slot :
              /\ cred[p] # None
              /\ reply'.key = cred[p].key /\ reply'.imf = cred[p].imf
              /\ cred'[p].key = cred[p].key /\ cred'[p].imf = cred[p].imf + 1
              /\ \A t \in Slot \ {p} : cred'[t] = cred[t]
        BY <1>6, CalculatedSlot
    <2>2. cred[p].key \in Nat /\ cred[p].imf \in Nat /\ cred[p].key <= keys
        BY <1>0, <2>1
    <2>3. UNCHANGED <<answered, keys>>
        BY <1>6 DEF Calculate
    <2>4. KeysOld' /\ KeysDiffer'
        BY <1>0, <2>1, <2>2, <2>3
    <2>5. \A a \in answered' : Beyond(a)'
        BY <1>0, <1>00, <2>1, <2>2, <2>3
    <2>6. Beyond(reply)'
        BY <1>0, <2>1, <2>2
    <2> QED
        BY <2>4, <2>5, <2>6
<1>7. ASSUME NEW n \in Names, NEW new \in Names, Rename(n, new) PROVE FactorInv'
    <2>1. PICK p \in Slot :
              /\ cred[p] # None
              /\ cred'[p].key = cred[p].key /\ cred'[p].imf = cred[p].imf
              /\ \A t \in Slot \ {p} : cred'[t] = cred[t]
        BY <1>7, RenamedSlot
    <2>2. UNCHANGED <<reply, answered, keys>>
        BY <1>7 DEF Rename, ram
    <2> QED
        BY <2>1, <2>2
<1> QED
    BY <1>1, <1>2, <1>3, <1>4, <1>5, <1>6, <1>7, NextSteps DEF Step, vars, ram, Select, Unload,
       SetCode, Validate, ValidateShort, SetPin, VerifyPin, WriteEntry, ChangePin

(* No HOTP code is sent twice, also when the power fails between the write *)
(* of the factor and the reply (oath.c:421-438).                           *)
THEOREM CodesOnce == Spec => []CodeOnce
<1>1. Init => FactorInv
    BY DEF Init, FactorInv, KeysOld, KeysDiffer, Beyond, Used
<1>2. FactorInv => CodeOnce
    BY DEF FactorInv, Beyond, CodeOnce
<1> QED
    BY <1>1, <1>2, InitType, StepType, StepFactor, PTL DEF Spec

=============================================================================
