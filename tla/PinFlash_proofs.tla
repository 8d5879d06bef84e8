--------------------------- MODULE PinFlash_proofs ---------------------------
(***************************************************************************)
(* Proofs about PinFlash, for every set of PINs and any number of retries: *)
(* what a power loss can cost, the budget of guesses, and that the         *)
(* handlers implement PinVault.                                            *)
(***************************************************************************)
EXTENDS PinFlash, TLAPS

Opened == {"upgrade", "restore", "seal", "rewrap", "reseal", "store", "unforce",
           "revoke", "hand"}

\* Which steps each handler has.
JobType ==
    /\ job \in [op : {"none", "set", "change", "token"}, at : Opened \cup {"done", "create", "burn", "compare"},
                guess : PINs \cup {Garbled, NoPin}, new : PINs \cup {NoPin}]
    /\ job.at = "done" <=> job.op = "none"
    /\ job.op = "none" => job = Idle
    /\ job.at = "create" => job.op = "set"
    /\ job.op = "set" => job.at \in {"create", "seal"}
    /\ job.op = "token" => job.at \in {"burn", "compare", "upgrade", "seal", "restore", "hand"}
    /\ job.op = "change" => job.at # "hand"
    /\ job.op \in {"set", "change"} => job.new \in PINs
    /\ job.at \in {"burn", "compare"} => job.guess # NoPin

CountType == retries \in 0..MaxPinRetries /\ wrong \in Nat

FileType ==
    /\ pin \in PINs \cup {NoPin}
    /\ oldFormat \in BOOLEAN
    /\ force \in BOOLEAN
    /\ seal \in Sessions \cup {Plain}
    /\ session \in Sessions \cup {NoSession}
    /\ tokenPin \in PINs \cup {NoPin}
    /\ cut \subseteq {"key", "token"}

\* When a PIN exists and a retry is left to take.
Present ==
    /\ job.at = "create" => pin = NoPin
    /\ job.at \notin {"done", "create"} => pin # NoPin
    /\ job.at = "burn" => retries > 0

\* A comparison was paid for, and a right one cleared the count.
Paid ==
    /\ wrong + retries <= MaxPinRetries
    /\ job.at = "compare" => wrong + retries < MaxPinRetries
    /\ job.at \in Opened => wrong = 0

\* The session a handler works with and how far the key has come.
Wrapped ==
    /\ job.at = "upgrade" => oldFormat /\ session = Session("old", pin)
    /\ job.at \in {"rewrap", "reseal", "store", "unforce", "revoke", "hand"} => ~oldFormat
    /\ job.op \in {"set", "change"} /\ job.at = "seal" => ~oldFormat
    /\ job.at \in {"restore", "seal", "hand", "rewrap"} => session = Session("new", pin)
    /\ job.at \in {"restore", "seal"} /\ oldFormat /\ job.at # "restore" => seal = Plain
    /\ job.at = "restore" /\ oldFormat =>
          seal = IF job.op = "change" THEN Plain ELSE session
    /\ job.at = "reseal" => seal = Plain
    /\ job.at = "store" => seal = Session("new", job.new)
    /\ job.at \in {"unforce", "revoke"} => seal = Session("new", pin)

IInv == FileType /\ CountType /\ JobType /\ Present /\ Paid /\ Wrapped /\ KeyRecoverable

-----------------------------------------------------------------------------
\* The files, the session and the counters keep their types.
LEMMA FileStep ==
 ASSUME FileType, JobType, Present, Wrapped, [Next]_vars
 PROVE FileType'
<1> USE FlashAssumption DEF FileType, JobType, Opened, Present, Wrapped, Idle, Done, file, Session, Sessions, Plain, NoSession
<1>1. ASSUME NEW op \in {"set", "change", "token"}, NEW g \in PINs \cup {Garbled, NoPin}, NEW p \in PINs \cup {NoPin},
             Start(op, g, p), op # "token" => p \in PINs, op # "set" => g # NoPin
      PROVE  FileType'
  BY <1>1 DEF Start, First
<1>2. CASE Create
  BY <1>2 DEF Create, Goto, After, GoOn
<1>3. CASE Burn
  BY <1>3 DEF Burn, Goto, After, GoOn
<1>4. CASE CompareWrong
  BY <1>4 DEF CompareWrong, GiveUp
<1>5. CASE CompareRight
  BY <1>5 DEF CompareRight, Goto, After, GoOn
<1>6. CASE Upgrade
  BY <1>6 DEF Upgrade, Goto, After, GoOn, GiveUp, Opens
<1>7. CASE Restore
  BY <1>7 DEF Restore, Goto, After, GoOn
<1>8. CASE Seal
  BY <1>8 DEF Seal, Goto, After, GoOn
<1>9. CASE Rewrap
  BY <1>9 DEF Rewrap, Goto, After, GoOn, GiveUp, Opens
<1>10. CASE Reseal
  BY <1>10 DEF Reseal, Goto, After, GoOn
<1>11. CASE Store
  BY <1>11 DEF Store, Goto, After, GoOn, GiveUp
<1>12. CASE Unforce
  BY <1>12 DEF Unforce, Goto, After, GoOn
<1>13. CASE Revoke
  BY <1>13 DEF Revoke, Goto, After, GoOn
<1>14. CASE Hand
  BY <1>14 DEF Hand, Goto, After, GoOn
<1>15. CASE ForceChange
  BY <1>15 DEF ForceChange
<1>16. CASE PowerLoss
  BY <1>16 DEF PowerLoss
<1>17. CASE FactoryReset
  BY <1>17 DEF FactoryReset
<1>18. CASE UNCHANGED vars
  BY <1>18 DEF vars
<1> QED
  BY <1>1, <1>2, <1>3, <1>4, <1>5, <1>6, <1>7, <1>8, <1>9, <1>10, <1>11, <1>12, <1>13, <1>14, <1>15, <1>16, <1>17, <1>18 DEF Next

\* The counters stay in their ranges.
LEMMA CountStep ==
 ASSUME CountType, JobType, Present, [Next]_vars
 PROVE CountType'
<1> USE FlashAssumption DEF CountType, JobType, Opened, Present, Idle, Done, file
<1>1. ASSUME NEW op \in {"set", "change", "token"}, NEW g \in PINs \cup {Garbled, NoPin}, NEW p \in PINs \cup {NoPin},
             Start(op, g, p), op # "token" => p \in PINs, op # "set" => g # NoPin
      PROVE  CountType'
  BY <1>1 DEF Start, First
<1>2. CASE Create
  BY <1>2 DEF Create, Goto, After, GoOn
<1>3. CASE Burn
  BY <1>3 DEF Burn, Goto, After, GoOn
<1>4. CASE CompareWrong
  BY <1>4 DEF CompareWrong, GiveUp
<1>5. CASE CompareRight
  BY <1>5 DEF CompareRight, Goto, After, GoOn
<1>6. CASE Upgrade
  BY <1>6 DEF Upgrade, Goto, After, GoOn, GiveUp, Opens
<1>7. CASE Restore
  BY <1>7 DEF Restore, Goto, After, GoOn
<1>8. CASE Seal
  BY <1>8 DEF Seal, Goto, After, GoOn
<1>9. CASE Rewrap
  BY <1>9 DEF Rewrap, Goto, After, GoOn, GiveUp, Opens
<1>10. CASE Reseal
  BY <1>10 DEF Reseal, Goto, After, GoOn
<1>11. CASE Store
  BY <1>11 DEF Store, Goto, After, GoOn, GiveUp
<1>12. CASE Unforce
  BY <1>12 DEF Unforce, Goto, After, GoOn
<1>13. CASE Revoke
  BY <1>13 DEF Revoke, Goto, After, GoOn
<1>14. CASE Hand
  BY <1>14 DEF Hand, Goto, After, GoOn
<1>15. CASE ForceChange
  BY <1>15 DEF ForceChange
<1>16. CASE PowerLoss
  BY <1>16 DEF PowerLoss
<1>17. CASE FactoryReset
  BY <1>17 DEF FactoryReset
<1>18. CASE UNCHANGED vars
  BY <1>18 DEF vars
<1> QED
  BY <1>1, <1>2, <1>3, <1>4, <1>5, <1>6, <1>7, <1>8, <1>9, <1>10, <1>11, <1>12, <1>13, <1>14, <1>15, <1>16, <1>17, <1>18 DEF Next

\* A handler only ever runs steps of its own.
LEMMA JobStep ==
 ASSUME FileType, JobType, Present, [Next]_vars
 PROVE JobType'
<1> USE FlashAssumption DEF FileType, JobType, Opened, Present, Idle, Done
<1>1. ASSUME NEW op \in {"set", "change", "token"}, NEW g \in PINs \cup {Garbled, NoPin}, NEW p \in PINs \cup {NoPin},
             Start(op, g, p), op # "token" => p \in PINs, op # "set" => g # NoPin
      PROVE  JobType'
  BY <1>1 DEF Start, First
<1>2. CASE Create
  BY <1>2 DEF Create, Goto, After, GoOn
<1>3. CASE Burn
  BY <1>3 DEF Burn, Goto, After, GoOn
<1>4. CASE CompareWrong
  BY <1>4 DEF CompareWrong, GiveUp
<1>5. CASE CompareRight
  BY <1>5 DEF CompareRight, Goto, After, GoOn
<1>6. CASE Upgrade
  BY <1>6 DEF Upgrade, Goto, After, GoOn, GiveUp, Opens
<1>7. CASE Restore
  BY <1>7 DEF Restore, Goto, After, GoOn
<1>8. CASE Seal
  BY <1>8 DEF Seal, Goto, After, GoOn
<1>9. CASE Rewrap
  BY <1>9 DEF Rewrap, Goto, After, GoOn, GiveUp, Opens
<1>10. CASE Reseal
  BY <1>10 DEF Reseal, Goto, After, GoOn
<1>11. CASE Store
  BY <1>11 DEF Store, Goto, After, GoOn, GiveUp
<1>12. CASE Unforce
  BY <1>12 DEF Unforce, Goto, After, GoOn
<1>13. CASE Revoke
  BY <1>13 DEF Revoke, Goto, After, GoOn
<1>14. CASE Hand
  BY <1>14 DEF Hand, Goto, After, GoOn
<1>15. CASE ForceChange
  BY <1>15 DEF ForceChange
<1>16. CASE PowerLoss
  BY <1>16 DEF PowerLoss
<1>17. CASE FactoryReset
  BY <1>17 DEF FactoryReset
<1>18. CASE UNCHANGED vars
  BY <1>18 DEF vars
<1> QED
  BY <1>1, <1>2, <1>3, <1>4, <1>5, <1>6, <1>7, <1>8, <1>9, <1>10, <1>11, <1>12, <1>13, <1>14, <1>15, <1>16, <1>17, <1>18 DEF Next

\* While a handler runs there is a PIN, and a retry to take.
LEMMA PresentStep ==
 ASSUME FileType, JobType, Present, [Next]_vars
 PROVE Present'
<1> USE FlashAssumption DEF FileType, JobType, Opened, Present, Idle, Done, file
<1>1. ASSUME NEW op \in {"set", "change", "token"}, NEW g \in PINs \cup {Garbled, NoPin}, NEW p \in PINs \cup {NoPin},
             Start(op, g, p), op # "token" => p \in PINs, op # "set" => g # NoPin
      PROVE  Present'
  BY <1>1 DEF Start, First
<1>2. CASE Create
  BY <1>2 DEF Create, Goto, After, GoOn
<1>3. CASE Burn
  BY <1>3 DEF Burn, Goto, After, GoOn
<1>4. CASE CompareWrong
  BY <1>4 DEF CompareWrong, GiveUp
<1>5. CASE CompareRight
  BY <1>5 DEF CompareRight, Goto, After, GoOn
<1>6. CASE Upgrade
  BY <1>6 DEF Upgrade, Goto, After, GoOn, GiveUp, Opens
<1>7. CASE Restore
  BY <1>7 DEF Restore, Goto, After, GoOn
<1>8. CASE Seal
  BY <1>8 DEF Seal, Goto, After, GoOn
<1>9. CASE Rewrap
  BY <1>9 DEF Rewrap, Goto, After, GoOn, GiveUp, Opens
<1>10. CASE Reseal
  BY <1>10 DEF Reseal, Goto, After, GoOn
<1>11. CASE Store
  BY <1>11 DEF Store, Goto, After, GoOn, GiveUp
<1>12. CASE Unforce
  BY <1>12 DEF Unforce, Goto, After, GoOn
<1>13. CASE Revoke
  BY <1>13 DEF Revoke, Goto, After, GoOn
<1>14. CASE Hand
  BY <1>14 DEF Hand, Goto, After, GoOn
<1>15. CASE ForceChange
  BY <1>15 DEF ForceChange
<1>16. CASE PowerLoss
  BY <1>16 DEF PowerLoss
<1>17. CASE FactoryReset
  BY <1>17 DEF FactoryReset
<1>18. CASE UNCHANGED vars
  BY <1>18 DEF vars
<1> QED
  BY <1>1, <1>2, <1>3, <1>4, <1>5, <1>6, <1>7, <1>8, <1>9, <1>10, <1>11, <1>12, <1>13, <1>14, <1>15, <1>16, <1>17, <1>18 DEF Next

\* Every comparison is paid for beforehand.
LEMMA PaidStep ==
 ASSUME CountType, JobType, Present, Paid, [Next]_vars
 PROVE Paid'
<1> USE FlashAssumption DEF CountType, JobType, Opened, Present, Paid, Idle, Done, file
<1>1. ASSUME NEW op \in {"set", "change", "token"}, NEW g \in PINs \cup {Garbled, NoPin}, NEW p \in PINs \cup {NoPin},
             Start(op, g, p), op # "token" => p \in PINs, op # "set" => g # NoPin
      PROVE  Paid'
  BY <1>1 DEF Start, First
<1>2. CASE Create
  BY <1>2 DEF Create, Goto, After, GoOn
<1>3. CASE Burn
  BY <1>3 DEF Burn, Goto, After, GoOn
<1>4. CASE CompareWrong
  BY <1>4 DEF CompareWrong, GiveUp
<1>5. CASE CompareRight
  BY <1>5 DEF CompareRight, Goto, After, GoOn
<1>6. CASE Upgrade
  BY <1>6 DEF Upgrade, Goto, After, GoOn, GiveUp, Opens
<1>7. CASE Restore
  BY <1>7 DEF Restore, Goto, After, GoOn
<1>8. CASE Seal
  BY <1>8 DEF Seal, Goto, After, GoOn
<1>9. CASE Rewrap
  BY <1>9 DEF Rewrap, Goto, After, GoOn, GiveUp, Opens
<1>10. CASE Reseal
  BY <1>10 DEF Reseal, Goto, After, GoOn
<1>11. CASE Store
  BY <1>11 DEF Store, Goto, After, GoOn, GiveUp
<1>12. CASE Unforce
  BY <1>12 DEF Unforce, Goto, After, GoOn
<1>13. CASE Revoke
  BY <1>13 DEF Revoke, Goto, After, GoOn
<1>14. CASE Hand
  BY <1>14 DEF Hand, Goto, After, GoOn
<1>15. CASE ForceChange
  BY <1>15 DEF ForceChange
<1>16. CASE PowerLoss
  BY <1>16 DEF PowerLoss
<1>17. CASE FactoryReset
  BY <1>17 DEF FactoryReset
<1>18. CASE UNCHANGED vars
  BY <1>18 DEF vars
<1> QED
  BY <1>1, <1>2, <1>3, <1>4, <1>5, <1>6, <1>7, <1>8, <1>9, <1>10, <1>11, <1>12, <1>13, <1>14, <1>15, <1>16, <1>17, <1>18 DEF Next

\* The handler's session and the wrapping of the key move together.
LEMMA WrappedStep ==
 ASSUME FileType, JobType, Present, Wrapped, [Next]_vars
 PROVE Wrapped'
<1> USE FlashAssumption DEF FileType, JobType, Opened, Present, Wrapped, Idle, Done, file, Session, Sessions, Plain
<1>1. ASSUME NEW op \in {"set", "change", "token"}, NEW g \in PINs \cup {Garbled, NoPin}, NEW p \in PINs \cup {NoPin},
             Start(op, g, p), op # "token" => p \in PINs, op # "set" => g # NoPin
      PROVE  Wrapped'
  BY <1>1 DEF Start, First
<1>2. CASE Create
  BY <1>2 DEF Create, Goto, After, GoOn
<1>3. CASE Burn
  BY <1>3 DEF Burn, Goto, After, GoOn
<1>4. CASE CompareWrong
  BY <1>4 DEF CompareWrong, GiveUp
<1>5. CASE CompareRight
  BY <1>5 DEF CompareRight, Goto, After, GoOn
<1>6. CASE Upgrade
  BY <1>6 DEF Upgrade, Goto, After, GoOn, GiveUp, Opens
<1>7. CASE Restore
  BY <1>7 DEF Restore, Goto, After, GoOn
<1>8. CASE Seal
  BY <1>8 DEF Seal, Goto, After, GoOn
<1>9. CASE Rewrap
  BY <1>9 DEF Rewrap, Goto, After, GoOn, GiveUp, Opens
<1>10. CASE Reseal
  BY <1>10 DEF Reseal, Goto, After, GoOn
<1>11. CASE Store
  BY <1>11 DEF Store, Goto, After, GoOn, GiveUp
<1>12. CASE Unforce
  BY <1>12 DEF Unforce, Goto, After, GoOn
<1>13. CASE Revoke
  BY <1>13 DEF Revoke, Goto, After, GoOn
<1>14. CASE Hand
  BY <1>14 DEF Hand, Goto, After, GoOn
<1>15. CASE ForceChange
  BY <1>15 DEF ForceChange
<1>16. CASE PowerLoss
  BY <1>16 DEF PowerLoss
<1>17. CASE FactoryReset
  BY <1>17 DEF FactoryReset
<1>18. CASE UNCHANGED vars
  BY <1>18 DEF vars
<1> QED
  BY <1>1, <1>2, <1>3, <1>4, <1>5, <1>6, <1>7, <1>8, <1>9, <1>10, <1>11, <1>12, <1>13, <1>14, <1>15, <1>16, <1>17, <1>18 DEF Next

\* No step leaves the key wrapped under a PIN the file does not know.
LEMMA KeyStep ==
 ASSUME FileType, JobType, Present, Wrapped, KeyRecoverable, [Next]_vars
 PROVE KeyRecoverable'
<1> USE FlashAssumption DEF FileType, JobType, Opened, Present, Wrapped, KeyRecoverable, Recoverable, KeyExposed, Idle, Done, file, Session, Sessions, Plain
<1>1. ASSUME NEW op \in {"set", "change", "token"}, NEW g \in PINs \cup {Garbled, NoPin}, NEW p \in PINs \cup {NoPin},
             Start(op, g, p), op # "token" => p \in PINs, op # "set" => g # NoPin
      PROVE  KeyRecoverable'
  BY <1>1 DEF Start, First
<1>2. CASE Create
  BY <1>2 DEF Create, Goto, After, GoOn
<1>3. CASE Burn
  BY <1>3 DEF Burn, Goto, After, GoOn
<1>4. CASE CompareWrong
  BY <1>4 DEF CompareWrong, GiveUp
<1>5. CASE CompareRight
  BY <1>5 DEF CompareRight, Goto, After, GoOn
<1>6. CASE Upgrade
  BY <1>6 DEF Upgrade, Goto, After, GoOn, GiveUp, Opens
<1>7. CASE Restore
  BY <1>7 DEF Restore, Goto, After, GoOn
<1>8. CASE Seal
  BY <1>8 DEF Seal, Goto, After, GoOn
<1>9. CASE Rewrap
  BY <1>9 DEF Rewrap, Goto, After, GoOn, GiveUp, Opens
<1>10. CASE Reseal
  BY <1>10 DEF Reseal, Goto, After, GoOn
<1>11. CASE Store
  BY <1>11 DEF Store, Goto, After, GoOn, GiveUp
<1>12. CASE Unforce
  BY <1>12 DEF Unforce, Goto, After, GoOn
<1>13. CASE Revoke
  BY <1>13 DEF Revoke, Goto, After, GoOn
<1>14. CASE Hand
  BY <1>14 DEF Hand, Goto, After, GoOn
<1>15. CASE ForceChange
  BY <1>15 DEF ForceChange
<1>16. CASE PowerLoss
  BY <1>16 DEF PowerLoss, TokenExposed
<1>17. CASE FactoryReset
  BY <1>17 DEF FactoryReset
<1>18. CASE UNCHANGED vars
  BY <1>18 DEF vars
<1> QED
  BY <1>1, <1>2, <1>3, <1>4, <1>5, <1>6, <1>7, <1>8, <1>9, <1>10, <1>11, <1>12, <1>13, <1>14, <1>15, <1>16, <1>17, <1>18 DEF Next

\* In every reachable state the key opens with the PIN of the file, unless the
\* power was lost between two writes that belong together.
THEOREM Invariant == Spec => []IInv
<1>1. Init => IInv
  <2> SUFFICES ASSUME Init PROVE IInv
    OBVIOUS
  <2>1. CountType /\ Paid
    BY FlashAssumption DEF Init, CountType, Paid, Idle, Opened
  <2>2. FileType /\ JobType
    BY FlashAssumption DEF Init, FileType, JobType, Idle, Plain, NoSession, Session, Sessions
  <2>3. Present /\ Wrapped /\ KeyRecoverable
    BY FlashAssumption DEF Init, Present, Wrapped, KeyRecoverable, Recoverable, Idle, Plain, Session
  <2> QED BY <2>1, <2>2, <2>3 DEF IInv
<1>2. IInv /\ [Next]_vars => IInv'
  BY FileStep, CountStep, JobStep, PresentStep, PaidStep, WrappedStep, KeyStep DEF IInv
<1> QED BY <1>1, <1>2, PTL DEF Spec

\* The device key is lost only to a power loss inside changePIN or the upgrade
\* of an old PIN file (cbor_client_pin.c:654, 782).
THEOREM KeySafe == Spec => []KeyRecoverable
<1>1. IInv => KeyRecoverable
  BY DEF IInv
<1> QED BY <1>1, Invariant, PTL

\* Wrong guesses and retries left never exceed the retries granted, wherever
\* the power is lost (cbor_client_pin.c:566, 733).
THEOREM GuessSafe == Spec => []GuessBudget
<1>1. IInv => GuessBudget
  BY DEF IInv, Paid, GuessBudget, V!Budget
<1> QED BY <1>1, Invariant, PTL

\* Every step of a handler is a step of PinVault or changes nothing of it.
THEOREM Implements == Spec => ImplementsVault
<1>1. Init => V!Init
  BY DEF Init, V!Init, Phase, Idle
<1>2. IInv /\ [Next]_vars => [V!Next]_V!vars
  <2> SUFFICES ASSUME IInv, [Next]_vars PROVE [V!Next]_V!vars
    OBVIOUS
  <2> USE FlashAssumption DEF IInv, JobType, Present, Opened, Phase, Idle, Done, file, V!vars
  <2>1. ASSUME NEW op \in {"set", "change", "token"}, NEW g \in PINs \cup {Garbled, NoPin}, NEW p \in PINs \cup {NoPin},
               Start(op, g, p)
        PROVE  UNCHANGED V!vars
    BY <2>1 DEF Start, First
  <2>2. CASE Create
    <3>1. V!Create(job.new)
      BY <2>2 DEF Create, V!Create, GoOn, Goto, After
    <3> QED BY <3>1, <2>2 DEF V!Next, Create
  <2>3. CASE Burn
    <3>1. V!Try(job.guess)
      BY <2>3 DEF Burn, V!Try, GoOn, Goto, After
    <3> QED BY <3>1, <2>3 DEF V!Next, Burn
  <2>4. CASE CompareWrong
    <3>1. V!Reject \/ V!Close
      BY <2>4 DEF CompareWrong, GiveUp, V!Reject, V!Close
    <3> QED BY <3>1 DEF V!Next
  <2>5. CASE CompareRight
    <3>1. V!Accept
      BY <2>5 DEF CompareRight, V!Accept, GoOn, Goto, After
    <3> QED BY <3>1 DEF V!Next
  <2>6. CASE Upgrade
    <3>1. V!Close \/ UNCHANGED V!vars
      BY <2>6 DEF Upgrade, V!Close, GoOn, Goto, After, GiveUp
    <3> QED BY <3>1 DEF V!Next
  <2>7. CASE Restore
    <3>1. V!Restore
      BY <2>7 DEF Restore, V!Restore, GoOn, Goto, After
    <3> QED BY <3>1 DEF V!Next
  <2>8. CASE Seal
    <3>1. UNCHANGED V!vars
      BY <2>8 DEF Seal, GoOn, Goto, After
    <3> QED BY <3>1
  <2>9. CASE Rewrap
    <3>1. V!Close \/ UNCHANGED V!vars
      BY <2>9 DEF Rewrap, V!Close, GoOn, Goto, After, GiveUp
    <3> QED BY <3>1 DEF V!Next
  <2>10. CASE Reseal
    <3>1. UNCHANGED V!vars
      BY <2>10 DEF Reseal, GoOn, Goto, After
    <3> QED BY <3>1
  <2>11. CASE Store
    <3>1. V!Close \/ V!Change(job.new)
      BY <2>11 DEF Store, V!Close, V!Change, GoOn, Goto, After, GiveUp
    <3> QED BY <3>1, <2>11 DEF V!Next, Store
  <2>12. CASE Unforce
    <3>1. UNCHANGED V!vars
      BY <2>12 DEF Unforce, GoOn, Goto, After
    <3> QED BY <3>1
  <2>13. CASE Revoke
    <3>1. V!Close
      BY <2>13 DEF Revoke, V!Close, GoOn, Goto, After
    <3> QED BY <3>1 DEF V!Next
  <2>14. CASE Hand
    <3>1. V!Close
      BY <2>14 DEF Hand, V!Close, GoOn, Goto, After
    <3> QED BY <3>1 DEF V!Next
  <2>15. CASE ForceChange
    BY <2>15 DEF ForceChange
  <2>16. CASE PowerLoss
    <3>1. V!Close \/ UNCHANGED V!vars
      BY <2>16 DEF PowerLoss, V!Close
    <3> QED BY <3>1 DEF V!Next
  <2>17. CASE FactoryReset
    <3>1. V!Erase
      BY <2>17 DEF FactoryReset, V!Erase
    <3> QED BY <3>1 DEF V!Next
  <2>18. CASE UNCHANGED vars
    BY <2>18 DEF vars
  <2> QED
    BY <2>1, <2>2, <2>3, <2>4, <2>5, <2>6, <2>7, <2>8, <2>9, <2>10, <2>11, <2>12,
       <2>13, <2>14, <2>15, <2>16, <2>17, <2>18 DEF Next
<1> QED BY <1>1, <1>2, Invariant, PTL DEF Spec, ImplementsVault, V!Spec

\* SessionHoldsKey, with the steps of a handler in between.
SessionInv ==
    /\ job.at \in {"done", "burn", "compare"} /\ pin # NoPin /\ session # NoSession
          => seal = session \/ "key" \in cut
    /\ job.at \in {"rewrap", "store", "unforce", "revoke", "hand"}
          => seal = session \/ "key" \in cut
    /\ job.at = "restore" /\ job.op = "token" => seal = session \/ "key" \in cut

\* No step parts the session from the key it opens.
LEMMA SessionStep ==
 ASSUME FileType, JobType, Present, Wrapped, KeyRecoverable, SessionInv, [Next]_vars
 PROVE SessionInv'
<1> USE FlashAssumption DEF FileType, JobType, Opened, Present, Wrapped, SessionInv, Idle, Done, file, Session, Sessions, Plain, NoSession
<1>1. ASSUME NEW op \in {"set", "change", "token"}, NEW g \in PINs \cup {Garbled, NoPin}, NEW p \in PINs \cup {NoPin},
             Start(op, g, p), op # "token" => p \in PINs, op # "set" => g # NoPin
      PROVE  SessionInv'
  BY <1>1 DEF Start, First
<1>2. CASE Create
  BY <1>2 DEF Create, Goto, After, GoOn
<1>3. CASE Burn
  BY <1>3 DEF Burn, Goto, After, GoOn
<1>4. CASE CompareWrong
  BY <1>4 DEF CompareWrong, GiveUp
<1>5. CASE CompareRight
  BY <1>5 DEF CompareRight, Goto, After, GoOn
<1>6. CASE Upgrade
  BY <1>6 DEF Upgrade, Goto, After, GoOn, GiveUp, Opens, KeyRecoverable, Recoverable, KeyExposed
<1>7. CASE Restore
  BY <1>7 DEF Restore, Goto, After, GoOn
<1>8. CASE Seal
  BY <1>8 DEF Seal, Goto, After, GoOn, KeyRecoverable, Recoverable, KeyExposed
<1>9. CASE Rewrap
  BY <1>9 DEF Rewrap, Goto, After, GoOn, GiveUp, Opens
<1>10. CASE Reseal
  BY <1>10 DEF Reseal, Goto, After, GoOn
<1>11. CASE Store
  BY <1>11 DEF Store, Goto, After, GoOn, GiveUp
<1>12. CASE Unforce
  BY <1>12 DEF Unforce, Goto, After, GoOn
<1>13. CASE Revoke
  BY <1>13 DEF Revoke, Goto, After, GoOn
<1>14. CASE Hand
  BY <1>14 DEF Hand, Goto, After, GoOn
<1>15. CASE ForceChange
  BY <1>15 DEF ForceChange
<1>16. CASE PowerLoss
  BY <1>16 DEF PowerLoss, TokenExposed, KeyExposed
<1>17. CASE FactoryReset
  BY <1>17 DEF FactoryReset
<1>18. CASE UNCHANGED vars
  BY <1>18 DEF vars
<1> QED
  BY <1>1, <1>2, <1>3, <1>4, <1>5, <1>6, <1>7, <1>8, <1>9, <1>10, <1>11, <1>12, <1>13, <1>14, <1>15, <1>16, <1>17, <1>18 DEF Next

\* No step keeps a token beyond its PIN.
LEMMA TokenStep ==
 ASSUME FileType, JobType, Present, TokenDiesWithPin, [Next]_vars
 PROVE TokenDiesWithPin'
<1> USE FlashAssumption DEF FileType, JobType, Opened, Present, TokenDiesWithPin, TokenExposed, Idle, Done, file
<1>1. ASSUME NEW op \in {"set", "change", "token"}, NEW g \in PINs \cup {Garbled, NoPin}, NEW p \in PINs \cup {NoPin},
             Start(op, g, p), op # "token" => p \in PINs, op # "set" => g # NoPin
      PROVE  TokenDiesWithPin'
  BY <1>1 DEF Start, First
<1>2. CASE Create
  BY <1>2 DEF Create, Goto, After, GoOn
<1>3. CASE Burn
  BY <1>3 DEF Burn, Goto, After, GoOn
<1>4. CASE CompareWrong
  BY <1>4 DEF CompareWrong, GiveUp
<1>5. CASE CompareRight
  BY <1>5 DEF CompareRight, Goto, After, GoOn
<1>6. CASE Upgrade
  BY <1>6 DEF Upgrade, Goto, After, GoOn, GiveUp, Opens
<1>7. CASE Restore
  BY <1>7 DEF Restore, Goto, After, GoOn
<1>8. CASE Seal
  BY <1>8 DEF Seal, Goto, After, GoOn
<1>9. CASE Rewrap
  BY <1>9 DEF Rewrap, Goto, After, GoOn, GiveUp, Opens
<1>10. CASE Reseal
  BY <1>10 DEF Reseal, Goto, After, GoOn
<1>11. CASE Store
  BY <1>11 DEF Store, Goto, After, GoOn, GiveUp
<1>12. CASE Unforce
  BY <1>12 DEF Unforce, Goto, After, GoOn
<1>13. CASE Revoke
  BY <1>13 DEF Revoke, Goto, After, GoOn
<1>14. CASE Hand
  BY <1>14 DEF Hand, Goto, After, GoOn
<1>15. CASE ForceChange
  BY <1>15 DEF ForceChange
<1>16. CASE PowerLoss
  BY <1>16 DEF PowerLoss, KeyExposed
<1>17. CASE FactoryReset
  BY <1>17 DEF FactoryReset
<1>18. CASE UNCHANGED vars
  BY <1>18 DEF vars
<1> QED
  BY <1>1, <1>2, <1>3, <1>4, <1>5, <1>6, <1>7, <1>8, <1>9, <1>10, <1>11, <1>12, <1>13, <1>14, <1>15, <1>16, <1>17, <1>18 DEF Next

\* Once a PIN was shown the requests that follow can open the device key
\* (cbor_client_pin.c:270, fido.c:213).
THEOREM SessionSafe == Spec => []SessionHoldsKey
<1>1. Init => SessionInv
  BY DEF Init, SessionInv, Idle
<1>2. IInv /\ SessionInv /\ [Next]_vars => SessionInv'
  BY SessionStep DEF IInv
<1>3. SessionInv => SessionHoldsKey
  BY DEF SessionInv, SessionHoldsKey, Done
<1> QED BY <1>1, <1>2, <1>3, Invariant, PTL DEF Spec

\* The persistent token dies with its PIN, unless the power was lost after the
\* new PIN was stored (cbor_client_pin.c:668, 681).
THEOREM TokenSafe == Spec => []TokenDiesWithPin
<1>1. Init => TokenDiesWithPin
  BY DEF Init, TokenDiesWithPin
<1>2. IInv /\ TokenDiesWithPin /\ [Next]_vars => TokenDiesWithPin'
  BY TokenStep DEF IInv
<1> QED BY <1>1, <1>2, Invariant, PTL DEF Spec
=============================================================================
