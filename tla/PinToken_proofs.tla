--------------------------- MODULE PinToken_proofs ---------------------------
(* Proofs about PinToken: type correctness, the inductive invariant behind *)
(* its safety properties, and its two action properties.                   *)
EXTENDS PinToken, TLAPS

\* Every variable keeps its type in every reachable state.
THEOREM TypeCorrect == Spec => []TypeOK
<1> USE DEF Tokens
<1>1. Init => TypeOK
  <2> SUFFICES ASSUME Init PROVE TypeOK
    OBVIOUS
  <2>1. CountType
    BY LimitsAssumption, LengthsAssumption DEF Init, CountType
  <2>2. FlagType
    BY DEF Init, FlagType
  <2>3. TokenType
    BY DEF Init, TokenType, Paut, IdlePaut
  <2>4. HistoryType
    BY DEF Init, HistoryType
  <2> QED BY <2>1, <2>2, <2>3, <2>4 DEF TypeOK
<1>2. TypeOK /\ [Next]_vars => TypeOK'
  <2> SUFFICES ASSUME TypeOK, [Next]_vars PROVE TypeOK'
    OBVIOUS
  <2> USE DEF TypeOK
  <2>1. ASSUME GetKeyAgreement PROVE TypeOK'
    <3>1. CountType'
      BY <2>1 DEF GetKeyAgreement, ResetPaut, ForgetGrant, flash, guesses, CountType
    <3>2. FlagType'
      BY <2>1 DEF GetKeyAgreement, ResetPaut, ForgetGrant, flash, guesses, FlagType
    <3>3. TokenType'
      BY <2>1 DEF GetKeyAgreement, ResetPaut, ForgetGrant, flash, guesses, TokenType, Paut
    <3>4. HistoryType'
      BY <2>1 DEF GetKeyAgreement, ResetPaut, ForgetGrant, flash, guesses, HistoryType
    <3> QED BY <3>1, <3>2, <3>3, <3>4
  <2>2. ASSUME NEW p \in PINs, SetPin(p) PROVE TypeOK'
    <3>1. CountType'
      BY <2>2, LimitsAssumption DEF SetPin, guesses, grant, CountType
    <3>2. FlagType'
      BY <2>2 DEF SetPin, guesses, grant, FlagType
    <3>3. TokenType'
      BY <2>2 DEF SetPin, guesses, grant, TokenType, Paut
    <3>4. HistoryType'
      BY <2>2 DEF SetPin, guesses, grant, HistoryType
    <3> QED BY <3>1, <3>2, <3>3, <3>4
  <2>3. ASSUME WrongPin PROVE TypeOK'
    <3>1. CountType'
      BY <2>3, LimitsAssumption DEF WrongPin, MayTryPin, guesses, grant, CountType
    <3>2. FlagType'
      BY <2>3 DEF WrongPin, MayTryPin, guesses, grant, FlagType
    <3>3. TokenType'
      BY <2>3 DEF WrongPin, MayTryPin, guesses, grant, TokenType, Paut
    <3>4. HistoryType'
      BY <2>3 DEF WrongPin, MayTryPin, guesses, grant, HistoryType
    <3> QED BY <3>1, <3>2, <3>3, <3>4
  <2>4. ASSUME GarbledPin PROVE TypeOK'
    <3>1. CountType'
      BY <2>4, LimitsAssumption DEF GarbledPin, MayTryPin, guesses, grant, CountType
    <3>2. FlagType'
      BY <2>4 DEF GarbledPin, MayTryPin, guesses, grant, FlagType
    <3>3. TokenType'
      BY <2>4 DEF GarbledPin, MayTryPin, guesses, grant, TokenType, Paut
    <3>4. HistoryType'
      BY <2>4 DEF GarbledPin, MayTryPin, guesses, grant, HistoryType
    <3> QED BY <3>1, <3>2, <3>3, <3>4
  <2>5. ASSUME NEW p \in PINs, ChangePin(p) PROVE TypeOK'
    <3>1. CountType'
      BY <2>5, LimitsAssumption DEF ChangePin, RightPin, ResetTokens, ResetPaut, ForgetGrant, CountType
    <3>2. FlagType'
      BY <2>5 DEF ChangePin, RightPin, ResetTokens, ResetPaut, ForgetGrant, FlagType
    <3>3. TokenType'
      BY <2>5 DEF ChangePin, RightPin, ResetTokens, ResetPaut, ForgetGrant, TokenType, Paut
    <3>4. HistoryType'
      BY <2>5 DEF ChangePin, RightPin, ResetTokens, ResetPaut, ForgetGrant, HistoryType
    <3> QED BY <3>1, <3>2, <3>3, <3>4
  <2>6. ASSUME NEW p \in PINs, ChangePinRefused(p) PROVE TypeOK'
    <3>1. CountType'
      BY <2>6, LimitsAssumption DEF ChangePinRefused, RightPin, grant, CountType
    <3>2. FlagType'
      BY <2>6 DEF ChangePinRefused, RightPin, grant, FlagType
    <3>3. TokenType'
      BY <2>6 DEF ChangePinRefused, RightPin, grant, TokenType, Paut
    <3>4. HistoryType'
      BY <2>6 DEF ChangePinRefused, RightPin, grant, HistoryType
    <3> QED BY <3>1, <3>2, <3>3, <3>4
  <2>7. ASSUME NEW ps \in PinPermSets, NEW rp \in RPs \cup {NoRp}, GetPinToken(ps, rp) PROVE TypeOK'
    <3>1. CountType'
      BY <2>7, LimitsAssumption DEF GetPinToken, RightPin, MayTryPin, PinSet, HandOutPaut, Begin, PinPermSets, grant, CountType
    <3>2. FlagType'
      BY <2>7 DEF GetPinToken, RightPin, MayTryPin, PinSet, HandOutPaut, Begin, PinPermSets, grant, FlagType
    <3>3. TokenType'
      <4>1. pin \in PINs
        BY <2>7 DEF GetPinToken, RightPin, MayTryPin, PinSet, TokenType
      <4>2. ps \in SUBSET Perms
        BY PermsAssumption DEF PinPermSets
      <4>3. CASE PCMR \in ps
        BY <2>7, <4>1, <4>3 DEF GetPinToken, TokenType
      <4>4. CASE PCMR \notin ps
        <5>1. HandOutPaut(pin, FALSE, ps, rp) /\ UNCHANGED <<pin, ppautPerms>>
          BY <2>7, <4>4 DEF GetPinToken
        <5>2. paut' \in Paut
          BY <4>2, <5>1 DEF HandOutPaut, Begin, Paut
        <5> QED BY <4>1, <5>1, <5>2 DEF HandOutPaut, TokenType
      <4> QED BY <4>3, <4>4
    <3>4. HistoryType'
      <4>1. granted' \in SUBSET Perms /\ mcRps' \in SUBSET RPs
        <5>1. ps \in SUBSET Perms
          BY PermsAssumption DEF PinPermSets
        <5>2. CASE PCMR \in ps
          BY <2>7, <5>2 DEF GetPinToken, grant, HistoryType
        <5>3. CASE PCMR \notin ps
          BY <2>7, <5>1, <5>3 DEF GetPinToken, HandOutPaut, HistoryType
        <5> QED BY <5>2, <5>3
      <4>2. uvSent' = FALSE
        BY <2>7 DEF GetPinToken, RightPin
      <4> QED BY <4>1, <4>2 DEF HistoryType
    <3> QED BY <3>1, <3>2, <3>3, <3>4
  <2>8. ASSUME GetPinTokenForced PROVE TypeOK'
    <3>1. CountType'
      BY <2>8, LimitsAssumption DEF GetPinTokenForced, RightPin, grant, CountType
    <3>2. FlagType'
      BY <2>8 DEF GetPinTokenForced, RightPin, grant, FlagType
    <3>3. TokenType'
      BY <2>8 DEF GetPinTokenForced, RightPin, grant, TokenType, Paut
    <3>4. HistoryType'
      BY <2>8 DEF GetPinTokenForced, RightPin, grant, HistoryType
    <3> QED BY <3>1, <3>2, <3>3, <3>4
  <2>9. ASSUME NEW ps \in PermSets, NEW rp \in RPs \cup {NoRp}, GetUvToken(ps, rp) PROVE TypeOK'
    <3>1. CountType'
      BY <2>9, LimitsAssumption DEF GetUvToken, HandOutPaut, Begin, flash, guesses, CountType
    <3>2. FlagType'
      BY <2>9 DEF GetUvToken, HandOutPaut, Begin, flash, guesses, FlagType
    <3>3. TokenType'
      BY <2>9, PermsAssumption DEF GetUvToken, HandOutPaut, Begin, flash, guesses, TokenType, Paut
    <3>4. HistoryType'
      BY <2>9, PermsAssumption DEF GetUvToken, HandOutPaut, Begin, flash, guesses, HistoryType
    <3> QED BY <3>1, <3>2, <3>3, <3>4
  <2>10. ASSUME WrongFinger PROVE TypeOK'
    <3>1. CountType'
      BY <2>10, LimitsAssumption DEF WrongFinger, MayTryFinger, flash, guesses, grant, CountType
    <3>2. FlagType'
      BY <2>10 DEF WrongFinger, MayTryFinger, flash, guesses, grant, FlagType
    <3>3. TokenType'
      BY <2>10 DEF WrongFinger, MayTryFinger, flash, guesses, grant, TokenType, Paut
    <3>4. HistoryType'
      BY <2>10 DEF WrongFinger, MayTryFinger, flash, guesses, grant, HistoryType
    <3> QED BY <3>1, <3>2, <3>3, <3>4
  <2>11. ASSUME NEW n \in NewMinLens, NEW f \in {"absent", "false", "true"}, SetMinPin(n, f) PROVE TypeOK'
    <3>1. CountType'
      <4>1. Wanted(n) \in Nat
        BY NewMinLensAssumption, LengthsAssumption DEF Wanted, CountType
      <4>2. Wanted(n) % ByteMod \in 0..(ByteMod - 1)
        BY <4>1, LengthsAssumption
      <4> QED BY <2>11, <4>2 DEF SetMinPin, guesses, CountType
    <3>2. FlagType'
      BY <2>11 DEF SetMinPin, Forces, ResetTokens, ForgetGrant, guesses, grant, FlagType
    <3>3. TokenType'
      BY <2>11 DEF SetMinPin, ResetTokens, ResetPaut, ForgetGrant, guesses, grant, TokenType, Paut
    <3>4. HistoryType'
      BY <2>11 DEF SetMinPin, ResetTokens, ResetPaut, ForgetGrant, guesses, grant, HistoryType
    <3> QED BY <3>1, <3>2, <3>3, <3>4
  <2>12. ASSUME NEW rp \in RPs, NEW done \in BOOLEAN, MakeCredential(rp, done) PROVE TypeOK'
    <3>1. CountType'
      BY <2>12, LimitsAssumption DEF MakeCredential, UvRetriesAfterTouch, flash, guesses, CountType
    <3>2. FlagType'
      BY <2>12 DEF MakeCredential, UvRetriesAfterTouch, flash, guesses, FlagType
    <3>3. TokenType'
      BY <2>12 DEF MakeCredential, UvRetriesAfterTouch, flash, guesses, TokenType, Paut
    <3>4. HistoryType'
      BY <2>12 DEF MakeCredential, UvRetriesAfterTouch, flash, guesses, HistoryType
    <3> QED BY <3>1, <3>2, <3>3, <3>4
  <2>13. ASSUME MakeCredentialNoAuth PROVE TypeOK'
    <3>1. CountType'
      BY <2>13 DEF MakeCredentialNoAuth, UserVerified, flash, guesses, grant, CountType
    <3>2. FlagType'
      BY <2>13 DEF MakeCredentialNoAuth, UserVerified, flash, guesses, grant, FlagType
    <3>3. TokenType'
      BY <2>13 DEF MakeCredentialNoAuth, UserVerified, flash, guesses, grant, TokenType, Paut
    <3>4. HistoryType'
      BY <2>13 DEF MakeCredentialNoAuth, UserVerified, flash, guesses, grant, HistoryType, TokenType, Paut
    <3> QED BY <3>1, <3>2, <3>3, <3>4
  <2>14. ASSUME NEW rp \in RPs, NEW auth \in BOOLEAN, NEW up \in BOOLEAN, GetAssertion(rp, auth, up) PROVE TypeOK'
    <3>1. CountType'
      BY <2>14, LimitsAssumption DEF GetAssertion, UvRetriesAfterTouch, UseUp, flash, guesses, CountType
    <3>2. FlagType'
      BY <2>14 DEF GetAssertion, UvRetriesAfterTouch, UseUp, flash, guesses, FlagType
    <3>3. TokenType'
      BY <2>14, PermsAssumption DEF GetAssertion, UvRetriesAfterTouch, UseUp, flash, guesses, TokenType, Paut
    <3>4. HistoryType'
      BY <2>14 DEF GetAssertion, HistoryType
    <3> QED BY <3>1, <3>2, <3>3, <3>4
  <2>15. ASSUME TouchOnly PROVE TypeOK'
    <3>1. CountType'
      BY <2>15, LimitsAssumption DEF TouchOnly, UvRetriesAfterTouch, flash, guesses, grant, CountType
    <3>2. FlagType'
      BY <2>15 DEF TouchOnly, flash, guesses, grant, FlagType
    <3>3. TokenType'
      BY <2>15 DEF TouchOnly, flash, guesses, grant, TokenType, Paut
    <3>4. HistoryType'
      BY <2>15 DEF TouchOnly, flash, guesses, grant, HistoryType
    <3> QED BY <3>1, <3>2, <3>3, <3>4
  <2>16. ASSUME FactoryReset PROVE TypeOK'
    <3>1. CountType'
      BY <2>16, LimitsAssumption, LengthsAssumption DEF FactoryReset, ForgetGrant, guesses, CountType
    <3>2. FlagType'
      BY <2>16 DEF FactoryReset, ForgetGrant, guesses, FlagType
    <3>3. TokenType'
      BY <2>16 DEF FactoryReset, ForgetGrant, guesses, TokenType, Paut
    <3>4. HistoryType'
      BY <2>16 DEF FactoryReset, ForgetGrant, guesses, HistoryType
    <3> QED BY <3>1, <3>2, <3>3, <3>4
  <2>17. ASSUME PowerCycle PROVE TypeOK'
    <3>1. CountType'
      BY <2>17, LimitsAssumption DEF PowerCycle, IdlePaut, flash, grant, CountType
    <3>2. FlagType'
      BY <2>17 DEF PowerCycle, IdlePaut, flash, grant, FlagType
    <3>3. TokenType'
      BY <2>17 DEF PowerCycle, IdlePaut, flash, grant, TokenType, Paut
    <3>4. HistoryType'
      BY <2>17 DEF PowerCycle, IdlePaut, flash, grant, HistoryType
    <3> QED BY <3>1, <3>2, <3>3, <3>4
  <2>18. CASE UNCHANGED vars
    BY <2>18 DEF vars, flash, guesses, grant, CountType, FlagType, TokenType, HistoryType
  <2> QED
    BY <2>1, <2>2, <2>3, <2>4, <2>5, <2>6, <2>7, <2>8, <2>9, <2>10, <2>11, <2>12, <2>13, <2>14, <2>15, <2>16, <2>17, <2>18 DEF Next
<1> QED BY <1>1, <1>2, PTL DEF Spec

\* The steps that touch neither the PIN, its policy, nor a token.
LEMMA QuietSteps ==
  ASSUME \/ WrongPin
         \/ GarbledPin
         \/ \E p \in PINs : ChangePinRefused(p)
         \/ GetPinTokenForced
         \/ WrongFinger
         \/ MakeCredentialNoAuth
         \/ TouchOnly
         \/ UNCHANGED vars
  PROVE  UNCHANGED <<pin, minPin, forceChange, paut, holder, granted, spent, mcRps>>
BY DEF WrongPin, GarbledPin, ChangePinRefused, RightPin, GetPinTokenForced, WrongFinger,
       MakeCredentialNoAuth, TouchOnly, vars, flash, guesses, grant

Policy == PinMeetsPolicy /\ ForcedHasPin

\* A PIN shorter than the minimum is kept only while its change is forced.
THEOREM PolicySafe == Spec => [](PinMeetsPolicy /\ ForcedHasPin)
<1>1. Init => Policy
  BY DEF Init, Policy, PinMeetsPolicy, ForcedHasPin, PinSet
<1>2. TypeOK /\ Policy /\ [Next]_vars => Policy'
  <2> SUFFICES ASSUME TypeOK, Policy, [Next]_vars PROVE Policy'
    OBVIOUS
  <2> USE DEF Policy, PinMeetsPolicy, ForcedHasPin, PinSet
  <2>1. ASSUME UNCHANGED <<pin, minPin, forceChange>> PROVE Policy'
    BY <2>1
  <2>2. ASSUME NEW p \in PINs, SetPin(p) PROVE Policy'
    BY <2>2, SortsAssumption DEF SetPin, Acceptable
  <2>3. ASSUME NEW p \in PINs, ChangePin(p) PROVE Policy'
    BY <2>3, SortsAssumption DEF ChangePin, RightPin, Acceptable
  <2>4. ASSUME NEW n \in NewMinLens, NEW f \in {"absent", "false", "true"},
               SetMinPin(n, f)
        PROVE Policy'
    <3>1. pin' = pin /\ minPin' = Wanted(n) % ByteMod
      BY <2>4 DEF SetMinPin
    <3>2. forceChange' = Forces(Wanted(n), f) /\ (f = "true" => PinSet)
      BY <2>4 DEF SetMinPin
    <3>3. /\ Wanted(n) \in Nat /\ Wanted(n) % ByteMod \in Nat
          /\ Wanted(n) % ByteMod <= Wanted(n)
      <4>1. Wanted(n) \in Nat
        BY NewMinLensAssumption, LengthsAssumption DEF Wanted, TypeOK, CountType
      <4> QED BY <4>1, LengthsAssumption
    <3>4. ASSUME PinSet, ~Forces(Wanted(n), f) PROVE PinLen[pin] >= Wanted(n) % ByteMod
      <4>1. PinLen[pin] \in Nat
        BY <3>4, PinLenAssumption DEF TypeOK, TokenType
      <4>2. ~(PinLen[pin] < Wanted(n))
        BY <3>4 DEF Forces
      <4> QED BY <3>3, <4>1, <4>2
    <3> QED BY <3>1, <3>2, <3>4 DEF Forces
  <2>5. CASE FactoryReset
    BY <2>5 DEF FactoryReset
  <2> QED
    <3>1. ASSUME NEW ps \in PinPermSets, NEW rp \in RPs \cup {NoRp}, GetPinToken(ps, rp)
          PROVE Policy'
      BY <2>1, <3>1 DEF GetPinToken, RightPin
    <3>2. ASSUME \/ GetKeyAgreement
                 \/ \E ps \in PermSets, rp \in RPs \cup {NoRp} : GetUvToken(ps, rp)
                 \/ \E rp \in RPs, done \in BOOLEAN : MakeCredential(rp, done)
                 \/ \E rp \in RPs, auth, up \in BOOLEAN : GetAssertion(rp, auth, up)
                 \/ PowerCycle
          PROVE Policy'
      BY <2>1, <3>2 DEF GetKeyAgreement, GetUvToken, MakeCredential, GetAssertion,
                        PowerCycle, flash
    <3> QED BY <2>1, <2>2, <2>3, <2>4, <2>5, <3>1, <3>2, QuietSteps DEF Next
<1> QED
  BY <1>1, <1>2, TypeCorrect, PTL DEF Spec, Policy

\* Tokens obtained with a PIN die with it, and as soon as its change is forced.
THEOREM TokensSafe == Spec => []TokensHeld
<1>1. Init => TokensHeld
  BY DEF Init, TokensHeld, ForcedBlocksPinTokens, TokenOfCurrentPin
<1>2. TypeOK /\ TokensHeld /\ [Next]_vars => TokensHeld'
  <2> SUFFICES ASSUME TypeOK, TokensHeld, [Next]_vars PROVE TokensHeld'
    OBVIOUS
  <2> USE DEF TokensHeld, ForcedBlocksPinTokens, TokenOfCurrentPin
  <2>1. ASSUME UNCHANGED <<pin, forceChange, holder>> PROVE TokensHeld'
    BY <2>1
  <2>2. ASSUME \A t \in Tokens : holder'[t] = Nobody PROVE TokensHeld'
    BY <2>2, SortsAssumption
  <2>3. CASE GetKeyAgreement
    <3>1. \A t \in Tokens : holder'[t] \in {holder[t], Nobody}
      BY <2>3 DEF GetKeyAgreement, TypeOK, TokenType, Tokens
    <3> QED BY <2>3, <3>1, SortsAssumption DEF GetKeyAgreement, flash
  <2>4. ASSUME NEW p \in PINs, SetPin(p) PROVE TokensHeld'
    <3>1. \A t \in Tokens : holder[t] \in {Nobody, Finger}
      BY <2>4, SortsAssumption DEF SetPin, PinSet, TypeOK, TokenType
    <3> QED BY <2>4, <3>1, SortsAssumption DEF SetPin
  <2>5. ASSUME NEW p \in PINs, ChangePin(p) PROVE TokensHeld'
    BY <2>2, <2>5 DEF ChangePin, ResetTokens
  <2>6. ASSUME NEW ps \in PinPermSets, NEW rp \in RPs \cup {NoRp}, GetPinToken(ps, rp)
        PROVE TokensHeld'
    <3>1. ~forceChange /\ UNCHANGED <<pin, forceChange>>
      BY <2>6 DEF GetPinToken
    <3>2. \A t \in Tokens : holder'[t] \in {holder[t], pin}
      BY <2>6 DEF GetPinToken, HandOutPaut, TypeOK, TokenType, Tokens
    <3> QED BY <3>1, <3>2
  <2>7. ASSUME NEW ps \in PermSets, NEW rp \in RPs \cup {NoRp}, GetUvToken(ps, rp)
        PROVE TokensHeld'
    <3>1. \A t \in Tokens : holder'[t] \in {holder[t], Finger}
      BY <2>7 DEF GetUvToken, HandOutPaut, TypeOK, TokenType, Tokens
    <3> QED BY <2>7, <3>1, SortsAssumption DEF GetUvToken, flash
  <2>8. ASSUME NEW n \in NewMinLens, NEW f \in {"absent", "false", "true"},
               SetMinPin(n, f)
        PROVE TokensHeld'
    <3>1. CASE EndsTokens(Wanted(n), f)
      BY <2>2, <2>8, <3>1 DEF SetMinPin, ResetTokens
    <3>2. CASE ~EndsTokens(Wanted(n), f)
      BY <2>8, <3>2 DEF SetMinPin, EndsTokens
    <3> QED BY <3>1, <3>2
  <2>9. CASE FactoryReset
    BY <2>2, <2>9 DEF FactoryReset
  <2> QED
    <3>1. ASSUME \/ \E rp \in RPs, done \in BOOLEAN : MakeCredential(rp, done)
                 \/ \E rp \in RPs, auth, up \in BOOLEAN : GetAssertion(rp, auth, up)
                 \/ PowerCycle
          PROVE TokensHeld'
      BY <2>1, <3>1 DEF MakeCredential, GetAssertion, PowerCycle, flash
    <3> QED
      BY <2>1, <2>3, <2>4, <2>5, <2>6, <2>7, <2>8, <2>9, <3>1, QuietSteps DEF Next
<1> QED
  BY <1>1, <1>2, TypeCorrect, PTL DEF Spec, TokensHeld

Use == TokenUses /\ BoundToUse

\* What a token still allows agrees with what it was handed out for and with
\* what it was used for.
THEOREM UsesSafe ==
  Spec => [](TokenUses /\ BoundToUse)
<1>1. Init => Use
  BY DEF Init, Use, TokenUses, SpentTokenOnlyLbw, OneRpPerToken, BoundToUse, PermsWithinGrant,
         IdlePaut
<1>2. TypeOK /\ Use /\ [Next]_vars => Use'
  <2> SUFFICES ASSUME TypeOK, Use, [Next]_vars PROVE Use'
    OBVIOUS
  <2> USE DEF Use, TokenUses, SpentTokenOnlyLbw, OneRpPerToken, BoundToUse, PermsWithinGrant,
              UserVerified
  <2>1. ASSUME UNCHANGED <<paut, holder, granted, spent, mcRps>> PROVE Use'
    BY <2>1
  <2>2. ASSUME ForgetGrant, holder'["paut"] = Nobody PROVE Use'
    BY <2>2 DEF ForgetGrant
  <2>3. ASSUME ForgetGrant, paut'.perms = {} PROVE Use'
    BY <2>3 DEF ForgetGrant
  <2>4. ASSUME NEW who, NEW present, NEW ps, NEW rp, HandOutPaut(who, present, ps, rp)
        PROVE Use'
    BY <2>4 DEF HandOutPaut, Begin
  <2>5. CASE GetKeyAgreement
    BY <2>2, <2>5 DEF GetKeyAgreement, TypeOK, TokenType, Tokens
  <2>6. ASSUME NEW p \in PINs, ChangePin(p) PROVE Use'
    BY <2>2, <2>6 DEF ChangePin, ResetTokens, Tokens
  <2>7. ASSUME NEW ps \in PinPermSets, NEW rp \in RPs \cup {NoRp}, GetPinToken(ps, rp)
        PROVE Use'
    <3>1. CASE PCMR \in ps
      BY <3>1, <2>7 DEF GetPinToken, grant, TypeOK, TokenType, Tokens
    <3>2. CASE PCMR \notin ps
      BY <2>4, <3>2, <2>7 DEF GetPinToken
    <3> QED BY <3>1, <3>2
  <2>8. ASSUME NEW ps \in PermSets, NEW rp \in RPs \cup {NoRp}, GetUvToken(ps, rp)
        PROVE Use'
    BY <2>4, <2>8 DEF GetUvToken
  <2>9. ASSUME NEW n \in NewMinLens, NEW f \in {"absent", "false", "true"},
               SetMinPin(n, f)
        PROVE Use'
    <3>1. CASE EndsTokens(Wanted(n), f)
      BY <2>2, <2>9, <3>1 DEF SetMinPin, ResetTokens, Tokens
    <3>2. CASE ~EndsTokens(Wanted(n), f)
      BY <2>1, <2>9, <3>2 DEF SetMinPin, grant
    <3> QED BY <3>1, <3>2
  <2>10. ASSUME NEW rp \in RPs, NEW done \in BOOLEAN, MakeCredential(rp, done)
         PROVE Use'
    <3>1. /\ MC \in paut.perms /\ UserVerified /\ paut.rp \in {NoRp, rp}
          /\ paut' = [paut EXCEPT !.rp = rp]
          /\ mcRps' \in {mcRps, mcRps \cup {rp}}
          /\ UNCHANGED <<holder, granted, spent>>
      BY <2>10 DEF MakeCredential, TokenAllows
    <3>2. \A r \in mcRps : r = rp
      BY <3>1, SortsAssumption DEF TypeOK, HistoryType
    <3>3. /\ paut'.rp = rp /\ paut'.perms = paut.perms
          /\ paut'.inUse = paut.inUse /\ paut'.userVerified = paut.userVerified
      BY <3>1 DEF TypeOK, TokenType, Paut
    <3>4. OneRpPerToken' /\ BoundToUse'
      BY <3>1, <3>2, <3>3
    <3>5. SpentTokenOnlyLbw' /\ PermsWithinGrant'
      BY <3>1, <3>3
    <3> QED BY <3>4, <3>5
  <2>11. ASSUME NEW rp \in RPs, NEW auth \in BOOLEAN, NEW up \in BOOLEAN,
                GetAssertion(rp, auth, up)
         PROVE Use'
    <3>1. UNCHANGED <<holder, granted, mcRps>>
      BY <2>11 DEF GetAssertion
    <3>2. paut' = (IF up THEN UseUp ELSE paut) /\ spent' = (spent \/ (auth /\ up))
      BY <2>11 DEF GetAssertion
    <3>3. auth => paut.inUse
      BY <2>11 DEF GetAssertion, TokenAllows
    <3>4. CASE ~up
      BY <2>1, <3>1, <3>2, <3>4
    <3>5. CASE up /\ ~paut.inUse
      BY <2>1, <3>1, <3>2, <3>3, <3>5 DEF UseUp
    <3>6. CASE up /\ paut.inUse
      <4>1. paut'.perms = {LBW} /\ ~paut'.userVerified
        BY <3>2, <3>6 DEF UseUp, TypeOK, TokenType, Paut
      <4> QED BY <3>1, <4>1 DEF MC, LBW
    <3> QED BY <3>4, <3>5, <3>6
  <2>12. CASE FactoryReset
    BY <2>2, <2>12 DEF FactoryReset, Tokens
  <2>13. CASE PowerCycle
    BY <2>13 DEF PowerCycle, IdlePaut, grant
  <2> QED
    <3>1. ASSUME NEW p \in PINs, SetPin(p) PROVE Use'
      BY <2>1, <3>1 DEF SetPin, grant
    <3> QED
      BY <2>1, <2>5, <2>6, <2>7, <2>8, <2>9, <2>10, <2>11, <2>12, <2>13, <3>1,
         QuietSteps DEF Next
<1> QED
  BY <1>1, <1>2, TypeCorrect, PTL DEF Spec, Use

\* A forced change ends only with a new PIN, a reset or a fingerprint's token,
\* and the minimum length is lowered by a reset or by a length beyond the byte.
THEOREM PolicyStays == Spec => PolicyTightens
<1> DEFINE MinStays ==
      \/ minPin' >= minPin
      \/ FactoryReset
      \/ \E n \in NewMinLens : Truncated(n)
<1>1. /\ TypeOK /\ PinMeetsPolicy /\ ForcedHasPin
      /\ TokensHeld
      /\ [Next]_vars
      => [forceChange /\ ~forceChange' => pin' # pin \/ holder["paut"] = Finger]_vars
  <2> SUFFICES ASSUME TypeOK, ForcedHasPin, ForcedBlocksPinTokens, Next,
                      forceChange, ~forceChange'
               PROVE  pin' # pin \/ holder["paut"] = Finger
    BY DEF TokensHeld
  <2>1. ASSUME NEW p \in PINs, ChangePin(p) PROVE pin' # pin
    BY <2>1 DEF ChangePin
  <2>2. ASSUME NEW n \in NewMinLens, NEW f \in {"absent", "false", "true"},
               SetMinPin(n, f)
        PROVE holder["paut"] = Finger
    BY <2>2 DEF SetMinPin, Verifies, ForcedBlocksPinTokens, TypeOK, TokenType, Tokens
  <2>3. CASE FactoryReset
    BY <2>3 DEF FactoryReset, ForcedHasPin, PinSet
  <2>4. ASSUME NEW ps \in PinPermSets, NEW rp \in RPs \cup {NoRp}, GetPinToken(ps, rp)
        PROVE FALSE
    BY <2>4 DEF GetPinToken
  <2>5. ASSUME \/ GetKeyAgreement
               \/ \E p \in PINs : SetPin(p)
               \/ \E ps \in PermSets, rp \in RPs \cup {NoRp} : GetUvToken(ps, rp)
               \/ \E rp \in RPs, done \in BOOLEAN : MakeCredential(rp, done)
               \/ \E rp \in RPs, auth, up \in BOOLEAN : GetAssertion(rp, auth, up)
               \/ PowerCycle
        PROVE FALSE
    BY <2>5 DEF GetKeyAgreement, SetPin, GetUvToken, MakeCredential, GetAssertion,
                PowerCycle, flash
  <2> QED BY <2>1, <2>2, <2>3, <2>4, <2>5, QuietSteps DEF Next
<1>2. TypeOK /\ [Next]_vars => [MinStays]_vars
  <2> SUFFICES ASSUME TypeOK, Next PROVE MinStays
    OBVIOUS
  <2>0. minPin \in Nat /\ minPin < ByteMod /\ ByteMod \in Nat
    BY LengthsAssumption DEF TypeOK, CountType
  <2>1. ASSUME NEW n \in NewMinLens, NEW f \in {"absent", "false", "true"},
               SetMinPin(n, f)
        PROVE MinStays
    <3>1. n \in Nat
      BY NewMinLensAssumption
    <3>2. Wanted(n) >= minPin /\ minPin' = Wanted(n) % ByteMod
      BY <2>1 DEF SetMinPin
    <3>3. CASE Wanted(n) < ByteMod
      <4>1. Wanted(n) \in Nat
        BY <2>0, <3>1 DEF Wanted
      <4>2. Wanted(n) % ByteMod = Wanted(n)
        BY <2>0, <3>3, <4>1
      <4> QED BY <3>2, <4>2
    <3>4. CASE ~(Wanted(n) < ByteMod)
      <4>1. Wanted(n) = n /\ n >= ByteMod
        BY <2>0, <3>1, <3>4 DEF Wanted
      <4>2. Truncated(n)
        BY <3>2, <4>1 DEF Truncated
      <4> QED BY <4>2
    <3> QED BY <3>3, <3>4
  <2>2. CASE FactoryReset
    BY <2>2
  <2>3. ASSUME UNCHANGED minPin PROVE MinStays
    BY <2>0, <2>3
  <2>4. ASSUME \/ GetKeyAgreement
               \/ \E p \in PINs : SetPin(p)
               \/ \E p \in PINs : ChangePin(p)
               \/ \E ps \in PinPermSets, rp \in RPs \cup {NoRp} : GetPinToken(ps, rp)
               \/ \E ps \in PermSets, rp \in RPs \cup {NoRp} : GetUvToken(ps, rp)
               \/ \E rp \in RPs, done \in BOOLEAN : MakeCredential(rp, done)
               \/ \E rp \in RPs, auth, up \in BOOLEAN : GetAssertion(rp, auth, up)
               \/ PowerCycle
        PROVE UNCHANGED minPin
    BY <2>4 DEF GetKeyAgreement, SetPin, ChangePin, GetPinToken, RightPin, GetUvToken,
                MakeCredential, GetAssertion, PowerCycle, flash
  <2> QED BY <2>1, <2>2, <2>3, <2>4, QuietSteps DEF Next
<1> QED
  BY <1>1, <1>2, TypeCorrect, PolicySafe, TokensSafe, PTL DEF Spec, PolicyTightens

\* A blocked PIN brings nothing back: only a factory reset removes it.
THEOREM BlockedStays == Spec => BlockedIsFinal
<1> DEFINE Kept ==
      \/ pin' = NoPin
      \/ /\ pin' = pin /\ retries' = 0
         /\ \A t \in Tokens : holder'[t] = pin => holder[t] = pin
<1>1. TypeOK /\ [Next]_vars => [PinSet /\ retries = 0 => Kept]_vars
  <2> SUFFICES ASSUME TypeOK, Next, PinSet, retries = 0 PROVE Kept
    OBVIOUS
  <2>1. pin # Finger /\ pin # Nobody
    BY SortsAssumption DEF PinSet, TypeOK, TokenType
  <2>2. ~MayTryPin
    BY DEF MayTryPin
  <2>3. ASSUME UNCHANGED <<pin, retries>>,
               \A t \in Tokens : holder'[t] \in {holder[t], Nobody, Finger}
        PROVE Kept
    BY <2>1, <2>3
  <2>4. CASE GetKeyAgreement
    BY <2>3, <2>4 DEF GetKeyAgreement, flash, TypeOK, TokenType, Tokens
  <2>5. ASSUME NEW ps \in PermSets, NEW rp \in RPs \cup {NoRp}, GetUvToken(ps, rp)
        PROVE Kept
    BY <2>3, <2>5 DEF GetUvToken, HandOutPaut, flash, TypeOK, TokenType, Tokens
  <2>6. ASSUME NEW n \in NewMinLens, NEW f \in {"absent", "false", "true"},
               SetMinPin(n, f)
        PROVE Kept
    BY <2>3, <2>6 DEF SetMinPin, ResetTokens
  <2>7. CASE FactoryReset
    BY <2>7 DEF FactoryReset
  <2>8. ASSUME \/ WrongFinger
               \/ \E rp \in RPs, done \in BOOLEAN : MakeCredential(rp, done)
               \/ MakeCredentialNoAuth
               \/ \E rp \in RPs, auth, up \in BOOLEAN : GetAssertion(rp, auth, up)
               \/ TouchOnly
               \/ PowerCycle
        PROVE Kept
    BY <2>3, <2>8 DEF WrongFinger, MakeCredential, MakeCredentialNoAuth, GetAssertion,
                      TouchOnly, PowerCycle, flash
  <2>9. ASSUME \/ \E p \in PINs : SetPin(p)
               \/ WrongPin
               \/ GarbledPin
               \/ \E p \in PINs : ChangePin(p)
               \/ \E p \in PINs : ChangePinRefused(p)
               \/ \E ps \in PinPermSets, rp \in RPs \cup {NoRp} : GetPinToken(ps, rp)
               \/ GetPinTokenForced
        PROVE FALSE
    BY <2>2, <2>9 DEF SetPin, WrongPin, GarbledPin, ChangePin, ChangePinRefused,
                      GetPinToken, GetPinTokenForced, RightPin
  <2> QED BY <2>4, <2>5, <2>6, <2>7, <2>8, <2>9 DEF Next
<1> QED
  BY <1>1, TypeCorrect, PTL DEF Spec, BlockedIsFinal
=============================================================================
