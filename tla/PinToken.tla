------------------------------ MODULE PinToken ------------------------------
(***************************************************************************)
(* The PIN, its policy and the two pinUvAuthTokens of the authenticator:   *)
(* authenticatorClientPIN (cbor_client_pin.c), setMinPINLength of          *)
(* authenticatorConfig (cbor_config.c), the token checks and flag updates  *)
(* of authenticatorMakeCredential and authenticatorGetAssertion, factory   *)
(* reset and power cycles.                                                 *)
(*                                                                         *)
(* CTAP requests are handled one at a time, so a handler is one action.  A *)
(* request refused before it changes anything is a stuttering step.  A     *)
(* wrong PIN stands for a wrong guess and for a right one encrypted to an  *)
(* old key agreement key: both fail the same comparison.  PinFlash models  *)
(* what a power loss inside a handler leaves behind.                       *)
(***************************************************************************)
EXTENDS Integers

CONSTANTS
    PINs,           \* the PINs a user may choose
    PinLen,         \* PinLen[p]: its length in bytes, the padding removed
    NoPin,          \* ef_pin is empty
    Finger,         \* a token was handed out for a fingerprint
    Nobody,         \* no platform holds the current value of a token
    RPs,            \* relying parties
    NoRp,           \* paut.has_rp_id = false
    Perms,          \* the permission bits that matter here
    PermSets,       \* the permission sets a platform asks for
    NewMinLens,     \* the newMinPINLength values a platform sends, 64 bits
    MaxPinRetries,  \* MAX_PIN_RETRIES
    MaxMismatches,  \* wrong PINs before a power cycle is asked for
    MaxUvRetries,   \* initial bio_uv_retries
    DefaultMinPin,  \* minimum length while EF_MINPINLEN is empty
    MaxPinLen,      \* longest PIN a 64 byte block padded with zeros can hold
    ByteMod,        \* number of values of the stored minimum, a uint8_t
    Templates       \* TRUE: a sensor with enrolled fingers is present

\* The permission bits of ctap.h that a handler of this module tests or writes.
MC == "mc"
GA == "ga"
LBW == "lbw"
ACFG == "acfg"
PCMR == "pcmr"

Tokens == {"paut", "ppaut"}

ASSUME SortsAssumption ==
    /\ {NoPin, Finger, Nobody} \cap PINs = {}
    /\ NoPin # Finger /\ NoPin # Nobody /\ Finger # Nobody
    /\ NoRp \notin RPs
ASSUME PinLenAssumption == PinLen \in [PINs -> Nat]
ASSUME PermsAssumption ==
    /\ {MC, GA, LBW, ACFG, PCMR} \subseteq Perms
    /\ PermSets \subseteq SUBSET Perms
ASSUME NewMinLensAssumption == NewMinLens \subseteq Nat
ASSUME LimitsAssumption ==
    /\ MaxPinRetries \in Nat /\ MaxPinRetries > 0
    /\ MaxMismatches \in Nat /\ MaxMismatches > 0
    /\ MaxUvRetries \in Nat /\ MaxUvRetries > 0
ASSUME LengthsAssumption ==
    /\ ByteMod \in Nat
    /\ MaxPinLen \in Nat /\ MaxPinLen < ByteMod
    /\ DefaultMinPin \in Nat /\ DefaultMinPin < ByteMod
ASSUME TemplatesAssumption == Templates \in BOOLEAN

VARIABLES
    pin,             \* flash: the PIN whose verifier ef_pin holds
    retries,         \* flash: ef_pin[0]
    minPin,          \* flash: ef_minpin[0]
    forceChange,     \* flash: ef_minpin[1]
    mismatches,      \* RAM: new_pin_mismatches, capped at MaxMismatches
    needsPowerCycle, \* RAM: needs_power_cycle
    hkeyInit,        \* RAM: the key agreement key exists
    uvRetries,       \* RAM: bio_uv_retries
    paut,            \* RAM: the state of the pinUvAuthToken
    ppautPerms,      \* RAM: permissions of the persistent token
    holder,          \* history: what the holders of each token's current value showed
    granted,         \* history: permissions paut was handed out with
    spent,           \* history: paut's value authorised an assertion with presence
    mcRps,           \* history: relying parties paut's value made credentials for
    uvSent           \* history: the UV flag of the last credential or assertion

flash == <<pin, retries, minPin, forceChange>>
guesses == <<mismatches, needsPowerCycle>>
grant == <<granted, spent, mcRps>>
vars == <<flash, guesses, hkeyInit, uvRetries, paut, ppautPerms, holder, grant, uvSent>>

Paut == [inUse : BOOLEAN, userPresent : BOOLEAN, userVerified : BOOLEAN,
         perms : SUBSET Perms, rp : RPs \cup {NoRp}]
IdlePaut == [inUse |-> FALSE, userPresent |-> FALSE, userVerified |-> FALSE,
             perms |-> {}, rp |-> NoRp]

CountType ==
    /\ retries \in 0..MaxPinRetries
    /\ minPin \in 0..(ByteMod - 1)
    /\ mismatches \in 0..MaxMismatches
    /\ uvRetries \in 0..MaxUvRetries

FlagType ==
    /\ forceChange \in BOOLEAN
    /\ needsPowerCycle \in BOOLEAN
    /\ hkeyInit \in BOOLEAN
    /\ spent \in BOOLEAN

TokenType ==
    /\ pin \in PINs \cup {NoPin}
    /\ paut \in Paut
    /\ ppautPerms \in SUBSET {PCMR}
    /\ holder \in [Tokens -> PINs \cup {Nobody, Finger}]

HistoryType ==
    /\ granted \in SUBSET Perms
    /\ mcRps \in SUBSET RPs
    /\ uvSent \in BOOLEAN

TypeOK == CountType /\ FlagType /\ TokenType /\ HistoryType

-----------------------------------------------------------------------------
\* Parts of the handlers.

PinSet == pin # NoPin

\* Mutant: the minimum length is not checked.
AcceptableMut(p) == PinLen[p] <= MaxPinLen

\* The policy check of setPIN and changePIN: the padding ends in a zero byte
\* and the PIN is not shorter than the stored minimum.
Acceptable(p) == PinLen[p] <= MaxPinLen /\ PinLen[p] >= minPin

\* The four getters of the token's state: in_use is read first.
UserPresent == paut.inUse /\ paut.userPresent
UserVerified == paut.inUse /\ paut.userVerified

\* A request's pinUvAuthParam verifies with paut.data, for which its sender
\* must hold the current value.
Verifies(t) == holder[t] # Nobody

\* resetPinUvAuthToken: a new value that no platform holds, no permissions.
ResetPaut == [paut EXCEPT !.perms = {}]
ForgetGrant == granted' = {} /\ spent' = FALSE /\ mcRps' = {}

\* Mutant: the persistent token is forgotten.
ResetTokensMut ==
    /\ paut' = ResetPaut
    /\ holder' = [holder EXCEPT !.paut = Nobody]
    /\ ForgetGrant
    /\ UNCHANGED ppautPerms

\* resetPinUvAuthToken and resetPersistentPinUvAuthToken together.
ResetTokens ==
    /\ paut' = ResetPaut
    /\ ppautPerms' = {}
    /\ holder' = [t \in Tokens |-> Nobody]
    /\ ForgetGrant

\* beginUsingPinUvAuthToken after resetPinUvAuthToken, then the permissions
\* and the relying party of the request.
Begin(present, perms, rp) ==
    [inUse |-> TRUE, userPresent |-> present, userVerified |-> TRUE,
     perms |-> perms, rp |-> rp]

HandOutPaut(who, present, perms, rp) ==
    /\ paut' = Begin(present, perms, rp)
    /\ holder' = [holder EXCEPT !.paut = who]
    /\ granted' = perms
    /\ spent' = FALSE
    /\ mcRps' = {}

\* Clears user presence, user verification and every permission except LBW.
UseUp == IF paut.inUse
         THEN [paut EXCEPT !.userPresent = FALSE, !.userVerified = FALSE,
                           !.perms = {LBW}]
         ELSE paut

\* check_user_presence: a fingerprint is tried first and moves the UV retry
\* counter, the button is the fallback.
UvRetriesAfterTouch ==
    IF Templates /\ uvRetries > 0 THEN {uvRetries, uvRetries - 1, MaxUvRetries}
                                  ELSE {uvRetries}

-----------------------------------------------------------------------------
Init ==
    /\ pin = NoPin
    /\ retries = 0
    /\ minPin = DefaultMinPin
    /\ forceChange = FALSE
    /\ mismatches = 0
    /\ needsPowerCycle = FALSE
    /\ hkeyInit = FALSE
    /\ uvRetries = MaxUvRetries
    /\ paut = IdlePaut
    /\ ppautPerms = {}
    /\ holder = [t \in Tokens |-> Nobody]
    /\ granted = {}
    /\ spent = FALSE
    /\ mcRps = {}
    /\ uvSent = FALSE

(***************************************************************************)
(* authenticatorClientPIN.  Whatever the subcommand, the first call after  *)
(* power-up runs initialize(); the platform needs the key it makes, so the *)
(* first call is a getKeyAgreement or does no more than one.               *)
(***************************************************************************)
GetKeyAgreement ==
    /\ ~hkeyInit
    /\ hkeyInit' = TRUE
    /\ paut' = ResetPaut
    /\ holder' = [holder EXCEPT !.paut = Nobody]
    /\ ForgetGrant
    /\ uvSent' = FALSE
    /\ UNCHANGED <<flash, guesses, uvRetries, ppautPerms>>

SetPin(p) ==
    /\ hkeyInit
    /\ ~PinSet
    /\ Acceptable(p)
    /\ pin' = p
    /\ retries' = MaxPinRetries
    /\ uvSent' = FALSE
    /\ UNCHANGED <<minPin, forceChange, guesses, hkeyInit, uvRetries, paut,
                   ppautPerms, holder, grant>>

\* Mutant: the retry counter is not looked at.
MayTryPinMut == hkeyInit /\ PinSet

\* The PIN may be tried: one is set and its retry counter is not zero.
MayTryPin == hkeyInit /\ PinSet /\ retries > 0

\* changePIN or getPinToken with a PIN that does not match: the counter was
\* written before the comparison, the key agreement key is renewed.
WrongPin ==
    /\ MayTryPin
    /\ retries' = retries - 1
    /\ IF retries' = 0
       THEN UNCHANGED guesses
       ELSE /\ mismatches' = IF mismatches < MaxMismatches THEN mismatches + 1
                                                           ELSE mismatches
            /\ needsPowerCycle' = (needsPowerCycle \/ mismatches' >= MaxMismatches)
    /\ uvSent' = FALSE
    /\ UNCHANGED <<pin, minPin, forceChange, hkeyInit, uvRetries, paut,
                   ppautPerms, holder, grant>>

\* getPinToken with a pinHashEnc that does not decrypt: nothing is compared
\* but the retry is gone.
GarbledPin ==
    /\ MayTryPin
    /\ retries' = retries - 1
    /\ uvSent' = FALSE
    /\ UNCHANGED <<pin, minPin, forceChange, guesses, hkeyInit, uvRetries, paut,
                   ppautPerms, holder, grant>>

\* The right PIN restores both counters, whatever becomes of the request.
RightPin ==
    /\ MayTryPin
    /\ retries' = MaxPinRetries
    /\ mismatches' = 0
    /\ uvSent' = FALSE
    /\ UNCHANGED <<minPin, needsPowerCycle, hkeyInit, uvRetries>>

ChangePin(p) ==
    /\ RightPin
    /\ Acceptable(p)
    /\ ~(forceChange /\ p = pin)
    /\ pin' = p
    /\ forceChange' = FALSE
    /\ ResetTokens

\* The new PIN is refused after the old one was accepted.
ChangePinRefused(p) ==
    /\ RightPin
    /\ ~Acceptable(p) \/ (forceChange /\ p = pin)
    /\ UNCHANGED <<pin, forceChange, paut, ppautPerms, holder, grant>>

\* The permissions of a token request: some, and PCMR only alone.
WellFormed(perms) == perms # {} /\ (PCMR \in perms => perms = {PCMR})

\* Subcommand 0x05 is subcommand 0x09 for MC and GA without a relying party.
PinPermSets == PermSets \cup {{MC, GA}}

GetPinToken(perms, rp) ==
    /\ WellFormed(perms)
    /\ RightPin
    /\ ~forceChange
    /\ IF PCMR \in perms
       THEN /\ ppautPerms' = {PCMR}
            /\ holder' = [holder EXCEPT !.ppaut = pin]
            /\ UNCHANGED <<paut, grant>>
       ELSE /\ HandOutPaut(pin, FALSE, perms, rp)
            /\ UNCHANGED ppautPerms
    /\ UNCHANGED <<pin, forceChange>>

\* A PIN whose change is forced is accepted but yields no token.
GetPinTokenForced ==
    /\ RightPin
    /\ forceChange
    /\ UNCHANGED <<pin, forceChange, paut, ppautPerms, holder, grant>>

MayTryFinger == hkeyInit /\ Templates /\ uvRetries > 0

\* getPinUvAuthTokenUsingUv: neither the PIN nor its forced change matters.
GetUvToken(perms, rp) ==
    /\ MayTryFinger
    /\ WellFormed(perms)
    /\ uvRetries' = MaxUvRetries
    /\ HandOutPaut(Finger, TRUE, perms, rp)
    /\ uvSent' = FALSE
    /\ UNCHANGED <<flash, guesses, hkeyInit, ppautPerms>>

WrongFinger ==
    /\ MayTryFinger
    /\ uvRetries' = uvRetries - 1
    /\ uvSent' = FALSE
    /\ UNCHANGED <<flash, guesses, hkeyInit, paut, ppautPerms, holder, grant>>

-----------------------------------------------------------------------------
(* authenticatorConfig, setMinPINLength.  `force' is the forceChangePin    *)
(* parameter, "absent" when the request has none; 0 stands for the current *)
(* minimum.                                                                *)
Wanted(newMin) == IF newMin = 0 THEN minPin ELSE newMin

\* The change is forced by the request or because the PIN is too short.
Forces(wanted, force) == force = "true" \/ (PinSet /\ PinLen[pin] < wanted)

\* Mutant: only the parameter ends the tokens, not the length of the PIN.
EndsTokensMut(wanted, force) == force # "absent"

\* The code tests the pointer: an explicit false ends the tokens as well.
EndsTokens(wanted, force) == Forces(wanted, force) \/ force = "false"

SetMinPin(newMin, force) ==
    /\ Verifies("paut") /\ ACFG \in paut.perms
    /\ Wanted(newMin) >= minPin
    /\ force = "true" => PinSet
    /\ minPin' = Wanted(newMin) % ByteMod
    /\ forceChange' = Forces(Wanted(newMin), force)
    /\ \/ EndsTokens(Wanted(newMin), force) /\ ResetTokens
       \/ /\ ~EndsTokens(Wanted(newMin), force)
          /\ UNCHANGED <<paut, ppautPerms, holder, grant>>
    /\ uvSent' = FALSE
    /\ UNCHANGED <<pin, retries, guesses, hkeyInit, uvRetries>>

-----------------------------------------------------------------------------
(* authenticatorMakeCredential and authenticatorGetAssertion, as far as    *)
(* the tokens and the flags of the response go.                            *)

\* Mutant: the relying party of the token is not compared.
TokenAllowsMut(perm, rp) ==
    /\ Verifies("paut")
    /\ perm \in paut.perms
    /\ UserVerified

TokenAllows(perm, rp) ==
    /\ Verifies("paut")
    /\ perm \in paut.perms
    /\ paut.rp \in {NoRp, rp}
    /\ UserVerified

\* With a pinUvAuthParam: the token is bound to the relying party before the
\* user is asked, so a request refused later leaves it bound.
MakeCredential(rp, done) ==
    /\ TokenAllows(MC, rp)
    /\ paut' = [paut EXCEPT !.rp = rp]
    /\ uvRetries' \in IF UserPresent THEN {uvRetries} ELSE UvRetriesAfterTouch
    /\ mcRps' = IF done THEN mcRps \cup {rp} ELSE mcRps
    /\ uvSent' = done
    /\ UNCHANGED <<flash, guesses, hkeyInit, ppautPerms, holder, granted, spent>>

\* Without one: only while no PIN is set, and the user is not asked at all.
MakeCredentialNoAuth ==
    /\ ~PinSet
    /\ uvSent' = UserVerified
    /\ UNCHANGED <<flash, guesses, hkeyInit, uvRetries, paut, ppautPerms, holder, grant>>

\* up is the request's option: an assertion without user presence leaves the
\* token as it is, one with it uses the token up, whoever sent it, and even
\* when a later step of the handler fails.
GetAssertion(rp, auth, up) ==
    /\ auth => TokenAllows(GA, rp)
    /\ uvRetries' \in IF up /\ ~(auth /\ UserPresent) THEN UvRetriesAfterTouch
                                                      ELSE {uvRetries}
    /\ paut' = IF up THEN UseUp ELSE paut
    /\ spent' = (spent \/ (auth /\ up))
    /\ uvSent' \in {FALSE, auth}
    /\ UNCHANGED <<flash, guesses, hkeyInit, ppautPerms, holder, granted, mcRps>>

\* A request that asks the user and then fails: a pinUvAuthParam of length
\* zero, or a user who does not answer.
TouchOnly ==
    /\ uvRetries' \in UvRetriesAfterTouch
    /\ uvSent' = FALSE
    /\ UNCHANGED <<flash, guesses, hkeyInit, paut, ppautPerms, holder, grant>>

-----------------------------------------------------------------------------
\* authenticatorReset: the flash is erased and the files are made anew, the
\* RAM of the application is not touched.
FactoryReset ==
    /\ pin' = NoPin
    /\ retries' = 0
    /\ minPin' = DefaultMinPin
    /\ forceChange' = FALSE
    /\ holder' = [t \in Tokens |-> Nobody]
    /\ ForgetGrant
    /\ uvSent' = FALSE
    /\ UNCHANGED <<guesses, hkeyInit, uvRetries, paut, ppautPerms>>

\* The device is unplugged between two requests: the flash survives, and with
\* it the values of both tokens.
PowerCycle ==
    /\ mismatches' = 0
    /\ needsPowerCycle' = FALSE
    /\ hkeyInit' = FALSE
    /\ uvRetries' = MaxUvRetries
    /\ paut' = IdlePaut
    /\ ppautPerms' = {}
    /\ uvSent' = FALSE
    /\ UNCHANGED <<flash, holder, grant>>

Next ==
    \/ GetKeyAgreement
    \/ \E p \in PINs : SetPin(p)
    \/ WrongPin
    \/ GarbledPin
    \/ \E p \in PINs : ChangePin(p)
    \/ \E p \in PINs : ChangePinRefused(p)
    \/ \E ps \in PinPermSets, rp \in RPs \cup {NoRp} : GetPinToken(ps, rp)
    \/ GetPinTokenForced
    \/ \E ps \in PermSets, rp \in RPs \cup {NoRp} : GetUvToken(ps, rp)
    \/ WrongFinger
    \/ \E n \in NewMinLens, f \in {"absent", "false", "true"} : SetMinPin(n, f)
    \/ \E rp \in RPs, done \in BOOLEAN : MakeCredential(rp, done)
    \/ MakeCredentialNoAuth
    \/ \E rp \in RPs, auth, up \in BOOLEAN : GetAssertion(rp, auth, up)
    \/ TouchOnly
    \/ FactoryReset
    \/ PowerCycle

Spec == Init /\ [][Next]_vars

-----------------------------------------------------------------------------
\* Properties.

\* A PIN shorter than the minimum is only ever kept while its change is
\* forced: setPIN, changePIN and setMinPINLength each maintain half of this
\* (cbor_client_pin.c:499, 632; cbor_config.c:264).
PinMeetsPolicy == PinSet /\ ~forceChange => PinLen[pin] >= minPin

\* A token that still verifies was obtained with the PIN now set, through any
\* series of changes, resets and power cycles, and not with one whose change is
\* forced (cbor_client_pin.c:680, 795; cbor_config.c:267).
TokenOfCurrentPin == \A t \in Tokens : holder[t] \in {Nobody, Finger, pin}
ForcedBlocksPinTokens == forceChange => \A t \in Tokens : holder[t] \notin PINs
TokensHeld == TokenOfCurrentPin /\ ForcedBlocksPinTokens

\* What the holder of the token may do is what it asked for, large blob
\* writing apart; after an assertion with user presence that is all there is
\* left; and however often it is used, it makes credentials for one relying
\* party (cbor_client_pin.c:72, cbor_get_assertion.c:451,
\* cbor_make_credential.c:339).
PermsWithinGrant ==
    holder["paut"] # Nobody => paut.perms \subseteq granted \cup {LBW}
SpentTokenOnlyLbw == spent => paut.perms \subseteq {LBW} /\ ~UserVerified
OneRpPerToken == \A r, s \in mcRps : r = s
TokenUses == PermsWithinGrant /\ SpentTokenOnlyLbw /\ OneRpPerToken

\* A change is forced only on a PIN that exists, and a token that may still
\* make credentials is bound to the relying party it made them for: with the
\* properties above, what their proofs need (cbor_config.c:261,
\* cbor_make_credential.c:339).
ForcedHasPin == forceChange => PinSet
BoundToUse == MC \in paut.perms => \A r \in mcRps : paut.rp = r

\* The policy is only ever made stricter.  A forced change ends with a new PIN,
\* a factory reset, or a request authorised by a fingerprint
\* (cbor_config.c:273, cbor_client_pin.c:795); the minimum length goes down
\* with a factory reset, or with a length that does not fit the byte it is
\* stored in (cbor_config.c:258-272).
Truncated(n) == n >= ByteMod /\ n >= minPin /\ minPin' = n % ByteMod
PolicyTightens ==
    [][/\ forceChange /\ ~forceChange' => pin' # pin \/ holder["paut"] = Finger
       /\ \/ minPin' >= minPin
          \/ FactoryReset
          \/ \E n \in NewMinLens : Truncated(n)]_vars

\* A blocked PIN stays as it is and yields nothing: no request brings a retry,
\* a new PIN or a token obtained with it (cbor_client_pin.c:541, 726).
BlockedIsFinal ==
    [][PinSet /\ retries = 0 =>
          \/ pin' = NoPin
          \/ /\ pin' = pin /\ retries' = 0
             /\ \A t \in Tokens : holder'[t] = pin => holder[t] = pin]_vars

\* A response says that the user was verified only if there is something to
\* verify the user with (README.md:15, cbor_make_credential.c:409).
UvHonest == uvSent => PinSet \/ Templates
=============================================================================
