-------------------------------- MODULE Oath --------------------------------
(***************************************************************************)
(* The OATH application (oath.c): one-time-password credentials in files   *)
(* EF_OATH_CRED+i that are found by name, an access code that a session    *)
(* answers a challenge for, and a PIN with a retry counter that opens a    *)
(* session as well.  validated is a variable of the program, not of the    *)
(* session: selecting and leaving the application set it.                  *)
(*                                                                         *)
(* A right answer to the challenge is the access code itself, a key is its *)
(* number.  A file written is on flash before the reply goes out; VERIFY   *)
(* PIN compares before it writes, and the power may be lost between.       *)
(* LIST, CALCULATE ALL, VERIFY CODE and GET CREDENTIAL change no state.    *)
(***************************************************************************)
EXTENDS Integers

CONSTANTS
    Names,    \* names of credentials
    Begins,   \* pairs <<n, o>> of them: n begins with o
    Codes,    \* access codes
    Pins,     \* OTP PINs
    None,     \* no file
    Slots,    \* MAX_OATH_CRED, 255 in the code
    MaxKeys,  \* bound: credentials ever put
    MaxImf,   \* bound: moving factor, 2^64 - 1 in the code
    MaxLost   \* bound: wrong PINs compared and not counted

MaxOtpCounter == 3  \* MAX_OTP_COUNTER
\* What VERIFY PIN is about to write
Outcomes == [left : 0..MaxOtpCounter, right : BOOLEAN]

ASSUME OathAssumption ==
    /\ Slots \in Nat \ {0} /\ MaxKeys \in Nat /\ MaxImf \in Nat \ {0}
    /\ MaxLost \in Nat
    /\ Begins \subseteq Names \X Names /\ \A n \in Names : <<n, n>> \in Begins
    /\ None \notin Codes \cup Outcomes

VARIABLES
    cred,       \* flash: EF_OATH_CRED files
    code,       \* flash: EF_OATH_CODE
    otpPin,     \* flash: EF_OTP_PIN, the PIN and its retries
    validated,  \* RAM: validated
    selected,   \* RAM: the application is the current one
    reply,      \* the HOTP code computed and not yet sent
    entry,      \* the outcome of VERIFY PIN, not yet written to EF_OTP_PIN
    answered,   \* history: HOTP codes sent, by key and moving factor
    keys,       \* history: credentials ever put
    proven,     \* history: how the session answered for the code or the PIN
    wrong,      \* history: wrong PINs since it was last set or right
    lost,       \* history: those of them the power was lost before counting
    clash       \* history: a rename took a name that another credential had

ram == <<validated, selected, reply, entry>>
otp == <<otpPin, wrong, lost>>
vars == <<cred, code, otp, ram, answered, keys, proven, clash>>

Slot == 1..Slots
Factors == [key : 1..MaxKeys, imf : 0..MaxImf]

TypeOK ==
    /\ cred \in [Slot -> {None} \cup [name : Names, hotp : BOOLEAN, key : 1..MaxKeys, imf : 0..MaxImf]]
    /\ code \in Codes \cup {None}
    /\ otpPin \in [pin : Pins, left : 0..MaxOtpCounter] \cup {None}
    /\ {validated, selected, clash} \subseteq BOOLEAN
    /\ proven \in {"no", "short", "yes"}
    /\ entry \in Outcomes \cup {None}
    /\ entry # None => otpPin # None
    /\ lost \in 0..MaxLost
    /\ reply \in Factors \cup {None} /\ answered \subseteq Factors
    /\ keys \in 0..MaxKeys

Init ==
    /\ cred = [s \in Slot |-> None] /\ code = None
    /\ otpPin = None /\ wrong = 0 /\ lost = 0
    /\ validated = TRUE /\ selected = FALSE /\ reply = None /\ entry = None
    /\ answered = {} /\ keys = 0 /\ proven = "no" /\ clash = FALSE

-----------------------------------------------------------------------------
Used == {s \in Slot : cred[s] # None}
First(S) == {s \in S : \A t \in S : s <= t}
Named(n) == {s \in Used : cred[s].name = n}

(* find_oath_cred: the first file of that name, if there is one *)
Find(n) == First(Named(n))

Idle == reply = None /\ entry = None
Ready == selected /\ Idle
\* Mutant: no session is asked.
AllowedMut == Ready
Allowed == Ready /\ validated

\* Mutant: the session stays validated when the application is left.
ValidAfterMut == validated
ValidAfter == code = None

Select ==
    /\ Idle
    /\ selected' = TRUE /\ validated' = ValidAfter /\ proven' = "no"
    /\ UNCHANGED <<cred, code, otp, reply, entry, answered, keys, clash>>

Unload ==
    /\ Ready
    /\ selected' = FALSE /\ validated' = ValidAfter
    /\ UNCHANGED <<cred, code, otp, reply, entry, answered, keys, proven, clash>>

\* A wrong PIN was compared and the retry it costs is not written.
Unpaid == entry # None /\ entry.left < otpPin.left

PowerLoss ==
    /\ selected' = FALSE /\ validated' = TRUE /\ reply' = None /\ entry' = None
    /\ proven' = "no"
    /\ lost' = (IF Unpaid THEN lost + 1 ELSE lost) /\ lost' <= MaxLost
    /\ UNCHANGED <<cred, code, otpPin, wrong, answered, keys, clash>>

-----------------------------------------------------------------------------
(* Credentials *)

\* Mutant: a credential of the same name is not looked for.
PlaceMut(n) == First(Slot \ Used)
(* That of the same name, or else the first free file *)
Place(n) == IF Named(n) # {} THEN Find(n) ELSE First(Slot \ Used)

(* The host gives the key, and the factor of a HOTP credential or none     *)
Put(n, hotp, imf) ==
    /\ Allowed /\ keys < MaxKeys
    /\ keys' = keys + 1
    /\ \E s \in Place(n) :
          cred' = [cred EXCEPT ![s] = [name |-> n, hotp |-> hotp, key |-> keys + 1, imf |-> imf]]
    /\ UNCHANGED <<code, otp, ram, answered, proven, clash>>

Delete(n) ==
    /\ Allowed
    /\ \E s \in Find(n) : cred' = [cred EXCEPT ![s] = None]
    /\ UNCHANGED <<code, otp, ram, answered, keys, proven, clash>>

(* A name that begins with the old one is taken for the same; whether some *)
(* credential has the new name already is not looked at.                   *)
Rename(n, new) ==
    /\ Allowed /\ <<new, n>> \notin Begins
    /\ \E s \in Find(n) : cred' = [cred EXCEPT ![s].name = new]
    /\ clash' = (clash \/ Named(new) # {})
    /\ UNCHANGED <<code, otp, ram, answered, keys, proven>>

\* Mutant: the factor that was used stays in the file.
CalculateMut(n) ==
    /\ Allowed
    /\ \E s \in Find(n) :
          /\ cred[s].hotp
          /\ reply' = [key |-> cred[s].key, imf |-> cred[s].imf]
    /\ UNCHANGED <<cred, code, otp, validated, selected, entry, answered, keys, proven, clash>>
(* A HOTP code; that of a TOTP credential changes no state.  The factor    *)
(* that comes next is in the file before the code is sent.                 *)
Calculate(n) ==
    /\ Allowed
    /\ \E s \in Find(n) :
          /\ cred[s].hotp /\ cred[s].imf < MaxImf
          /\ reply' = [key |-> cred[s].key, imf |-> cred[s].imf]
          /\ cred' = [cred EXCEPT ![s].imf = @ + 1]
    /\ UNCHANGED <<code, otp, validated, selected, entry, answered, keys, proven, clash>>

Send ==
    /\ reply # None /\ reply' = None
    /\ answered' = answered \cup {reply}
    /\ UNCHANGED <<cred, code, otp, validated, selected, entry, keys, proven, clash>>

-----------------------------------------------------------------------------
(* The access code *)

(* An empty key deletes the code; with a new one the session starts over *)
SetCode(c) ==
    /\ Allowed
    /\ code' = c
    /\ validated' = (c = None) /\ proven' = "no"
    /\ UNCHANGED <<cred, otp, selected, reply, entry, answered, keys, clash>>

(* Without a code this is an error that validates all the same *)
Validate(c) ==
    /\ Ready
    /\ validated' = (code \in {None, c})
    /\ proven' = CASE code = None -> proven [] code = c -> "yes" [] OTHER -> "no"
    /\ UNCHANGED <<cred, code, otp, selected, reply, entry, answered, keys, clash>>

(* A response shorter than the digest: as many bytes are compared as the   *)
(* host sent, and they may agree; of an empty one they do.                 *)
ValidateShort(accepted) ==
    /\ Ready /\ code # None
    /\ validated' = accepted
    /\ proven' = IF accepted THEN "short" ELSE "no"
    /\ UNCHANGED <<cred, code, otp, selected, reply, entry, answered, keys, clash>>

(* Needs no validation *)
Reset ==
    /\ Ready
    /\ cred' = [s \in Slot |-> None] /\ code' = None
    /\ otpPin' = None /\ wrong' = 0 /\ lost' = 0
    /\ validated' = TRUE
    /\ UNCHANGED <<selected, reply, entry, answered, keys, proven, clash>>

(* That of the device erases the files and leaves validated as it is *)
FactoryReset ==
    /\ Idle
    /\ cred' = [s \in Slot |-> None] /\ code' = None
    /\ otpPin' = None /\ wrong' = 0 /\ lost' = 0
    /\ UNCHANGED <<ram, answered, keys, proven, clash>>

-----------------------------------------------------------------------------
(* The PIN *)

SetPin(p) ==
    /\ Ready /\ otpPin = None
    /\ otpPin' = [pin |-> p, left |-> MaxOtpCounter] /\ wrong' = 0 /\ lost' = 0
    /\ UNCHANGED <<cred, code, ram, answered, keys, proven, clash>>

(* Compared without a retry, even of a blocked PIN *)
ChangePin(p, new) ==
    /\ Ready /\ otpPin # None /\ otpPin.pin = p
    /\ otpPin' = [pin |-> new, left |-> MaxOtpCounter] /\ wrong' = 0 /\ lost' = 0
    /\ UNCHANGED <<cred, code, ram, answered, keys, proven, clash>>

\* Mutant: a wrong PIN costs nothing while the counter shows the last retry.
LeftAfterMut == IF otpPin.left > 1 THEN otpPin.left - 1 ELSE otpPin.left

LeftAfter == IF otpPin.left > 0 THEN otpPin.left - 1 ELSE 0

Right(p) == otpPin.left > 0 /\ otpPin.pin = p

(* The comparison, which a PIN without retries is not put to *)
VerifyPin(p) ==
    /\ Ready /\ otpPin # None
    /\ entry' = [left |-> IF Right(p) THEN MaxOtpCounter ELSE LeftAfter, right |-> Right(p)]
    /\ wrong' = IF Right(p) THEN 0 ELSE IF otpPin.left > 0 THEN wrong + 1 ELSE wrong
    /\ lost' = IF Right(p) THEN 0 ELSE lost
    /\ UNCHANGED <<cred, code, otpPin, validated, selected, reply, answered, keys, proven, clash>>

(* Only then the counter is written, and the session opened or closed *)
WriteEntry ==
    /\ entry # None /\ entry' = None
    /\ otpPin' = [otpPin EXCEPT !.left = entry.left]
    /\ validated' = entry.right /\ proven' = IF entry.right THEN "yes" ELSE "no"
    /\ UNCHANGED <<cred, code, wrong, lost, selected, reply, answered, keys, clash>>

Next ==
    \/ Select \/ Unload \/ PowerLoss
    \/ \E n \in Names, hotp \in BOOLEAN : Put(n, hotp, 0) \/ (hotp /\ Put(n, hotp, 1))
    \/ \E n \in Names : Delete(n) \/ Calculate(n)
    \/ \E n, new \in Names : Rename(n, new)
    \/ Send \/ WriteEntry
    \/ \E c \in Codes \cup {None} : SetCode(c) \/ Validate(c)
    \/ \E accepted \in BOOLEAN : ValidateShort(accepted)
    \/ Reset \/ FactoryReset
    \/ \E p \in Pins : SetPin(p) \/ VerifyPin(p)
    \/ \E p, new \in Pins : ChangePin(p, new)

Spec == Init /\ [][Next]_vars

-----------------------------------------------------------------------------
(* Properties *)

(* A HOTP code is sent once: the factor in the file is beyond every one a  *)
(* code was sent for, with renames, overwritten and shadowed credentials,  *)
(* and lost power between the write and the reply (oath.c:424-438).        *)
CodeOnce ==
    \A s \in Used, a \in answered : cred[s].hotp /\ a.key = cred[s].key => a.imf < cred[s].imf

(* While a code is set, only a session that answered for it or for the PIN *)
(* since it began, or since the code was set, has access: not one that an  *)
(* earlier session, or the time before a restart, left open (oath.c:69,    *)
(* 81, 126, 262, 319-357).  An answer shorter than the code's, "short",    *)
(* proves nothing and is taken all the same (oath.c:341).                  *)
SessionProven == selected /\ validated /\ code # None => proven # "no"

(* A session without access changes no credential and no code, unless it   *)
(* resets the whole application, which leaves none to have access to       *)
(* (oath.c:143, 191, 221, 392, 618, 266).                                  *)
LockedKeeps ==
    [][ ~validated => \/ UNCHANGED <<cred, code, answered>>
                      \/ Send
                      \/ code' = None /\ \A s \in Slot : cred'[s] = None ]_vars

(* Between two right entries VERIFY PIN compares MaxOtpCounter wrong ones  *)
(* at most and refuses the next unseen, across sessions, restarts and      *)
(* resets; but each time the power is lost between a comparison and the    *)
(* write of the counter there is one more.  CHANGE PIN compares without    *)
(* counting (oath.c:497-567).                                              *)
GuessBudget ==
    otpPin # None =>
        /\ wrong <= MaxOtpCounter + lost
        /\ wrong = MaxOtpCounter + lost /\ entry = None => \A p \in Pins : ~Right(p)

(* As long as no rename took a name in use, a name finds one credential    *)
(* and no credential is shadowed by another (oath.c:130-186, 615).         *)
NamesUnique == ~clash => \A s, t \in Used : cred[s].name = cred[t].name => s = t

=============================================================================
