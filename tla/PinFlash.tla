------------------------------ MODULE PinFlash ------------------------------
(***************************************************************************)
(* setPIN, changePIN and getPinToken of cbor_client_pin.c, one file write  *)
(* or comparison at a time, with the power lost between any two of them.   *)
(* PinToken has these handlers as single actions; here are the files they  *)
(* leave half way: ef_pin, the device key wrapped under the PIN (ef_keydev *)
(* of fido.c), the forced change flag and the persistent token.            *)
(*                                                                         *)
(* One file_put_data is atomic: the flash driver is outside the project.   *)
(***************************************************************************)
EXTENDS Naturals

CONSTANTS
    PINs,          \* the PINs a user may choose
    Garbled,       \* a pinHashEnc that does not decrypt
    NoPin,         \* ef_pin is empty; no PIN concerned
    MaxPinRetries  \* MAX_PIN_RETRIES

ASSUME FlashAssumption ==
    /\ MaxPinRetries \in Nat /\ MaxPinRetries > 0
    /\ NoPin \notin PINs /\ Garbled \notin PINs \cup {NoPin}

VARIABLES
    pin,        \* flash: the PIN whose verifier ef_pin holds
    retries,    \* flash: ef_pin[0]
    oldFormat,  \* flash: ef_pin has the 34 bytes of older firmware
    seal,       \* flash: the session key ef_keydev is wrapped under
    force,      \* flash: ef_minpin[1]
    session,    \* RAM: session_pin
    job,        \* RAM: the handler running, where it is, its two PINs
    tokenPin,   \* history: PIN that ef_pauthtoken's value was handed out for
    wrong,      \* history: failed comparisons since the last that was not
    cut         \* history: what a power loss cost, until a factory reset

file == <<pin, retries, oldFormat>>
vars == <<file, seal, force, session, job, tokenPin, wrong, cut>>

\* session_pin and the wrapping of ef_keydev: derived from a PIN the old way
\* (hash_multi) or the new one (pin_derive_session); "plain" is format 0x01,
\* which needs no session.
Session(kind, p) == [kind |-> kind, pin |-> p]
Plain == Session("plain", NoPin)
NoSession == Session("none", NoPin)
Sessions == [kind : {"old", "new"}, pin : PINs]

Idle == [op |-> "none", at |-> "done", guess |-> NoPin, new |-> NoPin]
Done == job.at = "done"

TypeOK ==
    /\ pin \in PINs \cup {NoPin}
    /\ retries \in 0..MaxPinRetries
    /\ oldFormat \in BOOLEAN
    /\ seal \in Sessions \cup {Plain}
    /\ force \in BOOLEAN
    /\ session \in Sessions \cup {NoSession}
    /\ tokenPin \in PINs \cup {NoPin}
    /\ wrong \in Nat
    /\ cut \subseteq {"key", "token"}
    /\ job.op \in {"none", "set", "change", "token"}
    /\ job.guess \in PINs \cup {Garbled, NoPin}
    /\ job.new \in PINs \cup {NoPin}

-----------------------------------------------------------------------------
\* Mutant: getPinToken compares before it takes the retry.
FirstMut(op) == CASE op = "set" -> "create"
                  [] op = "change" -> "burn"
                  [] op = "token" -> "compare"

First(op) == IF op = "set" THEN "create" ELSE "burn"

\* Mutant: changePIN ends when the new PIN is stored and unforced.
AfterMut(op, at) ==
    CASE at = "create" -> "seal"
      [] at = "burn" -> "compare"
      [] at \in {"compare", "upgrade"} -> IF op = "change" THEN "restore" ELSE "seal"
      [] at = "restore" -> IF op = "change" THEN "seal" ELSE "hand"
      [] at = "seal" -> CASE op = "set" -> "done"
                          [] op = "change" -> "rewrap"
                          [] OTHER -> "restore"
      [] at = "rewrap" -> "reseal"
      [] at = "reseal" -> "store"
      [] at = "store" -> "unforce"
      [] OTHER -> "done"

\* The order of the steps in each handler.
After(op, at) ==
    CASE at = "create" -> "seal"
      [] at = "burn" -> "compare"
      [] at \in {"compare", "upgrade"} -> IF op = "change" THEN "restore" ELSE "seal"
      [] at = "restore" -> IF op = "change" THEN "seal" ELSE "hand"
      [] at = "seal" -> CASE op = "set" -> "done"
                          [] op = "change" -> "rewrap"
                          [] OTHER -> "restore"
      [] at = "rewrap" -> "reseal"
      [] at = "reseal" -> "store"
      [] at = "store" -> "unforce"
      [] at = "unforce" -> "revoke"
      [] OTHER -> "done"

Goto(at) == job' = IF at = "done" THEN Idle ELSE [job EXCEPT !.at = at]
GoOn == Goto(After(job.op, job.at))
GiveUp == job' = Idle

\* load_keydev succeeds: the key is not wrapped, or under this session.
Opens == seal \in {Plain, session}

-----------------------------------------------------------------------------
\* A fresh device, or one whose PIN was set with older firmware.
Init ==
    /\ pin \in PINs \cup {NoPin}
    /\ retries = IF pin = NoPin THEN 0 ELSE MaxPinRetries
    /\ oldFormat = (pin # NoPin)
    /\ seal = IF pin = NoPin THEN Plain ELSE Session("old", pin)
    /\ force = FALSE
    /\ session = NoSession
    /\ job = Idle
    /\ tokenPin = NoPin
    /\ wrong = 0
    /\ cut = {}

\* A request arrives whose parameters are well formed.
Start(op, guess, new) ==
    /\ Done
    /\ IF op = "set" THEN pin = NoPin ELSE pin # NoPin /\ retries > 0
    /\ job' = [op |-> op, at |-> First(op), guess |-> guess, new |-> new]
    /\ UNCHANGED <<file, seal, force, session, tokenPin, wrong, cut>>

\* setPIN writes the verifier and derives the session.
Create ==
    /\ job.at = "create"
    /\ pin' = job.new
    /\ retries' = MaxPinRetries
    /\ oldFormat' = FALSE
    /\ session' = Session("new", job.new)
    /\ wrong' = 0
    /\ GoOn
    /\ UNCHANGED <<seal, force, tokenPin, cut>>

\* The retry is taken from the file before the PIN is looked at.
Burn ==
    /\ job.at = "burn"
    /\ retries' = retries - 1
    /\ GoOn
    /\ UNCHANGED <<pin, oldFormat, seal, force, session, tokenPin, wrong, cut>>

CompareWrong ==
    /\ job.at = "compare"
    /\ job.guess # pin
    /\ wrong' = IF job.guess = Garbled THEN wrong ELSE wrong + 1
    /\ GiveUp
    /\ UNCHANGED <<file, seal, force, session, tokenPin, cut>>

\* The PIN matches: an old file is upgraded under the old session first.
CompareRight ==
    /\ job.at = "compare"
    /\ job.guess = pin
    /\ wrong' = 0
    /\ session' = Session(IF oldFormat THEN "old" ELSE "new", pin)
    /\ IF oldFormat THEN Goto("upgrade") ELSE GoOn
    /\ UNCHANGED <<file, seal, force, tokenPin, cut>>

Upgrade ==
    /\ job.at = "upgrade"
    /\ \/ /\ Opens
          /\ seal' = Plain
          /\ session' = Session("new", pin)
          /\ GoOn
       \/ ~Opens /\ GiveUp /\ UNCHANGED <<seal, session>>
    /\ UNCHANGED <<file, force, tokenPin, wrong, cut>>

\* The file is written back with all retries, in the new format.
Restore ==
    /\ job.at = "restore"
    /\ retries' = MaxPinRetries
    /\ oldFormat' = FALSE
    /\ GoOn
    /\ UNCHANGED <<pin, seal, force, session, tokenPin, wrong, cut>>

\* Mutant: only setPIN and changePIN wrap a key found unwrapped.
SealMut ==
    /\ job.at = "seal"
    /\ seal' = IF seal = Plain /\ job.op # "token" THEN session ELSE seal
    /\ GoOn
    /\ UNCHANGED <<file, force, session, tokenPin, wrong, cut>>

\* check_keydev_encrypted: a key that is not wrapped is wrapped now.
Seal ==
    /\ job.at = "seal"
    /\ seal' = IF seal = Plain THEN session ELSE seal
    /\ GoOn
    /\ UNCHANGED <<file, force, session, tokenPin, wrong, cut>>

\* changePIN refuses the new PIN, or cannot open the key, or unwraps it.
Rewrap ==
    /\ job.at = "rewrap"
    /\ \/ GiveUp /\ UNCHANGED seal
       \/ Opens /\ seal' = Plain /\ GoOn
    /\ UNCHANGED <<file, force, session, tokenPin, wrong, cut>>

\* Mutant: the key is wrapped under the session of the old PIN.
ResealMut ==
    /\ job.at = "reseal"
    /\ session' = Session("new", job.new)
    /\ seal' = session
    /\ GoOn
    /\ UNCHANGED <<file, force, tokenPin, wrong, cut>>

Reseal ==
    /\ job.at = "reseal"
    /\ session' = Session("new", job.new)
    /\ seal' = session'
    /\ GoOn
    /\ UNCHANGED <<file, force, tokenPin, wrong, cut>>

\* The new verifier, unless a forced change keeps the PIN.
Store ==
    /\ job.at = "store"
    /\ \/ force /\ job.new = pin /\ GiveUp /\ UNCHANGED file
       \/ /\ ~(force /\ job.new = pin)
          /\ pin' = job.new
          /\ retries' = MaxPinRetries
          /\ UNCHANGED oldFormat
          /\ GoOn
    /\ UNCHANGED <<seal, force, session, tokenPin, wrong, cut>>

Unforce ==
    /\ job.at = "unforce"
    /\ force' = FALSE
    /\ GoOn
    /\ UNCHANGED <<file, seal, session, tokenPin, wrong, cut>>

\* Both tokens get new values; the persistent one is the last write.
Revoke ==
    /\ job.at = "revoke"
    /\ tokenPin' = NoPin
    /\ GoOn
    /\ UNCHANGED <<file, seal, force, session, wrong, cut>>

\* getPinToken with the permission PCMR hands out the persistent token.
Hand ==
    /\ job.at = "hand"
    /\ tokenPin' = IF force THEN tokenPin ELSE pin
    /\ GoOn
    /\ UNCHANGED <<file, seal, force, session, wrong, cut>>

\* setMinPINLength with forceChangePin renews the tokens, then sets the flag.
ForceChange ==
    /\ Done
    /\ pin # NoPin
    /\ force' = TRUE
    /\ tokenPin' = NoPin
    /\ UNCHANGED <<file, seal, session, job, wrong, cut>>

\* Where a power loss costs the device key, or leaves a token alive: between
\* the writes of changePIN or of the upgrade in getPinToken that belong together.
KeyExposed == \/ job.at = "store"
              \/ job.at = "restore" /\ job.op = "token" /\ oldFormat
TokenExposed == job.at \in {"unforce", "revoke"}

PowerLoss ==
    /\ job' = Idle
    /\ session' = NoSession
    /\ cut' = cut \cup (IF KeyExposed THEN {"key"} ELSE {})
                  \cup (IF TokenExposed THEN {"token"} ELSE {})
    /\ UNCHANGED <<file, seal, force, tokenPin, wrong>>

\* authenticatorReset: new files, a new key; session_pin stays in RAM.
FactoryReset ==
    /\ Done
    /\ pin' = NoPin /\ retries' = 0 /\ oldFormat' = FALSE
    /\ seal' = Plain
    /\ force' = FALSE
    /\ tokenPin' = NoPin
    /\ wrong' = 0
    /\ cut' = {}
    /\ UNCHANGED <<session, job>>

Next ==
    \/ \E p \in PINs : Start("set", NoPin, p)
    \/ \E g, p \in PINs : Start("change", g, p)
    \/ \E g \in PINs \cup {Garbled} : Start("token", g, NoPin)
    \/ Create \/ Burn \/ CompareWrong \/ CompareRight \/ Upgrade \/ Restore
    \/ Seal \/ Rewrap \/ Reseal \/ Store \/ Unforce \/ Revoke \/ Hand
    \/ ForceChange \/ PowerLoss \/ FactoryReset

Spec == Init /\ [][Next]_vars

-----------------------------------------------------------------------------
\* Properties.

\* The device key opens with the PIN that ef_pin holds, in every state but
\* between two writes that belong together (cbor_client_pin.c:654, 782), and
\* is lost for good only if the power was lost there.
Recoverable == \/ seal = Plain
               \/ pin # NoPin /\ seal = Session(IF oldFormat THEN "old" ELSE "new", pin)
KeyRecoverable == Recoverable \/ KeyExposed \/ "key" \in cut

\* Once a PIN was shown, the device key is wrapped under it and the requests
\* that follow can open it (cbor_client_pin.c:270, fido.c:213).
SessionHoldsKey ==
    Done /\ pin # NoPin /\ session # NoSession => seal = session \/ "key" \in cut

\* The persistent token dies with the PIN it was handed out for, unless the
\* power was lost after the PIN was stored (cbor_client_pin.c:668, 681).
TokenDiesWithPin ==
    tokenPin \in {NoPin, pin} \/ TokenExposed \/ "token" \in cut

\* The handlers, their writes and the power losses implement PinVault.
Phase == CASE job.at = "compare" -> "tried"
           [] job.at \in {"done", "burn", "create"} \/ job.op = "set" -> "idle"
           [] OTHER -> "open"
V == INSTANCE PinVault WITH
        Max <- MaxPinRetries, secret <- pin, left <- retries, phase <- Phase,
        guess <- IF Phase = "idle" THEN NoPin ELSE job.guess
ImplementsVault == V!Spec

\* However requests and power losses are mixed, wrong guesses and retries
\* left never exceed the retries granted (cbor_client_pin.c:566, 733).
GuessBudget == V!Budget
=============================================================================
