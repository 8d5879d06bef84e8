------------------------------ MODULE PinVault ------------------------------
(***************************************************************************)
(* What the PIN of the authenticator promises, whatever order its handlers *)
(* write their files in and wherever the power is lost: the secret is      *)
(* replaced only by someone who just showed it, every comparison was paid  *)
(* for with a retry beforehand, and retries come back only for the right   *)
(* PIN.  PinFlash, the handlers of cbor_client_pin.c step by step,         *)
(* implements it.                                                          *)
(***************************************************************************)
EXTENDS Naturals

CONSTANTS  \* NoPin and Garbled are no PINs: FlashAssumption of PinFlash
    PINs,     \* the PINs a user may choose
    Garbled,  \* a guess that cannot even be compared
    NoPin,    \* no PIN is set, or no guess is being made
    Max       \* retries after the right PIN

VARIABLES
    secret,  \* the PIN, or NoPin
    left,    \* retries left
    phase,   \* "idle", "tried": a retry was paid, "open": the guess was right
    guess,   \* the PIN being tried
    wrong    \* comparisons that failed since the last one that did not

vars == <<secret, left, phase, guess, wrong>>

Init == /\ secret \in PINs \cup {NoPin}
        /\ left = IF secret = NoPin THEN 0 ELSE Max
        /\ phase = "idle"
        /\ guess = NoPin
        /\ wrong = 0

Try(g) == /\ phase = "idle" /\ secret # NoPin /\ left > 0
          /\ left' = left - 1
          /\ phase' = "tried"
          /\ guess' = g
          /\ UNCHANGED <<secret, wrong>>

Accept == /\ phase = "tried" /\ guess = secret
          /\ phase' = "open"
          /\ wrong' = 0
          /\ UNCHANGED <<secret, left, guess>>

Reject == /\ phase = "tried" /\ guess # secret
          /\ phase' = "idle"
          /\ guess' = NoPin
          /\ wrong' = wrong + 1
          /\ UNCHANGED <<secret, left>>

Restore == /\ phase = "open"
           /\ left' = Max
           /\ UNCHANGED <<secret, phase, guess, wrong>>

Change(p) == /\ phase = "open"
             /\ secret' = p
             /\ left' = Max
             /\ UNCHANGED <<phase, guess, wrong>>

\* The request ends or the power is lost.
Close == /\ phase # "idle"
         /\ phase' = "idle"
         /\ guess' = NoPin
         /\ UNCHANGED <<secret, left, wrong>>

Create(p) == /\ phase = "idle" /\ secret = NoPin
             /\ secret' = p
             /\ left' = Max
             /\ wrong' = 0
             /\ UNCHANGED <<phase, guess>>

Erase == /\ phase = "idle"
         /\ secret' = NoPin
         /\ left' = 0
         /\ wrong' = 0
         /\ UNCHANGED <<phase, guess>>

Next == \/ \E g \in PINs \cup {Garbled} : Try(g)
        \/ Accept \/ Reject \/ Restore \/ Close \/ Erase
        \/ \E p \in PINs : Change(p) \/ Create(p)

Spec == Init /\ [][Next]_vars

\* The wrong guesses since the last right one and the retries left never add
\* up to more than the retries granted (cbor_client_pin.c:566, 733).
Budget == wrong + left <= Max
=============================================================================
