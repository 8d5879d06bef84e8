----------------------------- MODULE DeviceKey ------------------------------
(***************************************************************************)
(* The device key, from which every credential is derived: its two files   *)
(* (ef_keydev and, when the device is locked, ef_keydev_enc), the copy in  *)
(* RAM an unlocked device works with, the certificate made for it, and the *)
(* counter its signatures carry.  Handlers of four files write them: the   *)
(* lock of cbor_config.c, unlock and backup of cbor_vendor.c, scan_files   *)
(* of fido.c at boot, and the requests that sign.                          *)
(*                                                                         *)
(* A handler is the row of file writes it has left; the power may be lost  *)
(* between any two.  PinFlash has the PIN and the wrapping under it: here  *)
(* a PIN was shown since power-up, or not, and whether the session it left *)
(* is of this firmware or of the older one, whose PIN file is 34 bytes     *)
(* long and is upgraded, with the key, by the first request that shows the *)
(* PIN.  The key agreement before a vendor command changes nothing else    *)
(* and is left out.                                                        *)
(***************************************************************************)
EXTENDS Naturals, Sequences, FiniteSets

CONSTANTS
    Keys,      \* the keys mbedtls_ecdsa_genkey returns, each once
    Zeros,     \* 32 zero bytes
    Junk,      \* what an mkek makes of a key it did not encrypt, and the other way round
    Broken,    \* a blob that no key of the host opens
    None,      \* an empty file, or no key
    MaxCount,  \* bound of the model on the signature counter
    MaxOdd     \* bound of the model on the kinds of mishap between two resets

Values == Keys \cup {Zeros, Junk}
ASSUME KeyAssumption ==
    /\ MaxCount \in Nat /\ MaxOdd \in Nat
    /\ None \notin Values \cup {Broken} \cup 0..MaxCount /\ Broken \notin Values
    /\ Zeros \notin Keys /\ Junk \notin Keys /\ Zeros # Junk

VARIABLES
    keydev,          \* flash: ef_keydev, its format and the key it yields
    keydev_enc,      \* flash: ef_keydev_enc, what unlocking it yields
    certdev,         \* flash: the key ef_certdev was made for
    counter,         \* flash: ef_counter
    mkek,            \* flash: ef_mkek of older firmware is there
    oldPin,          \* flash: ef_pin is of older firmware
    keydev_dec,      \* RAM: the unlocked key
    has_keydev_dec,  \* RAM: it is used
    session,         \* RAM: session_pin is "none", or of the PIN in the "old" or the "new" way
    job,             \* RAM: the writes the handler has left
    used,            \* history: the keys generated
    made,            \* history: the keys credentials were made under, since the reset
    seen,            \* history: one more than the last count sent under a key
    repeated,        \* history: the keys that sent a count not above the last, since the reset
    copy,            \* history: the last backup a host took
    odd              \* history: what happened that costs the key, since the reset

flash == <<keydev, keydev_enc, certdev, counter, mkek, oldPin>>
ram == <<keydev_dec, has_keydev_dec, session>>
history == <<used, made, seen, repeated, copy, odd>>
vars == <<flash, ram, job, history>>

File(form, key) == [form |-> form, key |-> key]
Empty == File("none", None)

TypeOK ==
    /\ keydev \in {Empty} \cup [form : {"mkek", "raw", "f1", "f2", "wiped"}, key : Values]
    /\ keydev_enc \in Values \cup {Broken, None}
    /\ certdev \in Values \cup {None}
    /\ counter \in 0..MaxCount \cup {None}
    /\ keydev_dec \in Values
    /\ {mkek, oldPin, has_keydev_dec} \subseteq BOOLEAN /\ session \in {"none", "old", "new"}
    /\ used \subseteq Keys /\ made \subseteq Values
    /\ seen \in [Keys -> 0..MaxCount + 1] /\ repeated \subseteq Keys
    /\ copy \in Values \cup {Broken, None}
    /\ odd \subseteq {"mislocked", "doubled", "blanked", "disabled", "spilled",
                      "overwritten", "restored", "carried", "cut"}

-----------------------------------------------------------------------------
\* load_keydev: the key requests work with, None when it is refused.  A file
\* of 32 bytes is decrypted with ef_mkek, which only the old session opens:
\* right for a key older firmware wrote ("mkek"), not for one written as it
\* is ("raw"); without ef_mkek the buffer it would be in was never written.
Loads(opened) ==
    IF has_keydev_dec THEN keydev_dec
    ELSE CASE keydev.form = "mkek" -> IF opened = "old" THEN keydev.key ELSE None
           [] keydev.form = "raw" -> IF mkek /\ opened # "old" THEN None ELSE Junk
           [] keydev.form = "f2" -> IF opened = "new" THEN keydev.key ELSE None
           [] OTHER -> keydev.key
Loaded == Loads(session)

Idle == job = <<>>
Put(file, value) == [do |-> file, value |-> value]
\* Mutant: the certificate is looked for before the key.
BootMut == <<Put("cert", None), Put("genkey", None), Put("zero", None)>>

\* scan_files: the files made when they are empty, in their order.
Boot == <<Put("genkey", None), Put("cert", None), Put("zero", None)>>
Start(row) == Idle /\ job' = row
Rest == job' = Tail(job)
Odd(reasons) == odd' = odd \cup reasons /\ Cardinality(odd') <= MaxOdd
Because(condition, reason) == IF condition THEN {reason} ELSE {}

\* Mutant: the file is left as it is when a blob of it is stored.
WipeMut == <<>>

\* Zeros are written over a file in the size it has, then it is emptied; 32
\* bytes of zeros are still a key.
Wipe == <<Put("keydev", CASE keydev.form = "none" -> Empty
                          [] keydev.form \in {"mkek", "raw"} -> File("raw", Zeros)
                          [] OTHER -> File("wiped", Zeros)),
          Put("keydev", Empty)>>

\* A new device, or one of older firmware with a PIN, locked or not.
Init ==
    /\ \/ keydev = Empty /\ keydev_enc = None /\ certdev = None /\ used = {}
       \/ \E k \in Keys : /\ certdev = k /\ used = {k}
                          /\ \/ keydev = Empty /\ keydev_enc = k
                             \/ keydev = File("mkek", k) /\ keydev_enc = None
    /\ oldPin = (used # {}) /\ mkek = (used # {})
    /\ counter = IF used = {} THEN None ELSE 0
    /\ keydev_dec = Zeros /\ has_keydev_dec = FALSE /\ session = "none"
    /\ job = Boot
    /\ made = used
    /\ seen = [k \in Keys |-> 0] /\ repeated = {}
    /\ copy = None /\ odd = {}
-----------------------------------------------------------------------------
\* The steps of the handlers.  A handler starts when none is running.

Step(file) == job # <<>> /\ Head(job).do = file
Value == Head(job).value

PutKeydev == /\ Step("keydev") /\ keydev' = Value /\ Rest
             /\ UNCHANGED <<keydev_enc, certdev, counter, mkek, oldPin, ram, history>>

PutKeydevEnc == /\ Step("enc") /\ keydev_enc' = Value /\ Rest
                /\ UNCHANGED <<keydev, certdev, counter, mkek, oldPin, ram, history>>

PutCounter == /\ Step("counter") /\ counter' = Value /\ Rest
              /\ UNCHANGED <<keydev, keydev_enc, certdev, mkek, oldPin, ram, history>>

PutPin == /\ Step("pin") /\ oldPin' = Value /\ Rest
          /\ UNCHANGED <<keydev, keydev_enc, certdev, counter, mkek, ram, history>>

\* The reply is sent when the handler is done.
Reply ==
    /\ Step("reply") /\ Rest
    /\ LET k == Value.key
           n == Value.count
       IN  /\ made' = IF Value.new THEN made \cup {k} ELSE made
           /\ IF k \in Keys
              THEN /\ seen' = [seen EXCEPT ![k] = IF n < @ THEN @ ELSE n + 1]
                   /\ repeated' = repeated \cup Because(n < seen[k], k)
              ELSE UNCHANGED <<seen, repeated>>
    /\ UNCHANGED <<flash, ram, used, copy, odd>>

\* Mutant: a new key also for a locked device.
GenKeyMut ==
    /\ Step("genkey") /\ Rest
    /\ IF keydev = Empty
       THEN \E k \in Keys \ used : keydev' = File("f1", k) /\ used' = used \cup {k}
       ELSE UNCHANGED <<keydev, used>>
    /\ UNCHANGED <<keydev_enc, certdev, counter, mkek, oldPin, ram, made, seen, repeated, copy, odd>>

\* scan_files: a new key when both files are empty.
GenKey ==
    /\ Step("genkey") /\ Rest
    /\ IF keydev = Empty /\ keydev_enc = None
       THEN \E k \in Keys \ used : keydev' = File("f1", k) /\ used' = used \cup {k}
       ELSE UNCHANGED <<keydev, used>>
    /\ UNCHANGED <<keydev_enc, certdev, counter, mkek, oldPin, ram, made, seen, repeated, copy, odd>>

\* Its certificate, if there is none; without a key to sign it scan_files
\* returns, and what comes after is not done.
PutCert ==
    /\ Step("cert")
    /\ \/ certdev # None /\ Rest /\ UNCHANGED certdev
       \/ certdev = None /\ Loaded \notin {None, Zeros} /\ certdev' = Loaded /\ Rest
       \/ certdev = None /\ Loaded \in {None, Zeros} /\ job' = <<>> /\ UNCHANGED certdev
    /\ UNCHANGED <<keydev, keydev_enc, counter, mkek, oldPin, ram, history>>

PutZero ==
    /\ Step("zero") /\ Rest
    /\ counter' = IF counter = None THEN 0 ELSE counter
    /\ UNCHANGED <<keydev, keydev_enc, certdev, mkek, oldPin, ram, history>>

-----------------------------------------------------------------------------
\* Requests.

\* getPinToken or setPIN: the session is that of the PIN, and a key in the
\* clear is wrapped under it.
Sealed == IF keydev.form = "f1" THEN File("f2", keydev.key) ELSE keydev
ShowPin ==
    /\ Idle /\ ~oldPin
    /\ session' = "new"
    /\ keydev' = Sealed
    /\ UNCHANGED <<keydev_enc, certdev, counter, mkek, oldPin, keydev_dec, has_keydev_dec, job, history>>

\* encrypt_keydev_f1 of a key that was loaded, and its wrapping: on an
\* unlocked device the key is put beside its lock, and what was loaded is
\* written whatever it is.
InClear(k) == Put("keydev", File("f1", k))
Wrapped(k) == Put("keydev", File("f2", k))
WriteBack(k) == Because(has_keydev_dec, "spilled") \cup Because(k \notin Keys, "overwritten")

\* getPinToken with a PIN file of older firmware: the key is loaded in the
\* old session and written back, then the new PIN file is written.
UpgradePin ==
    /\ oldPin
    /\ LET k == Loads("old")
       IN  /\ k # None
           /\ Start(<<InClear(k), Wrapped(k), Put("pin", FALSE)>>)
           /\ Odd(WriteBack(k))
    /\ session' = "new"
    /\ UNCHANGED <<flash, keydev_dec, has_keydev_dec, used, made, seen, repeated, copy>>

\* getPinToken or changePIN, when no key can be loaded: the old session stays.
FailUpgrade ==
    /\ Idle /\ oldPin /\ Loads("old") = None
    /\ session' = "old"
    /\ UNCHANGED <<flash, keydev_dec, has_keydev_dec, job, history>>

\* changePIN shows the old PIN in the same way, its file before the wrapping,
\* then writes back the key it can load, if the new PIN is good.
ChangePin ==
    /\ ~oldPin
    /\ LET k == Loads("new")
       IN  /\ k # None
           /\ Start(<<InClear(k), Wrapped(k)>>)
           /\ Odd(WriteBack(k))
    /\ session' = "new"
    /\ keydev' = Sealed
    /\ UNCHANGED <<keydev_enc, certdev, counter, mkek, oldPin, keydev_dec, has_keydev_dec,
                   used, made, seen, repeated, copy>>

ChangeOldPin ==
    /\ oldPin
    /\ LET k == Loads("old")
           upgrade == <<InClear(k), Put("pin", FALSE), Wrapped(k)>>
       IN  /\ k # None
           /\ Start(upgrade) \/ Start(upgrade \o <<InClear(k), Wrapped(k)>>)
           /\ Odd(WriteBack(k))
    /\ session' = "new"
    /\ UNCHANGED <<flash, keydev_dec, has_keydev_dec, used, made, seen, repeated, copy>>

\* CTAP_CONFIG_AUT_ENABLE encrypts the file as it is into room for 32 bytes:
\* of a file that has a format byte the tag is cut off, and a file of older
\* firmware opens to what the mkek made of the key.
Blob == CASE keydev.form = "raw" -> keydev.key
          [] keydev.form = "mkek" -> Junk
          [] OTHER -> Broken
Enable ==
    /\ keydev # Empty
    /\ Start(<<Put("enc", Blob)>> \o Wipe)
    /\ Odd(IF keydev.form = "mkek" THEN {"doubled"} ELSE Because(Blob \notin Keys, "mislocked"))
    /\ UNCHANGED <<flash, ram, used, made, seen, repeated, copy>>

\* Mutant: the blob is removed first.
DisableMut ==
    /\ keydev_enc # None /\ has_keydev_dec
    /\ Start(<<Put("enc", None), Put("keydev", File("raw", keydev_dec))>>)
    /\ keydev_dec' = Zeros
    /\ Odd({"disabled"} \cup Because(keydev_dec \notin Keys, "overwritten"))
    /\ UNCHANGED <<flash, has_keydev_dec, session, used, made, seen, repeated, copy>>

\* CTAP_CONFIG_AUT_DISABLE; the copy in RAM is cleared and stays in use.
Disable ==
    /\ keydev_enc # None /\ has_keydev_dec
    /\ Start(<<Put("keydev", File("raw", keydev_dec)), Put("enc", None)>>)
    /\ keydev_dec' = Zeros
    /\ Odd({"disabled"} \cup Because(keydev_dec \notin Keys, "overwritten"))
    /\ UNCHANGED <<flash, has_keydev_dec, session, used, made, seen, repeated, copy>>

\* CTAP_VENDOR_UNLOCK with the host's key.
Unlock ==
    /\ Idle
    /\ keydev_enc \notin {None, Broken}
    /\ keydev_dec' = keydev_enc
    /\ has_keydev_dec' = TRUE
    /\ UNCHANGED <<flash, session, job, history>>

\* Mutant: the result of the decryption is not looked at.
FailUnlockMut ==
    /\ Idle
    /\ keydev_enc # None
    /\ keydev_dec' = Zeros /\ has_keydev_dec' = TRUE
    /\ Odd(Because(has_keydev_dec, "blanked"))
    /\ UNCHANGED <<flash, session, job, used, made, seen, repeated, copy>>

\* With another key, or when nothing opens the blob: the authenticated
\* decryption clears its output, which is the copy in RAM.
FailUnlock ==
    /\ Idle
    /\ keydev_enc # None
    /\ keydev_dec' = Zeros
    /\ Odd(Because(has_keydev_dec, "blanked"))
    /\ UNCHANGED <<flash, has_keydev_dec, session, job, used, made, seen, repeated, copy>>

\* CTAP_VENDOR_BACKUP: out of an unlocked device, into any.
Export ==
    /\ Idle
    /\ has_keydev_dec
    /\ copy' = keydev_enc
    /\ UNCHANGED <<flash, ram, job, used, made, seen, repeated, odd>>

Import ==
    /\ copy # None
    /\ Start(<<Put("enc", copy)>> \o Wipe)
    /\ Odd({"restored"})
    /\ UNCHANGED <<flash, ram, used, made, seen, repeated, copy>>

\* Mutant: the reply goes out before the counter is written.
SigningMut(new, k) ==
    \E n \in 0..MaxCount - 1 :
        /\ counter \in {n, None}
        /\ Start(<<Put("reply", [key |-> k, count |-> n, new |-> new]),
                   Put("counter", n + 1)>>)

\* The count a signature carries is written, one higher, before the reply is
\* sent; of an empty file whatever is at the null pointer is read.
Signing(new, k) ==
    \E n \in 0..MaxCount - 1 :
        /\ counter \in {n, None}
        /\ Start(<<Put("counter", n + 1),
                   Put("reply", [key |-> k, count |-> n, new |-> new])>>)

\* makeCredential, getAssertion, and authenticate of U2F.
Sign ==
    /\ \/ Loaded # None /\ Signing(TRUE, Loaded)
       \/ Loaded \in made /\ Signing(FALSE, Loaded)
    /\ UNCHANGED <<flash, ram, history>>

\* register of U2F writes nothing; the certificate is sent along, and zeros
\* sign nothing.
Register ==
    /\ Idle
    /\ Loaded \notin {None, Zeros}
    /\ made' = made \cup {Loaded}
    /\ UNCHANGED <<flash, ram, job, used, seen, repeated, copy, odd>>

\* authenticatorReset: new files, and scan_files; the RAM stays.
FactoryReset ==
    /\ Keys # used
    /\ Idle
    /\ keydev' = Empty /\ keydev_enc' = None /\ certdev' = None
    /\ counter' = None /\ mkek' = FALSE /\ oldPin' = FALSE
    /\ job' = Boot
    /\ made' = {} /\ repeated' = {}
    /\ odd' = Because(has_keydev_dec, "carried")
    /\ UNCHANGED <<ram, used, seen, copy>>

\* Where a power loss leaves a file of zeros or the key beside its lock.
Exposed == \/ Step("keydev") /\ Value.key \notin Keys
           \/ Step("enc") /\ Value = None
PowerLoss ==
    /\ keydev_dec' = Zeros /\ has_keydev_dec' = FALSE /\ session' = "none"
    /\ job' = Boot
    /\ Odd(Because(Exposed, "cut"))
    /\ UNCHANGED <<flash, used, made, seen, repeated, copy>>

Next ==
    \/ PutKeydev \/ PutKeydevEnc \/ PutCounter \/ PutPin \/ Reply
    \/ GenKey \/ PutCert \/ PutZero
    \/ ShowPin \/ UpgradePin \/ FailUpgrade \/ ChangePin \/ ChangeOldPin
    \/ Enable \/ Disable \/ Unlock \/ FailUnlock \/ Export \/ Import
    \/ Sign \/ Register \/ FactoryReset \/ PowerLoss

Spec == Init /\ [][Next]_vars

-----------------------------------------------------------------------------
\* Properties.  What a mishap costs (odd) is left out by name:
\*   mislocked    AUT_ENABLE of a file that has a format byte, or of zeros
\*   doubled      AUT_ENABLE of a file that ef_mkek encrypts: unlocked, it is
\*                taken for the key without the mkek
\*   blanked      an unlock that failed when the device was unlocked
\*   disabled     AUT_DISABLE: zeros in RAM until a restart, a raw file after
\*   overwritten  a key written back that is not one of genkey: of AUT_DISABLE,
\*                of changePIN, and of the upgrade of a PIN file
\*   spilled      changePIN or an upgrade of the PIN file on an unlocked device:
\*                the key beside its lock
\*   restored     a backup put over the key of this device
\*   carried      a reset of an unlocked device, which goes on with the old key
\*   cut          the power lost while zeros or the key lay beside the blob
Unless(reasons) == odd \cap reasons # {}

\* Every key a credential was made under since the reset is in one of the two
\* files and can be had from it, at every moment a power loss may pick
\* (cbor_config.c:160-192, cbor_vendor.c:116, fido.c:372).
OnDevice(k) == keydev_enc = k \/ (keydev.form \in {"mkek", "raw", "f1", "f2"} /\ keydev.key = k)
KeyKept == \A k \in made \cap Keys :
    OnDevice(k) \/ Unless({"mislocked", "doubled", "overwritten", "restored", "carried"})

\* No credential is derived from zeros or from memory never written
\* (fido.c:218-231, cbor_vendor.c:196).
MadeUnderKeys ==
    made \subseteq Keys \/ Unless({"doubled", "blanked", "disabled", "restored", "carried", "cut"})

\* When the device is locked the key is in the blob only: the other file does
\* not hold it, locked or unlocked (cbor_config.c:189-192, cbor_vendor.c:116).
LockHolds == keydev_enc \in Keys /\ Idle =>
    keydev.key # keydev_enc \/ Unless({"spilled", "cut"})

\* The certificate register sends is for the key it signs with, after any
\* lock, restart and reset (fido.c:404-440, cmd_register.c:86-110).
CertMatches == Idle /\ Loaded \in Keys =>
    certdev = Loaded \/ Unless({"carried", "restored"})

\* No two replies under one key carry the same count, or a lower one, also
\* when the power fails before the reply (cbor_get_assertion.c:603, 737).
CountsGrow == repeated = {} \/ Unless({"carried", "restored"})

\* scan_files reaches its end: the counter is there whenever a request is
\* (fido.c:412-455).
BootCompletes == Idle => counter # None \/ Unless({"carried"})
=============================================================================
