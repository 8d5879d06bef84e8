-------------------------------- MODULE Otp --------------------------------
(***************************************************************************)
(* The two OTP slots (otp.c).  A press of the button types a one-time      *)
(* password: a Yubico OTP carries a counter, kept behind the configuration *)
(* in the slot's file, and the slot's session counter, kept in RAM; a HOTP *)
(* code is that of a moving factor in the same place.  A server takes a    *)
(* password only if it comes after the last one it saw.  The password is   *)
(* typed before the counter is written, a start of the device counts every *)
(* Yubico slot up once, unless the host asks for the status first, and the *)
(* host configures, updates and swaps the slots.                           *)
(*                                                                         *)
(* A configuration is the number of its key.  Requests with a wrong access *)
(* code or checksum, challenge-response and static passwords change no     *)
(* state; a static slot can be configured, swapped and deleted.  A host    *)
(* selects the application, or reads its status, before it configures it.  *)
(***************************************************************************)
EXTENDS Integers, FiniteSets

CONSTANTS
    None,         \* no file, nothing to write, nothing typed
    MaxCounter,   \* the largest counter counted up to, 0x7fff in the code
    Word,         \* values of a counter, 2^16 in the code
    Sessions,     \* values of a session counter, 256 in the code
    MaxFactor,    \* bound: moving factor of HOTP
    Seeds,        \* first moving factors, from the configuration's uid
    MaxKeys       \* bound: configurations ever made

ASSUME OtpAssumption ==
    /\ MaxCounter \in Nat /\ MaxCounter > 1 /\ Word \in Nat /\ Word > MaxCounter
    /\ Sessions \in Nat /\ Sessions > 1
    /\ MaxFactor \in Nat /\ Seeds \subseteq 0..MaxFactor /\ MaxKeys \in Nat

VARIABLES
    slot,     \* flash: EF_OTP_SLOT1 and EF_OTP_SLOT2
    session,  \* RAM: session_counter
    scan,     \* RAM: the slot init_otp comes to next; Done is scanned
    todo,     \* RAM: the slot and record a handler has still to write
    keys,     \* history: configurations ever made
    live,     \* history: keys configured and not deleted or overwritten
    last,     \* history: what was typed last, for each key
    excused,  \* history: keys whose order nothing in the code vouches for
    cut       \* history: the power was lost within a swap

vars == <<slot, session, scan, todo, keys, live, last, excused, cut>>

Slot == {1, 2}
Other(s) == 3 - s
Done == 3
Kinds == {"yubico", "hotp", "static"}
Limit == IF Word > MaxFactor THEN Word ELSE MaxFactor + 1
Records == [key : 1..MaxKeys, kind : Kinds, seed : Seeds, count : 0..Limit]
Writes == [slot : Slot, rec : Records \cup {None}, first : BOOLEAN, swap : BOOLEAN]
Passwords == (0..Limit) \X (0..(Sessions - 1))

ASSUME NoneAssumption == None \notin Records \cup Writes \cup Passwords

TypeOK ==
    /\ slot \in [Slot -> Records \cup {None}]
    /\ \A s \in Slot : slot[s] # None /\ slot[s].kind = "yubico" =>
          slot[s].count < Word /\ (slot[s].key \in excused \/ slot[s].count <= MaxCounter)
    /\ session \in [Slot -> 0..(Sessions - 1)] /\ scan \in Slot \cup {Done}
    /\ todo \in Writes \cup {None}
    /\ keys \in 0..MaxKeys /\ live \subseteq 1..keys /\ excused \subseteq 1..keys
    /\ last \in [1..MaxKeys -> Passwords \cup {None}] /\ cut \in BOOLEAN

Init ==
    /\ slot = [s \in Slot |-> None] /\ session = [s \in Slot |-> 0]
    /\ scan = 1 /\ todo = None
    /\ keys = 0 /\ live = {} /\ last = [k \in 1..MaxKeys |-> None] /\ excused = {} /\ cut = FALSE

-----------------------------------------------------------------------------
KeysIn(S) == {slot[s].key : s \in {t \in S : slot[t] # None}}

(* Beyond the limit it stays, but for the last one, which wraps to 0 *)
NextCount(c) == LET next == (c + 1) % Word IN IF next <= MaxCounter THEN next ELSE c

Idle == scan = Done /\ todo = None

PowerLoss ==
    /\ session' = [s \in Slot |-> 0] /\ scan' = 1 /\ todo' = None
    /\ excused' = excused \cup (IF todo # None /\ todo.first THEN {todo.rec.key} ELSE {})
    /\ cut' = (cut \/ (todo # None /\ todo.swap))
    /\ UNCHANGED <<slot, keys, live, last>>

\* Mutant: the slots are scanned and not counted up.
CountedMut(rec) == rec
Counted(rec) ==
    IF rec # None /\ rec.kind = "yubico" THEN [rec EXCEPT !.count = NextCount(@)] ELSE rec

(* init_otp, before a press and whenever the host opens the device *)
InitOtp ==
    /\ scan # Done
    /\ LET rec == slot[scan]
       IN  /\ slot' = [slot EXCEPT ![scan] = Counted(rec)]
           /\ excused' = excused \cup (IF rec # None /\ rec.kind = "yubico" /\ NextCount(rec.count) <= rec.count
                                       THEN {rec.key} ELSE {})
    /\ scan' = scan + 1
    /\ UNCHANGED <<session, todo, keys, live, last, cut>>

(* otp_status, the first thing of a selection, takes the slots for scanned *)
(* when init_otp has not run since the start: nothing is counted up.       *)
Status ==
    /\ scan = 1 /\ scan' = Done
    /\ excused' = excused \cup KeysIn(Slot)
    /\ UNCHANGED <<slot, session, todo, keys, live, last, cut>>

-----------------------------------------------------------------------------
(* otp_button_pressed *)

Current(rec) ==
    CASE rec.kind = "yubico" -> IF rec.count = 0 THEN 1 ELSE rec.count
      [] rec.kind = "hotp" -> IF rec.count = 0 THEN rec.seed ELSE rec.count
      [] OTHER -> 0

(* What the handler writes after typing.  A power loss before it makes the *)
(* next start type the same again if it is the first counter of a key.     *)
After(s, count, first) ==
    [slot |-> s, rec |-> [slot[s] EXCEPT !.count = count], first |-> first, swap |-> FALSE]

PressYubico(s) ==
    /\ Idle /\ slot[s] # None /\ slot[s].kind = "yubico"
    /\ LET rec == slot[s]
           c == Current(rec)
           wraps == session[s] + 1 = Sessions
       IN  /\ last' = [last EXCEPT ![rec.key] = <<c, session[s]>>]
           /\ session' = [session EXCEPT ![s] = (@ + 1) % Sessions]
           /\ todo' = IF rec.count = 0 \/ (wraps /\ NextCount(c) # c)
                      THEN After(s, IF wraps THEN NextCount(c) ELSE c, rec.count = 0)
                      ELSE None
           /\ excused' = excused \cup (IF wraps /\ NextCount(c) <= c THEN {rec.key} ELSE {})
    /\ UNCHANGED <<slot, scan, keys, live, cut>>

PressHotp(s) ==
    /\ Idle /\ slot[s] # None /\ slot[s].kind = "hotp"
    /\ LET f == Current(slot[s])
       IN  /\ f <= MaxFactor
           /\ last' = [last EXCEPT ![slot[s].key] = <<f, 0>>]
           /\ todo' = After(s, f + 1, TRUE)
    /\ UNCHANGED <<slot, session, scan, keys, live, excused, cut>>

Write ==
    /\ todo # None
    /\ slot' = [slot EXCEPT ![todo.slot] = todo.rec]
    /\ todo' = None
    /\ UNCHANGED <<session, scan, keys, live, last, excused, cut>>

-----------------------------------------------------------------------------
(* cmd_otp *)

Configure(s, kind, seed) ==
    /\ Idle /\ keys < MaxKeys
    /\ keys' = keys + 1
    /\ slot' = [slot EXCEPT ![s] = [key |-> keys + 1, kind |-> kind, seed |-> seed, count |-> 0]]
    /\ live' = (live \cap KeysIn({Other(s)})) \cup {keys + 1}
    /\ UNCHANGED <<session, scan, todo, last, excused, cut>>

DeleteSlot(s) ==
    /\ Idle
    /\ slot' = [slot EXCEPT ![s] = None] /\ live' = live \cap KeysIn({Other(s)})
    /\ UNCHANGED <<session, scan, todo, keys, last, excused, cut>>

(* The file is written without its counter: what is read as one afterwards *)
(* is whatever lies behind the file, chosen here once.                     *)
Update(s) ==
    /\ Idle /\ slot[s] # None
    /\ \E c \in 0..(IF slot[s].kind = "yubico" THEN Word - 1 ELSE MaxFactor) :
          slot' = [slot EXCEPT ![s].count = c]
    /\ excused' = excused \cup KeysIn({s})
    /\ UNCHANGED <<session, scan, todo, keys, live, last, cut>>

\* Mutant: the first slot is kept only if there was a second.
SecondMut == IF slot[2] # None THEN slot[1] ELSE None
Second == slot[1]

(* The first slot is written, or deleted, and then the second; the session *)
(* counters stay where they are.                                           *)
Swap ==
    /\ Idle
    /\ slot' = [slot EXCEPT ![1] = slot[2]]
    /\ todo' = [slot |-> 2, rec |-> Second, first |-> FALSE, swap |-> TRUE]
    /\ excused' = excused \cup KeysIn(Slot)
    /\ UNCHANGED <<session, scan, keys, live, last, cut>>

(* initialize_flash and init_fido, with scanned as it was *)
FactoryReset ==
    /\ Idle
    /\ slot' = [s \in Slot |-> None] /\ live' = {}
    /\ UNCHANGED <<session, scan, todo, keys, last, excused, cut>>

Next ==
    \/ PowerLoss \/ InitOtp \/ Status \/ Write \/ Swap \/ FactoryReset
    \/ \E s \in Slot : PressYubico(s) \/ PressHotp(s) \/ Update(s) \/ DeleteSlot(s)
    \/ \E s \in Slot, kind \in Kinds, seed \in Seeds : Configure(s, kind, seed)

Spec == Init /\ [][Next]_vars

-----------------------------------------------------------------------------
(* Properties *)

Before(p, q) == p[1] < q[1] \/ (p[1] = q[1] /\ p[2] < q[2])

Upcoming(s) ==
    <<Current(slot[s]), IF slot[s].kind = "yubico" THEN session[s] ELSE 0>>

(* Whenever the button can be pressed the password it types comes after    *)
(* every one typed with the same key, across wraps of the session counter, *)
(* restarts at any point, and other configurations in the slot, unless the *)
(* host swapped or updated the slot or asked for the status before the     *)
(* start counted it up, the power failed between typing and writing a HOTP *)
(* factor or a key's first counter, or the counter ran out                 *)
(* (otp.c:161-182, 204-318, 336-340).                                      *)
NextIsNew ==
    Idle => \A s \in Slot :
        slot[s] # None /\ slot[s].kind # "static" /\ slot[s].key \notin excused
            /\ last[slot[s].key] # None => Before(last[slot[s].key], Upcoming(s))

(* A configuration stays in one slot or the other until it is deleted or   *)
(* overwritten: no press, swap or restart loses it, as long as the power   *)
(* does not fail between the two writes of a swap (otp.c:446-472).         *)
ConfigsKept == todo = None /\ ~cut => KeysIn(Slot) = live

=============================================================================
