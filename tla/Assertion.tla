----------------------------- MODULE Assertion -----------------------------
(***************************************************************************)
(* authenticatorGetAssertion and authenticatorGetNextAssertion             *)
(* (cbor_get_assertion.c).  A request for a relying party loads up to      *)
(* MaxList credentials, drops those whose credProtect the request does not *)
(* meet, sorts the rest by time of creation and asserts the first; the     *)
(* others wait in RAM (credsx), copies of the records, for requests that   *)
(* present neither PIN nor user again.  In between credentials come and    *)
(* go, other requests run, half a minute passes, or the power is lost.     *)
(*                                                                         *)
(* The time of creation is board_millis(), counted from the last start of  *)
(* the device (credential.c:109), and all there is to tell the order; to   *)
(* make a credential takes more than a millisecond.  Whether a request     *)
(* presents a token that serves its relying party, and what becomes of the *)
(* token, is PinToken's: here the request has its user verified or not.    *)
(* A request that fails before the list is written, or answers with the    *)
(* only credential there is, changes nothing of this state.                *)
(***************************************************************************)
EXTENDS CredFiles, SequencesExt

CONSTANTS
    None,      \* no credential in a slot, no request that wrote a list
    MaxList,   \* MAX_CREDENTIAL_COUNT_IN_LIST, 16 in the code
    Protects,  \* the values of credProtect in use, of 1, 2 and 3
    MaxMade,   \* bound: credentials ever made
    MaxBoots,  \* bound: starts of the device
    MaxAllow   \* bound: entries of an allow list

ASSUME AssertionAssumption ==
    /\ Protects \subseteq 1..3 /\ Protects # {}
    /\ {MaxMade, MaxBoots, MaxList, MaxAllow} \subseteq Nat \ {0}
    /\ None \notin [id : 1..MaxMade, rp : RPs, created : 0..MaxMade, protect : Protects, boot : 1..MaxBoots]
             \cup [rp : RPs, uv : BOOLEAN, listed : BOOLEAN, twice : SUBSET (1..MaxMade), answered : BOOLEAN]

UvWithList == 2  \* CRED_PROT_UV_OPTIONAL_WITH_LIST
UvRequired == 3  \* CRED_PROT_UV_REQUIRED

VARIABLES
    store,    \* flash: the record in each EF_CRED file
    wallet,   \* non-resident credentials, kept by the relying parties
    clock,    \* board_millis()
    credsx,   \* RAM: the list
    counter,  \* RAM: credentialCounter
    total,    \* RAM: numberOfCredentialsx
    uvx,      \* RAM: FIDO2_AUT_FLAG_UV in flagsx
    late,     \* RAM: more than 30 s since timerx
    made,     \* history: credentials ever made
    boot,     \* history: starts of the device
    writer,   \* history: the request that wrote the list
    given     \* history: the credentials of the list asserted so far

records == <<store, wallet, clock, made, boot>>
list == <<credsx, counter, total, uvx, late, writer, given>>
assertionVars == <<records, list>>

Kept == [id : 1..MaxMade, rp : RPs, created : 0..MaxMade, protect : Protects, boot : 1..MaxBoots]
Requests == [rp : RPs, uv : BOOLEAN, listed : BOOLEAN, twice : SUBSET (1..MaxMade), answered : BOOLEAN]

AssertionTypeOK ==
    /\ store \in [Slot -> Kept \cup {None}] /\ wallet \subseteq Kept
    /\ made \in 0..MaxMade /\ clock \in 0..made /\ boot \in 1..MaxBoots
    /\ {credsx, given} \subseteq Seq(Kept)
    /\ total = Len(credsx)
    /\ counter \in Nat /\ (counter <= total \/ counter = 1)
    /\ {uvx, late} \subseteq BOOLEAN
    /\ writer \in Requests \cup {None}

AssertionInit ==
    /\ store = [s \in Slot |-> None] /\ wallet = {}
    /\ clock = 0 /\ boot = 1 /\ made = 0
    /\ credsx = <<>> /\ counter = 1 /\ total = 0
    /\ uvx = FALSE /\ late = FALSE
    /\ writer = None /\ given = <<>>

-----------------------------------------------------------------------------
(* The credentials of an assertion *)

(* The number in place k of S, and the entries of a list in these places *)
At(S, k) == CHOOSE i \in S : Place(S, i) = k
Filtered(cs, S) == [k \in 1..Cardinality(S) |-> cs[At(S, k)]]

Swapped(cs, i, j) ==
    [k \in DOMAIN cs |-> cs[IF k = i THEN j ELSE IF k = j THEN i ELSE k]]

FilesFor(rp) == {s \in Slot : store[s] # None /\ store[s].rp = rp}

\* Mutant: a full list drops its last entry.
DiscoveredMut(rp) ==
    LET n == Cardinality(FilesFor(rp))
    IN  [k \in 1..(IF n < MaxList THEN n ELSE MaxList - 1) |-> store[At(FilesFor(rp), k)]]
\* Mutant: credProtect 2 is not enforced.
PermittedMut(c, uv, allow) == c.protect = UvRequired => uv
\* Mutant: the oldest first.
ExchangedMut(cs, i, j) ==
    IF cs[j].created < cs[i].created THEN Swapped(cs, i, j) ELSE cs

(* A list without entries is no list: every resident credential, in order  *)
(* of slots.  An entry that names none of this relying party is passed by. *)
Known == {store[s] : s \in {t \in Slot : store[t] # None}} \cup wallet
Named(rp, allow) ==
    LET names == Filtered(allow, {k \in DOMAIN allow : \E c \in Known : c.id = allow[k] /\ c.rp = rp})
    IN  [k \in DOMAIN names |-> CHOOSE c \in Known : c.id = names[k]]

Discovered(rp) ==
    LET n == Cardinality(FilesFor(rp))
    IN  [k \in 1..(IF n < MaxList THEN n ELSE MaxList) |-> store[At(FilesFor(rp), k)]]

Loaded(rp, allow) == IF allow = <<>> THEN Discovered(rp) ELSE Named(rp, allow)

(* resident: set by the first loaded credential that has a file *)
Resident(loaded, allow) ==
    allow = <<>> \/ \E k \in DOMAIN loaded : \E s \in Slot : store[s] = loaded[k]

Permitted(c, uv, allow) ==
    /\ c.protect = UvRequired => uv
    /\ c.protect = UvWithList => uv \/ allow # <<>>

(* The exchange of every pair i < j that stands the wrong way round *)
Exchanged(cs, i, j) ==
    IF cs[j].created > cs[i].created THEN Swapped(cs, i, j) ELSE cs

(* The inner loop for an i, and the outer loop *)
Pass(cs, i) ==
    LET upTo[j \in i..Len(cs)] == IF j = i THEN cs ELSE Exchanged(upTo[j - 1], i, j)
    IN  upTo[Len(cs)]
Sorted(cs) ==
    LET after[i \in 0..Len(cs)] == IF i = 0 THEN cs ELSE Pass(after[i - 1], i)
    IN  after[Len(cs)]

-----------------------------------------------------------------------------
(* Credentials come and go *)

FirstFree == {s \in Slot : store[s] = None /\ \A t \in 1..(s - 1) : store[t] # None}

(* A resident credential takes the first free file, or that of the user's  *)
(* older credential at the same relying party.                             *)
MakeCredential(rp, protect, resident) ==
    LET new == [id |-> made + 1, rp |-> rp, created |-> clock, protect |-> protect, boot |-> boot]
    IN  /\ made < MaxMade
        /\ made' = made + 1 /\ clock' = clock + 1
        /\ IF resident
           THEN /\ \E s \in FirstFree \cup {t \in Slot : store[t] # None /\ store[t].rp = rp} :
                       store' = [store EXCEPT ![s] = new]
                /\ UNCHANGED wallet
           ELSE wallet' = wallet \cup {new} /\ UNCHANGED store
        /\ UNCHANGED <<list, boot>>

DeleteCredential(s) ==
    /\ store[s] # None
    /\ store' = [store EXCEPT ![s] = None]
    /\ UNCHANGED <<wallet, clock, list, made, boot>>

-----------------------------------------------------------------------------
(* authenticatorGetAssertion *)

Chosen(rp, allow, uv) ==
    LET loaded == Loaded(rp, allow)
        sorted == Sorted(Filtered(loaded, {k \in DOMAIN loaded : Permitted(loaded[k], uv, allow)}))
        one == Resident(loaded, allow) /\ Len(allow) > 1 /\ sorted # <<>>
    IN  IF one THEN <<sorted[1]>> ELSE sorted

(* What an allow list names more than once.  The code does not look for    *)
(* repetitions: each entry is loaded into a place of its own.              *)
Repeated(allow) ==
    {allow[k] : k \in {l \in DOMAIN allow : \E j \in DOMAIN allow : j # l /\ allow[j] = allow[l]}}

(* The list is written only when there is more than one to choose from,    *)
(* and an extension may still fail the request after that.  A request with *)
(* one credential leaves the list of an earlier one as it was.             *)
GetAssertion(rp, allow, uv) ==
    LET cs == Chosen(rp, allow, uv)
    IN  /\ Len(cs) > 1
        /\ credsx' = cs /\ counter' = 1 /\ total' = Len(cs)
        /\ uvx' = uv /\ late' = FALSE
        /\ \E fails \in BOOLEAN :
              /\ writer' = [rp |-> rp, uv |-> uv, listed |-> allow # <<>>, twice |-> Repeated(allow),
                            answered |-> ~fails]
              /\ given' = (IF fails THEN <<>> ELSE <<cs[1]>>)
        /\ UNCHANGED records

-----------------------------------------------------------------------------
(* authenticatorGetNextAssertion *)

Forget == credsx' = <<>> /\ counter' = 0 /\ total' = 0 /\ uvx' = FALSE /\ late' = FALSE

\* Mutant: the entry already asserted again.
GetNextAssertionMut ==
    /\ counter < total /\ ~late
    /\ given' = Append(given, credsx[counter])
    /\ IF counter + 1 = total
       THEN Forget
       ELSE counter' = counter + 1 /\ late' = FALSE /\ UNCHANGED <<credsx, total, uvx>>
    /\ UNCHANGED <<records, writer>>

GetNextAssertion ==
    /\ counter < total /\ ~late
    /\ given' = Append(given, credsx[counter + 1])
    /\ IF counter + 1 = total
       THEN Forget
       ELSE counter' = counter + 1 /\ late' = FALSE /\ UNCHANGED <<credsx, total, uvx>>
    /\ UNCHANGED <<records, writer>>

(* Nothing left, too late, or the assertion failed *)
GetNextFails ==
    /\ Forget /\ writer' = None /\ given' = <<>>
    /\ UNCHANGED records

-----------------------------------------------------------------------------
(* Time and power *)

HalfMinute ==
    /\ counter < total /\ late' = TRUE
    /\ UNCHANGED <<records, credsx, counter, total, uvx, writer, given>>

Restart ==
    /\ boot < MaxBoots /\ boot' = boot + 1 /\ clock' = 0
    /\ credsx' = <<>> /\ counter' = 1 /\ total' = 0 /\ uvx' = FALSE /\ late' = FALSE
    /\ writer' = None /\ given' = <<>>
    /\ UNCHANGED <<store, wallet, made>>

(* Allow lists, of lost and foreign credentials too, with repetitions and  *)
(* in any order.  One of more than MaxList entries, the number getInfo     *)
(* announces, is not modelled: nothing refuses it, and its entries are     *)
(* written past the end of allowList and creds (lines 123, 318), arrays on *)
(* the stack, after which C says nothing of what the program does.         *)
AllowLists == {a \in UNION {[1..n -> 1..made] : n \in 0..MaxAllow} : Len(a) <= MaxList}

AssertionNext ==
    \/ \E rp \in RPs, p \in Protects, resident \in BOOLEAN : MakeCredential(rp, p, resident)
    \/ \E s \in Slot : DeleteCredential(s)
    \/ \E rp \in RPs, a \in AllowLists, uv \in BOOLEAN : GetAssertion(rp, a, uv)
    \/ GetNextAssertion \/ GetNextFails
    \/ HalfMinute \/ Restart

AssertionSpec == AssertionInit /\ [][AssertionNext]_assertionVars

-----------------------------------------------------------------------------
(* Properties *)

(* The user is offered each account once and the newest first: two answers *)
(* from one list are the same credential only if the request itself named  *)
(* it twice, and of two made since the same start of the device the newer  *)
(* is answered first (cbor_get_assertion.c:55-57, 291-323, 424-434;        *)
(* credential.c:109).                                                      *)
EachOnceNewestFirst ==
    \A i, j \in DOMAIN given : i < j =>
        /\ given[i].id = given[j].id => given[i].id \in writer.twice
        /\ given[i].boot = given[j].boot => given[i].id >= given[j].id

(* numberOfCredentials is a promise: as long as the list lasts, the        *)
(* answers so far are its beginning and what is still to come is the rest  *)
(* of the number the first answer announced, whatever credentials were     *)
(* deleted, made or asserted by other requests in between                  *)
(* (cbor_get_assertion.c:49, 470-484, 492).                                *)
PromiseKept ==
    counter < total /\ writer.answered => given = SubSeq(credsx, 1, counter)

(* A request that presented no token is never answered, then or by the     *)
(* requests that take up its list, with an account that wants its user     *)
(* verified or with another relying party's, and later answers say that    *)
(* the user was verified only if that request had it so                    *)
(* (cbor_get_assertion.c:361-388, 482, 491).                               *)
ListLawful ==
    counter < total =>
        /\ uvx = writer.uv
        /\ \A k \in DOMAIN credsx :
              /\ credsx[k].rp = writer.rp
              /\ credsx[k].protect = UvRequired => writer.uv
              /\ credsx[k].protect = UvWithList => writer.uv \/ writer.listed

(* A request without an allow list is offered every account the relying    *)
(* party may see, if it has no more than MaxList of them, with or without  *)
(* those it may not see among them (cbor_get_assertion.c:344-388).         *)
OffersAll ==
    \A rp \in RPs, uv \in BOOLEAN :
        LET mine == {store[s] : s \in {t \in Slot : store[t] # None /\ store[t].rp = rp}}
        IN  Cardinality(mine) <= MaxList =>
              ToSet(Chosen(rp, <<>>, uv)) = {c \in mine : c.protect = UvRequired \/ c.protect = UvWithList => uv}

=============================================================================
