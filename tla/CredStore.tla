----------------------------- MODULE CredStore -----------------------------
(***************************************************************************)
(* The discoverable credentials: credential_store (credential.c) and       *)
(* authenticatorCredentialManagement (cbor_cred_mgmt.c).  Each credential  *)
(* has a file EF_CRED+i, each relying party a file EF_RP+i that counts its *)
(* credentials in one byte; storing and deleting write one after the       *)
(* other, and the power may be lost in between.  Enumeration keeps its     *)
(* position in RAM between requests, and other requests may come between.  *)
(*                                                                         *)
(* A credential is its relying party and its user: the identifier is new   *)
(* for every credential and picks exactly one file.  Whether the request   *)
(* is authorised is decided by PinToken.                                   *)
(***************************************************************************)
EXTENDS CredFiles

CONSTANTS
    Users,    \* user identifiers
    Clash,    \* pairs of them of which one is a prefix of the other
    Free,     \* a slot without a file
    NoHash,   \* rpIdHashx was never set
    Freed     \* rpIdHashx points to memory that was given back

ASSUME ClashAssumption ==
    /\ Clash \subseteq Users \X Users
    /\ \A u, v \in Users : <<u, u>> \in Clash /\ (<<u, v>> \in Clash => <<v, u>> \in Clash)
\* There are as many slots as a byte has values.
Byte == 0..(Slots - 1)
ASSUME FreeAssumption ==
    /\ Free \notin [rp : RPs, user : Users] \cup [rp : RPs, n : Byte]
    /\ NoHash # Freed /\ {NoHash, Freed} \cap RPs = {}

VARIABLES
    cred,         \* flash: the credential in each EF_CRED file
    rpFile,       \* flash: the relying party and count in each EF_RP file
    todo,         \* RAM: the count a running request has still to write
    rpCounter,    \* RAM: rp_counter
    rpTotal,      \* RAM: rp_total
    credCounter,  \* RAM: cred_counter
    credTotal,    \* RAM: cred_total
    hash,         \* RAM: rpIdHashx
    rpsSeen,      \* history: relying parties replied since enumerateRPsBegin
    credsSeen,    \* history: slots replied since enumerateCredentialsBegin
    asked,        \* history: relying party of the last enumerateCredentialsBegin
    stale,        \* history: enumerations that a change or failure interrupted
    cut           \* history: the power was lost between two writes

files == <<cred, rpFile, todo>>
rpEnum == <<rpCounter, rpTotal>>
credEnum == <<credCounter, credTotal, hash>>
seen == <<rpsSeen, credsSeen, asked, stale>>
vars == <<files, rpEnum, credEnum, seen, cut>>

Idle == [op |-> "none", rp |-> NoHash]

TypeOK ==
    /\ cred \in [Slot -> {Free} \cup [rp : RPs, user : Users]]
    /\ rpFile \in [Slot -> {Free} \cup [rp : RPs, n : Byte]]
    /\ todo \in [op : {"none", "add", "sub"}, rp : RPs \cup {NoHash}]
    /\ {rpCounter, rpTotal, credCounter, credTotal} \subseteq Byte
    /\ hash \in RPs \cup {NoHash, Freed}
    /\ asked \in RPs \cup {NoHash}

-----------------------------------------------------------------------------
Used(f) == {i \in Slot : f[i] # Free}
Lowest(S) == CHOOSE i \in S : \A j \in S : i <= j
CredsOf(r) == {i \in Used(cred) : cred[i].rp = r}
FilesOf(r) == {i \in Used(rpFile) : rpFile[i].rp = r}
Listed == {i \in Used(rpFile) : rpFile[i].n > 0}

\* Mutant: the position is that of the last reply, not of the next.
NthMut(S, counter) ==
    LET hits == {i \in S : Cardinality({j \in S : j < i}) % Slots = counter}
    IN  IF hits = {} THEN 0 ELSE Lowest(hits)

\* The slot whose file the loop with `++skip == counter' picks: skip is a byte.
Nth(S, counter) ==
    LET hits == {i \in S : Place(S, i) % Slots = counter}
    IN  IF hits = {} THEN 0 ELSE Lowest(hits)

\* A request other than the enumerations changes what they walk over: what
\* they replied is of no interest any more.
Interrupt == stale' = {"rp", "cred"} /\ rpsSeen' = {} /\ credsSeen' = {} /\ asked' = NoHash

Init ==
    /\ cred = [i \in Slot |-> Free]
    /\ rpFile = [i \in Slot |-> Free]
    /\ todo = Idle
    /\ rpCounter = 1 /\ rpTotal = 0 /\ rpsSeen = {}
    /\ credCounter = 1 /\ credTotal = 0 /\ credsSeen = {}
    /\ hash = NoHash /\ asked = NoHash
    /\ stale = {"rp", "cred"}
    /\ cut = FALSE

-----------------------------------------------------------------------------
\* The credentials that a new one replaces: the user identifiers are compared
\* up to the length of the shorter one.
Matches(r, u) == {i \in CredsOf(r) : <<cred[i].user, u>> \in Clash}

\* Mutant: the count is incremented for a replaced credential as well.
PutMut(r, u, i) ==
    /\ cred' = [cred EXCEPT ![i] = [rp |-> r, user |-> u]]
    /\ todo' = [op |-> "add", rp |-> r]

\* The first of the two writes of credential_store.
Put(r, u, i) ==
    /\ cred' = [cred EXCEPT ![i] = [rp |-> r, user |-> u]]
    /\ todo' = IF Matches(r, u) = {} THEN [op |-> "add", rp |-> r] ELSE Idle

Store(r, u) ==
    /\ todo = Idle
    /\ IF Matches(r, u) # {} THEN Put(r, u, Lowest(Matches(r, u)))
       ELSE /\ Used(cred) # Slot
            /\ Put(r, u, Lowest(Slot \ Used(cred)))
    /\ Interrupt
    /\ UNCHANGED <<rpFile, rpEnum, credEnum, cut>>

\* updateUserInformation stores the credential anew for its own user.
UpdateUser(i) ==
    /\ todo = Idle
    /\ i \in Used(cred)
    /\ Put(cred[i].rp, cred[i].user, Lowest(Matches(cred[i].rp, cred[i].user)))
    /\ Interrupt
    /\ UNCHANGED <<rpFile, rpEnum, credEnum, cut>>

\* The second write: no free file for a new relying party is an error.
AddRp ==
    /\ todo.op = "add"
    /\ LET r == todo.rp
           i == Lowest(IF FilesOf(r) # {} THEN FilesOf(r) ELSE Slot \ Used(rpFile))
       IN  rpFile' = IF FilesOf(r) = {} /\ Used(rpFile) = Slot THEN rpFile
                     ELSE [rpFile EXCEPT ![i] = [rp |-> r,
                              n |-> IF i \in Used(rpFile) THEN (rpFile[i].n + 1) % Slots ELSE 1]]
    /\ todo' = Idle
    /\ UNCHANGED <<cred, rpEnum, credEnum, seen, cut>>

Delete(i) ==
    /\ todo = Idle
    /\ i \in Used(cred)
    /\ cred' = [cred EXCEPT ![i] = Free]
    /\ todo' = [op |-> "sub", rp |-> cred[i].rp]
    /\ Interrupt
    /\ UNCHANGED <<rpFile, rpEnum, credEnum, cut>>

\* A count that reaches zero deletes the file; one that was zero wraps.
Less(f) == IF f.n = 1 THEN Free ELSE [f EXCEPT !.n = (@ - 1) % Slots]

SubRp ==
    /\ todo.op = "sub"
    /\ rpFile' = IF FilesOf(todo.rp) = {} THEN rpFile
                 ELSE [rpFile EXCEPT ![Lowest(FilesOf(todo.rp))] = Less(@)]
    /\ todo' = Idle
    /\ UNCHANGED <<cred, rpEnum, credEnum, seen, cut>>

-----------------------------------------------------------------------------
EnumerateRPsBegin ==
    /\ todo = Idle
    /\ rpTotal' = Cardinality(Listed) % Slots
    /\ IF Listed = {} THEN rpCounter' = 1 /\ rpsSeen' = {}
       ELSE rpCounter' = 2 % Slots /\ rpsSeen' = {rpFile[Lowest(Listed)].rp}
    /\ stale' = stale \ {"rp"}
    /\ UNCHANGED <<files, credEnum, credsSeen, asked, cut>>

EnumerateRPsNext ==
    /\ todo = Idle
    /\ rpCounter <= rpTotal
    /\ LET i == Nth(Listed, rpCounter) IN
       /\ i # 0
       /\ rpsSeen' = rpsSeen \cup {rpFile[i].rp}
    /\ rpCounter' = (rpCounter + 1) % Slots
    /\ UNCHANGED <<files, rpTotal, credEnum, credsSeen, asked, stale, cut>>

\* opens: the device key can be loaded, so the credential can be decrypted.
EnumerateCredsBegin(r, opens) ==
    /\ todo = Idle
    /\ credTotal' = Cardinality(CredsOf(r)) % Slots
    /\ IF CredsOf(r) # {} /\ opens
       THEN /\ asked' = r
            /\ credCounter' = 2 % Slots
            /\ credsSeen' = {Lowest(CredsOf(r))}
            /\ hash' = IF credCounter' <= credTotal' THEN r ELSE hash
            /\ stale' = stale \ {"cred"}
       ELSE /\ credCounter' = 1
            /\ asked' = NoHash
            /\ credsSeen' = {}
            /\ stale' = stale \cup {"cred"}
            /\ UNCHANGED hash
    /\ UNCHANGED <<files, rpEnum, rpsSeen, cut>>

\* Mutant: the hash is given back with every reply.
KeepMut(counter) == Freed

\* The reply keeps rpIdHashx while more credentials are to come.
Keep(counter) == IF counter <= credTotal THEN hash ELSE Freed

\* A hash that was given back may still compare equal to any relying party's.
Compared == IF hash \in RPs THEN {hash} ELSE RPs \cup {NoHash}

EnumerateCredsNext(r, opens) ==
    /\ todo = Idle
    /\ credCounter <= credTotal
    /\ r \in Compared
    /\ LET i == Nth(CredsOf(r), credCounter) IN
       IF i # 0 /\ opens
       THEN /\ credCounter' = (credCounter + 1) % Slots
            /\ credsSeen' = credsSeen \cup {i}
            /\ hash' = Keep(credCounter')
            /\ UNCHANGED <<asked, stale>>
       ELSE /\ hash' = Freed
            /\ stale' = stale \cup {"cred"}
            /\ credsSeen' = {}
            /\ asked' = NoHash
            /\ UNCHANGED credCounter
    /\ UNCHANGED <<files, rpEnum, rpsSeen, credTotal, cut>>

-----------------------------------------------------------------------------
ForgetEnums ==
    /\ rpCounter' = 1 /\ rpTotal' = 0
    /\ credCounter' = 1 /\ credTotal' = 0
    /\ hash' = NoHash

PowerLoss ==
    /\ cut' = (cut \/ todo # Idle)
    /\ todo' = Idle
    /\ ForgetEnums
    /\ Interrupt
    /\ UNCHANGED <<cred, rpFile>>

\* authenticatorReset erases the files; the enumerations in RAM go on.
FactoryReset ==
    /\ todo = Idle
    /\ cred' = [i \in Slot |-> Free]
    /\ rpFile' = [i \in Slot |-> Free]
    /\ cut' = FALSE
    /\ Interrupt
    /\ UNCHANGED <<todo, rpEnum, credEnum>>

Next ==
    \/ \E r \in RPs, u \in Users : Store(r, u)
    \/ \E i \in Slot : UpdateUser(i) \/ Delete(i)
    \/ AddRp \/ SubRp
    \/ EnumerateRPsBegin \/ EnumerateRPsNext
    \/ \E r \in RPs, opens \in BOOLEAN : EnumerateCredsBegin(r, opens)
    \/ \E r \in RPs \cup {NoHash}, opens \in BOOLEAN : EnumerateCredsNext(r, opens)
    \/ PowerLoss \/ FactoryReset

Spec == Init /\ [][Next]_vars

-----------------------------------------------------------------------------
\* Properties.

\* The count of a relying party is the number of its credentials, in a byte,
\* and a relying party without credentials has no file: through every series
\* of new, replaced, updated and deleted credentials, as long as the power is
\* not lost between the two writes (credential.c:340-376, cbor_cred_mgmt.c:379).
CountsExact ==
    todo = Idle /\ ~cut =>
        \A r \in RPs :
            IF CredsOf(r) = {} THEN FilesOf(r) = {}
            ELSE \E i \in Slot : FilesOf(r) = {i} /\ rpFile[i].n = Cardinality(CredsOf(r)) % Slots

\* An enumeration of relying parties that nothing interrupts ends with every
\* one that has a credential, unless a byte cannot hold their number
\* (cbor_cred_mgmt.c:159-186).
RpsComplete ==
    /\ todo = Idle /\ ~cut /\ "rp" \notin stale
    /\ rpCounter > rpTotal \/ rpCounter = 0
    /\ Cardinality(Listed) < Slots
    /\ \A r \in RPs : Cardinality(CredsOf(r)) < Slots
    => rpsSeen = {cred[i].rp : i \in Used(cred)}

\* Likewise for the credentials of one relying party, whatever enumeration of
\* relying parties runs at the same time: while some are to come the next one
\* is found and is new, and at the end none is left out
\* (cbor_cred_mgmt.c:239-262).
CredsComplete ==
    "cred" \notin stale /\ Cardinality(CredsOf(asked)) < Slots =>
        IF credCounter \in 1..credTotal
        THEN Nth(CredsOf(asked), credCounter) \in CredsOf(asked) \ credsSeen
        ELSE credsSeen = CredsOf(asked)

\* Both enumerations leave nothing out (cbor_cred_mgmt.c:132-262).
EnumerationsComplete == RpsComplete /\ CredsComplete

\* While more credentials are to come, the hash kept between the requests is
\* the one the enumeration was begun with (cbor_cred_mgmt.c:237, 341, 453).
HashLive == credCounter <= credTotal /\ "cred" \notin stale => hash = asked

\* A user has one credential at a relying party: a second one replaces it
\* (test_022_discoverable.py:207, credential.c:322).
OneCredPerUser ==
    \A i, j \in Used(cred) : cred[i] = cred[j] => i = j
=============================================================================
