-------------------------- MODULE DeviceKey_proofs ---------------------------
(***************************************************************************)
(* Proofs about DeviceKey, for every set of keys, number of signatures and *)
(* number of mishaps.                                                      *)
(***************************************************************************)
EXTENDS DeviceKey, SequenceTheorems, TLAPS

(* The rows of writes that handlers leave, by what is left of them *)
Boot2 == <<Put("cert", None), Put("zero", None)>>
Boot3 == <<Put("zero", None)>>
NewPin == Put("pin", FALSE)
Rewrap(k) == <<InClear(k), Wrapped(k)>>
Upgrade(k) == <<InClear(k), Wrapped(k), NewPin>>
Change(k) == <<InClear(k), NewPin, Wrapped(k)>>
Change2(k) == <<NewPin, Wrapped(k)>>
Change3(k) == <<Wrapped(k)>>
Both(k) == <<InClear(k), NewPin, Wrapped(k), InClear(k), Wrapped(k)>>
Both2(k) == <<NewPin, Wrapped(k), InClear(k), Wrapped(k)>>
Both3(k) == <<Wrapped(k), InClear(k), Wrapped(k)>>
Rewraps(k) == {Rewrap(k), Upgrade(k), <<Wrapped(k), NewPin>>, <<NewPin>>,
               Change(k), Change2(k), Change3(k), Both(k), Both2(k), Both3(k)}
Lock1(v, f) == <<Put("enc", v), Put("keydev", f), Put("keydev", Empty)>>
Lock2(f) == <<Put("keydev", f), Put("keydev", Empty)>>
Lock3 == <<Put("keydev", Empty)>>
Unlock1(d) == <<Put("keydev", File("raw", d)), Put("enc", None)>>
Unlock2 == <<Put("enc", None)>>
Sent(k, n, new) == [key |-> k, count |-> n, new |-> new]
Sign1(k, n, new) == <<Put("counter", n + 1), Put("reply", Sent(k, n, new))>>
Sign2(k, n, new) == <<Put("reply", Sent(k, n, new))>>

(* A file after the writes of Wipe *)
Wiped == {Empty, File("raw", Zeros), File("wiped", Zeros)}

(* Which row it is, and the values of its first two writes *)
Val(row) == Head(row).value
Second(row) == Head(Tail(row)).value
Stage(row) ==
    IF row = <<>> THEN "idle"
    ELSE CASE Head(row).do = "enc" -> IF Tail(row) = <<>> THEN "unlock2" ELSE "lock1"
           [] Head(row).do = "keydev" ->
                 IF Val(row).form \in {"f1", "f2"} THEN "rewrap"
                 ELSE IF Tail(row) = <<>> THEN "lock3"
                 ELSE IF Head(Tail(row)).do = "enc" THEN "unlock1" ELSE "lock2"
           [] OTHER -> Head(row).do

Counts == 0..MaxCount - 1
Flags == BOOLEAN
JobInv ==
    \/ job \in {<<>>, Boot, Boot2, Boot3, Lock3, Unlock2}
    \/ \E k \in Values : job \in Rewraps(k) \cup {Unlock1(k)}
    \/ \E v \in Values \cup {Broken}, f \in Wiped : job \in {Lock1(v, f), Lock2(f)}
    \/ \E k \in Values, n \in Counts, new \in Flags : job \in {Sign1(k, n, new), Sign2(k, n, new)}
TypeInv == TypeOK /\ JobInv

(* The keys a signature can come to carry: those in the files, in RAM and  *)
(* in what is still to be written                                          *)
KeyOf(p) == IF p.do \in {"keydev", "reply"} THEN p.value.key ELSE IF p.do = "enc" THEN p.value ELSE None
KeysOf(row) == {KeyOf(row[i]) : i \in DOMAIN row}
AtHand == Keys \cap ({keydev.key, keydev_enc} \cup KeysOf(job) \cup Because(has_keydev_dec, keydev_dec))

(* No key is met that was not generated, and one that was not has sent     *)
(* nothing.                                                                *)
UsedInv ==
    /\ AtHand \cup (Keys \cap (made \cup {copy})) \subseteq used
    /\ \A k \in Keys \ used : seen[k] = 0

(* The device has a key except while scan_files makes the first one. *)
PresentInv ==
    /\ keydev = Empty /\ keydev_enc = None => Stage(job) = "genkey" /\ certdev = None
    /\ Stage(job) \in {"lock2", "lock3"} => keydev_enc # None
    /\ Stage(job) = "unlock2" => keydev # Empty

(* Until the counter is there nothing but scan_files has run since the     *)
(* reset, and the key in the file is the one it made.                      *)
BootInv == "carried" \notin odd =>
    /\ certdev = None => counter = None
    /\ counter = None =>
          /\ Stage(job) \in {"genkey", "cert", "zero"} /\ ~has_keydev_dec /\ keydev_enc = None
          /\ keydev = Empty => Stage(job) = "genkey"
          /\ keydev # Empty => keydev.form = "f1" /\ keydev.key \in Keys
          /\ Stage(job) = "zero" => certdev # None

(* The counter is above everything a key at hand has sent; a reply under   *)
(* way has its count to itself.                                            *)
Count == IF counter = None THEN 0 ELSE counter
CountInv == ~Unless({"carried", "restored"}) =>
    /\ repeated = {}
    /\ \A k \in AtHand : seen[k] <= Count
    /\ Stage(job) = "counter" => counter = Second(job).count
    /\ Stage(job) = "reply" =>
          /\ counter = Val(job).count + 1
          /\ Val(job).key \in Keys => seen[Val(job).key] <= Val(job).count

(* One key is at hand, and the certificate is for it. *)
CertInv == ~Unless({"carried", "restored"}) =>
    /\ certdev # None => AtHand \cup (Keys \cap made) \subseteq {certdev}
    /\ certdev = None => Keys \cap made = {}

(* The key is in one of its files, and a handler that overwrites one of    *)
(* them leaves it in the other.                                            *)
KeptInv == ~Unless({"mislocked", "doubled", "overwritten", "restored", "carried"}) =>
    /\ certdev # None => certdev \in Keys /\ OnDevice(certdev)
    /\ Stage(job) \in {"rewrap", "pin", "unlock1"} => KeysOf(job) \subseteq Keys \cup {None}
    /\ Stage(job) = "lock1" => Val(job) \in Keys
    /\ Stage(job) \in {"lock2", "lock3"} => keydev_enc \in Keys
    /\ Stage(job) = "unlock2" => keydev.form = "raw" /\ keydev.key \in Keys

(* What requests load is a key of genkey: a raw file comes from            *)
(* AUT_DISABLE only, and zeros lie in the file between two writes of a     *)
(* lock.                                                                   *)
CleanInv == ~Unless({"doubled", "blanked", "disabled", "restored", "carried", "cut"}) =>
    /\ made \subseteq Keys
    /\ has_keydev_dec => keydev_dec \in Keys
    /\ keydev_enc \in Keys \cup {None, Broken}
    /\ \/ keydev = Empty
       \/ keydev.form \in {"mkek", "f1", "f2"} /\ keydev.key \in Keys
       \/ keydev.form = "wiped" /\ keydev.key = Zeros /\ Stage(job) = "lock3"
    /\ Stage(job) \in {"rewrap", "pin"} => KeysOf(job) \subseteq Keys \cup {None}
    /\ Stage(job) = "lock1" => Val(job) \in Keys \cup {Broken} /\ Second(job).form # "raw"
    /\ Stage(job) = "lock2" => Val(job).form # "raw"
    /\ Stage(job) \notin {"unlock1", "unlock2"}
    /\ Stage(job) = "counter" => Second(job).key \in Keys
    /\ Stage(job) = "reply" => Val(job).key \in Keys

(* The key lies beside its blob only between two writes of a handler, when *)
(* a power loss is a mishap.                                               *)
LockInv == ~Unless({"spilled", "cut"}) =>
    /\ keydev_enc \in Keys => keydev.key # keydev_enc \/ Exposed
    /\ Stage(job) \in {"rewrap", "pin"} => Keys \cap KeysOf(job) \subseteq {keydev.key}

-----------------------------------------------------------------------------
(* The rows *)

LEMMA Row1 ==
    ASSUME NEW a
    PROVE  <<a>> # <<>> /\ Head(<<a>>) = a /\ Tail(<<a>>) = <<>> /\ KeysOf(<<a>>) = {KeyOf(a)}
BY DEF KeysOf

LEMMA Row2 ==
    ASSUME NEW a, NEW b
    PROVE  /\ <<a, b>> # <<>> /\ Head(<<a, b>>) = a /\ Tail(<<a, b>>) = <<b>>
           /\ KeysOf(<<a, b>>) = {KeyOf(a), KeyOf(b)}
BY DEF KeysOf

LEMMA Row3 ==
    ASSUME NEW a, NEW b, NEW c
    PROVE  /\ <<a, b, c>> # <<>> /\ Head(<<a, b, c>>) = a /\ Tail(<<a, b, c>>) = <<b, c>>
           /\ KeysOf(<<a, b, c>>) = {KeyOf(a), KeyOf(b), KeyOf(c)}
BY DEF KeysOf

LEMMA Row4 ==
    ASSUME NEW a, NEW b, NEW c, NEW d
    PROVE  /\ <<a, b, c, d>> # <<>> /\ Head(<<a, b, c, d>>) = a /\ Tail(<<a, b, c, d>>) = <<b, c, d>>
           /\ KeysOf(<<a, b, c, d>>) = {KeyOf(a), KeyOf(b), KeyOf(c), KeyOf(d)}
BY DEF KeysOf

LEMMA Row5 ==
    ASSUME NEW a, NEW b, NEW c, NEW d, NEW e
    PROVE  /\ <<a, b, c, d, e>> # <<>> /\ Head(<<a, b, c, d, e>>) = a
           /\ Tail(<<a, b, c, d, e>>) = <<b, c, d, e>>
           /\ KeysOf(<<a, b, c, d, e>>) = {KeyOf(a), KeyOf(b), KeyOf(c), KeyOf(d), KeyOf(e)}
BY DEF KeysOf

LEMMA PutFacts ==
    ASSUME NEW file, NEW value
    PROVE  LET p == Put(file, value)
           IN  /\ p.do = file /\ p.value = value
               /\ file \in {"keydev", "reply"} => KeyOf(p) = value.key
               /\ file = "enc" => KeyOf(p) = value
               /\ file \notin {"keydev", "reply", "enc"} => KeyOf(p) = None
BY DEF Put, KeyOf

LEMMA FileFacts ==
    /\ \A form, k : File(form, k).form = form /\ File(form, k).key = k
    /\ Empty.form = "none" /\ Empty.key = None
    /\ \A f \in Wiped : f.form \in {"none", "raw", "wiped"} /\ f.form \notin {"f1", "f2"} /\ f.key \in {None, Zeros} /\ f.key \notin Keys
BY KeyAssumption DEF File, Empty, Wiped, Values

LEMMA BootRows ==
    /\ Stage(Boot) = "genkey" /\ Tail(Boot) = Boot2 /\ KeysOf(Boot) = {None}
    /\ Stage(Boot2) = "cert" /\ Tail(Boot2) = Boot3 /\ KeysOf(Boot2) = {None}
    /\ Stage(Boot3) = "zero" /\ Tail(Boot3) = <<>> /\ KeysOf(Boot3) = {None}
    /\ Head(Boot).do = "genkey" /\ Head(Boot2).do = "cert" /\ Head(Boot3).do = "zero"
    /\ Stage(<<>>) = "idle" /\ KeysOf(<<>>) = {}
<1>1. Head(Boot).do = "genkey" /\ Boot # <<>> /\ Tail(Boot) = Boot2 /\ KeysOf(Boot) = {None}
    BY Row3, PutFacts DEF Boot, Boot2
<1>2. Head(Boot2).do = "cert" /\ Boot2 # <<>> /\ Tail(Boot2) = Boot3 /\ KeysOf(Boot2) = {None}
    BY Row2, PutFacts DEF Boot2, Boot3
<1>3. Head(Boot3).do = "zero" /\ Boot3 # <<>> /\ Tail(Boot3) = <<>> /\ KeysOf(Boot3) = {None}
    BY Row1, PutFacts DEF Boot3
<1>4. Stage(<<>>) = "idle" /\ KeysOf(<<>>) = {}
    BY DEF Stage, KeysOf
<1> QED
    BY <1>1, <1>2, <1>3, <1>4 DEF Stage

LEMMA RewrapPuts ==
    ASSUME NEW k
    PROVE  /\ InClear(k).do = "keydev" /\ InClear(k).value = File("f1", k) /\ KeyOf(InClear(k)) = k
           /\ Wrapped(k).do = "keydev" /\ Wrapped(k).value = File("f2", k) /\ KeyOf(Wrapped(k)) = k
           /\ NewPin.do = "pin" /\ KeyOf(NewPin) = None /\ NewPin.value \in BOOLEAN
<1>1. \A form : /\ Put("keydev", File(form, k)).do = "keydev"
                /\ Put("keydev", File(form, k)).value = File(form, k)
                /\ KeyOf(Put("keydev", File(form, k))) = k
    BY FileFacts DEF Put, KeyOf
<1>2. Put("pin", FALSE).do = "pin" /\ Put("pin", FALSE).value \in BOOLEAN
    BY Zenon DEF Put
<1>3. KeyOf(Put("pin", FALSE)) = None
    BY <1>2 DEF KeyOf
<1> QED
    BY <1>1, <1>2, <1>3 DEF InClear, Wrapped, NewPin

LEMMA RewrapRows ==
    ASSUME NEW k, NEW row \in Rewraps(k)
    PROVE  /\ row # <<>> /\ KeysOf(row) \subseteq {k, None} /\ Tail(row) \in Rewraps(k) \cup {<<>>}
           /\ KeysOf(Tail(row)) \subseteq KeysOf(row)
           /\ \/ /\ Stage(row) = "rewrap" /\ Head(row).do = "keydev" /\ k \in KeysOf(row)
                 /\ Val(row) \in {File("f1", k), File("f2", k)}
              \/ Stage(row) = "pin" /\ Head(row).do = "pin"
<1> DEFINE a == InClear(k)
           b == Wrapped(k)
           p == NewPin
           R == {<<a, b>>, <<a, b, p>>, <<b, p>>, <<p>>, <<a, p, b>>, <<p, b>>, <<b>>,
                 <<a, p, b, a, b>>, <<p, b, a, b>>, <<b, a, b>>}
<1>1. row \in R /\ Rewraps(k) = R
    BY DEF Rewraps, Rewrap, Upgrade, Change, Change2, Change3, Both, Both2, Both3
<1>2. /\ a.do = "keydev" /\ a.value = File("f1", k) /\ KeyOf(a) = k
      /\ b.do = "keydev" /\ b.value = File("f2", k) /\ KeyOf(b) = k
      /\ p.do = "pin" /\ KeyOf(p) = None
    BY RewrapPuts
<1> HIDE DEF a, b, p
<1>3. ASSUME NEW r, NEW head \in {a, b, p}, NEW tail, NEW keys, NEW rest,
             r # <<>> /\ Head(r) = head /\ Tail(r) = tail /\ KeysOf(r) = keys, KeysOf(tail) = rest,
             tail \in R \cup {<<>>}, rest \subseteq keys, keys \subseteq {k, None},
             head \in {a, b} => k \in keys
      PROVE  /\ r # <<>> /\ Head(r) \in {a, b, p} /\ Tail(r) \in R \cup {<<>>}
             /\ KeysOf(r) \subseteq {k, None} /\ KeysOf(Tail(r)) \subseteq KeysOf(r)
             /\ Head(r) \in {a, b} => k \in KeysOf(r)
    BY <1>3
<1>4. /\ <<b>> \in R /\ <<p>> \in R /\ <<b, p>> \in R /\ <<p, b>> \in R /\ <<a, b>> \in R
      /\ <<b, a, b>> \in R /\ <<p, b, a, b>> \in R
    OBVIOUS
<1>5. /\ row # <<>> /\ Head(row) \in {a, b, p} /\ Tail(row) \in R \cup {<<>>}
      /\ KeysOf(row) \subseteq {k, None} /\ KeysOf(Tail(row)) \subseteq KeysOf(row)
      /\ Head(row) \in {a, b} => k \in KeysOf(row)
  <2> HIDE DEF R
  <2>1. CASE row = <<b>>
      BY <1>2, <1>3, <2>1, Row1, BootRows
  <2>2. CASE row = <<p>>
      BY <1>2, <1>3, <2>2, Row1, BootRows
  <2>3. CASE row = <<a, b>>
      BY <1>2, <1>3, <1>4, <2>3, Row1, Row2
  <2>4. CASE row = <<b, p>>
      BY <1>2, <1>3, <1>4, <2>4, Row1, Row2
  <2>5. CASE row = <<p, b>>
      BY <1>2, <1>3, <1>4, <2>5, Row1, Row2
  <2>6. CASE row = <<a, b, p>>
      BY <1>2, <1>3, <1>4, <2>6, Row2, Row3
  <2>7. CASE row = <<a, p, b>>
      BY <1>2, <1>3, <1>4, <2>7, Row2, Row3
  <2>8. CASE row = <<b, a, b>>
      BY <1>2, <1>3, <1>4, <2>8, Row2, Row3
  <2>9. CASE row = <<p, b, a, b>>
      BY <1>2, <1>3, <1>4, <2>9, Row3, Row4
  <2>10. CASE row = <<a, p, b, a, b>>
      BY <1>2, <1>3, <1>4, <2>10, Row4, Row5
  <2> QED
      BY <1>1, <2>1, <2>2, <2>3, <2>4, <2>5, <2>6, <2>7, <2>8, <2>9, <2>10 DEF R
<1> HIDE DEF R
<1>6. /\ row # <<>> /\ KeysOf(row) \subseteq {k, None} /\ Tail(row) \in Rewraps(k) \cup {<<>>}
      /\ KeysOf(Tail(row)) \subseteq KeysOf(row)
    BY <1>1, <1>5
<1>8. Val(row) = Head(row).value
    BY DEF Val
<1>9. CASE Head(row) \in {a, b}
  <2>1. k \in KeysOf(row)
      BY <1>5, <1>9
  <2>2. Val(row) \in {File("f1", k), File("f2", k)} /\ Head(row).do = "keydev"
      BY <1>2, <1>8, <1>9
  <2>3. Val(row).form \in {"f1", "f2"}
      BY <2>2, FileFacts
  <2>4. Stage(row) = "rewrap"
      BY <1>6, <2>2, <2>3 DEF Stage
  <2> QED
      BY <1>6, <2>1, <2>2, <2>4
<1>10. CASE Head(row) = p
  <2>1. Head(row).do = "pin"
      BY <1>2, <1>10
  <2>2. Stage(row) = "pin"
      BY <1>6, <2>1 DEF Stage
  <2> QED
      BY <1>6, <2>1, <2>2
<1> QED
    BY <1>5, <1>9, <1>10

LEMMA LockRows ==
    ASSUME NEW v, NEW f \in Wiped
    PROVE  /\ Stage(Lock1(v, f)) = "lock1" /\ Val(Lock1(v, f)) = v /\ Second(Lock1(v, f)) = f
           /\ Tail(Lock1(v, f)) = Lock2(f) /\ Head(Lock1(v, f)).do = "enc"
           /\ Stage(Lock2(f)) = "lock2" /\ Val(Lock2(f)) = f
           /\ Tail(Lock2(f)) = Lock3 /\ Head(Lock2(f)).do = "keydev"
           /\ Stage(Lock3) = "lock3" /\ Val(Lock3) = Empty
           /\ Tail(Lock3) = <<>> /\ Head(Lock3).do = "keydev"
           /\ KeysOf(Lock1(v, f)) = {v, f.key, None} /\ KeysOf(Lock2(f)) = {f.key, None}
           /\ KeysOf(Lock3) = {None}
<1>1. /\ Lock1(v, f) # <<>> /\ Head(Lock1(v, f)) = Put("enc", v)
      /\ Tail(Lock1(v, f)) = Lock2(f) /\ KeysOf(Lock1(v, f)) = {v, f.key, None}
    BY Row3, PutFacts, FileFacts DEF Lock1, Lock2
<1>2. /\ Lock2(f) # <<>> /\ Head(Lock2(f)) = Put("keydev", f)
      /\ Tail(Lock2(f)) = Lock3 /\ KeysOf(Lock2(f)) = {f.key, None}
    BY Row2, PutFacts, FileFacts DEF Lock2, Lock3
<1>3. /\ Lock3 # <<>> /\ Head(Lock3) = Put("keydev", Empty)
      /\ Tail(Lock3) = <<>> /\ KeysOf(Lock3) = {None}
    BY Row1, PutFacts, FileFacts DEF Lock3
<1> QED
    BY <1>1, <1>2, <1>3, PutFacts, FileFacts DEF Stage, Val, Second

LEMMA UnlockRows ==
    ASSUME NEW d
    PROVE  /\ Stage(Unlock1(d)) = "unlock1" /\ Val(Unlock1(d)) = File("raw", d)
           /\ Tail(Unlock1(d)) = Unlock2 /\ Head(Unlock1(d)).do = "keydev"
           /\ Stage(Unlock2) = "unlock2" /\ Val(Unlock2) = None
           /\ Tail(Unlock2) = <<>> /\ Head(Unlock2).do = "enc"
           /\ KeysOf(Unlock1(d)) = {d, None} /\ KeysOf(Unlock2) = {None}
<1>1. /\ Unlock1(d) # <<>> /\ Head(Unlock1(d)) = Put("keydev", File("raw", d))
      /\ Tail(Unlock1(d)) = Unlock2 /\ KeysOf(Unlock1(d)) = {d, None}
    BY Row2, PutFacts, FileFacts DEF Unlock1, Unlock2
<1>2. /\ Unlock2 # <<>> /\ Head(Unlock2) = Put("enc", None)
      /\ Tail(Unlock2) = <<>> /\ KeysOf(Unlock2) = {None}
    BY Row1, PutFacts DEF Unlock2
<1> QED
    BY <1>1, <1>2, PutFacts, FileFacts DEF Stage, Val

LEMMA SignRows ==
    ASSUME NEW k, NEW n, NEW new
    PROVE  /\ Stage(Sign1(k, n, new)) = "counter" /\ Val(Sign1(k, n, new)) = n + 1
           /\ Second(Sign1(k, n, new)) = Sent(k, n, new)
           /\ Tail(Sign1(k, n, new)) = Sign2(k, n, new) /\ Head(Sign1(k, n, new)).do = "counter"
           /\ Stage(Sign2(k, n, new)) = "reply" /\ Val(Sign2(k, n, new)) = Sent(k, n, new)
           /\ Tail(Sign2(k, n, new)) = <<>> /\ Head(Sign2(k, n, new)).do = "reply"
           /\ KeysOf(Sign1(k, n, new)) = {k, None} /\ KeysOf(Sign2(k, n, new)) = {k}
           /\ Sent(k, n, new).key = k /\ Sent(k, n, new).count = n /\ Sent(k, n, new).new = new
<1>0. Sent(k, n, new).key = k /\ Sent(k, n, new).count = n /\ Sent(k, n, new).new = new
    BY DEF Sent
<1>1. /\ Sign1(k, n, new) # <<>> /\ Head(Sign1(k, n, new)) = Put("counter", n + 1)
      /\ Tail(Sign1(k, n, new)) = Sign2(k, n, new) /\ KeysOf(Sign1(k, n, new)) = {k, None}
    BY <1>0, Row2, PutFacts DEF Sign1, Sign2
<1>2. /\ Sign2(k, n, new) # <<>> /\ Head(Sign2(k, n, new)) = Put("reply", Sent(k, n, new))
      /\ Tail(Sign2(k, n, new)) = <<>> /\ KeysOf(Sign2(k, n, new)) = {k}
    BY <1>0, Row1, PutFacts DEF Sign2
<1> QED
    BY <1>0, <1>1, <1>2, PutFacts DEF Stage, Val, Second

LEMMA JobCases ==
    ASSUME JobInv, job # <<>>
    PROVE  \/ job \in {Boot, Boot2, Boot3} /\ Head(job).do \in {"genkey", "cert", "zero"}
           \/ \E k \in Values : job \in Rewraps(k) /\ Head(job).do \in {"keydev", "pin"}
           \/ \E v \in Values \cup {Broken}, f \in Wiped : job = Lock1(v, f) /\ Head(job).do = "enc"
           \/ \E f \in Wiped : job \in {Lock2(f), Lock3} /\ Head(job).do = "keydev"
           \/ \E d \in Values : job = Unlock1(d) /\ Head(job).do = "keydev"
           \/ job = Unlock2 /\ Head(job).do = "enc"
           \/ \E k \in Values, n \in Counts, new \in Flags : job = Sign1(k, n, new) /\ Head(job).do = "counter"
           \/ \E k \in Values, n \in Counts, new \in Flags : job = Sign2(k, n, new) /\ Head(job).do = "reply"
<1>1. CASE job \in {Boot, Boot2, Boot3}
    BY <1>1, BootRows
<1>2. ASSUME NEW k \in Values, job \in Rewraps(k) \cup {Unlock1(k)}
      PROVE  \/ job \in Rewraps(k) /\ Head(job).do \in {"keydev", "pin"}
             \/ job = Unlock1(k) /\ Head(job).do = "keydev"
    BY <1>2, RewrapRows, UnlockRows
<1>3. ASSUME NEW v \in Values \cup {Broken}, NEW f \in Wiped, job \in {Lock1(v, f), Lock2(f)}
      PROVE  \/ job = Lock1(v, f) /\ Head(job).do = "enc"
             \/ job = Lock2(f) /\ Head(job).do = "keydev"
    BY <1>3, LockRows
<1>4. CASE job \in {Lock3, Unlock2}
  <2>1. Empty \in Wiped
      BY DEF Wiped
  <2> QED
      BY <1>4, <2>1, LockRows, UnlockRows
<1>5. ASSUME NEW k \in Values, NEW n \in Counts, NEW new \in Flags, job \in {Sign1(k, n, new), Sign2(k, n, new)}
      PROVE  \/ job = Sign1(k, n, new) /\ Head(job).do = "counter"
             \/ job = Sign2(k, n, new) /\ Head(job).do = "reply"
    BY <1>5, SignRows
<1> QED
    BY <1>1, <1>2, <1>3, <1>4, <1>5 DEF JobInv

(* What the writes do to the rows: each stage leads to the next, and no    *)
(* key comes up that was not there.                                        *)

LEMMA KeydevSteps ==
    ASSUME JobInv, PutKeydev
    PROVE  /\ keydev' = Val(job) /\ Head(job).do = "keydev" /\ keydev'.key \in KeysOf(job)
           /\ JobInv' /\ KeysOf(job') \subseteq KeysOf(job)
           /\ \/ /\ Stage(job) = "rewrap" /\ Stage(job') \in {"rewrap", "pin", "idle"}
                 /\ \E k \in Values : /\ keydev' \in {File("f1", k), File("f2", k)} /\ keydev'.key = k
                                       /\ KeysOf(job) \subseteq {k, None}
              \/ Stage(job) = "lock2" /\ Stage(job') = "lock3" /\ keydev' \in Wiped
              \/ Stage(job) = "lock3" /\ Stage(job') = "idle" /\ keydev' = Empty
              \/ /\ Stage(job) = "unlock1" /\ Stage(job') = "unlock2" /\ job' = Unlock2
                 /\ \E k \in Values : keydev' = File("raw", k)
<1>1. job # <<>> /\ Head(job).do = "keydev" /\ keydev' = Val(job) /\ job' = Tail(job)
    BY DEF PutKeydev, Step, Value, Val, Rest
<1>2. \/ \E k \in Values : job \in Rewraps(k)
      \/ \E f \in Wiped : job \in {Lock2(f), Lock3}
      \/ \E d \in Values : job = Unlock1(d)
    BY <1>1, JobCases
<1>3. ASSUME NEW k \in Values, job \in Rewraps(k)
      PROVE  /\ keydev' \in {File("f1", k), File("f2", k)} /\ keydev'.key = k
             /\ keydev'.key \in KeysOf(job)
             /\ KeysOf(job) \subseteq {k, None} /\ KeysOf(job') \subseteq KeysOf(job)
             /\ Stage(job) = "rewrap" /\ Stage(job') \in {"rewrap", "pin", "idle"}
             /\ job' \in Rewraps(k) \cup {<<>>}
  <2>1. /\ keydev' \in {File("f1", k), File("f2", k)} /\ k \in KeysOf(job) /\ Stage(job) = "rewrap"
        /\ KeysOf(job) \subseteq {k, None} /\ KeysOf(job') \subseteq KeysOf(job)
        /\ job' \in Rewraps(k) \cup {<<>>}
      BY <1>1, <1>3, RewrapRows
  <2>2. keydev'.key = k
      BY <2>1, FileFacts
  <2>3. Stage(job') \in {"rewrap", "pin", "idle"}
      BY <2>1, RewrapRows, BootRows
  <2> QED
      BY <2>1, <2>2, <2>3
<1>5. ASSUME NEW f \in Wiped, job = Lock2(f)
      PROVE  /\ keydev' = f /\ KeysOf(job) = {f.key, None} /\ KeysOf(job') = {None}
             /\ Stage(job) = "lock2" /\ Stage(job') = "lock3" /\ job' = Lock3
    BY <1>1, <1>5, LockRows
<1>6. ASSUME NEW f \in Wiped, job = Lock3
      PROVE  /\ keydev' = Empty /\ keydev'.key = None /\ KeysOf(job) = {None} /\ KeysOf(job') = {}
             /\ Stage(job) = "lock3" /\ Stage(job') = "idle" /\ job' = <<>>
    BY <1>1, <1>6, LockRows, BootRows, FileFacts
<1>7. ASSUME NEW d \in Values, job = Unlock1(d)
      PROVE  /\ keydev' = File("raw", d) /\ keydev'.key = d /\ KeysOf(job) = {d, None} /\ KeysOf(job') = {None}
             /\ Stage(job) = "unlock1" /\ Stage(job') = "unlock2" /\ job' = Unlock2
  <2>1. /\ keydev' = File("raw", d) /\ KeysOf(job) = {d, None} /\ KeysOf(job') = {None}
        /\ Stage(job) = "unlock1" /\ Stage(job') = "unlock2" /\ job' = Unlock2
      BY <1>1, <1>7, UnlockRows
  <2>2. File("raw", d).key = d
      BY FileFacts
  <2> QED
      BY <2>1, <2>2
<1>8. ASSUME NEW k \in Values, job \in Rewraps(k) PROVE JobInv'
    BY <1>3, <1>8 DEF JobInv
<1>9. ASSUME job' \in {<<>>, Lock3, Unlock2} PROVE JobInv'
    BY <1>9 DEF JobInv
<1> QED
    BY <1>1, <1>2, <1>3, <1>5, <1>6, <1>7, <1>8, <1>9

LEMMA PinSteps ==
    ASSUME JobInv, PutPin
    PROVE  /\ oldPin' \in BOOLEAN /\ JobInv' /\ KeysOf(job') \subseteq KeysOf(job)
           /\ Stage(job) = "pin" /\ Stage(job') \in {"rewrap", "pin", "idle"}
<1>1. job # <<>> /\ Head(job).do = "pin" /\ oldPin' = Head(job).value /\ job' = Tail(job)
    BY DEF PutPin, Step, Value, Rest
<1>2. PICK k \in Values : job \in Rewraps(k)
    BY <1>1, JobCases
<1>3. /\ Stage(job) = "pin" /\ job' \in Rewraps(k) \cup {<<>>}
      /\ KeysOf(job') \subseteq KeysOf(job)
    BY <1>1, <1>2, RewrapRows
<1>4. oldPin' \in BOOLEAN
  <2>1. Head(job) \in {InClear(k), Wrapped(k), NewPin}
      BY <1>2 DEF Rewraps, Rewrap, Upgrade, Change, Change2, Change3, Both, Both2, Both3
  <2>2. Head(job) = NewPin
      BY <1>1, <2>1, RewrapPuts
  <2>3. NewPin.value \in BOOLEAN
      BY RewrapPuts
  <2> QED
      BY <1>1, <2>2, <2>3, Zenon
<1>5. Stage(job') \in {"rewrap", "pin", "idle"}
    BY <1>3, RewrapRows, BootRows
<1>6. JobInv'
    BY <1>3 DEF JobInv
<1> QED
    BY <1>3, <1>4, <1>5, <1>6

LEMMA EncSteps ==
    ASSUME JobInv, PutKeydevEnc
    PROVE  /\ keydev_enc' = Val(job) /\ Head(job).do = "enc" /\ keydev_enc' \in KeysOf(job)
           /\ JobInv' /\ KeysOf(job') \subseteq KeysOf(job)
           /\ \/ /\ Stage(job) = "lock1" /\ Stage(job') = "lock2" /\ Val(job') = Second(job)
                 /\ Val(job') \in Wiped /\ Head(job').do = "keydev" /\ job' # <<>>
                 /\ keydev_enc' \in Values \cup {Broken}
              \/ Stage(job) = "unlock2" /\ Stage(job') = "idle" /\ keydev_enc' = None
<1>1. job # <<>> /\ Head(job).do = "enc" /\ keydev_enc' = Val(job) /\ job' = Tail(job)
    BY DEF PutKeydevEnc, Step, Value, Val, Rest
<1>2. \/ \E v \in Values \cup {Broken}, f \in Wiped : job = Lock1(v, f)
      \/ job = Unlock2
    BY <1>1, JobCases
<1>3. ASSUME NEW v \in Values \cup {Broken}, NEW f \in Wiped, job = Lock1(v, f)
      PROVE  /\ keydev_enc' = v /\ KeysOf(job) = {v, f.key, None} /\ KeysOf(job') = {f.key, None}
             /\ Stage(job) = "lock1" /\ Stage(job') = "lock2" /\ job' = Lock2(f)
             /\ Val(job') = f /\ Second(job) = f /\ Head(job').do = "keydev" /\ job' # <<>>
  <2>1. /\ keydev_enc' = v /\ KeysOf(job) = {v, f.key, None} /\ KeysOf(job') = {f.key, None}
        /\ Stage(job) = "lock1" /\ Stage(job') = "lock2" /\ job' = Lock2(f)
        /\ Val(job') = f /\ Second(job) = f
      BY <1>1, <1>3, LockRows
  <2>2. Head(Lock2(f)).do = "keydev" /\ Lock2(f) # <<>>
      BY LockRows DEF Lock2
  <2> QED
      BY <2>1, <2>2
<1>4. CASE job = Unlock2
  <2>1. /\ keydev_enc' = None /\ KeysOf(job) = {None} /\ KeysOf(job') = {}
        /\ Stage(job) = "unlock2" /\ Stage(job') = "idle" /\ job' = <<>>
      BY <1>1, <1>4, UnlockRows, BootRows
  <2> QED
      BY <1>1, <2>1 DEF JobInv
<1>5. ASSUME NEW v \in Values \cup {Broken}, NEW f \in Wiped, job = Lock1(v, f) PROVE JobInv'
    BY <1>3, <1>5 DEF JobInv
<1> QED
    BY <1>1, <1>2, <1>3, <1>4, <1>5

LEMMA CounterSteps ==
    ASSUME JobInv, PutCounter
    PROVE  /\ counter' = Second(job).count + 1 /\ Second(job).count \in Counts /\ Second(job).key \in Values
           /\ Second(job).key \in KeysOf(job) /\ JobInv' /\ KeysOf(job') \subseteq KeysOf(job)
           /\ Stage(job) = "counter" /\ Stage(job') = "reply" /\ Val(job') = Second(job)
<1>1. job # <<>> /\ Head(job).do = "counter" /\ counter' = Val(job) /\ job' = Tail(job)
    BY DEF PutCounter, Step, Value, Val, Rest
<1>2. PICK k \in Values, n \in Counts, new \in Flags : job = Sign1(k, n, new)
    BY <1>1, JobCases
<1>3. /\ counter' = n + 1 /\ KeysOf(job) = {k, None} /\ KeysOf(job') = {k}
      /\ Second(job).key = k /\ Second(job).count = n /\ Val(job') = Second(job)
      /\ Stage(job) = "counter" /\ Stage(job') = "reply" /\ job' = Sign2(k, n, new)
  <2>1. /\ counter' = n + 1 /\ KeysOf(job) = {k, None} /\ KeysOf(job') = {k}
        /\ Second(job) = Sent(k, n, new) /\ Val(job') = Sent(k, n, new)
        /\ Stage(job) = "counter" /\ Stage(job') = "reply" /\ job' = Sign2(k, n, new)
    <3>1. /\ Stage(Sign1(k, n, new)) = "counter" /\ Val(Sign1(k, n, new)) = n + 1
          /\ Second(Sign1(k, n, new)) = Sent(k, n, new) /\ Tail(Sign1(k, n, new)) = Sign2(k, n, new)
          /\ Stage(Sign2(k, n, new)) = "reply" /\ Val(Sign2(k, n, new)) = Sent(k, n, new)
          /\ KeysOf(Sign1(k, n, new)) = {k, None} /\ KeysOf(Sign2(k, n, new)) = {k}
        BY SignRows
    <3> QED
        BY <1>1, <1>2, <3>1
  <2>2. Sent(k, n, new).key = k /\ Sent(k, n, new).count = n
      BY SignRows
  <2> QED
      BY <2>1, <2>2
<1>4. JobInv'
    BY <1>3 DEF JobInv
<1> QED
    BY <1>3, <1>4

LEMMA ReplySteps ==
    ASSUME JobInv, Reply
    PROVE  /\ Val(job).count \in Counts /\ Val(job).key \in Values /\ Val(job).key \in KeysOf(job)
           /\ Stage(job) = "reply" /\ Stage(job') = "idle" /\ KeysOf(job') = {} /\ JobInv'
<1>1. job # <<>> /\ Head(job).do = "reply" /\ job' = Tail(job)
    BY DEF Reply, Step, Rest
<1>2. PICK k \in Values, n \in Counts, new \in Flags : job = Sign2(k, n, new)
    BY <1>1, JobCases
<1>3. /\ KeysOf(job) = {k} /\ KeysOf(job') = {} /\ Val(job).key = k /\ Val(job).count = n
      /\ Stage(job) = "reply" /\ Stage(job') = "idle" /\ job' = <<>>
  <2>1. /\ KeysOf(job) = {k} /\ KeysOf(job') = {} /\ Val(job) = Sent(k, n, new)
        /\ Stage(job) = "reply" /\ Stage(job') = "idle" /\ job' = <<>>
    <3>1. /\ KeysOf(Sign2(k, n, new)) = {k} /\ Val(Sign2(k, n, new)) = Sent(k, n, new)
          /\ Stage(Sign2(k, n, new)) = "reply" /\ Tail(Sign2(k, n, new)) = <<>>
        BY SignRows
    <3> QED
        BY <1>1, <1>2, <3>1, BootRows
  <2>2. Sent(k, n, new).key = k /\ Sent(k, n, new).count = n
      BY SignRows
  <2> QED
      BY <2>1, <2>2
<1> QED
    BY <1>3 DEF JobInv

LEMMA BootSteps ==
    ASSUME JobInv
    PROVE  /\ GenKey => /\ Stage(job) = "genkey" /\ Stage(job') = "cert"
                        /\ KeysOf(job') = {None} /\ JobInv'
           /\ PutCert => /\ Stage(job) = "cert"
                         /\ \/ certdev # None /\ certdev' = certdev /\ Stage(job') = "zero"
                            \/ /\ certdev = None /\ Loaded \notin {None, Zeros}
                               /\ certdev' = Loaded /\ Stage(job') = "zero"
                            \/ /\ certdev = None /\ Loaded \in {None, Zeros}
                               /\ certdev' = certdev /\ Stage(job') = "idle"
                         /\ KeysOf(job') \subseteq {None} /\ JobInv'
           /\ PutZero => /\ Stage(job) = "zero" /\ Stage(job') = "idle" /\ KeysOf(job') = {} /\ JobInv'
<1>1. ASSUME GenKey
      PROVE  Stage(job) = "genkey" /\ Stage(job') = "cert" /\ KeysOf(job') = {None} /\ JobInv'
  <2>1. job # <<>> /\ Head(job).do = "genkey" /\ job' = Tail(job)
      BY <1>1 DEF GenKey, Step, Rest
  <2>2. job = Boot
      BY <2>1, JobCases, BootRows
  <2>3. job' = Boot2
      BY <2>1, <2>2, BootRows
  <2> QED
      BY <2>2, <2>3, BootRows DEF JobInv
<1>2. ASSUME PutCert
      PROVE  /\ Stage(job) = "cert"
             /\ \/ certdev # None /\ certdev' = certdev /\ Stage(job') = "zero"
                \/ certdev = None /\ Loaded \notin {None, Zeros} /\ certdev' = Loaded /\ Stage(job') = "zero"
                \/ certdev = None /\ Loaded \in {None, Zeros} /\ certdev' = certdev /\ Stage(job') = "idle"
             /\ KeysOf(job') \subseteq {None} /\ JobInv'
  <2>1. job # <<>> /\ Head(job).do = "cert" 
      BY <1>2 DEF PutCert, Step
  <2>2. job = Boot2
      BY <2>1, JobCases, BootRows
  <2>3. \/ certdev # None /\ certdev' = certdev /\ job' = Boot3
        \/ certdev = None /\ Loaded \notin {None, Zeros} /\ certdev' = Loaded /\ job' = Boot3
        \/ certdev = None /\ Loaded \in {None, Zeros} /\ certdev' = certdev /\ job' = <<>>
      BY <1>2, <2>2, BootRows DEF PutCert, Rest
  <2> QED
      BY <2>2, <2>3, BootRows DEF JobInv
<1>3. ASSUME PutZero
      PROVE  Stage(job) = "zero" /\ Stage(job') = "idle" /\ KeysOf(job') = {} /\ JobInv'
  <2>1. job # <<>> /\ Head(job).do = "zero" /\ job' = Tail(job)
      BY <1>3 DEF PutZero, Step, Rest
  <2>2. job = Boot3
      BY <2>1, JobCases, BootRows
  <2>3. job' = <<>>
      BY <2>1, <2>2, BootRows
  <2> QED
      BY <2>2, <2>3, BootRows DEF JobInv
<1> QED
    BY <1>1, <1>2, <1>3

-----------------------------------------------------------------------------
(* The requests that leave a row *)

LEMMA LoadsFacts ==
    ASSUME TypeOK, NEW opened \in {"none", "old", "new"}, Loads(opened) # None
    PROVE  /\ Loads(opened) \in Values
           /\ Loads(opened) \in Keys => Loads(opened) \in AtHand
           /\ has_keydev_dec => Loads(opened) = keydev_dec
           /\ ~has_keydev_dec /\ keydev.form = "raw" => Loads(opened) = Junk
           /\ ~has_keydev_dec /\ keydev.form # "raw" => keydev # Empty /\ Loads(opened) = keydev.key
<1>1. keydev_dec \in Values /\ Junk \in Values /\ Junk \notin Keys
    BY KeyAssumption DEF TypeOK, Values
<1>2. keydev = Empty \/ keydev.key \in Values
    BY DEF TypeOK
<1>3. Empty.form = "none" /\ Empty.key = None
    BY FileFacts
<1>4. CASE has_keydev_dec
    BY <1>1, <1>4 DEF Loads, AtHand, Because
<1>5. CASE ~has_keydev_dec /\ keydev.form = "raw"
    BY <1>1, <1>5 DEF Loads
<1>6. CASE ~has_keydev_dec /\ keydev.form # "raw"
    BY <1>2, <1>3, <1>6 DEF Loads, AtHand
<1> QED
    BY <1>4, <1>5, <1>6

LEMMA Concat32 ==
    ASSUME NEW a, NEW b, NEW c, NEW d, NEW e
    PROVE  <<a, b, c>> \o <<d, e>> = <<a, b, c, d, e>>
<1> DEFINE S == {a, b, c, d, e}
           s == <<a, b, c>>
           t == <<d, e>>
           u == <<a, b, c, d, e>>
<1>1. s \in Seq(S) /\ t \in Seq(S) /\ u \in Seq(S) /\ Len(s) = 3 /\ Len(t) = 2 /\ Len(u) = 5
    OBVIOUS
<1>2. s \o t \in Seq(S) /\ Len(s \o t) = 5
    BY <1>1, ConcatProperties
<1>3. \A i \in 1..5 : (s \o t)[i] = u[i]
  <2>1. \A i \in 1..5 : (s \o t)[i] = IF i <= 3 THEN s[i] ELSE t[i - 3]
      BY <1>1, ConcatProperties
  <2>2. /\ (s \o t)[1] = s[1] /\ (s \o t)[2] = s[2] /\ (s \o t)[3] = s[3]
        /\ (s \o t)[4] = t[1] /\ (s \o t)[5] = t[2]
      BY <2>1
  <2> QED
      BY <2>2
<1> QED
    BY <1>1, <1>2, <1>3, SeqEqual

(* Changing the PIN, or upgrading its file, leaves a row that writes back  *)
(* the key that was loaded.                                                *)
LEMMA RewrapFacts ==
    ASSUME TypeOK, UpgradePin \/ ChangePin \/ ChangeOldPin
    PROVE  /\ Stage(job) = "idle" /\ KeysOf(job) = {}
           /\ JobInv' /\ Stage(job') \in {"rewrap", "pin"}
           /\ \E opened \in {"old", "new"} :
                 /\ Loads(opened) # None /\ Loads(opened) \in Values
                 /\ KeysOf(job') \subseteq {Loads(opened), None}
                 /\ odd' = odd \cup (Because(has_keydev_dec, "spilled")
                                      \cup Because(Loads(opened) \notin Keys, "overwritten"))
<1>1. PICK opened \in {"old", "new"} :
         /\ Loads(opened) # None /\ job = <<>>
         /\ \/ Start(<<InClear(Loads(opened)), Wrapped(Loads(opened)), Put("pin", FALSE)>>)
            \/ Start(<<InClear(Loads(opened)), Wrapped(Loads(opened))>>)
            \/ Start(<<InClear(Loads(opened)), Put("pin", FALSE), Wrapped(Loads(opened))>>)
            \/ Start(<<InClear(Loads(opened)), Put("pin", FALSE), Wrapped(Loads(opened))>>
                        \o <<InClear(Loads(opened)), Wrapped(Loads(opened))>>)
         /\ odd' = odd \cup (Because(has_keydev_dec, "spilled")
                              \cup Because(Loads(opened) \notin Keys, "overwritten"))
    BY DEF UpgradePin, ChangePin, ChangeOldPin, Start, Idle, Odd, WriteBack
<1>2. Loads(opened) \in Values
    BY <1>1, LoadsFacts
<1> DEFINE k == Loads(opened)
<1>3. job' \in Rewraps(k)
  <2>1. <<InClear(k), NewPin, Wrapped(k)>> \o <<InClear(k), Wrapped(k)>> = Both(k)
      BY Concat32 DEF Both
  <2> QED
      BY <1>1, <2>1 DEF Start, NewPin, Rewraps, Rewrap, Upgrade, Change
<1> HIDE DEF k
<1>4. Stage(job') \in {"rewrap", "pin"} /\ KeysOf(job') \subseteq {k, None}
    BY <1>3, RewrapRows
<1>5. JobInv'
    BY <1>2, <1>3 DEF JobInv, k
<1> QED
    BY <1>1, <1>2, <1>4, <1>5, BootRows DEF k

LEMMA Concat12 ==
    ASSUME NEW a, NEW b, NEW c
    PROVE  <<a>> \o <<b, c>> = <<a, b, c>>
<1> DEFINE S == {a, b, c}
           s == <<a>>
           t == <<b, c>>
           u == <<a, b, c>>
<1>1. s \in Seq(S) /\ t \in Seq(S) /\ u \in Seq(S) /\ Len(s) = 1 /\ Len(t) = 2 /\ Len(u) = 3
    OBVIOUS
<1>2. s \o t \in Seq(S) /\ Len(s \o t) = 3
    BY <1>1, ConcatProperties
<1>3. \A i \in 1..3 : (s \o t)[i] = u[i]
  <2>1. \A i \in 1..3 : (s \o t)[i] = IF i <= 1 THEN s[i] ELSE t[i - 1]
      BY <1>1, ConcatProperties
  <2>2. (s \o t)[1] = s[1] /\ (s \o t)[2] = t[1] /\ (s \o t)[3] = t[2]
      BY <2>1
  <2> QED
      BY <2>2
<1> QED
    BY <1>1, <1>2, <1>3, SeqEqual

(* Locking stores a blob and wipes the file. *)
LEMMA LockFacts ==
    ASSUME TypeOK, NEW v \in Values \cup {Broken}, Start(<<Put("enc", v)>> \o Wipe)
    PROVE  /\ Stage(job) = "idle" /\ KeysOf(job) = {}
           /\ JobInv' /\ Stage(job') = "lock1" /\ Val(job') = v /\ KeysOf(job') \cap Keys \subseteq {v}
           /\ Second(job') \in Wiped /\ (keydev.form \notin {"raw", "mkek"} => Second(job').form # "raw")
<1> DEFINE f == CASE keydev.form = "none" -> Empty
                  [] keydev.form \in {"mkek", "raw"} -> File("raw", Zeros)
                  [] OTHER -> File("wiped", Zeros)
<1>1. f \in Wiped /\ (keydev.form \notin {"raw", "mkek"} => f.form # "raw")
  <2>1. Empty.form = "none" /\ File("wiped", Zeros).form = "wiped"
      BY FileFacts
  <2>2. CASE keydev.form = "none"
      BY <2>1, <2>2 DEF Wiped
  <2>3. CASE keydev.form \in {"mkek", "raw"}
      BY <2>3 DEF Wiped
  <2>4. CASE keydev.form \notin {"none", "mkek", "raw"}
    <3>1. f = File("wiped", Zeros)
        BY <2>4
    <3> QED
        BY <2>1, <3>1 DEF Wiped
  <2> QED
      BY <2>2, <2>3, <2>4
<1>2. Wipe = <<Put("keydev", f), Put("keydev", Empty)>>
    BY DEF Wipe
<1> HIDE DEF f
<1>3. <<Put("enc", v)>> \o Wipe = Lock1(v, f)
    BY <1>2, Concat12 DEF Lock1
<1>4. job = <<>> /\ job' = Lock1(v, f)
    BY <1>3 DEF Start, Idle
<1>5. /\ Stage(Lock1(v, f)) = "lock1" /\ Val(Lock1(v, f)) = v /\ Second(Lock1(v, f)) = f
      /\ KeysOf(Lock1(v, f)) = {v, f.key, None}
    BY <1>1, LockRows
<1>6. f.key \notin Keys /\ None \notin Keys
    BY <1>1, FileFacts, KeyAssumption DEF Values
<1>7. JobInv'
    BY <1>1, <1>4 DEF JobInv
<1> QED
    BY <1>1, <1>4, <1>5, <1>6, <1>7, BootRows

LEMMA EnableFacts ==
    ASSUME TypeOK, Enable
    PROVE  /\ Stage(job) = "idle" /\ KeysOf(job) = {} /\ keydev # Empty /\ KeysOf(job') \cap Keys \subseteq {Val(job')}
           /\ JobInv' /\ Stage(job') = "lock1" /\ Second(job') \in Wiped
           /\ (keydev.form \notin {"raw", "mkek"} => Val(job') = Broken /\ Second(job').form # "raw")
           /\ Val(job') = Blob /\ Blob \in {keydev.key, Junk, Broken}
           /\ odd' = odd \cup (IF keydev.form = "mkek" THEN {"doubled"} ELSE Because(Blob \notin Keys, "mislocked"))
           /\ UNCHANGED <<flash, ram, used, made, seen, repeated, copy>>
<1>1. /\ keydev # Empty /\ Start(<<Put("enc", Blob)>> \o Wipe)
      /\ odd' = odd \cup (IF keydev.form = "mkek" THEN {"doubled"} ELSE Because(Blob \notin Keys, "mislocked"))
      /\ UNCHANGED <<flash, ram, used, made, seen, repeated, copy>>
    BY DEF Enable, Odd
<1>2. Blob \in Values \cup {Broken} /\ Blob \in {keydev.key, Junk, Broken}
    BY <1>1 DEF TypeOK, Values, Blob
<1>3. /\ Stage(job) = "idle" /\ KeysOf(job) = {}
      /\ JobInv' /\ Stage(job') = "lock1" /\ Val(job') = Blob /\ KeysOf(job') \cap Keys \subseteq {Blob}
      /\ Second(job') \in Wiped /\ (keydev.form \notin {"raw", "mkek"} => Second(job').form # "raw")
    BY <1>1, <1>2, LockFacts
<1>4. keydev.form \notin {"raw", "mkek"} => Blob = Broken
    BY DEF Blob
<1> QED
    BY <1>1, <1>2, <1>3, <1>4

LEMMA ImportFacts ==
    ASSUME TypeOK, Import
    PROVE  /\ Stage(job) = "idle" /\ KeysOf(job) = {} /\ KeysOf(job') \cap Keys \subseteq {copy}
           /\ JobInv' /\ Stage(job') = "lock1" /\ odd' = odd \cup {"restored"}
           /\ UNCHANGED <<flash, ram, used, made, seen, repeated, copy>>
<1>1. /\ copy # None /\ Start(<<Put("enc", copy)>> \o Wipe) /\ odd' = odd \cup {"restored"}
      /\ UNCHANGED <<flash, ram, used, made, seen, repeated, copy>>
    BY DEF Import, Odd
<1>2. copy \in Values \cup {Broken}
    BY <1>1 DEF TypeOK
<1> QED
    BY <1>1, <1>2, LockFacts

LEMMA DisableFacts ==
    ASSUME TypeOK, Disable
    PROVE  /\ Stage(job) = "idle" /\ KeysOf(job) = {} /\ has_keydev_dec
           /\ JobInv' /\ Stage(job') = "unlock1" /\ Val(job').key = keydev_dec
           /\ KeysOf(job') \subseteq {keydev_dec, None} /\ KeysOf(job') \cap Keys \subseteq {keydev_dec}
           /\ keydev_dec' = Zeros
           /\ odd' = odd \cup ({"disabled"} \cup Because(keydev_dec \notin Keys, "overwritten"))
           /\ UNCHANGED <<flash, has_keydev_dec, session, used, made, seen, repeated, copy>>
<1>1. /\ has_keydev_dec /\ job = <<>> /\ job' = Unlock1(keydev_dec) /\ keydev_dec' = Zeros
      /\ odd' = odd \cup ({"disabled"} \cup Because(keydev_dec \notin Keys, "overwritten"))
      /\ UNCHANGED <<flash, has_keydev_dec, session, used, made, seen, repeated, copy>>
    BY DEF Disable, Start, Idle, Odd, Unlock1
<1>2. /\ Stage(Unlock1(keydev_dec)) = "unlock1" /\ KeysOf(Unlock1(keydev_dec)) = {keydev_dec, None}
      /\ Val(Unlock1(keydev_dec)) = File("raw", keydev_dec)
    BY UnlockRows
<1>3. File("raw", keydev_dec).key = keydev_dec
    BY FileFacts
<1>4. Val(job') = File("raw", keydev_dec) /\ Stage(job') = "unlock1" /\ KeysOf(job') = {keydev_dec, None}
    BY <1>1, <1>2
<1>5. JobInv'
    BY <1>1 DEF JobInv, TypeOK
<1>6. Val(job').key = keydev_dec
    BY <1>3, <1>4
<1>7. None \notin Keys
    BY KeyAssumption DEF Values
<1> QED
    BY <1>1, <1>4, <1>5, <1>6, <1>7, BootRows

LEMMA SignFacts ==
    ASSUME TypeOK, Sign
    PROVE  /\ Stage(job) = "idle" /\ KeysOf(job) = {}
           /\ JobInv' /\ Stage(job') = "counter"
           /\ counter \in {Second(job').count, None} /\ Second(job').count \in Counts
           /\ Second(job').key = Loaded /\ Loaded # None /\ KeysOf(job') \cap Keys \subseteq {Loaded}
           /\ UNCHANGED <<flash, ram, history>>
<1>1. PICK new \in Flags : Loaded # None /\ Signing(new, Loaded)
    BY KeyAssumption DEF Sign, TypeOK, Flags
<1> DEFINE k == Loaded
<1>2. PICK n \in Counts : /\ counter \in {n, None} /\ job = <<>> /\ job' = Sign1(k, n, new)
    BY <1>1 DEF Signing, Start, Idle, Sign1, Sent, Counts
<1>3. k \in Values
    BY <1>1, LoadsFacts DEF Loaded, TypeOK
<1> HIDE DEF k
<1>4. /\ Stage(Sign1(k, n, new)) = "counter" /\ Second(Sign1(k, n, new)) = Sent(k, n, new)
      /\ KeysOf(Sign1(k, n, new)) = {k, None}
    BY SignRows
<1>5. Sent(k, n, new).key = k /\ Sent(k, n, new).count = n
    BY SignRows
<1>6. Second(job') = Sent(k, n, new) /\ Stage(job') = "counter" /\ KeysOf(job') = {k, None}
    BY <1>2, <1>4
<1>7. JobInv'
    BY <1>2, <1>3 DEF JobInv
<1>8. Second(job').key = k /\ Second(job').count = n
    BY <1>5, <1>6
<1>9. None \notin Keys /\ UNCHANGED <<flash, ram, history>>
    BY KeyAssumption DEF Values, Sign
<1> QED
    BY <1>1, <1>2, <1>6, <1>7, <1>8, <1>9, BootRows DEF k

-----------------------------------------------------------------------------
(* Types *)

Files == {Empty} \cup [form : {"mkek", "raw", "f1", "f2", "wiped"}, key : Values]

LEMMA FilesFacts ==
    /\ Wiped \subseteq Files
    /\ \A k \in Values : {File("raw", k), File("f1", k), File("f2", k)} \subseteq Files
    /\ \A f \in Files :
          f # Empty => /\ f.form \in {"mkek", "raw", "f1", "f2", "wiped"} /\ f.form # "none"
                       /\ f.key \in Values /\ f.key # None
<1>1. Zeros \in Values /\ None \notin Values
    BY KeyAssumption DEF Values
<1>2. \A k \in Values : {File("raw", k), File("f1", k), File("f2", k), File("wiped", k)} \subseteq Files
    BY DEF Files, File
<1>3. Empty \in Files
    BY DEF Files
<1>4. ASSUME NEW f \in Files, f # Empty
      PROVE  f.form \in {"mkek", "raw", "f1", "f2", "wiped"} /\ f.key \in Values
  <2>1. f \in [form : {"mkek", "raw", "f1", "f2", "wiped"}, key : Values]
      BY <1>4 DEF Files
  <2> QED
      BY <2>1
<1>5. Wiped \subseteq Files
    BY <1>1, <1>2, <1>3 DEF Wiped
<1>6. \A k \in Values : {File("raw", k), File("f1", k), File("f2", k)} \subseteq Files
    BY <1>2
<1>7. ASSUME NEW f \in Files, f # Empty
      PROVE  f.form # "none" /\ f.key # None
    BY <1>1, <1>4, <1>7
<1> QED
    BY <1>4, <1>5, <1>6, <1>7

LEMMA SealedFacts ==
    ASSUME TypeOK
    PROVE  /\ Sealed \in Files /\ Sealed.key = keydev.key /\ (Sealed = Empty <=> keydev = Empty)
           /\ Sealed.form = IF keydev.form = "f1" THEN "f2" ELSE keydev.form
<1>1. keydev \in Files
    BY DEF TypeOK, Files
<1>2. CASE keydev.form = "f1"
  <2>1. keydev # Empty /\ keydev.key \in Values
      BY <1>1, <1>2, FilesFacts, FileFacts
  <2>2. Sealed = File("f2", keydev.key) /\ Sealed.form = "f2" /\ Sealed.key = keydev.key
      BY <1>2, FileFacts DEF Sealed
  <2> QED
      BY <1>2, <2>1, <2>2, FilesFacts, FileFacts
<1>3. CASE keydev.form # "f1"
    BY <1>1, <1>3 DEF Sealed
<1> QED
    BY <1>2, <1>3

LEMMA InitType == Init => TypeInv
<1> SUFFICES ASSUME Init PROVE TypeInv
    OBVIOUS
<1>0. \A k \in Keys : File("mkek", k) \in Files
    BY DEF Files, File, Values
<1>1. keydev \in Files /\ keydev_enc \in Values \cup {None} /\ certdev \in Values \cup {None}
  <2>1. keydev_enc \in Values \cup {None} /\ certdev \in Values \cup {None}
      BY DEF Init, Values
  <2>2. keydev = Empty \/ \E k \in Keys : keydev = File("mkek", k)
      BY DEF Init
  <2>3. Empty \in Files
      BY DEF Files
  <2> QED
      BY <1>0, <2>1, <2>2, <2>3
<1>2. counter \in 0..MaxCount \cup {None} /\ seen \in [Keys -> 0..MaxCount + 1]
    BY KeyAssumption DEF Init
<1>3. /\ keydev_dec \in Values /\ {mkek, oldPin, has_keydev_dec} \subseteq BOOLEAN
      /\ session \in {"none", "old", "new"}
      /\ used \subseteq Keys /\ made \subseteq Values /\ repeated \subseteq Keys
      /\ copy = None /\ odd = {}
    BY DEF Init, Values
<1>4. JobInv
    BY DEF Init, JobInv
<1> QED
    BY <1>1, <1>2, <1>3, <1>4 DEF TypeInv, TypeOK, Files

LEMMA StepType == TypeInv /\ [Next]_vars => TypeInv'
<1> SUFFICES ASSUME TypeInv, [Next]_vars PROVE TypeInv'
    OBVIOUS
<1>a. /\ TypeOK /\ JobInv
      /\ keydev \in Files /\ keydev_enc \in Values \cup {Broken, None} /\ certdev \in Values \cup {None}
      /\ counter \in 0..MaxCount \cup {None} /\ keydev_dec \in Values
      /\ mkek \in BOOLEAN /\ oldPin \in BOOLEAN /\ has_keydev_dec \in BOOLEAN
      /\ session \in {"none", "old", "new"}
      /\ used \subseteq Keys /\ made \subseteq Values
      /\ seen \in [Keys -> 0..MaxCount + 1] /\ repeated \subseteq Keys
      /\ copy \in Values \cup {Broken, None}
      /\ odd \subseteq {"mislocked", "doubled", "blanked", "disabled", "spilled",
                        "overwritten", "restored", "carried", "cut"}
      /\ Keys \subseteq Values /\ Zeros \in Values /\ None \notin Values
    BY KeyAssumption DEF TypeInv, TypeOK, Files, Values
<1>b. /\ keydev' \in Files /\ keydev_enc' \in Values \cup {Broken, None} /\ certdev' \in Values \cup {None}
      /\ counter' \in 0..MaxCount \cup {None} /\ keydev_dec' \in Values
      /\ mkek' \in BOOLEAN /\ oldPin' \in BOOLEAN /\ has_keydev_dec' \in BOOLEAN
      /\ session' \in {"none", "old", "new"}
      /\ used' \subseteq Keys /\ made' \subseteq Values
      /\ seen' \in [Keys -> 0..MaxCount + 1] /\ repeated' \subseteq Keys
      /\ copy' \in Values \cup {Broken, None}
      /\ odd' \subseteq {"mislocked", "doubled", "blanked", "disabled", "spilled",
                         "overwritten", "restored", "carried", "cut"}
      /\ JobInv'
      => TypeInv'
    BY DEF TypeInv, TypeOK, Files
<1>c. Loaded # None => Loaded \in Values
    BY <1>a, LoadsFacts DEF Loaded
<1>1. CASE PutKeydev
  <2>1. /\ JobInv'
        /\ \/ keydev' \in Wiped
           \/ \E k \in Values : keydev' \in {File("raw", k), File("f1", k), File("f2", k)}
      BY <1>1, <1>a, KeydevSteps DEF Wiped
  <2>2. keydev' \in Files
      BY <2>1, FilesFacts
  <2> QED
      BY <1>1, <1>a, <1>b, <2>1, <2>2 DEF PutKeydev, ram, history
<1>2. CASE PutKeydevEnc
  <2>1. keydev_enc' \in Values \cup {Broken, None} /\ JobInv'
      BY <1>2, <1>a, EncSteps
  <2> QED
      BY <1>2, <1>a, <1>b, <2>1 DEF PutKeydevEnc, ram, history
<1>3. CASE PutCounter
  <2>1. Second(job).count \in Counts /\ counter' = Second(job).count + 1 /\ JobInv'
      BY <1>3, <1>a, CounterSteps
  <2>2. counter' \in 0..MaxCount
      BY <2>1, KeyAssumption DEF Counts
  <2> QED
      BY <1>3, <1>a, <1>b, <2>1, <2>2 DEF PutCounter, ram, history
<1>4. CASE Reply
  <2>1. Val(job).count \in Counts /\ Val(job).key \in Values /\ JobInv'
      BY <1>4, <1>a, ReplySteps
  <2>2. made' \subseteq Values
      BY <1>4, <1>a, <2>1 DEF Reply, Value, Val
  <2>3. \/ seen' = seen
        \/ \E k \in Keys : seen' = [seen EXCEPT ![k] = IF Val(job).count < @ THEN @ ELSE Val(job).count + 1]
      BY <1>4 DEF Reply, Value, Val
  <2>4. Val(job).count + 1 \in 0..MaxCount + 1
      BY <2>1, KeyAssumption DEF Counts
  <2>5. seen' \in [Keys -> 0..MaxCount + 1]
      BY <1>a, <2>3, <2>4
  <2>6. repeated' \subseteq Keys
      BY <1>4, <1>a DEF Reply, Because
  <2> QED
      BY <1>4, <1>a, <1>b, <2>1, <2>2, <2>5, <2>6 DEF Reply, flash, ram
<1>5. CASE GenKey
  <2>1. keydev' \in Files /\ used' \subseteq Keys
      BY <1>5, <1>a, FilesFacts DEF GenKey
  <2> QED
      BY <1>5, <1>a, <1>b, <2>1, BootSteps DEF GenKey, ram
<1>6. CASE PutCert
  <2>1. certdev' \in Values \cup {None} /\ JobInv'
      BY <1>6, <1>a, <1>c, BootSteps
  <2> QED
      BY <1>6, <1>a, <1>b, <2>1 DEF PutCert, ram, history
<1>7. CASE PutZero
  <2>1. counter' \in 0..MaxCount \cup {None}
      BY <1>7, <1>a, KeyAssumption DEF PutZero
  <2> QED
      BY <1>7, <1>a, <1>b, <2>1, BootSteps DEF PutZero, ram, history
<1>8. CASE ShowPin \/ FailUpgrade
  <2>1. keydev' \in Files
      BY <1>8, <1>a, SealedFacts DEF ShowPin, FailUpgrade, flash
  <2>2. JobInv' /\ session' \in {"none", "old", "new"}
      BY <1>8, <1>a DEF ShowPin, FailUpgrade, JobInv
  <2> QED
      BY <1>8, <1>a, <1>b, <2>1, <2>2 DEF ShowPin, FailUpgrade, flash, history
<1>9. CASE UpgradePin \/ ChangePin \/ ChangeOldPin
  <2>1. JobInv' /\ odd' \subseteq odd \cup {"spilled", "overwritten"}
      BY <1>9, <1>a, RewrapFacts DEF Because
  <2>2. keydev' \in Files /\ session' \in {"none", "old", "new"}
      BY <1>9, <1>a, SealedFacts DEF UpgradePin, ChangePin, ChangeOldPin, flash
  <2> QED
      BY <1>9, <1>a, <1>b, <2>1, <2>2 DEF UpgradePin, ChangePin, ChangeOldPin, flash
<1>22. CASE PutPin
  <2>1. JobInv' /\ oldPin' \in BOOLEAN
      BY <1>22, <1>a, PinSteps
  <2> QED
      BY <1>22, <1>a, <1>b, <2>1 DEF PutPin, ram, history
<1>10. CASE Enable
  <2>1. JobInv' /\ odd' \subseteq odd \cup {"mislocked", "doubled"}
        /\ UNCHANGED <<flash, ram, used, made, seen, repeated, copy>>
      BY <1>10, <1>a, EnableFacts DEF Because
  <2> QED
      BY <1>a, <1>b, <2>1 DEF flash, ram
<1>11. CASE Disable
  <2>1. /\ JobInv' /\ keydev_dec' = Zeros /\ odd' \subseteq odd \cup {"disabled", "overwritten"}
        /\ UNCHANGED <<flash, has_keydev_dec, session, used, made, seen, repeated, copy>>
      BY <1>11, <1>a, DisableFacts DEF Because
  <2> QED
      BY <1>a, <1>b, <2>1 DEF flash
<1>12. CASE Unlock
    BY <1>12, <1>a, <1>b DEF Unlock, flash, history, JobInv
<1>13. CASE FailUnlock
  <2>1. odd' \subseteq odd \cup {"blanked"} /\ JobInv'
      BY <1>13, <1>a DEF FailUnlock, Odd, Because, JobInv
  <2> QED
      BY <1>13, <1>a, <1>b, <2>1 DEF FailUnlock, flash
<1>14. CASE Export
    BY <1>14, <1>a, <1>b DEF Export, flash, ram, JobInv
<1>15. CASE Import
  <2>1. JobInv' /\ odd' = odd \cup {"restored"}
        /\ UNCHANGED <<flash, ram, used, made, seen, repeated, copy>>
      BY <1>15, <1>a, ImportFacts
  <2> QED
      BY <1>a, <1>b, <2>1 DEF flash, ram
<1>16. CASE Sign
  <2>1. JobInv' /\ UNCHANGED <<flash, ram, history>>
      BY <1>16, <1>a, SignFacts
  <2> QED
      BY <1>a, <1>b, <2>1 DEF flash, ram, history
<1>17. CASE Register
    BY <1>17, <1>a, <1>b, <1>c DEF Register, flash, ram, JobInv
<1>18. CASE FactoryReset
  <2>1. JobInv' /\ odd' \subseteq {"carried"} /\ keydev' \in Files
      BY <1>18 DEF FactoryReset, Because, JobInv, Files
  <2> QED
      BY <1>18, <1>a, <1>b, <2>1 DEF FactoryReset, ram
<1>19. CASE PowerLoss
  <2>1. JobInv' /\ odd' \subseteq odd \cup {"cut"}
      BY <1>19 DEF PowerLoss, Odd, Because, JobInv
  <2> QED
      BY <1>19, <1>a, <1>b, <2>1 DEF PowerLoss, flash
<1>20. CASE UNCHANGED vars
    BY <1>20, <1>a, <1>b DEF vars, flash, ram, history, JobInv
<1> QED
    BY <1>1, <1>2, <1>3, <1>4, <1>5, <1>6, <1>7, <1>8, <1>9, <1>10, <1>11, <1>12, <1>13, <1>14, <1>15,
       <1>16, <1>17, <1>18, <1>19, <1>20, <1>22 DEF Next

-----------------------------------------------------------------------------
(* Where keys come from: genkey, a backup of the host, or where they were. *)

LEMMA Flow ==
    ASSUME TypeInv, [Next]_vars
    PROVE  \/ AtHand' \subseteq AtHand
           \/ GenKey /\ keydev = Empty /\ keydev_enc = None
                /\ keydev'.form = "f1" /\ keydev'.key \in Keys \ used /\ used' = used \cup {keydev'.key}
                /\ AtHand' \subseteq AtHand \cup {keydev'.key}
           \/ Import /\ AtHand' \subseteq AtHand \cup {copy}
<1>a. TypeOK /\ JobInv
    BY DEF TypeInv
<1>b. None \notin Keys /\ Zeros \notin Keys /\ Empty.key = None
    BY FileFacts, KeyAssumption DEF Values
<1>c. AtHand' = Keys \cap ({keydev'.key, keydev_enc'} \cup KeysOf(job') \cup Because(has_keydev_dec', keydev_dec'))
    BY DEF AtHand
<1>1. CASE PutKeydev
  <2>1. keydev'.key \in KeysOf(job) /\ KeysOf(job') \subseteq KeysOf(job)
      BY <1>1, <1>a, KeydevSteps
  <2>2. UNCHANGED <<keydev_enc, has_keydev_dec, keydev_dec>>
      BY <1>1 DEF PutKeydev, ram
  <2> QED
      BY <1>c, <2>1, <2>2 DEF AtHand, Because
<1>2. CASE PutKeydevEnc
  <2>1. keydev_enc' \in KeysOf(job) /\ KeysOf(job') \subseteq KeysOf(job)
      BY <1>2, <1>a, EncSteps
  <2>2. UNCHANGED <<keydev, has_keydev_dec, keydev_dec>>
      BY <1>2 DEF PutKeydevEnc, ram
  <2> QED
      BY <1>c, <2>1, <2>2 DEF AtHand, Because
\* The rows shrink, or a request leaves one with keys at hand.
<1>3. ASSUME UNCHANGED <<keydev_enc, has_keydev_dec>>,
             keydev' = keydev \/ keydev' = Sealed,
             keydev_dec' = keydev_dec \/ keydev_dec' = Zeros,
             \/ KeysOf(job') \cap Keys \subseteq KeysOf(job)
             \/ KeysOf(job') \cap Keys \subseteq AtHand
      PROVE  AtHand' \subseteq AtHand
  <2>1. keydev'.key = keydev.key
      BY <1>3, <1>a, SealedFacts
  <2> QED
      BY <1>b, <1>c, <1>3, <2>1 DEF AtHand, Because
<1>4. CASE PutCounter
    BY <1>4, <1>a, <1>3, CounterSteps DEF PutCounter, ram
<1>5. CASE Reply
    BY <1>5, <1>a, <1>3, ReplySteps DEF Reply, flash, ram
<1>6. CASE GenKey
  <2>1. KeysOf(job') \cap Keys = {} /\ UNCHANGED <<keydev_enc, has_keydev_dec, keydev_dec>>
      BY <1>6, <1>a, <1>b, BootSteps DEF GenKey, ram
  <2>2. CASE keydev = Empty /\ keydev_enc = None
    <3>1. PICK k \in Keys \ used : keydev' = File("f1", k) /\ used' = used \cup {k}
        BY <1>6, <2>2 DEF GenKey
    <3>2. keydev'.form = "f1" /\ keydev'.key = k
        BY <3>1, FileFacts
    <3> QED
        BY <1>6, <1>c, <2>1, <2>2, <3>1, <3>2 DEF AtHand, Because
  <2>3. CASE ~(keydev = Empty /\ keydev_enc = None)
      BY <1>3, <1>6, <2>1, <2>3 DEF GenKey
  <2> QED
      BY <2>2, <2>3
<1>7. CASE PutCert
    BY <1>7, <1>a, <1>b, <1>3, BootSteps DEF PutCert, ram
<1>8. CASE PutZero
    BY <1>8, <1>a, <1>3, BootSteps DEF PutZero, ram
<1>9. CASE ShowPin \/ FailUpgrade
    BY <1>9, <1>3 DEF ShowPin, FailUpgrade, flash
<1>10. CASE UpgradePin \/ ChangePin \/ ChangeOldPin
  <2>1. KeysOf(job') \cap Keys \subseteq AtHand
      BY <1>10, <1>a, <1>b, RewrapFacts, LoadsFacts
  <2> QED
      BY <1>10, <1>3, <2>1 DEF UpgradePin, ChangePin, ChangeOldPin, flash
<1>22. CASE PutPin
    BY <1>22, <1>a, <1>3, PinSteps DEF PutPin, ram
<1>11. CASE Enable
  <2>1. KeysOf(job') \cap Keys \subseteq {keydev.key, Junk, Broken} /\ UNCHANGED <<flash, ram>>
      BY <1>11, <1>a, EnableFacts
  <2>2. Broken \notin Keys /\ Junk \notin Keys
      BY KeyAssumption DEF Values
  <2> QED
      BY <1>3, <2>1, <2>2 DEF flash, ram, AtHand
<1>12. CASE Disable
  <2>1. /\ KeysOf(job') \cap Keys \subseteq {keydev_dec} /\ has_keydev_dec /\ keydev_dec' = Zeros
        /\ UNCHANGED <<flash, has_keydev_dec>>
      BY <1>12, <1>a, DisableFacts
  <2> QED
      BY <1>3, <2>1 DEF flash, AtHand, Because
<1>13. CASE Unlock
    BY <1>13, <1>c DEF Unlock, flash, AtHand, Because
<1>14. CASE FailUnlock
    BY <1>14, <1>3 DEF FailUnlock, flash
<1>15. CASE Export
    BY <1>15, <1>3 DEF Export, flash, ram
<1>16. CASE Import
    BY <1>16, <1>a, <1>c, ImportFacts DEF flash, ram, AtHand, Because
<1>17. CASE Sign
  <2>1. /\ Loaded # None /\ KeysOf(job') \cap Keys \subseteq {Loaded}
        /\ UNCHANGED <<keydev, keydev_enc, keydev_dec, has_keydev_dec>>
      BY <1>17, <1>a, SignFacts DEF flash, ram
  <2>2. Loaded \in Keys => Loaded \in AtHand
      BY <1>a, <2>1, LoadsFacts DEF Loaded, TypeOK
  <2> QED
      BY <1>3, <2>1, <2>2
<1>18. CASE Register
    BY <1>18, <1>3 DEF Register, flash, ram
<1>19. CASE FactoryReset
  <2>1. KeysOf(job') = {None} /\ keydev'.key = None /\ keydev_enc' = None /\ UNCHANGED ram
      BY <1>19, <1>b, BootRows DEF FactoryReset
  <2> QED
      BY <1>b, <1>c, <2>1 DEF ram, AtHand, Because
<1>20. CASE PowerLoss
  <2>1. KeysOf(job') = {None} /\ UNCHANGED flash /\ ~has_keydev_dec'
      BY <1>20, BootRows DEF PowerLoss
  <2> QED
      BY <1>b, <1>c, <2>1 DEF flash, AtHand, Because
<1>21. CASE UNCHANGED vars
    BY <1>21, <1>3 DEF vars, flash, ram
<1> QED
    BY <1>1, <1>2, <1>4, <1>5, <1>6, <1>7, <1>8, <1>9, <1>10, <1>11, <1>12, <1>13, <1>14, <1>15,
       <1>16, <1>17, <1>18, <1>19, <1>20, <1>21, <1>22 DEF Next

(* What a step adds to the histories *)
LEMMA Histories ==
    ASSUME TypeInv, [Next]_vars
    PROVE  /\ used' = used \/ GenKey
           /\ made' = made \/ Reply \/ Register \/ (FactoryReset /\ made' = {})
           /\ Keys \cap made' \subseteq made \cup AtHand
           /\ copy' = copy \/ copy' = keydev_enc
           /\ \A k \in Keys \ AtHand : seen'[k] = seen[k]
           /\ UNCHANGED <<seen, repeated>> \/ Reply \/ (FactoryReset /\ seen' = seen /\ repeated' = {})
           /\ odd \subseteq odd' \/ (FactoryReset /\ odd' = Because(has_keydev_dec, "carried"))
           /\ certdev' = certdev \/ PutCert \/ FactoryReset
           /\ counter' = counter \/ PutCounter \/ PutZero \/ FactoryReset
<1>a. TypeOK /\ JobInv /\ seen \in [Keys -> 0..MaxCount + 1]
    BY DEF TypeInv, TypeOK
<1>1. ASSUME UNCHANGED <<used, made, copy, seen, repeated>>, odd \subseteq odd', UNCHANGED <<certdev, counter>>
      PROVE  /\ UNCHANGED <<used, made, seen, repeated, certdev, counter>> /\ Keys \cap made' \subseteq made
             /\ copy' = copy /\ (\A k \in Keys \ AtHand : seen'[k] = seen[k]) /\ odd \subseteq odd'
    BY <1>1
<1>2. CASE PutKeydev \/ PutKeydevEnc \/ PutPin
    BY <1>1, <1>2 DEF PutKeydev, PutKeydevEnc, PutPin, history
<1>3. CASE PutCounter
    BY <1>3 DEF PutCounter, history
<1>4. CASE Reply
  <2>1. Val(job).key \in KeysOf(job)
      BY <1>4, <1>a, ReplySteps
  <2>2. made' \subseteq made \cup {Val(job).key}
      BY <1>4 DEF Reply, Value, Val
  <2>3. \/ seen' = seen
        \/ Val(job).key \in Keys /\ \E n : seen' = [seen EXCEPT ![Val(job).key] = n]
      BY <1>4 DEF Reply, Value, Val
  <2>4. Keys \cap {Val(job).key} \subseteq AtHand
      BY <2>1 DEF AtHand
  <2>5. \A k \in Keys \ AtHand : seen'[k] = seen[k]
      BY <1>a, <2>3, <2>4
  <2> QED
      BY <1>4, <2>2, <2>4, <2>5 DEF Reply, flash
<1>5. CASE GenKey
    BY <1>5 DEF GenKey
<1>6. CASE PutCert \/ PutZero
    BY <1>6 DEF PutCert, PutZero, history
<1>7. CASE ShowPin \/ FailUpgrade \/ Unlock \/ Sign \/ UNCHANGED vars
    BY <1>1, <1>7 DEF ShowPin, FailUpgrade, Unlock, Sign, vars, flash, history
<1>8. CASE UpgradePin \/ ChangePin \/ ChangeOldPin \/ Enable \/ Disable \/ FailUnlock \/ Import \/ PowerLoss
    BY <1>1, <1>8 DEF UpgradePin, ChangePin, ChangeOldPin, Enable, Disable, FailUnlock, Import, PowerLoss, Odd, flash
<1>9. CASE Export
    BY <1>9 DEF Export, flash
<1>10. CASE Register
  <2>1. Loaded # None /\ made' = made \cup {Loaded} /\ UNCHANGED <<used, seen, repeated, copy, odd, certdev, counter>>
      BY <1>10 DEF Register, flash
  <2>2. Loaded \in Keys => Loaded \in AtHand
      BY <1>a, <2>1, LoadsFacts DEF Loaded, TypeOK
  <2> QED
      BY <1>10, <2>1, <2>2
<1>11. CASE FactoryReset
    BY <1>11 DEF FactoryReset
<1> QED
    BY <1>2, <1>3, <1>4, <1>5, <1>6, <1>7, <1>8, <1>9, <1>10, <1>11 DEF Next

LEMMA StepUsed == TypeInv /\ UsedInv /\ [Next]_vars => UsedInv'
<1> SUFFICES ASSUME TypeInv, UsedInv, [Next]_vars PROVE UsedInv'
    OBVIOUS
<1>1. /\ AtHand \subseteq used /\ Keys \cap made \subseteq used /\ Keys \cap {copy} \subseteq used
      /\ \A k \in Keys \ used : seen[k] = 0
    BY DEF UsedInv
<1>2. used \subseteq used'
    BY Histories DEF GenKey
<1>3. AtHand' \subseteq used'
    BY <1>1, <1>2, Flow DEF AtHand
<1>4. Keys \cap made' \subseteq used'
    BY <1>1, <1>2, Histories
<1>5. Keys \cap {copy'} \subseteq used'
    BY <1>1, <1>2, Histories DEF AtHand
<1>6. \A k \in Keys \ used' : seen'[k] = 0
    BY <1>1, <1>2, Histories
<1> QED
    BY <1>3, <1>4, <1>5, <1>6 DEF UsedInv

(* A handler starts when no row is left. *)
LEMMA IdleFacts ==
    ASSUME JobInv
    PROVE  (Idle <=> Stage(job) = "idle") /\ (Idle => KeysOf(job) = {})
<1>1. Idle => Stage(job) = "idle" /\ KeysOf(job) = {}
    BY BootRows DEF Idle
<1>2. job # <<>> => Head(job).do \in {"genkey", "cert", "zero", "keydev", "enc", "pin", "counter", "reply"}
    BY JobCases
<1>3. job # <<>> => Stage(job) # "idle"
    BY <1>2 DEF Stage
<1> QED
    BY <1>1, <1>3 DEF Idle

-----------------------------------------------------------------------------
(* The first key *)

LEMMA StepPresent == TypeInv /\ PresentInv /\ [Next]_vars => PresentInv'
<1> SUFFICES ASSUME TypeInv, PresentInv, [Next]_vars PROVE PresentInv'
    OBVIOUS
<1>a. TypeOK /\ JobInv
    BY DEF TypeInv
<1>b. /\ keydev = Empty /\ keydev_enc = None => Stage(job) = "genkey" /\ certdev = None
      /\ Stage(job) \in {"lock2", "lock3"} => keydev_enc # None
      /\ Stage(job) = "unlock2" => keydev # Empty
    BY DEF PresentInv
<1>c. \A k : File("f1", k) # Empty /\ File("f2", k) # Empty /\ File("raw", k) # Empty
    BY DEF File, Empty
\* A handler that is not at the files of the key, or starts
<1>d. ASSUME Stage(job) # "genkey", Stage(job') \notin {"lock2", "lock3", "unlock2"},
             keydev' = Empty <=> keydev = Empty, keydev_enc' = keydev_enc
      PROVE  PresentInv'
    BY <1>b, <1>d DEF PresentInv
<1>1. CASE PutKeydev
  <2>1. keydev_enc' = keydev_enc
      BY <1>1 DEF PutKeydev
  <2> QED
      BY <1>a, <1>b, <1>c, <1>1, <2>1, KeydevSteps DEF PresentInv
<1>2. CASE PutKeydevEnc
  <2>1. keydev' = keydev
      BY <1>2 DEF PutKeydevEnc
  <2>2. None \notin Values \cup {Broken}
      BY KeyAssumption
  <2> QED
      BY <1>a, <1>b, <1>2, <2>1, <2>2, EncSteps DEF PresentInv
<1>3. CASE PutCounter
    BY <1>a, <1>d, <1>3, CounterSteps DEF PutCounter
<1>4. CASE Reply
    BY <1>a, <1>d, <1>4, ReplySteps DEF Reply, flash
<1>5. CASE GenKey
  <2>1. Stage(job') = "cert" /\ keydev_enc' = keydev_enc
      BY <1>a, <1>5, BootSteps DEF GenKey
  <2>2. ~(keydev' = Empty /\ keydev_enc' = None)
      BY <1>c, <1>5 DEF GenKey
  <2> QED
      BY <2>1, <2>2 DEF PresentInv
<1>6. CASE PutCert \/ PutZero
    BY <1>a, <1>d, <1>6, BootSteps DEF PutCert, PutZero
<1>7. CASE ShowPin \/ FailUpgrade \/ Unlock \/ FailUnlock \/ Export \/ Register
    BY <1>a, <1>d, <1>7, IdleFacts, SealedFacts DEF ShowPin, FailUpgrade, Unlock, FailUnlock, Export, Register, flash
<1>8. CASE UpgradePin \/ ChangePin \/ ChangeOldPin
    BY <1>a, <1>d, <1>8, RewrapFacts, SealedFacts DEF UpgradePin, ChangePin, ChangeOldPin, flash
<1>16. CASE PutPin
    BY <1>a, <1>d, <1>16, PinSteps DEF PutPin
<1>9. CASE Enable
    BY <1>a, <1>d, <1>9, EnableFacts DEF flash
<1>10. CASE Import
    BY <1>a, <1>d, <1>10, ImportFacts DEF flash
<1>11. CASE Disable
    BY <1>a, <1>d, <1>11, DisableFacts DEF flash
<1>12. CASE Sign
    BY <1>a, <1>d, <1>12, SignFacts DEF flash
<1>13. CASE FactoryReset
    BY <1>13, BootRows DEF FactoryReset, PresentInv
<1>14. CASE PowerLoss
    BY <1>b, <1>14, BootRows DEF PowerLoss, flash, PresentInv
<1>15. CASE UNCHANGED vars
    BY <1>b, <1>15 DEF vars, flash, PresentInv
<1> QED
    BY <1>1, <1>2, <1>3, <1>4, <1>5, <1>6, <1>7, <1>8, <1>9, <1>10, <1>11, <1>12, <1>13, <1>14, <1>15, <1>16 DEF Next

(* While scan_files makes the first key only its steps and a power loss    *)
(* are possible.                                                           *)
LEMMA StepBoot == TypeInv /\ PresentInv /\ BootInv /\ [Next]_vars => BootInv'
<1> SUFFICES ASSUME TypeInv, PresentInv, BootInv, [Next]_vars, "carried" \notin odd'
             PROVE  /\ certdev' = None => counter' = None
                    /\ counter' = None =>
                          /\ Stage(job') \in {"genkey", "cert", "zero"} /\ ~has_keydev_dec' /\ keydev_enc' = None
                          /\ keydev' = Empty => Stage(job') = "genkey"
                          /\ keydev' # Empty => keydev'.form = "f1" /\ keydev'.key \in Keys
                          /\ Stage(job') = "zero" => certdev' # None
    BY DEF BootInv
<1>a. TypeOK /\ JobInv
    BY DEF TypeInv
<1>1. CASE FactoryReset
  <2>1. ~has_keydev_dec
      BY <1>1 DEF FactoryReset, Because
  <2> QED
      BY <1>1, <2>1, BootRows DEF FactoryReset, ram
<1> SUFFICES ASSUME ~FactoryReset
             PROVE  /\ certdev' = None => counter' = None
                    /\ counter' = None =>
                          /\ Stage(job') \in {"genkey", "cert", "zero"} /\ ~has_keydev_dec' /\ keydev_enc' = None
                          /\ keydev' = Empty => Stage(job') = "genkey"
                          /\ keydev' # Empty => keydev'.form = "f1" /\ keydev'.key \in Keys
                          /\ Stage(job') = "zero" => certdev' # None
    BY <1>1
<1>b. /\ certdev = None => counter = None
      /\ counter = None =>
            /\ Stage(job) \in {"genkey", "cert", "zero"} /\ ~has_keydev_dec /\ keydev_enc = None
            /\ keydev = Empty => Stage(job) = "genkey"
            /\ keydev # Empty => keydev.form = "f1" /\ keydev.key \in Keys
            /\ Stage(job) = "zero" => certdev # None
    BY Histories DEF BootInv
<1>2. CASE counter # None
  <2>1. certdev' # None
      BY <1>a, <1>b, <1>2, Histories, BootSteps
  <2>2. PutCounter => counter' # None
    <3>1. ASSUME NEW n \in Counts PROVE n + 1 # None
        BY KeyAssumption DEF Counts
    <3> QED
        BY <1>a, <3>1, CounterSteps
  <2>3. PutZero => counter' # None
      BY <1>2 DEF PutZero
  <2> QED
      BY <1>2, <2>1, <2>2, <2>3, Histories
<1>3. CASE counter = None
  <2>1. CASE GenKey
    <3>1. \A k : File("f1", k) # Empty /\ File("f1", k).form = "f1" /\ File("f1", k).key = k
        BY FileFacts DEF File, Empty
    <3> QED
        BY <1>a, <1>b, <1>3, <2>1, <3>1, BootSteps DEF GenKey, ram
  <2>2. CASE PutCert
    <3>1. UNCHANGED <<keydev, keydev_enc, counter, has_keydev_dec>> /\ Stage(job) = "cert"
        BY <1>a, <2>2, BootSteps DEF PutCert, ram
    <3>2. Loaded = keydev.key /\ Loaded \notin {None, Zeros}
        BY <1>b, <1>3, <3>1, KeyAssumption DEF Loaded, Loads, Values
    <3> QED
        BY <1>a, <1>b, <1>3, <2>2, <3>1, <3>2, BootSteps
  <2>3. CASE PutZero
    <3>1. counter' = 0 /\ 0 # None
        BY <1>3, <2>3, KeyAssumption DEF PutZero
    <3>2. certdev' # None
        BY <1>a, <1>b, <1>3, <2>3, BootSteps DEF PutZero
    <3> QED
        BY <3>1, <3>2
  <2>4. CASE PowerLoss
      BY <1>b, <1>3, <2>4, BootRows DEF PowerLoss, flash
  <2>5. CASE UNCHANGED vars
      BY <1>b, <1>3, <2>5 DEF vars, flash, ram
  <2>6. ~Idle /\ Stage(job) \in {"genkey", "cert", "zero"}
      BY <1>a, <1>b, <1>3, IdleFacts
  <2>7. ~(PutKeydev \/ PutKeydevEnc \/ PutPin \/ PutCounter \/ Reply)
      BY <1>a, <2>6, KeydevSteps, EncSteps, PinSteps, CounterSteps, ReplySteps
  <2>8. ~(\/ ShowPin \/ UpgradePin \/ FailUpgrade \/ ChangePin \/ ChangeOldPin \/ Enable \/ Disable \/ Unlock \/ FailUnlock \/ Export \/ Import
          \/ Sign \/ Register)
      BY <2>6 DEF ShowPin, UpgradePin, FailUpgrade, ChangePin, ChangeOldPin, Enable, Disable, Unlock, FailUnlock,
                  Export, Import, Sign, Signing, Register, Start
  <2> QED
      BY <2>1, <2>2, <2>3, <2>4, <2>5, <2>7, <2>8 DEF Next
<1> QED
    BY <1>2, <1>3

-----------------------------------------------------------------------------
(* The signature counter *)

LEMMA StepCount == TypeInv /\ UsedInv /\ BootInv /\ CountInv /\ [Next]_vars => CountInv'
<1> SUFFICES ASSUME TypeInv, UsedInv, BootInv, CountInv, [Next]_vars, ~Unless({"carried", "restored"})'
             PROVE  /\ repeated' = {}
                    /\ \A k \in AtHand' : seen'[k] <= Count'
                    /\ Stage(job') = "counter" => counter' = Second(job').count
                    /\ Stage(job') = "reply" =>
                          /\ counter' = Val(job').count + 1
                          /\ Val(job').key \in Keys => seen'[Val(job').key] <= Val(job').count
    BY DEF CountInv
<1>a. /\ TypeOK /\ JobInv /\ counter \in 0..MaxCount \cup {None} /\ None \notin 0..MaxCount
      /\ MaxCount \in Nat /\ Counts \subseteq 0..MaxCount /\ seen \in [Keys -> 0..MaxCount + 1]
      /\ AtHand \subseteq Keys /\ AtHand' \subseteq Keys
    BY KeyAssumption DEF TypeInv, TypeOK, Counts, AtHand
<1>1. CASE FactoryReset
  <2>1. ~has_keydev_dec /\ ~has_keydev_dec'
      BY <1>1 DEF FactoryReset, Because, Unless, ram
  <2>2. Stage(job') = "genkey" /\ KeysOf(job') = {None} /\ keydev'.key = None /\ keydev_enc' = None
      BY <1>1, BootRows, FileFacts DEF FactoryReset
  <2>3. AtHand' = {}
      BY <2>1, <2>2, KeyAssumption DEF AtHand, Because, Values
  <2> QED
      BY <1>1, <2>2, <2>3 DEF FactoryReset
<1>2. CASE ~FactoryReset
  <2>a. ~Unless({"carried", "restored"}) /\ "carried" \notin odd
      BY <1>2, Histories DEF Unless
  <2>b. /\ repeated = {} /\ \A k \in AtHand : seen[k] <= Count
        /\ Stage(job) = "counter" => counter = Second(job).count
        /\ Stage(job) = "reply" =>
              /\ counter = Val(job).count + 1
              /\ Val(job).key \in Keys => seen[Val(job).key] <= Val(job).count
      BY <2>a DEF CountInv
  <2>c. Count \in Nat /\ \A k \in Keys : seen[k] \in Nat
      BY <1>a DEF Count
  <2>d. \A k \in AtHand' : seen[k] <= Count
    <3>1. ~Import
        BY <1>a, ImportFacts DEF Unless
    <3>2. \A k \in Keys \ used : seen[k] = 0
        BY DEF UsedInv
    <3>3. \A k \in AtHand' : k \in AtHand \/ k \in Keys \ used
        BY <3>1, Flow
    <3> QED
        BY <2>b, <2>c, <3>2, <3>3
  <2>e. ASSUME UNCHANGED <<counter, seen, repeated>>, Stage(job') \notin {"counter", "reply"}
        PROVE  /\ repeated' = {}
               /\ \A k \in AtHand' : seen'[k] <= Count'
               /\ Stage(job') = "counter" => counter' = Second(job').count
               /\ Stage(job') = "reply" =>
                     /\ counter' = Val(job').count + 1
                     /\ Val(job').key \in Keys => seen'[Val(job').key] <= Val(job').count
      BY <2>b, <2>d, <2>e DEF Count
  <2>1. CASE PutKeydev \/ PutKeydevEnc \/ PutPin
      BY <1>a, <2>e, <2>1, KeydevSteps, EncSteps, PinSteps DEF PutKeydev, PutKeydevEnc, PutPin, history
  <2>2. CASE PutCounter
    <3> DEFINE n == Second(job).count
               k == Second(job).key
    <3>1. /\ counter' = n + 1 /\ n \in Counts /\ k \in KeysOf(job)
          /\ Stage(job) = "counter" /\ Stage(job') = "reply" /\ Val(job') = Second(job)
        BY <1>a, <2>2, CounterSteps
    <3>2. counter = n /\ UNCHANGED <<seen, repeated>> /\ n \in Nat
        BY <1>a, <2>2, <2>b, <3>1 DEF PutCounter, history
    <3> HIDE DEF n, k
    <3>3. Count = n /\ Count' = n + 1
        BY <1>a, <3>1, <3>2, KeyAssumption DEF Count, Counts
    <3>4. \A l \in AtHand' : seen[l] <= n + 1
        BY <1>a, <2>c, <2>d, <3>2, <3>3
    <3>5. k \in Keys => seen[k] <= n
        BY <2>b, <3>1, <3>3 DEF AtHand
    <3> QED
        BY <2>b, <3>1, <3>2, <3>3, <3>4, <3>5 DEF n, k
  <2>3. CASE Reply
    <3> DEFINE n == Val(job).count
               k == Val(job).key
    <3>1. n \in Counts /\ Stage(job) = "reply" /\ Stage(job') = "idle"
        BY <1>a, <2>3, ReplySteps
    <3>2. counter = n + 1 /\ counter' = counter /\ n \in Nat /\ (k \in Keys => seen[k] <= n)
      <4>1. counter = n + 1 /\ (k \in Keys => seen[k] <= n)
          BY <2>b, <3>1
      <4>2. counter' = counter
          BY <2>3 DEF Reply, flash
      <4>3. n \in Nat
        <5>1. \A m \in Counts : m \in Nat
            BY <1>a
        <5> QED
            BY <3>1, <5>1
      <4> QED
          BY <4>1, <4>2, <4>3
    <3>3. IF k \in Keys
          THEN /\ seen' = [seen EXCEPT ![k] = IF n < @ THEN @ ELSE n + 1]
               /\ repeated' = repeated \cup Because(n < seen[k], k)
          ELSE UNCHANGED <<seen, repeated>>
        BY <2>3 DEF Reply, Value, Val
    <3> HIDE DEF n, k
    <3>4. Count = n + 1 /\ Count' = n + 1
        BY <1>a, <3>1, <3>2, KeyAssumption DEF Count, Counts
    <3>5. repeated' = {}
        BY <2>b, <2>c, <3>2, <3>3 DEF Because
    <3>6. ASSUME NEW l \in AtHand' PROVE seen'[l] <= n + 1
      <4>1. seen[l] <= n + 1 /\ l \in Keys
          BY <1>a, <2>d, <3>4
      <4>2. seen'[l] = seen[l] \/ (l = k /\ k \in Keys /\ seen'[l] = IF n < seen[k] THEN seen[k] ELSE n + 1)
          BY <1>a, <3>3, <4>1
      <4> QED
          BY <2>c, <3>2, <4>1, <4>2
    <3> QED
        BY <3>1, <3>4, <3>5, <3>6
  <2>4. CASE GenKey \/ PutCert
      BY <1>a, <2>e, <2>4, BootSteps DEF GenKey, PutCert, history
  <2>5. CASE PutZero
    <3>1. Count' = Count
        BY <1>a, <2>5, KeyAssumption DEF PutZero, Count
    <3>2. Stage(job') = "idle" /\ UNCHANGED <<seen, repeated>>
        BY <1>a, <2>5, BootSteps DEF PutZero, history
    <3> QED
        BY <2>b, <2>d, <3>1, <3>2
  <2>6. CASE ShowPin \/ FailUpgrade \/ Unlock \/ FailUnlock \/ Export \/ Register
    <3>1. Stage(job) = "idle" /\ job' = job /\ UNCHANGED <<counter, seen, repeated>>
        BY <1>a, <2>6, IdleFacts DEF ShowPin, FailUpgrade, Unlock, FailUnlock, Export, Register, flash, history
    <3> QED
        BY <2>e, <3>1
  <2>7. CASE UpgradePin \/ ChangePin \/ ChangeOldPin \/ Enable \/ Disable \/ Import
    <3>1. Stage(job') \in {"rewrap", "pin", "lock1", "unlock1"}
        BY <1>a, <2>7, RewrapFacts, EnableFacts, DisableFacts, ImportFacts
    <3>2. UNCHANGED <<counter, seen, repeated>>
        BY <2>7 DEF UpgradePin, ChangePin, ChangeOldPin, Enable, Disable, Import, flash
    <3> QED
        BY <2>e, <3>1, <3>2
  <2>8. CASE Sign
    <3>1. /\ Stage(job) = "idle" /\ Stage(job') = "counter" /\ UNCHANGED <<counter, seen, repeated>>
          /\ counter \in {Second(job').count, None}
        BY <1>a, <2>8, SignFacts DEF flash, history
    <3>2. counter # None
        BY <2>a, <3>1 DEF BootInv
    <3> QED
        BY <2>b, <2>d, <3>1, <3>2 DEF Count
  <2>9. CASE PowerLoss
      BY <2>e, <2>9, BootRows DEF PowerLoss, flash
  <2>10. CASE UNCHANGED vars
      BY <2>b, <2>10 DEF vars, flash, history, Count, AtHand, ram
  <2> QED
      BY <1>2, <2>1, <2>2, <2>3, <2>4, <2>5, <2>6, <2>7, <2>8, <2>9, <2>10 DEF Next
<1> QED
    BY <1>1, <1>2

-----------------------------------------------------------------------------
(* The certificate *)

(* What is true while the certificate is missing *)
LEMMA NoCert ==
    ASSUME TypeInv, BootInv, "carried" \notin odd, certdev = None
    PROVE  /\ Stage(job) \in {"genkey", "cert", "zero"} /\ ~Idle
           /\ ~has_keydev_dec /\ keydev_enc = None
           /\ Stage(job) # "genkey" => Loaded = keydev.key /\ keydev.form = "f1" /\ keydev.key \in Keys
<1>1. /\ Stage(job) \in {"genkey", "cert", "zero"} /\ ~has_keydev_dec /\ keydev_enc = None
      /\ Stage(job) # "genkey" => keydev.form = "f1" /\ keydev.key \in Keys
    BY DEF BootInv
<1>2. ~Idle
    BY <1>1, IdleFacts DEF TypeInv
<1>3. Stage(job) # "genkey" => Loaded = keydev.key
    BY <1>1 DEF Loaded, Loads
<1> QED
    BY <1>1, <1>2, <1>3

LEMMA StepCert == TypeInv /\ PresentInv /\ BootInv /\ CertInv /\ [Next]_vars => CertInv'
<1> SUFFICES ASSUME TypeInv, PresentInv, BootInv, CertInv, [Next]_vars, ~Unless({"carried", "restored"})'
             PROVE  /\ certdev' # None => AtHand' \cup (Keys \cap made') \subseteq {certdev'}
                    /\ certdev' = None => Keys \cap made' = {}
    BY DEF CertInv
<1>a. TypeOK /\ JobInv
    BY DEF TypeInv
<1>1. CASE FactoryReset
    BY <1>1 DEF FactoryReset
<1>2. CASE ~FactoryReset
  <2>a. /\ ~Unless({"carried", "restored"}) /\ "carried" \notin odd
        /\ certdev # None => AtHand \cup (Keys \cap made) \subseteq {certdev}
        /\ certdev = None => Keys \cap made = {}
      BY <1>2, Histories DEF CertInv, Unless
  <2>1. CASE certdev # None
    <3>1. certdev' = certdev
        BY <1>a, <1>2, <2>1, Histories, BootSteps
    <3>2. ~Import
        BY <1>a, ImportFacts DEF Unless
    <3>3. AtHand' \subseteq AtHand
        BY <2>1, <3>2, Flow DEF PresentInv
    <3> QED
        BY <2>1, <2>a, <3>1, <3>3, Histories
  <2>2. CASE certdev = None
    <3>1. ~Reply /\ ~Register
        BY <1>a, <2>2, <2>a, NoCert, ReplySteps DEF Register
    <3>2. Keys \cap made' = {}
        BY <1>2, <2>2, <2>a, <3>1, Histories
    <3>3. certdev' # None => PutCert
        BY <1>2, <2>2, Histories
    <3>4. ASSUME PutCert, certdev' # None PROVE AtHand' \subseteq {certdev'}
      <4>1. Stage(job) = "cert" /\ certdev' = Loaded /\ KeysOf(job') \subseteq {None}
          BY <1>a, <2>2, <3>4, BootSteps
      <4>2. Loaded = keydev.key /\ keydev_enc = None /\ ~has_keydev_dec
          BY <2>2, <2>a, <4>1, NoCert
      <4>3. UNCHANGED <<keydev, keydev_enc, has_keydev_dec>> /\ None \notin Keys
          BY <3>4, KeyAssumption DEF PutCert, ram, Values
      <4> QED
          BY <4>1, <4>2, <4>3 DEF AtHand, Because
    <3> QED
        BY <3>2, <3>3, <3>4
  <2> QED
      BY <2>1, <2>2
<1> QED
    BY <1>1, <1>2

-----------------------------------------------------------------------------
(* The key stays on the device. *)

LEMMA StepKept == TypeInv /\ PresentInv /\ BootInv /\ CertInv /\ KeptInv /\ [Next]_vars => KeptInv'
<1> SUFFICES ASSUME TypeInv, PresentInv, BootInv, CertInv, KeptInv, [Next]_vars,
                    ~Unless({"mislocked", "doubled", "overwritten", "restored", "carried"})'
             PROVE  /\ certdev' # None => certdev' \in Keys /\ OnDevice(certdev)'
                    /\ Stage(job') \in {"rewrap", "pin", "unlock1"} => KeysOf(job') \subseteq Keys \cup {None}
                    /\ Stage(job') = "lock1" => Val(job') \in Keys
                    /\ Stage(job') \in {"lock2", "lock3"} => keydev_enc' \in Keys
                    /\ Stage(job') = "unlock2" => keydev'.form = "raw" /\ keydev'.key \in Keys
    BY DEF KeptInv
<1>a. TypeOK /\ JobInv
    BY DEF TypeInv
<1>1. CASE FactoryReset
    BY <1>1, BootRows DEF FactoryReset
<1>2. CASE ~FactoryReset
  <2>a. /\ "carried" \notin odd /\ ~Unless({"carried", "restored"})
        /\ certdev # None => certdev \in Keys /\ OnDevice(certdev)
        /\ Stage(job) \in {"rewrap", "pin", "unlock1"} => KeysOf(job) \subseteq Keys \cup {None}
        /\ Stage(job) = "lock1" => Val(job) \in Keys
        /\ Stage(job) \in {"lock2", "lock3"} => keydev_enc \in Keys
        /\ Stage(job) = "unlock2" => keydev.form = "raw" /\ keydev.key \in Keys
      BY <1>2, Histories DEF KeptInv, Unless
  <2>b. certdev # None => \A k \in Keys : k \in {keydev.key, keydev_enc} \cup KeysOf(job) => k = certdev
      BY <2>a DEF CertInv, AtHand
  <2>c. certdev = None => Stage(job) \in {"genkey", "cert", "zero"} /\ ~Idle
      BY <2>a, NoCert
  \* A step that leaves the blob and the key in the file
  <2>d. ASSUME certdev' = certdev, keydev_enc' = keydev_enc, keydev' = keydev \/ keydev' = Sealed
        PROVE  certdev' # None => certdev' \in Keys /\ OnDevice(certdev)'
    <3>1. /\ keydev'.key = keydev.key
          /\ keydev.form \in {"mkek", "raw", "f1", "f2"} => keydev'.form \in {"mkek", "raw", "f1", "f2"}
        BY <1>a, <2>d, SealedFacts
    <3> QED
        BY <2>a, <2>d, <3>1 DEF OnDevice
  <2>1. CASE PutKeydev
    <3>1. UNCHANGED <<keydev_enc, certdev>> /\ keydev' = Val(job) /\ keydev'.key \in KeysOf(job)
        BY <1>a, <2>1, KeydevSteps DEF PutKeydev
    <3>2. certdev # None
        BY <1>a, <2>1, <2>c, KeydevSteps
    <3>3. CASE /\ Stage(job) = "rewrap" /\ Stage(job') \in {"rewrap", "pin", "idle"}
               /\ \E k \in Values : /\ keydev' \in {File("f1", k), File("f2", k)} /\ keydev'.key = k
                                     /\ KeysOf(job) \subseteq {k, None}
      <4>1. keydev'.form \in {"f1", "f2"} /\ keydev'.key \in Values
          BY <3>3, FileFacts
      <4>2. keydev'.key \in Keys
          BY <2>a, <3>1, <3>3, <4>1, KeyAssumption
      <4>3. KeysOf(job') \subseteq Keys \cup {None}
          BY <1>a, <2>1, <2>a, <3>3, KeydevSteps
      <4>4. certdev' \in Keys /\ certdev' = keydev'.key
          BY <2>a, <2>b, <3>1, <3>2, <4>2
      <4>5. OnDevice(certdev)'
          BY <4>1, <4>4 DEF OnDevice
      <4> QED
          BY <3>3, <4>3, <4>4, <4>5
    <3>5. CASE Stage(job) \in {"lock2", "lock3"} /\ Stage(job') \in {"lock3", "idle"}
        BY <2>a, <2>b, <3>1, <3>2, <3>5 DEF OnDevice
    <3>6. CASE Stage(job) = "unlock1" /\ Stage(job') = "unlock2" /\ \E k \in Values : keydev' = File("raw", k)
      <4>1. keydev'.form = "raw" /\ keydev'.key \in Values
          BY <3>6, FileFacts
      <4>2. keydev'.key \in Keys
          BY <2>a, <3>1, <3>6, <4>1, KeyAssumption
      <4> QED
          BY <2>a, <2>b, <3>1, <3>2, <3>6, <4>1, <4>2 DEF OnDevice
    <3> QED
        BY <1>a, <2>1, <3>3, <3>5, <3>6, KeydevSteps
  <2>2. CASE PutKeydevEnc
    <3>1. UNCHANGED <<keydev, certdev>> /\ keydev_enc' = Val(job) /\ keydev_enc' \in KeysOf(job)
        BY <1>a, <2>2, EncSteps DEF PutKeydevEnc
    <3>2. certdev # None
        BY <1>a, <2>2, <2>c, EncSteps
    <3>3. CASE Stage(job) = "lock1" /\ Stage(job') = "lock2"
        BY <2>a, <2>b, <3>1, <3>2, <3>3 DEF OnDevice
    <3>4. CASE Stage(job) = "unlock2" /\ Stage(job') = "idle"
        BY <2>a, <2>b, <3>1, <3>2, <3>4 DEF OnDevice
    <3> QED
        BY <1>a, <2>2, <3>3, <3>4, EncSteps
  <2>3. CASE PutCounter
      BY <1>a, <2>d, <2>3, CounterSteps DEF PutCounter
  <2>4. CASE Reply
      BY <1>a, <2>d, <2>4, ReplySteps DEF Reply, flash
  <2>5. CASE GenKey
    <3>1. Stage(job') = "cert" /\ UNCHANGED <<certdev, keydev_enc>>
        BY <1>a, <2>5, BootSteps DEF GenKey
    <3>2. certdev # None => keydev' = keydev
        BY <2>5 DEF GenKey, PresentInv
    <3> QED
        BY <2>d, <3>1, <3>2
  <2>6. CASE PutCert
    <3>1. Stage(job) = "cert" /\ Stage(job') \in {"zero", "idle"} /\ UNCHANGED <<keydev, keydev_enc>>
        BY <1>a, <2>6, BootSteps DEF PutCert
    <3>2. CASE certdev' = certdev
        BY <2>d, <3>1, <3>2
    <3>3. CASE certdev' # certdev
      <4>1. certdev = None /\ certdev' = Loaded
          BY <1>a, <2>6, <3>3, BootSteps
      <4>2. certdev' = keydev.key /\ keydev.form = "f1" /\ keydev.key \in Keys
          BY <2>a, <3>1, <4>1, NoCert
      <4> QED
          BY <3>1, <4>2 DEF OnDevice
    <3> QED
        BY <3>2, <3>3
  <2>7. CASE PutZero
      BY <1>a, <2>d, <2>7, BootSteps DEF PutZero
  <2>8. CASE ShowPin \/ FailUpgrade \/ Unlock \/ FailUnlock \/ Export \/ Register
    <3>1. /\ Stage(job) = "idle" /\ job' = job /\ UNCHANGED <<certdev, keydev_enc>>
          /\ keydev' = keydev \/ keydev' = Sealed
        BY <1>a, <2>8, IdleFacts DEF ShowPin, FailUpgrade, Unlock, FailUnlock, Export, Register, flash
    <3> QED
        BY <2>d, <3>1
  <2>9. CASE UpgradePin \/ ChangePin \/ ChangeOldPin
    <3>1. /\ Stage(job') \in {"rewrap", "pin"}
          /\ \E opened \in {"old", "new"} :
                /\ KeysOf(job') \subseteq {Loads(opened), None}
                /\ odd' = odd \cup (Because(has_keydev_dec, "spilled")
                                     \cup Because(Loads(opened) \notin Keys, "overwritten"))
        BY <1>a, <2>9, RewrapFacts
    <3>2. KeysOf(job') \subseteq Keys \cup {None}
        BY <3>1 DEF Because, Unless
    <3>3. UNCHANGED <<certdev, keydev_enc>> /\ (keydev' = keydev \/ keydev' = Sealed)
        BY <2>9 DEF UpgradePin, ChangePin, ChangeOldPin, flash
    <3> QED
        BY <2>d, <3>1, <3>2, <3>3
  <2>16. CASE PutPin
    <3>1. /\ Stage(job) = "pin" /\ Stage(job') \in {"rewrap", "pin", "idle"}
          /\ KeysOf(job') \subseteq KeysOf(job) /\ UNCHANGED <<keydev, keydev_enc, certdev>>
        BY <1>a, <2>16, PinSteps DEF PutPin
    <3> QED
        BY <2>a, <2>d, <3>1
  <2>10. CASE Enable
    <3>1. /\ Stage(job') = "lock1" /\ Val(job') = Blob
          /\ odd' = odd \cup (IF keydev.form = "mkek" THEN {"doubled"} ELSE Because(Blob \notin Keys, "mislocked"))
          /\ UNCHANGED flash
        BY <1>a, <2>10, EnableFacts
    <3>2. Val(job') \in Keys
        BY <3>1 DEF Because, Unless
    <3> QED
        BY <2>d, <3>1, <3>2 DEF flash
  <2>11. CASE Disable
    <3>1. /\ Stage(job') = "unlock1" /\ KeysOf(job') \subseteq {keydev_dec, None} /\ UNCHANGED flash
          /\ odd' = odd \cup ({"disabled"} \cup Because(keydev_dec \notin Keys, "overwritten"))
        BY <1>a, <2>11, DisableFacts
    <3>2. KeysOf(job') \subseteq Keys \cup {None}
        BY <3>1 DEF Because, Unless
    <3> QED
        BY <2>d, <3>1, <3>2 DEF flash
  <2>12. CASE Import
      BY <1>a, <2>12, ImportFacts DEF Unless
  <2>13. CASE Sign
      BY <1>a, <2>d, <2>13, SignFacts DEF flash
  <2>14. CASE PowerLoss
      BY <2>d, <2>14, BootRows DEF PowerLoss, flash
  <2>15. CASE UNCHANGED vars
      BY <2>a, <2>d, <2>15 DEF vars, flash
  <2> QED
      BY <1>2, <2>1, <2>2, <2>3, <2>4, <2>5, <2>6, <2>7, <2>8, <2>9, <2>10, <2>11, <2>12, <2>13, <2>14, <2>15,
         <2>16 DEF Next
<1> QED
    BY <1>1, <1>2

-----------------------------------------------------------------------------
(* What a power loss finds *)

Between == {"rewrap", "unlock1", "lock2", "lock3", "unlock2"}
LEMMA ExposedFacts ==
    ASSUME JobInv
    PROVE  /\ Stage(job) \in {"lock2", "lock3", "unlock2"} => Exposed
           /\ Stage(job) \in {"rewrap", "unlock1"} => (Exposed <=> Val(job).key \notin Keys)
           /\ Exposed => Stage(job) \in Between
<1>1. CASE job = <<>>
    BY <1>1, BootRows DEF Exposed, Step
<1>2. CASE job # <<>>
  <2>1. CASE Head(job).do \in {"genkey", "cert", "zero", "pin", "counter", "reply"}
    <3>1. ~Exposed
        BY <2>1 DEF Exposed, Step
    <3>2. Stage(job) = Head(job).do
        BY <1>2, <2>1 DEF Stage
    <3> QED
        BY <2>1, <3>1, <3>2
  <2>2. CASE \E k \in Values : job \in Rewraps(k) /\ Head(job).do = "keydev"
    <3>1. Stage(job) = "rewrap"
        BY <2>2, RewrapRows
    <3> QED
        BY <1>2, <2>2, <3>1 DEF Exposed, Step, Value, Val, Between
  <2>3. CASE \E v \in Values \cup {Broken}, f \in Wiped : job = Lock1(v, f) /\ Head(job).do = "enc"
    <3>1. PICK v \in Values \cup {Broken}, f \in Wiped : job = Lock1(v, f) /\ Head(job).do = "enc"
        BY <2>3
    <3>2. Stage(job) = "lock1" /\ Val(job) = v
        BY <3>1, LockRows
    <3>3. v # None
        BY KeyAssumption
    <3> QED
        BY <3>1, <3>2, <3>3 DEF Exposed, Step, Value, Val
  <2>4. CASE \E f \in Wiped : job \in {Lock2(f), Lock3} /\ Head(job).do = "keydev"
    <3>1. Stage(job) \in {"lock2", "lock3"} /\ Val(job) \in Wiped
      <4>1. Empty \in Wiped
          BY DEF Wiped
      <4> QED
          BY <2>4, <4>1, LockRows
    <3>2. Val(job).key \notin Keys
        BY <3>1, FileFacts
    <3> QED
        BY <1>2, <2>4, <3>1, <3>2 DEF Exposed, Step, Value, Val, Between
  <2>5. CASE \E d \in Values : job = Unlock1(d) /\ Head(job).do = "keydev"
    <3>1. Stage(job) = "unlock1"
        BY <2>5, UnlockRows
    <3> QED
        BY <1>2, <2>5, <3>1 DEF Exposed, Step, Value, Val, Between
  <2>6. CASE job = Unlock2 /\ Head(job).do = "enc"
    <3>1. Stage(job) = "unlock2" /\ Val(job) = None
        BY <2>6, UnlockRows
    <3> QED
        BY <1>2, <2>6, <3>1 DEF Exposed, Step, Value, Val, Between
  <2> QED
      BY <1>2, <2>1, <2>2, <2>3, <2>4, <2>5, <2>6, JobCases
<1> QED
    BY <1>1, <1>2

LEMMA ExposedNext ==
    ASSUME JobInv
    PROVE  /\ PutKeydev /\ Stage(job') = "unlock2" => Exposed'
           /\ PutKeydevEnc /\ Stage(job') = "lock2" => Exposed'
<1>1. ASSUME PutKeydev, Stage(job') = "unlock2" PROVE Exposed'
  <2>1. job' = Unlock2
      BY <1>1, KeydevSteps
  <2>2. Unlock2 # <<>> /\ Head(Unlock2).do = "enc" /\ Head(Unlock2).value = None
      BY UnlockRows DEF Unlock2, Val
  <2> QED
      BY <2>1, <2>2 DEF Exposed, Step, Value
<1>2. ASSUME PutKeydevEnc, Stage(job') = "lock2" PROVE Exposed'
  <2>1. Val(job') \in Wiped /\ Head(job').do = "keydev" /\ job' # <<>>
      BY <1>2, EncSteps
  <2>2. Val(job').key \notin Keys
      BY <2>1, FileFacts
  <2> QED
      BY <2>1, <2>2 DEF Exposed, Step, Value, Val
<1> QED
    BY <1>1, <1>2

-----------------------------------------------------------------------------
(* The lock *)

LEMMA StepLock == TypeInv /\ LockInv /\ [Next]_vars => LockInv'
<1> SUFFICES ASSUME TypeInv, LockInv, [Next]_vars, ~Unless({"spilled", "cut"})'
             PROVE  /\ keydev_enc' \in Keys => keydev'.key # keydev_enc' \/ Exposed'
                    /\ Stage(job') \in {"rewrap", "pin"} => Keys \cap KeysOf(job') \subseteq {keydev'.key}
    BY DEF LockInv
<1>a. TypeOK /\ JobInv
    BY DEF TypeInv
<1>b. None \notin Keys /\ \A f \in Wiped : f.key \notin Keys
    BY FileFacts, KeyAssumption DEF Values
<1>1. CASE FactoryReset
    BY <1>1, <1>b, BootRows DEF FactoryReset
<1>2. CASE ~FactoryReset
  <2>a. /\ keydev_enc \in Keys => keydev.key # keydev_enc \/ Exposed
        /\ Stage(job) \in {"rewrap", "pin"} => Keys \cap KeysOf(job) \subseteq {keydev.key}
      BY <1>2, Histories DEF LockInv, Unless
  \* A step that is not one between two writes
  <2>b. ASSUME Stage(job) \notin Between, keydev_enc' = keydev_enc, keydev'.key = keydev.key,
               Stage(job') \in {"rewrap", "pin"} => Stage(job) = "pin" /\ KeysOf(job') \subseteq KeysOf(job)
        PROVE  /\ keydev_enc' \in Keys => keydev'.key # keydev_enc' \/ Exposed'
               /\ Stage(job') \in {"rewrap", "pin"} => Keys \cap KeysOf(job') \subseteq {keydev'.key}
      BY <1>a, <2>a, <2>b, ExposedFacts
  <2>1. CASE PutKeydev
    <3>1. keydev_enc' = keydev_enc /\ keydev' = Val(job)
        BY <1>a, <2>1, KeydevSteps DEF PutKeydev
    <3>2. CASE /\ Stage(job) = "rewrap" /\ Stage(job') \in {"rewrap", "pin", "idle"}
               /\ \E k \in Values : /\ keydev' \in {File("f1", k), File("f2", k)} /\ keydev'.key = k
                                     /\ KeysOf(job) \subseteq {k, None}
      <4>1. Keys \cap KeysOf(job) \subseteq {keydev'.key}
          BY <1>b, <3>2
      <4>2. Keys \cap KeysOf(job') \subseteq {keydev'.key}
          BY <1>a, <2>1, <4>1, KeydevSteps
      <4>3. keydev'.key \in Keys => keydev'.key = keydev.key /\ ~Exposed
          BY <1>a, <2>1, <2>a, <3>1, <3>2, KeydevSteps, ExposedFacts
      <4>4. keydev_enc' \in Keys => keydev'.key # keydev_enc'
          BY <2>a, <3>1, <4>3
      <4> QED
          BY <4>2, <4>4
    <3>4. CASE keydev' \in Wiped /\ Stage(job') \in {"lock3", "idle"}
        BY <1>b, <3>4
    <3>5. CASE Stage(job') = "unlock2"
        BY <1>a, <2>1, <3>5, ExposedNext
    <3>6. Empty \in Wiped
        BY DEF Wiped
    <3> QED
        BY <1>a, <2>1, <3>2, <3>4, <3>5, <3>6, KeydevSteps
  <2>2. CASE PutKeydevEnc
      BY <1>a, <1>b, <2>2, EncSteps, ExposedNext
  <2>3. CASE PutCounter
      BY <1>a, <2>b, <2>3, CounterSteps DEF PutCounter, Between
  <2>4. CASE Reply
      BY <1>a, <2>b, <2>4, ReplySteps DEF Reply, flash, Between
  <2>5. CASE GenKey
    <3>1. Stage(job) = "genkey" /\ Stage(job') = "cert" /\ keydev_enc' = keydev_enc
        BY <1>a, <2>5, BootSteps DEF GenKey
    <3>2. keydev_enc = None \/ keydev' = keydev
        BY <2>5 DEF GenKey
    <3> QED
        BY <1>b, <2>b, <3>1, <3>2 DEF Between
  <2>6. CASE PutCert
      BY <1>a, <2>b, <2>6, BootSteps DEF PutCert, Between
  <2>7. CASE PutZero
      BY <1>a, <2>b, <2>7, BootSteps DEF PutZero, Between
  <2>8. CASE ShowPin \/ FailUpgrade \/ Unlock \/ FailUnlock \/ Export \/ Register
    <3>1. /\ Stage(job) = "idle" /\ job' = job /\ keydev_enc' = keydev_enc
          /\ keydev' = keydev \/ keydev' = Sealed
        BY <1>a, <2>8, IdleFacts DEF ShowPin, FailUpgrade, Unlock, FailUnlock, Export, Register, flash
    <3>2. keydev'.key = keydev.key
        BY <1>a, <3>1, SealedFacts
    <3> QED
        BY <2>b, <3>1, <3>2 DEF Between
  <2>9. CASE UpgradePin \/ ChangePin \/ ChangeOldPin
    <3>1. PICK opened \in {"old", "new"} :
             /\ Loads(opened) # None /\ KeysOf(job') \subseteq {Loads(opened), None}
             /\ odd' = odd \cup (Because(has_keydev_dec, "spilled")
                                  \cup Because(Loads(opened) \notin Keys, "overwritten"))
        BY <1>a, <2>9, RewrapFacts
    <3>2. keydev_enc' = keydev_enc /\ keydev'.key = keydev.key
        BY <1>a, <2>9, SealedFacts DEF UpgradePin, ChangePin, ChangeOldPin, flash
    <3>3. ~has_keydev_dec /\ Junk \notin Keys
        BY <3>1, KeyAssumption DEF Because, Unless
    <3>4. Loads(opened) \in Keys => Loads(opened) = keydev.key
        BY <1>a, <3>1, <3>3, LoadsFacts
    <3>5. ~Exposed
        BY <1>a, <2>9, RewrapFacts, ExposedFacts DEF Between
    <3>6. Keys \cap KeysOf(job') \subseteq {keydev'.key}
        BY <1>b, <3>1, <3>2, <3>4
    <3> QED
        BY <2>a, <3>2, <3>5, <3>6
  <2>13. CASE PutPin
    <3>1. /\ Stage(job) = "pin" /\ KeysOf(job') \subseteq KeysOf(job) /\ UNCHANGED <<keydev, keydev_enc>>
        BY <1>a, <2>13, PinSteps DEF PutPin
    <3> QED
        BY <2>b, <3>1 DEF Between
  <2>10. CASE Enable \/ Disable \/ Import \/ Sign
    <3>1. Stage(job) = "idle" /\ Stage(job') \in {"lock1", "unlock1", "counter"} /\ UNCHANGED flash
        BY <1>a, <2>10, EnableFacts, DisableFacts, ImportFacts, SignFacts
    <3> QED
        BY <2>b, <3>1 DEF flash, Between
  <2>11. CASE PowerLoss
    <3>1. UNCHANGED flash /\ Stage(job') = "genkey" /\ ~Exposed
        BY <2>11, BootRows DEF PowerLoss, Odd, Because, Unless
    <3> QED
        BY <2>a, <3>1 DEF flash
  <2>12. CASE UNCHANGED vars
      BY <2>a, <2>12 DEF vars, flash, Exposed, Step, Value
  <2> QED
      BY <1>2, <2>1, <2>2, <2>3, <2>4, <2>5, <2>6, <2>7, <2>8, <2>9, <2>10, <2>11, <2>12, <2>13 DEF Next
<1> QED
    BY <1>1, <1>2

-----------------------------------------------------------------------------
(* What credentials are made under *)

LEMMA StepClean == TypeInv /\ CleanInv /\ [Next]_vars => CleanInv'
<1> SUFFICES ASSUME TypeInv, CleanInv, [Next]_vars,
                    ~Unless({"doubled", "blanked", "disabled", "restored", "carried", "cut"})'
             PROVE  /\ made' \subseteq Keys
                    /\ has_keydev_dec' => keydev_dec' \in Keys
                    /\ keydev_enc' \in Keys \cup {None, Broken}
                    /\ \/ keydev' = Empty
                       \/ keydev'.form \in {"mkek", "f1", "f2"} /\ keydev'.key \in Keys
                       \/ keydev'.form = "wiped" /\ keydev'.key = Zeros /\ Stage(job') = "lock3"
                    /\ Stage(job') \in {"rewrap", "pin"} => KeysOf(job') \subseteq Keys \cup {None}
                    /\ Stage(job') = "lock1" => Val(job') \in Keys \cup {Broken} /\ Second(job').form # "raw"
                    /\ Stage(job') = "lock2" => Val(job').form # "raw"
                    /\ Stage(job') \notin {"unlock1", "unlock2"}
                    /\ Stage(job') = "counter" => Second(job').key \in Keys
                    /\ Stage(job') = "reply" => Val(job').key \in Keys
    BY DEF CleanInv
<1>a. TypeOK /\ JobInv
    BY DEF TypeInv
<1>1. CASE FactoryReset
  <2>1. ~has_keydev_dec
      BY <1>1 DEF FactoryReset, Because, Unless
  <2> QED
      BY <1>1, <2>1, BootRows DEF FactoryReset, ram
<1>2. CASE ~FactoryReset
  <2>a. /\ made \subseteq Keys
        /\ has_keydev_dec => keydev_dec \in Keys
        /\ keydev_enc \in Keys \cup {None, Broken}
        /\ \/ keydev = Empty
           \/ keydev.form \in {"mkek", "f1", "f2"} /\ keydev.key \in Keys
           \/ keydev.form = "wiped" /\ keydev.key = Zeros /\ Stage(job) = "lock3"
        /\ Stage(job) \in {"rewrap", "pin"} => KeysOf(job) \subseteq Keys \cup {None}
        /\ Stage(job) = "lock1" => Val(job) \in Keys \cup {Broken} /\ Second(job).form # "raw"
        /\ Stage(job) = "lock2" => Val(job).form # "raw"
        /\ Stage(job) \notin {"unlock1", "unlock2"}
        /\ Stage(job) = "counter" => Second(job).key \in Keys
        /\ Stage(job) = "reply" => Val(job).key \in Keys
      BY <1>2, Histories DEF CleanInv, Unless
  <2>b. Stage(job) = "idle" => keydev.form # "raw" /\ (keydev # Empty => keydev.key \in Keys)
      BY <2>a, FileFacts
  <2>c. ASSUME NEW opened \in {"none", "old", "new"}, Stage(job) = "idle", Loads(opened) # None
        PROVE  Loads(opened) \in Keys
      BY <1>a, <2>a, <2>b, <2>c, LoadsFacts
  \* A step that leaves the files, or seals one
  <2>d. ASSUME keydev_enc' = keydev_enc, keydev' = keydev \/ keydev' = Sealed,
               Stage(job) # "lock3", made' \subseteq Keys, has_keydev_dec' => keydev_dec' \in Keys
        PROVE  /\ made' \subseteq Keys
               /\ has_keydev_dec' => keydev_dec' \in Keys
               /\ keydev_enc' \in Keys \cup {None, Broken}
               /\ keydev' = Empty \/ (keydev'.form \in {"mkek", "f1", "f2"} /\ keydev'.key \in Keys)
      BY <1>a, <2>a, <2>d, SealedFacts
  <2>1. CASE PutKeydev
    <3>1. UNCHANGED <<keydev_enc, made, has_keydev_dec, keydev_dec>> /\ keydev' = Val(job)
        BY <1>a, <2>1, KeydevSteps DEF PutKeydev, ram, history
    <3>2. CASE /\ Stage(job) = "rewrap" /\ Stage(job') \in {"rewrap", "pin", "idle"}
               /\ \E k \in Values : /\ keydev' \in {File("f1", k), File("f2", k)} /\ keydev'.key = k
                                     /\ KeysOf(job) \subseteq {k, None}
      <4>1. keydev'.form \in {"f1", "f2"} /\ keydev'.key \in Values
          BY <3>2, FileFacts
      <4>2. keydev'.key \in KeysOf(job) /\ KeysOf(job') \subseteq KeysOf(job)
          BY <1>a, <2>1, KeydevSteps
      <4>3. keydev'.key \in Keys
          BY <2>a, <3>2, <4>1, <4>2, KeyAssumption
      <4>4. KeysOf(job') \subseteq Keys \cup {None}
          BY <2>a, <3>2, <4>2
      <4> QED
          BY <2>a, <3>1, <3>2, <4>1, <4>3, <4>4
    <3>4. CASE Stage(job) = "lock2" /\ Stage(job') = "lock3" /\ keydev' \in Wiped
      <4>1. keydev'.form # "raw"
          BY <2>a, <3>1, <3>4
      <4>2. keydev' = Empty \/ (keydev'.form = "wiped" /\ keydev'.key = Zeros)
          BY <3>4, <4>1, FileFacts DEF Wiped
      <4> QED
          BY <2>a, <3>1, <3>4, <4>2
    <3>5. CASE Stage(job) = "lock3" /\ Stage(job') = "idle" /\ keydev' = Empty
        BY <2>a, <3>1, <3>5
    <3>6. Stage(job) # "unlock1"
        BY <2>a
    <3> QED
        BY <1>a, <2>1, <3>2, <3>4, <3>5, <3>6, KeydevSteps
  <2>2. CASE PutKeydevEnc
    <3>1. UNCHANGED <<keydev, made, has_keydev_dec, keydev_dec>> /\ keydev_enc' = Val(job)
        BY <1>a, <2>2, EncSteps DEF PutKeydevEnc, ram, history
    <3>2. Stage(job) = "lock1" /\ Stage(job') = "lock2" /\ Val(job') = Second(job)
        BY <1>a, <2>2, <2>a, EncSteps
    <3> QED
        BY <2>a, <3>1, <3>2
  <2>3. CASE PutCounter
    <3>1. /\ Stage(job) = "counter" /\ Stage(job') = "reply" /\ Val(job') = Second(job)
          /\ UNCHANGED <<keydev, keydev_enc, made, has_keydev_dec, keydev_dec>>
        BY <1>a, <2>3, CounterSteps DEF PutCounter, ram, history
    <3> QED
        BY <2>a, <2>d, <3>1
  <2>4. CASE Reply
    <3>1. /\ Stage(job) = "reply" /\ Stage(job') = "idle"
          /\ UNCHANGED <<keydev, keydev_enc, has_keydev_dec, keydev_dec>>
        BY <1>a, <2>4, ReplySteps DEF Reply, flash, ram
    <3>2. made' \subseteq made \cup {Val(job).key}
        BY <2>4 DEF Reply, Value, Val
    <3> QED
        BY <2>a, <2>d, <3>1, <3>2
  <2>5. CASE GenKey
    <3>1. /\ Stage(job) = "genkey" /\ Stage(job') = "cert"
          /\ UNCHANGED <<keydev_enc, made, has_keydev_dec, keydev_dec>>
        BY <1>a, <2>5, BootSteps DEF GenKey, ram
    <3>2. keydev' = keydev \/ (keydev'.form = "f1" /\ keydev'.key \in Keys)
        BY <2>5, FileFacts DEF GenKey
    <3> QED
        BY <2>a, <2>d, <3>1, <3>2
  <2>6. CASE PutCert
    <3>1. /\ Stage(job) = "cert" /\ Stage(job') \in {"zero", "idle"}
          /\ UNCHANGED <<keydev, keydev_enc, made, has_keydev_dec, keydev_dec>>
        BY <1>a, <2>6, BootSteps DEF PutCert, ram, history
    <3> QED
        BY <2>a, <2>d, <3>1
  <2>7. CASE PutZero
    <3>1. /\ Stage(job) = "zero" /\ Stage(job') = "idle"
          /\ UNCHANGED <<keydev, keydev_enc, made, has_keydev_dec, keydev_dec>>
        BY <1>a, <2>7, BootSteps DEF PutZero, ram, history
    <3> QED
        BY <2>a, <2>d, <3>1
  <2>8. CASE ShowPin \/ FailUpgrade \/ Unlock \/ FailUnlock \/ Export \/ Register
    <3>1. /\ Stage(job) = "idle" /\ job' = job /\ keydev_enc' = keydev_enc
          /\ keydev' = keydev \/ keydev' = Sealed
        BY <1>a, <2>8, IdleFacts DEF ShowPin, FailUpgrade, Unlock, FailUnlock, Export, Register, flash
    <3>2. made' \subseteq Keys
      <4>1. CASE Register
        <5>1. Loaded # None /\ made' = made \cup {Loaded}
            BY <4>1 DEF Register
        <5>2. Loaded \in Keys
            BY <1>a, <2>c, <3>1, <5>1 DEF Loaded, TypeOK
        <5> QED
            BY <2>a, <5>1, <5>2
      <4>2. CASE ShowPin \/ FailUpgrade \/ Unlock \/ FailUnlock \/ Export
          BY <2>a, <4>2 DEF ShowPin, FailUpgrade, Unlock, FailUnlock, Export, history
      <4> QED
          BY <2>8, <4>1, <4>2
    <3>3. has_keydev_dec' => keydev_dec' \in Keys
      <4>1. CASE Unlock
          BY <2>a, <4>1 DEF Unlock
      <4>2. CASE FailUnlock
        <5>1. ~has_keydev_dec /\ has_keydev_dec' = has_keydev_dec
            BY <4>2 DEF FailUnlock, Odd, Because, Unless
        <5> QED
            BY <5>1
      <4>3. CASE ShowPin \/ FailUpgrade \/ Export \/ Register
          BY <2>a, <4>3 DEF ShowPin, FailUpgrade, Export, Register, ram
      <4> QED
          BY <2>8, <4>1, <4>2, <4>3
    <3> QED
        BY <2>d, <3>1, <3>2, <3>3
  <2>9. CASE UpgradePin \/ ChangePin \/ ChangeOldPin
    <3>1. PICK opened \in {"old", "new"} :
             /\ Loads(opened) # None /\ KeysOf(job') \subseteq {Loads(opened), None}
        BY <1>a, <2>9, RewrapFacts
    <3>2. Stage(job) = "idle" /\ Stage(job') \in {"rewrap", "pin"}
        BY <1>a, <2>9, RewrapFacts
    <3>3. Loads(opened) \in Keys
        BY <2>c, <3>1, <3>2
    <3>4. keydev' = keydev \/ keydev' = Sealed
        BY <2>9 DEF UpgradePin, ChangePin, ChangeOldPin, flash
    <3>5. UNCHANGED <<keydev_enc, made, has_keydev_dec, keydev_dec>>
        BY <2>9 DEF UpgradePin, ChangePin, ChangeOldPin, flash
    <3> QED
        BY <2>a, <2>d, <3>1, <3>2, <3>3, <3>4, <3>5
  <2>15. CASE PutPin
    <3>1. /\ Stage(job) = "pin" /\ Stage(job') \in {"rewrap", "pin", "idle"} /\ KeysOf(job') \subseteq KeysOf(job)
          /\ UNCHANGED <<keydev, keydev_enc, made, has_keydev_dec, keydev_dec>>
        BY <1>a, <2>15, PinSteps DEF PutPin, ram, history
    <3> QED
        BY <2>a, <2>d, <3>1
  <2>10. CASE Enable
    <3>1. /\ Stage(job) = "idle" /\ Stage(job') = "lock1"
          /\ (keydev.form \notin {"raw", "mkek"} => Val(job') = Broken /\ Second(job').form # "raw")
          /\ odd' = odd \cup (IF keydev.form = "mkek" THEN {"doubled"} ELSE Because(Blob \notin Keys, "mislocked"))
          /\ UNCHANGED <<flash, ram, made>>
        BY <1>a, <2>10, EnableFacts
    <3>2. keydev.form # "mkek"
        BY <3>1 DEF Unless
    <3> QED
        BY <2>a, <2>b, <2>d, <3>1, <3>2 DEF flash, ram
  <2>11. ~Disable /\ ~Import
      BY <1>a, DisableFacts, ImportFacts DEF Unless
  <2>12. CASE Sign
    <3>1. /\ Stage(job) = "idle" /\ Stage(job') = "counter"
          /\ Second(job').key = Loaded /\ Loaded # None /\ UNCHANGED <<flash, ram, history>>
        BY <1>a, <2>12, SignFacts
    <3>2. Loaded \in Keys
        BY <1>a, <2>c, <3>1 DEF Loaded, TypeOK
    <3> QED
        BY <2>a, <2>d, <3>1, <3>2 DEF flash, ram, history
  <2>13. CASE PowerLoss
    <3>1. UNCHANGED <<keydev, keydev_enc, made>> /\ ~has_keydev_dec' /\ Stage(job') = "genkey" /\ ~Exposed
        BY <2>13, BootRows DEF PowerLoss, flash, Odd, Because, Unless
    <3>2. Stage(job) # "lock3"
        BY <1>a, <3>1, ExposedFacts
    <3> QED
        BY <2>a, <2>d, <3>1, <3>2
  <2>14. CASE UNCHANGED vars
      BY <2>a, <2>14 DEF vars, flash, ram, history
  <2> QED
      BY <1>2, <2>1, <2>2, <2>3, <2>4, <2>5, <2>6, <2>7, <2>8, <2>9, <2>10, <2>11, <2>12, <2>13, <2>14,
         <2>15 DEF Next
<1> QED
    BY <1>1, <1>2

-----------------------------------------------------------------------------
(* The results *)

IndInv ==
    TypeInv /\ UsedInv /\ PresentInv /\ BootInv /\ CountInv /\ CertInv /\ KeptInv /\ CleanInv /\ LockInv

LEMMA InitInv == Init => IndInv
<1> SUFFICES ASSUME Init PROVE IndInv
    OBVIOUS
<1>1. /\ Stage(job) = "genkey" /\ KeysOf(job) = {None} /\ ~has_keydev_dec
      /\ Empty.key = None /\ None \notin Keys
    BY BootRows, FileFacts, KeyAssumption DEF Init, Values
<1>2. \/ /\ keydev = Empty /\ keydev_enc = None /\ certdev = None /\ counter = None /\ used = {}
      \/ /\ certdev \in Keys /\ used = {certdev} /\ counter = 0
         /\ \/ keydev = Empty /\ keydev_enc = certdev
            \/ keydev # Empty /\ keydev.form = "mkek" /\ keydev.key = certdev /\ keydev_enc = None
  <2>1. \A k : File("mkek", k) # Empty /\ File("mkek", k).form = "mkek" /\ File("mkek", k).key = k
      BY FileFacts DEF File, Empty
  <2> QED
      BY <2>1 DEF Init
<1>3. AtHand \subseteq used /\ made = used /\ copy = None /\ odd = {} /\ repeated = {}
  <2>1. AtHand = Keys \cap {keydev.key, keydev_enc, None}
      BY <1>1 DEF AtHand, Because
  <2> QED
      BY <1>1, <1>2, <2>1 DEF Init
<1>4. TypeInv
    BY InitType
<1>5. \A k \in Keys : seen[k] = 0
    BY DEF Init
<1>6. UsedInv
    BY <1>1, <1>3, <1>5 DEF UsedInv
<1>7. PresentInv /\ BootInv
    BY <1>1, <1>2, KeyAssumption DEF PresentInv, BootInv
<1>8. CountInv
  <2>1. Count = 0
      BY <1>2 DEF Count
  <2> QED
      BY <1>1, <1>3, <1>5, <2>1 DEF CountInv, AtHand
<1>9. CertInv /\ KeptInv
    BY <1>1, <1>2, <1>3 DEF CertInv, KeptInv, OnDevice
<1>10. CleanInv /\ LockInv
    BY <1>1, <1>2, <1>3, KeyAssumption DEF CleanInv, LockInv, Values
<1> QED
    BY <1>4, <1>6, <1>7, <1>8, <1>9, <1>10 DEF IndInv

LEMMA Inductive == Spec => []IndInv
<1>1. IndInv /\ [Next]_vars => IndInv'
    BY StepType, StepUsed, StepPresent, StepBoot, StepCount, StepCert, StepKept, StepClean, StepLock DEF IndInv
<1> QED
    BY InitInv, <1>1, PTL DEF Spec

(* The files hold what the handlers put there, in every order of handlers, *)
(* writes and power losses (cbor_config.c:153-192, cbor_vendor.c:99-203,   *)
(* cbor_client_pin.c:622-658, fido.c:367-457).                             *)
THEOREM TypeCorrect == Spec => []TypeOK
<1>1. IndInv => TypeOK
    BY DEF IndInv, TypeInv
<1> QED
    BY Inductive, <1>1, PTL

(* The key of every credential made since the reset is in one of the two   *)
(* files, between any two writes, unless a named mishap costs it           *)
(* (cbor_config.c:160-192, cbor_vendor.c:116, fido.c:372).                 *)
THEOREM KeyStays == Spec => []KeyKept
<1>1. CertInv /\ KeptInv => KeyKept
    BY DEF CertInv, KeptInv, KeyKept, Unless
<1> QED
    BY Inductive, <1>1, PTL DEF IndInv

(* Every credential is made under a key of genkey, never under zeros or    *)
(* memory that was not written (fido.c:218-231, cbor_vendor.c:196).        *)
THEOREM UnderKeys == Spec => []MadeUnderKeys
<1>1. CleanInv => MadeUnderKeys
    BY DEF CleanInv, MadeUnderKeys
<1> QED
    BY Inductive, <1>1, PTL DEF IndInv

(* Of a locked device at rest the file does not hold the key               *)
(* (cbor_config.c:189-192, cbor_vendor.c:116).                             *)
THEOREM LockKept == Spec => []LockHolds
<1>1. TypeInv /\ LockInv => LockHolds
  <2>1. TypeInv /\ Idle => ~Exposed
      BY IdleFacts, ExposedFacts DEF TypeInv, Between
  <2> QED
      BY <2>1 DEF LockInv, LockHolds
<1> QED
    BY Inductive, <1>1, PTL DEF IndInv

(* The certificate is for the key requests load                            *)
(* (fido.c:404-440, cmd_register.c:86-110).                                *)
THEOREM CertForKey == Spec => []CertMatches
<1>1. TypeInv /\ BootInv /\ CertInv => CertMatches
  <2> SUFFICES ASSUME TypeInv, BootInv, CertInv, Idle, Loaded \in Keys, ~Unless({"carried", "restored"})
               PROVE  certdev = Loaded
      BY DEF CertMatches
  <2>1. certdev # None
      BY NoCert DEF Unless
  <2>2. None \notin Keys
      BY KeyAssumption DEF Values
  <2>3. Loaded \in AtHand
      BY <2>2, LoadsFacts DEF Loaded, TypeInv, TypeOK
  <2> QED
      BY <2>1, <2>3 DEF CertInv
<1> QED
    BY Inductive, <1>1, PTL DEF IndInv

(* No count is sent twice under a key, and none lower than an earlier one, *)
(* also when the power fails before a reply                                *)
(* (cbor_get_assertion.c:603, 737, cbor_make_credential.c:542-699).        *)
THEOREM CountsRise == Spec => []CountsGrow
<1>1. CountInv => CountsGrow
    BY DEF CountInv, CountsGrow
<1> QED
    BY Inductive, <1>1, PTL DEF IndInv

(* The counter is there whenever a request is (fido.c:412-455).            *)
THEOREM BootDone == Spec => []BootCompletes
<1>1. TypeInv /\ BootInv => BootCompletes
    BY IdleFacts DEF BootInv, BootCompletes, Unless, TypeInv
<1> QED
    BY Inductive, <1>1, PTL DEF IndInv
=============================================================================
