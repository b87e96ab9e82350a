--------------------------- MODULE DatabaseProofs ---------------------------
(***************************************************************************)
(* For any number of processes, keys, chains and calls: the record locks   *)
(* keep the lists of the index file in order, the calls act like calls on  *)
(* a map, and a scan reads live records only.                              *)
(***************************************************************************)
EXTENDS Database, SequenceTheorems, WellFoundedInduction, TLAPS

-----------------------------------------------------------------------------
(* Lists by rank.  A set M of records is a list from h when the records    *)
(* have different ranks below that of h, and the pointer of h and of each  *)
(* record leads to the record of the next lower rank, or to 0.             *)

NextLower(M, r, x, y) ==
  \/ y = 0 /\ \A m \in M : ~ r[m] < r[x]
  \/ y \in M /\ r[y] < r[x] /\ \A m \in M : r[m] < r[x] => ~ r[y] < r[m]

Shaped(M, h, r, next) ==
  /\ \A m \in M : r[m] < r[h]
  /\ \A m, n \in M : r[m] = r[n] => m = n
  /\ \A x \in M \cup {h} : NextLower(M, r, x, next[x])

-----------------------------------------------------------------------------
(* The inductive invariant.  First the types, and what the locks exclude.  *)

Results == Values \cup {None, Blank, -1, 0, 1}

DBType == [op : Calls \cup {None}, off : Nat, ptroff : Nat, idxoff : Nat, datoff : Nat,
           ptrval : Nat, key : Keys \cup {None, Blank}, res : Results]

RecType == [key : Keys \cup {Blank}, klen : Nat, datoff : Nat, datlen : Nat]

ProcPoints ==
  {"idle", "lock", "walk", "readdat", "overwrite", "unlock", "delete", "blankdat",
   "blankidx", "pushfree", "unlink", "deleted", "findfree", "freewalk", "freedone",
   "appenddat", "appendidx", "reusedat", "reuseidx", "link"}

ScanPoints == {"idle", "nextrec", "nextidx", "nextdat", "nextunlock", "eof"}

FileTypes ==
  /\ ptr \in [0..(NHash + Len(rec)) -> Nat]
  /\ rec \in Seq(RecType)
  /\ dat \in Seq(Values \cup {Blank})

LockTypes ==
  /\ writer \in [Locks -> Procs \cup {None}]
  /\ readers \in [Locks -> SUBSET All]

PointTypes ==
  /\ pc \in [All -> ProcPoints \cup ScanPoints]
  /\ \A p \in Procs : pc[p] \in ProcPoints
  /\ \A s \in Scanners : pc[s] \in ScanPoints

CallTypes ==
  /\ db \in [All -> DBType]
  /\ \A p \in Procs : Op(p) = None <=> pc[p] = "idle"

HistoryTypes ==
  /\ left \in [Procs -> Nat]
  /\ map \in [Keys -> Values \cup {None}]
  /\ ret \in [Procs -> Results]
  /\ pos \in [Scanners -> Nat]
  /\ seen \in [Scanners -> [Keys -> Nat]]
  /\ moved \in [Scanners -> SUBSET Keys]

TypeOK == FileTypes /\ LockTypes /\ PointTypes /\ CallTypes /\ HistoryTypes

FreeHeld == {"blankdat", "blankidx", "pushfree", "unlink", "deleted", "freewalk", "freedone"}

LockInv ==
  /\ \A l \in Locks : writer[l] # None => readers[l] = {}
  /\ \A p \in Procs : pc[p] \notin {"idle", "lock"} =>
       IF Op(p).kind = "fetch" THEN p \in readers[Chain(p)] ELSE writer[Chain(p)] = p
  /\ \A p \in Procs : pc[p] \in FreeHeld => writer[FREEOFF] = p
  /\ \A s \in Scanners : pc[s] \in {"nextidx", "nextdat", "nextunlock"} => s \in readers[FREEOFF]

(* A record is in the list its key says, unless a call has it in hand: on  *)
(* its way to the free list, or from there or the end of the file to its   *)
(* chain.                                                                  *)
InHand == {"pushfree", "freedone", "reusedat", "reuseidx", "link"}
Held(o) == \E p \in Procs : pc[p] \in InHand /\ db[p].idxoff = o
Home(o) == IF Rec(o).key = Blank THEN FREEOFF ELSE Hash[Rec(o).key]
Members(h) == {o \in Records : ~Held(o) /\ Home(o) = h}

(* The pointers as they are once the delete that is under way is done.     *)
Unlinking(p) == p \in Procs /\ pc[p] \in {"pushfree", "unlink"}
Succ == [x \in DOMAIN ptr |-> LET p == writer[FREEOFF]
                              IN  IF Unlinking(p) /\ db[p].ptroff = x
                                  THEN db[p].ptrval ELSE ptr[x]]

(* The chains and the free list are lists, and a call that walks its chain *)
(* has not passed a record of its key.                                     *)
Ordered(r) ==
  /\ \A h \in Locks : Shaped(Members(h), h, r, Succ)
  /\ \A p \in Procs : pc[p] = "walk" =>
       \A m \in Members(Chain(p)) : ~ r[m] < r[db[p].ptroff] => Rec(m).key # Op(p).key

ListInv == \E r \in [Nat -> Nat] : Ordered(r)

OneRecord ==
  \A m, n \in Records : ~Held(m) /\ ~Held(n) /\ Rec(m).key = Rec(n).key /\ Rec(m).key # Blank
                        => m = n

-----------------------------------------------------------------------------
(* Where each call is. *)

Found_ == {"readdat", "overwrite", "delete", "blankdat", "blankidx"}
Head_ == {"findfree", "freewalk", "freedone", "appenddat", "appendidx", "reusedat", "reuseidx"}
Gone_ == {"pushfree", "unlink", "deleted"} \cup Head_ \cup {"link"}

WalkOK(p) ==
  /\ pc[p] = "walk" =>
       db[p].ptroff \in Members(Chain(p)) \cup {Chain(p)} /\ db[p].off = ptr[db[p].ptroff]
  /\ pc[p] = "freewalk" =>
       db[p].ptroff \in Members(FREEOFF) \cup {FREEOFF} /\ db[p].off = ptr[db[p].ptroff]

FoundOK(p) == pc[p] \in Found_ =>
  /\ db[p].ptroff \in Members(Chain(p)) \cup {Chain(p)}
  /\ ptr[db[p].ptroff] = db[p].idxoff
  /\ db[p].idxoff \in Members(Chain(p))
  /\ Rec(db[p].idxoff).key = Op(p).key
  /\ db[p].datoff = Rec(db[p].idxoff).datoff
  /\ db[p].ptrval = ptr[db[p].idxoff]

UnlinkOK(p) ==
  /\ pc[p] \in {"pushfree", "unlink"} =>
       db[p].ptroff \in Members(Chain(p)) \cup {Chain(p)}
  /\ pc[p] = "pushfree" =>
       /\ db[p].idxoff \in Records /\ Rec(db[p].idxoff).key = Blank
       /\ ptr[db[p].idxoff] = ptr[FREEOFF]

TakenOK(p) ==
  /\ pc[p] \in {"lock", "walk", "findfree", "freewalk"} => db[p].idxoff = 0
  /\ pc[p] \in {"reusedat", "reuseidx"} => db[p].idxoff # 0
  /\ pc[p] \in {"freedone", "reusedat", "reuseidx"} /\ db[p].idxoff # 0 =>
       /\ db[p].idxoff \in Records /\ Rec(db[p].idxoff).key = Blank
       /\ Fits(p, Rec(db[p].idxoff))
       /\ db[p].datoff = Rec(db[p].idxoff).datoff
  /\ pc[p] = "reuseidx" => dat[db[p].datoff] = Op(p).val

LinkOK(p) ==
  /\ pc[p] \in Head_ => db[p].ptrval = ptr[Chain(p)]
  /\ pc[p] = "link" =>
       /\ db[p].idxoff \in Records /\ Rec(db[p].idxoff).key = Op(p).key
       /\ ptr[db[p].idxoff] = ptr[Chain(p)]
       /\ dat[Rec(db[p].idxoff).datoff] = Op(p).val
       /\ Rec(db[p].idxoff).datlen = VLen[Op(p).val]

(* What a call knows of its key while it works, and will return.           *)
CallOK(p) ==
  /\ pc[p] = "readdat" => Op(p).kind = "fetch"
  /\ pc[p] = "overwrite" => /\ Op(p).kind = "store"
                            /\ Rec(db[p].idxoff).datlen = VLen[Op(p).val]
  /\ pc[p] \in {"overwrite", "delete", "blankdat", "blankidx"} \cup Gone_ =>
       Op(p).kind # "fetch" /\ KV!Result(map, Op(p)) = 0
  /\ pc[p] \in Head_ \cup {"link"} => Op(p).kind = "store"
  /\ pc[p] \in Gone_ => \A m \in Members(Chain(p)) : Rec(m).key # Op(p).key
  /\ pc[p] = "unlock" => db[p].res = KV!Result(map, Op(p))

ProcOK(p) == WalkOK(p) /\ FoundOK(p) /\ UnlinkOK(p) /\ TakenOK(p) /\ LinkOK(p) /\ CallOK(p)

HeldOnce ==
  \A p, q \in Procs : pc[p] \in InHand /\ pc[q] \in InHand /\ db[p].idxoff = db[q].idxoff
                      /\ db[p].idxoff # 0 => p = q

-----------------------------------------------------------------------------
(* The data records. *)

DatInv ==
  /\ \A i \in 1..Len(rec) : rec[i].datoff \in 1..Len(dat)
  /\ \A i, j \in 1..Len(rec) : rec[i].datoff = rec[j].datoff => i = j
  /\ \A p \in Procs : pc[p] = "appendidx" =>
       /\ db[p].datoff \in 1..Len(dat) /\ dat[db[p].datoff] = Op(p).val
       /\ \A i \in 1..Len(rec) : rec[i].datoff # db[p].datoff
       /\ \A q \in Procs : pc[q] = "appendidx" /\ db[q].datoff = db[p].datoff => q = p

(* What the files say of a key: what the map says, or what the call that   *)
(* has the chain locked and is through makes of it; nothing while that     *)
(* call changes the record.                                                *)
Busy(k) == LET p == writer[Hash[k]]
           IN  p \in Procs /\ Op(p) # None /\ Op(p).key = k /\ pc[p] \in Gone_ \cup {"blankidx"}

Value(k) == LET p == writer[Hash[k]]
            IN  IF p \in Procs /\ Op(p) # None /\ Op(p).key = k /\ pc[p] = "unlock"
                THEN KV!After(map, Op(p))[k] ELSE map[k]

Agrees(k) ==
  /\ Value(k) # None => \E m \in Members(Hash[k]) : Rec(m).key = k
  /\ \A m \in Members(Hash[k]) : Rec(m).key = k =>
       Value(k) # None /\ dat[Rec(m).datoff] = Value(k) /\ Rec(m).datlen = VLen[Value(k)]

MapInv == \A k \in Keys : ~Busy(k) => Agrees(k)

-----------------------------------------------------------------------------
(* The scans.  A key that did not move has the record the map says, and a  *)
(* scan has counted it if it has passed it.                                *)

HereOK(s) == pc[s] = "nextdat" =>
  /\ db[s].key \in Keys
  /\ \E i \in 1..Len(rec) : rec[i].key = db[s].key /\ rec[i].datoff = db[s].datoff

UnmovedOK(s, k) ==
  \A p \in Procs : pc[p] # "idle" /\ Op(p).key = k =>
    /\ pc[p] \notin {"pushfree", "unlink", "deleted", "link"}
    /\ pc[p] \in Gone_ => map[k] = None
    /\ pc[p] = "blankidx" => map[k] # None
    /\ pc[p] = "unlock" => (KV!After(map, Op(p))[k] = None <=> map[k] = None)

Passed(s, k) == \E o \in Records : o < pos[s] /\ Rec(o).key = k

CountOK(s, k) ==
  /\ pc[s] = "nextdat" /\ db[s].key = k => Passed(s, k) /\ seen[s][k] = 0
  /\ ~(pc[s] = "nextdat" /\ db[s].key = k) => seen[s][k] = IF Passed(s, k) THEN 1 ELSE 0
  /\ pc[s] = "eof" => \A o \in Records : Rec(o).key = k => o < pos[s]

ScanInv == \A s \in Scanners :
  /\ pc[s] = "idle" => pos[s] = 0 /\ \A k \in Keys : seen[s][k] = 0
  /\ pc[s] # "idle" => pos[s] \in First..(First + Len(rec))
  /\ HereOK(s)
  /\ pc[s] # "idle" => \A k \in Keys \ moved[s] : UnmovedOK(s, k) /\ CountOK(s, k)

IInv ==
  /\ TypeOK /\ LockInv /\ ListInv /\ OneRecord
  /\ \A p \in Procs : ProcOK(p)
  /\ HeldOnce /\ DatInv /\ MapInv /\ ScanInv
-----------------------------------------------------------------------------
(* Every non-empty set of natural numbers has a least element. *)
LEMMA Least ==
  ASSUME NEW T \in SUBSET Nat, T # {}
  PROVE  \E x \in T : \A y \in T : ~ y < x
<1> DEFINE R == OpToRel(LAMBDA x, y : x < y, Nat)
<1>1. IsWellFoundedOn(R, Nat)
  BY NatLessThanWellFounded
<1>2. \E x \in T : \A y \in T : ~ (<<y, x>> \in R)
  <2> HIDE DEF R
  <2> QED
    BY <1>1, WFMin
<1>3. \A x, y \in Nat : x < y => <<x, y>> \in R
  BY DEF OpToRel
<1> QED
  BY <1>2, <1>3

(* A record is put at the head of a list: it gets the rank of the head, and *)
(* the head the next one.                                                  *)
LEMMA ShapedPush ==
  ASSUME NEW M \in SUBSET Nat, NEW h \in Nat \ M, NEW o \in Nat \ (M \cup {h}),
         NEW r \in [Nat -> Nat], NEW next, NEW next2, Shaped(M, h, r, next),
         next2[h] = o, next2[o] = next[h], \A m \in M : next2[m] = next[m]
  PROVE  Shaped(M \cup {o}, h, [r EXCEPT ![o] = r[h], ![h] = r[h] + 1], next2)
<1> DEFINE r2 == [r EXCEPT ![o] = r[h], ![h] = r[h] + 1]
<1>1. r2 \in [Nat -> Nat] /\ r2[o] = r[h] /\ r2[h] = r[h] + 1 /\ \A m \in M : r2[m] = r[m]
  OBVIOUS
<1> HIDE DEF r2
<1>2. r[h] \in Nat /\ \A m \in M : r[m] < r[h] /\ r[m] \in Nat
  BY DEF Shaped
<1>3. \A m \in M \cup {o} : r2[m] < r2[h]
  BY <1>1, <1>2
<1>4. \A m, n \in M \cup {o} : r2[m] = r2[n] => m = n
  BY <1>1, <1>2 DEF Shaped
<1>5. NextLower(M \cup {o}, r2, h, next2[h])
  BY <1>1, <1>2 DEF NextLower
<1>6. NextLower(M \cup {o}, r2, o, next2[o])
  <2>1. \/ next[h] = 0 /\ \A m \in M : ~ r[m] < r[h]
        \/ next[h] \in M /\ r[next[h]] < r[h] /\ \A m \in M : r[m] < r[h] => ~ r[next[h]] < r[m]
    BY DEF Shaped, NextLower
  <2>2. CASE next[h] = 0 /\ \A m \in M : ~ r[m] < r[h]
    BY <1>1, <1>2, <2>2 DEF NextLower
  <2>3. CASE next[h] \in M /\ r[next[h]] < r[h] /\ \A m \in M : r[m] < r[h] => ~ r[next[h]] < r[m]
    <3>1. next2[o] \in M /\ r2[next2[o]] < r2[o]
      BY <1>1, <1>2, <2>3
    <3>2. ASSUME NEW n \in M \cup {o}, r2[n] < r2[o] PROVE ~ r2[next2[o]] < r2[n]
      <4>1. n \in M
        BY <1>1, <1>2, <3>2
      <4>2. r2[n] = r[n] /\ r2[o] = r[h] /\ r2[next2[o]] = r[next[h]]
        BY <1>1, <2>3, <4>1
      <4> QED
        BY <2>3, <3>2, <4>1, <4>2
    <3> QED
      BY <3>1, <3>2 DEF NextLower
  <2> QED
    BY <2>1, <2>2, <2>3
<1>7. ASSUME NEW m \in M PROVE NextLower(M \cup {o}, r2, m, next2[m])
  <2>1. \/ next[m] = 0 /\ \A n \in M : ~ r[n] < r[m]
        \/ next[m] \in M /\ r[next[m]] < r[m] /\ \A n \in M : r[n] < r[m] => ~ r[next[m]] < r[n]
    BY DEF Shaped, NextLower
  <2>2. CASE next[m] = 0 /\ \A n \in M : ~ r[n] < r[m]
    BY <1>1, <1>2, <2>1, <2>2 DEF NextLower
  <2>3. CASE next[m] \in M /\ r[next[m]] < r[m] /\ \A n \in M : r[n] < r[m] => ~ r[next[m]] < r[n]
    <3>1. next2[m] \in M /\ r2[next2[m]] < r2[m]
      BY <1>1, <1>2, <2>3
    <3>2. ASSUME NEW n \in M \cup {o}, r2[n] < r2[m] PROVE ~ r2[next2[m]] < r2[n]
      <4>1. n \in M
        BY <1>1, <1>2, <3>2
      <4>2. r2[n] = r[n] /\ r2[m] = r[m] /\ r2[next2[m]] = r[next[m]]
        BY <1>1, <2>3, <4>1
      <4> QED
        BY <2>3, <3>2, <4>1, <4>2
    <3> QED
      BY <3>1, <3>2 DEF NextLower
  <2> QED
    BY <2>1, <2>2, <2>3
<1> QED
  BY <1>3, <1>4, <1>5, <1>6, <1>7 DEF Shaped, r2

(* The record behind x is taken out: x gets its pointer. *)
LEMMA ShapedDrop ==
  ASSUME NEW M \in SUBSET Nat, NEW h \in Nat \ M, NEW o \in M, NEW x \in M \cup {h},
         NEW r \in [Nat -> Nat], NEW next, NEW next2, Shaped(M, h, r, next), 0 \notin M,
         next[x] = o, next2[x] = next[o], \A m \in (M \cup {h}) \ {x, o} : next2[m] = next[m]
  PROVE  Shaped(M \ {o}, h, r, next2)
<1>1. r[x] \in Nat /\ r[h] \in Nat /\ \A m \in M : r[m] < r[h] /\ r[m] \in Nat
  BY DEF Shaped
<1>2. \A m, n \in M : r[m] = r[n] => m = n
  BY DEF Shaped
<1>3. r[o] < r[x] /\ \A m \in M : r[m] < r[x] => ~ r[o] < r[m]
  BY DEF Shaped, NextLower
<1>4. NextLower(M \ {o}, r, x, next2[x])
  <2>1. \/ next[o] = 0 /\ \A m \in M : ~ r[m] < r[o]
        \/ next[o] \in M /\ r[next[o]] < r[o] /\ \A m \in M : r[m] < r[o] => ~ r[next[o]] < r[m]
    BY DEF Shaped, NextLower
  <2>2. CASE next[o] = 0 /\ \A m \in M : ~ r[m] < r[o]
    <3>1. ASSUME NEW m \in M \ {o} PROVE ~ r[m] < r[x]
      BY <1>1, <1>2, <1>3, <2>2, <3>1
    <3> QED
      BY <2>2, <3>1 DEF NextLower
  <2>3. CASE next[o] \in M /\ r[next[o]] < r[o] /\ \A m \in M : r[m] < r[o] => ~ r[next[o]] < r[m]
    <3>1. next[o] # o
      BY <1>1, <2>3
    <3>3. r[next[o]] < r[x]
      <4>1. r[next[o]] \in Nat /\ r[o] \in Nat /\ r[x] \in Nat
        BY <1>1, <2>3
      <4> QED
        BY <1>3, <2>3, <4>1
    <3>2. ASSUME NEW m \in M \ {o}, r[m] < r[x] PROVE ~ r[next[o]] < r[m]
      BY <1>1, <1>2, <1>3, <2>3, <3>2
    <3> QED
      BY <2>3, <3>1, <3>2, <3>3 DEF NextLower
  <2> QED
    BY <2>1, <2>2, <2>3
<1>5. ASSUME NEW m \in (M \cup {h}) \ {x, o} PROVE NextLower(M \ {o}, r, m, next2[m])
  <2>1. NextLower(M, r, m, next[m]) /\ next2[m] = next[m]
    BY DEF Shaped
  <2>2. next[m] # o
    BY <1>1, <1>2, <1>3, <2>1 DEF NextLower
  <2> QED
    BY <2>1, <2>2 DEF NextLower
<1> QED
  BY <1>1, <1>2, <1>4, <1>5 DEF Shaped

(* Only the pointers and ranks of the list matter. *)
LEMMA ShapedSame ==
  ASSUME NEW M, NEW h, NEW r, NEW r2, NEW next, NEW next2, Shaped(M, h, r, next),
         \A x \in M \cup {h} : r2[x] = r[x] /\ next2[x] = next[x]
  PROVE  Shaped(M, h, r2, next2)
BY DEF Shaped, NextLower

(* A list ends, ... *)
LEMMA ShapedEnds ==
  ASSUME NEW M \in SUBSET Nat, NEW h \in Nat, NEW r \in [Nat -> Nat], NEW next,
         Shaped(M, h, r, next)
  PROVE  \E x \in M \cup {h} : next[x] = 0
<1> DEFINE T == {r[x] : x \in M \cup {h}}
<1>1. PICK n \in T : \A y \in T : ~ y < n
  <2>1. T \in SUBSET Nat /\ T # {}
    OBVIOUS
  <2> HIDE DEF T
  <2> QED
    BY <2>1, Least
<1>2. PICK x \in M \cup {h} : r[x] = n
  BY <1>1
<1>3. \A y \in M : ~ r[y] < r[x]
  BY <1>1, <1>2
<1> QED
  BY <1>3 DEF Shaped, NextLower

(* ... and its records are the smallest set that the pointers of the head  *)
(* and of the set do not lead out of.                                      *)
LEMMA ShapedLeast ==
  ASSUME NEW M \in SUBSET Nat, NEW h \in Nat \ M, NEW r \in [Nat -> Nat], NEW next,
         Shaped(M, h, r, next), 0 \notin M,
         NEW S, \A x \in {h} \cup S : next[x] \in {0} \cup S
  PROVE  M \subseteq S
<1> SUFFICES ASSUME NEW m0 \in M, m0 \notin S PROVE FALSE
  OBVIOUS
<1>1. r[h] \in Nat /\ \A m \in M : r[m] \in Nat /\ r[m] < r[h]
  BY DEF Shaped
<1>2. PICK m \in M \ S : \A n \in M \ S : ~ r[m] < r[n]
  <2> DEFINE T == {r[h] - r[n] : n \in M \ S}
  <2>1. T \in SUBSET Nat /\ T # {}
    BY <1>1
  <2>2. PICK t \in T : \A u \in T : ~ u < t
    <3> HIDE DEF T
    <3> QED
      BY <2>1, Least
  <2>3. PICK n \in M \ S : t = r[h] - r[n]
    BY <2>2
  <2>4. ASSUME NEW i \in M \ S PROVE ~ r[n] < r[i]
    <3>1. ~ (r[h] - r[i]) < r[h] - r[n]
      BY <2>2, <2>3
    <3> QED
      BY <1>1, <3>1
  <2> QED
    BY <2>4
<1>3. PICK x \in (M \cup {h}) : r[m] < r[x] /\ \A y \in M \cup {h} : r[m] < r[y] => ~ r[y] < r[x]
  <2> DEFINE T == {r[y] : y \in {z \in M \cup {h} : r[m] < r[z]}}
  <2>1. T \in SUBSET Nat /\ T # {}
    BY <1>1
  <2>2. PICK t \in T : \A u \in T : ~ u < t
    <3> HIDE DEF T
    <3> QED
      BY <2>1, Least
  <2> QED
    BY <2>2
<1>4. x \in S \cup {h}
  BY <1>2, <1>3
<1>5. next[x] = m
  <2>1. NextLower(M, r, x, next[x])
    BY DEF Shaped
  <2>2. \A i, j \in M : r[i] = r[j] => i = j
    BY DEF Shaped
  <2>3. next[x] \in M /\ r[next[x]] < r[x] /\ ~ r[next[x]] < r[m]
    BY <1>3, <2>1 DEF NextLower
  <2>4. ~ r[m] < r[next[x]]
    BY <1>3, <2>3
  <2>5. next[x] \in Nat /\ m \in Nat /\ r[next[x]] \in Nat /\ r[m] \in Nat
    BY <2>3
  <2>6. r[next[x]] = r[m]
    BY <2>3, <2>4, <2>5
  <2> QED
    BY <2>2, <2>3, <2>6
<1> QED
  BY <1>2, <1>4, <1>5

-----------------------------------------------------------------------------
(* What the types say of offsets, records and calls. *)
LEMMA Offsets ==
  ASSUME TypeOK
  PROVE  /\ Len(rec) \in Nat /\ DOMAIN rec = 1..Len(rec) /\ DOMAIN ptr = 0..(NHash + Len(rec))
         /\ \A i \in 1..Len(rec) : rec[i] \in RecType
         /\ Locks \subseteq DOMAIN ptr /\ Records \subseteq DOMAIN ptr /\ DOMAIN ptr \subseteq Nat
         /\ Records \cap Locks = {} /\ 0 \in Locks /\ 0 \notin Records
         /\ \A o \in Records : o - NHash \in 1..Len(rec) /\ Rec(o) \in RecType
         /\ \A o \in DOMAIN ptr : ptr[o] \in Nat
<1> USE DatabaseAssumption DEF TypeOK, FileTypes, Records, Locks, FREEOFF, First, DatabaseAssumption
<1>1. Len(rec) \in Nat /\ DOMAIN rec = 1..Len(rec) /\ \A i \in 1..Len(rec) : rec[i] \in RecType
  BY LenProperties, ElementOfSeq
<1>2. DOMAIN ptr = 0..(NHash + Len(rec)) /\ \A o \in DOMAIN ptr : ptr[o] \in Nat
  OBVIOUS
<1>3. \A o \in Records : o - NHash \in 1..Len(rec) /\ Rec(o) \in RecType
  BY <1>1 DEF Rec
<1> QED
  BY <1>1, <1>2, <1>3

LEMMA CallFacts ==
  ASSUME TypeOK, NEW p \in Procs, pc[p] # "idle"
  PROVE  /\ Op(p) \in Calls /\ Op(p).key \in Keys
         /\ Chain(p) \in Locks /\ Chain(p) # FREEOFF /\ Chain(p) = Hash[Op(p).key]
         /\ Op(p).kind \in {"fetch", "delete", "store"}
         /\ Op(p).kind = "store" => Op(p).val \in Values /\ Op(p).flag \in {"insert", "replace", "store"}
<1> USE DatabaseAssumption DEF TypeOK, PointTypes, CallTypes, Locks, FREEOFF, DatabaseAssumption
<1>1. db[p] \in DBType /\ Op(p) # None
  BY DEF All, Op
<1>2. Op(p) \in Calls
  BY <1>1 DEF DBType, Op
<1> QED
  BY <1>2 DEF Calls, Chain

LEMMA MembersIn ==
  ASSUME TypeOK, NEW h
  PROVE  /\ Members(h) \subseteq Records /\ Members(h) \in SUBSET Nat /\ 0 \notin Members(h)
         /\ \A l \in Locks : l \notin Members(h)
         /\ \A l : Members(l) \cap Members(h) # {} => l = h
BY Offsets DEF Members

(* Who has a chain locked, nobody else takes a record out of. *)
LEMMA OwnChain ==
  ASSUME TypeOK, LockInv, NEW p \in Procs, NEW q \in Procs, p # q,
         pc[p] \notin {"idle", "lock"}, pc[q] \notin {"idle", "lock"}, Chain(p) = Chain(q)
  PROVE  Op(p).kind = "fetch" /\ Op(q).kind = "fetch"
<1>1. Chain(p) \in Locks /\ Chain(q) \in Locks
  BY CallFacts
<1>2. None \notin Procs
  BY DatabaseAssumption DEF DatabaseAssumption
<1> QED
  BY <1>1, <1>2 DEF LockInv

LEMMA PtrIsSucc ==
  ASSUME TypeOK, NEW h \in Locks, NEW x \in Members(h) \cup {h},
         \A q \in Procs : Unlinking(q) => UnlinkOK(q) /\ Chain(q) # h
  PROVE  Succ[x] = ptr[x]
<1>1. x \in DOMAIN ptr
  BY Offsets, MembersIn
<1>2. ASSUME NEW q \in Procs, Unlinking(q), db[q].ptroff = x PROVE FALSE
  <2>1. Chain(q) \in Locks
    BY <1>2, CallFacts DEF Unlinking
  <2>2. x \in Members(Chain(q)) \cup {Chain(q)}
    BY <1>2 DEF Unlinking, UnlinkOK
  <2>3. x \notin Members(Chain(q))
    BY <1>2, <2>1, MembersIn
  <2> QED
    BY <1>2, <2>1, <2>2, <2>3, MembersIn
<1> QED
  BY <1>1, <1>2 DEF Succ, Unlinking

(* The pointers of a list, and where the walks are. *)
LEMMA Leads ==
  ASSUME TypeOK, ListInv, NEW h \in Locks, NEW x \in Members(h) \cup {h}
  PROVE  Succ[x] \in {0} \cup Members(h)
BY DEF ListInv, Ordered, Shaped, NextLower

LEMMA ChainStill ==
  ASSUME IInv, NEW p \in Procs, pc[p] \notin {"idle", "lock"}, ~Unlinking(p)
  PROVE  \A x \in Members(Chain(p)) \cup {Chain(p)} : Succ[x] = ptr[x]
<1>1. ASSUME NEW q \in Procs, Unlinking(q) PROVE UnlinkOK(q) /\ Chain(q) # Chain(p)
  <2>1. Op(q).kind # "fetch" /\ UnlinkOK(q) /\ p # q
    BY <1>1 DEF IInv, ProcOK, CallOK, Unlinking, Gone_
  <2> QED
    BY <1>1, <2>1, OwnChain DEF IInv, Unlinking
<1> QED
  BY <1>1, CallFacts, PtrIsSucc DEF IInv

LEMMA FreeStill ==
  ASSUME IInv
  PROVE  \A x \in Members(FREEOFF) \cup {FREEOFF} : Succ[x] = ptr[x]
<1>1. ASSUME NEW q \in Procs, Unlinking(q) PROVE UnlinkOK(q) /\ Chain(q) # FREEOFF
  BY <1>1, CallFacts DEF IInv, ProcOK, Unlinking
<1> QED
  BY <1>1, PtrIsSucc, Offsets DEF IInv, FREEOFF

LEMMA WalkLeads ==
  ASSUME IInv, NEW p \in Procs
  PROVE  /\ pc[p] = "walk" => db[p].off \in {0} \cup Members(Chain(p))
         /\ pc[p] = "freewalk" => db[p].off \in {0} \cup Members(FREEOFF)
<1>1. CASE pc[p] = "walk"
  <2>1. db[p].ptroff \in Members(Chain(p)) \cup {Chain(p)} /\ db[p].off = ptr[db[p].ptroff]
    BY <1>1 DEF IInv, ProcOK, WalkOK
  <2> QED
    BY <1>1, <2>1, ChainStill, Leads, CallFacts DEF IInv, Unlinking
<1>2. CASE pc[p] = "freewalk"
  <2>1. db[p].ptroff \in Members(FREEOFF) \cup {FREEOFF} /\ db[p].off = ptr[db[p].ptroff]
    BY <1>2 DEF IInv, ProcOK, WalkOK
  <2> QED
    BY <1>2, <2>1, FreeStill, Leads, Offsets DEF IInv, FREEOFF
<1> QED
  BY <1>1, <1>2

(* The records a call has in its hands are records. *)
LEMMA InRecords ==
  ASSUME IInv, NEW p \in Procs
  PROVE  /\ pc[p] \in {"walk", "freewalk"} => db[p].off = 0 \/ db[p].off \in Records
         /\ pc[p] \in Found_ \cup {"pushfree", "reusedat", "reuseidx", "link"} =>
              db[p].idxoff \in Records
<1>1. pc[p] \in {"walk", "freewalk"} => db[p].off = 0 \/ db[p].off \in Records
  BY WalkLeads, MembersIn DEF IInv
<1>2. pc[p] \in Found_ => db[p].idxoff \in Records
  BY MembersIn DEF IInv, ProcOK, FoundOK
<1>3. pc[p] \in {"pushfree", "reusedat", "reuseidx", "link"} => db[p].idxoff \in Records
  BY DEF IInv, ProcOK, UnlinkOK, TakenOK, LinkOK
<1> QED
  BY <1>1, <1>2, <1>3

(* What Found goes on with. *)
LEMMA FoundStep ==
  ASSUME TypeOK, NEW p \in Procs, Found(p)
  PROVE  \E n \in {"readdat", "unlock", "delete", "overwrite"} :
           /\ At(p, "walk", n)
           /\ db' = [db EXCEPT ![p].idxoff = db[p].off, ![p].datoff = Rec(db[p].off).datoff,
                               ![p].ptrval = ptr[db[p].off],
                               ![p].res = IF n = "unlock" THEN 1 ELSE None]
           /\ n = "readdat" <=> Op(p).kind = "fetch"
           /\ n = "unlock" <=> Op(p).kind = "store" /\ Op(p).flag = "insert"
           /\ n = "overwrite" => /\ Op(p).kind = "store" /\ Op(p).flag # "insert"
                                 /\ VLen[Op(p).val] = Rec(db[p].off).datlen
           /\ n = "delete" => \/ Op(p).kind = "delete"
                              \/ Op(p).kind = "store" /\ Op(p).flag # "insert"
<1> DEFINE n == CASE Op(p).kind = "fetch" -> "readdat"
                  [] Op(p).kind = "delete" -> "delete"
                  [] Op(p).kind = "store" -> IF Op(p).flag = "insert" THEN "unlock"
                                             ELSE IF VLen[Op(p).val] # Rec(db[p].off).datlen
                                             THEN "delete" ELSE "overwrite"
<1>1. Op(p).kind \in {"fetch", "delete", "store"}
  BY CallFacts DEF Found
<1>2. /\ At(p, "walk", n)
      /\ db' = [db EXCEPT ![p].idxoff = db[p].off, ![p].datoff = Rec(db[p].off).datoff,
                          ![p].ptrval = ptr[db[p].off],
                          ![p].res = IF n = "unlock" THEN 1 ELSE None]
  BY DEF Found
<1>3. /\ Op(p).kind = "fetch" => n = "readdat"
      /\ Op(p).kind = "delete" => n = "delete"
      /\ Op(p).kind = "store" => n = IF Op(p).flag = "insert" THEN "unlock"
                                     ELSE IF VLen[Op(p).val] # Rec(db[p].off).datlen
                                     THEN "delete" ELSE "overwrite"
  OBVIOUS
<1> HIDE DEF n
<1> QED
  BY <1>1, <1>2, <1>3

(* What a call returns and makes of the map. *)
LEMMA AfterFacts ==
  ASSUME TypeOK, NEW p \in Procs, pc[p] # "idle"
  PROVE  /\ KV!After(map, Op(p)) \in [Keys -> Values \cup {None}]
         /\ \A k \in Keys : k # Op(p).key => KV!After(map, Op(p))[k] = map[k]
         /\ Op(p).kind = "fetch" => /\ KV!After(map, Op(p)) = map
                                    /\ KV!Result(map, Op(p)) = map[Op(p).key]
         /\ Op(p).kind = "delete" =>
              /\ KV!After(map, Op(p))[Op(p).key] = None
              /\ KV!Result(map, Op(p)) = IF map[Op(p).key] = None THEN -1 ELSE 0
         /\ Op(p).kind = "store" =>
              /\ KV!After(map, Op(p))[Op(p).key] =
                   IF KV!Result(map, Op(p)) = 0 THEN Op(p).val ELSE map[Op(p).key]
              /\ KV!Result(map, Op(p)) =
                   IF map[Op(p).key] = None /\ Op(p).flag = "replace" THEN -1
                   ELSE IF map[Op(p).key] # None /\ Op(p).flag = "insert" THEN 1 ELSE 0
<1>1. /\ map \in [Keys -> Values \cup {None}] /\ Op(p).key \in Keys
      /\ Op(p).kind \in {"fetch", "delete", "store"}
      /\ Op(p).kind = "store" => Op(p).val \in Values
  BY CallFacts DEF TypeOK, HistoryTypes
<1>2. CASE Op(p).kind = "fetch"
  BY <1>1, <1>2 DEF KV!After, KV!Result, KV!Missing
<1>3. CASE Op(p).kind = "delete"
  BY <1>1, <1>3 DEF KV!After, KV!Result, KV!Missing
<1>4. CASE Op(p).kind = "store"
  <2>1. KV!Result(map, Op(p)) = IF map[Op(p).key] = None /\ Op(p).flag = "replace" THEN -1
                                ELSE IF map[Op(p).key] # None /\ Op(p).flag = "insert" THEN 1 ELSE 0
    BY <1>4 DEF KV!Result, KV!Missing
  <2>2. KV!After(map, Op(p)) = IF KV!Result(map, Op(p)) = 0
                               THEN [map EXCEPT ![Op(p).key] = Op(p).val] ELSE map
    BY <1>4 DEF KV!After
  <2> QED
    BY <1>1, <1>4, <2>1, <2>2
<1> QED
  BY <1>1, <1>2, <1>3, <1>4

(* Every step keeps the types: the points a call is at, ... *)
LEMMA PointSteps ==
  ASSUME TypeOK, NEW p \in Procs, ProcNext(p)
  PROVE  PointTypes'
<1> USE DatabaseAssumption DEF DatabaseAssumption, At, All, PointTypes, ProcPoints, ScanPoints
<1>0. PointTypes
  BY DEF TypeOK
<1>1. ASSUME NEW o \in Ops[p], Call(p, o) PROVE PointTypes'
  BY <1>0, <1>1 DEF Call, Frame
<1>2. CASE FindAndLock(p)
  BY <1>0, <1>2 DEF FindAndLock, Frame
<1>3. CASE Walk(p)
  BY <1>0, <1>3 DEF Walk, Frame
<1>4. CASE Found(p)
  <2>1. \E n \in {"readdat", "unlock", "delete", "overwrite"} : At(p, "walk", n)
    BY <1>0, <1>4, FoundStep
  <2> QED
    BY <1>0, <1>0, <2>1, SMTT(30) DEF At
<1>5. CASE NotFound(p)
  BY <1>0, <1>5 DEF NotFound, Frame
<1>6. CASE ReadDat(p)
  BY <1>0, <1>6 DEF ReadDat, Frame
<1>7. CASE Overwrite(p)
  BY <1>0, <1>7 DEF Overwrite, Frame
<1>8. CASE UnlockReturn(p)
  BY <1>0, <1>8 DEF UnlockReturn, Frame
<1>9. CASE DeleteLock(p)
  BY <1>0, <1>9 DEF DeleteLock, Frame
<1>10. CASE BlankDat(p)
  BY <1>0, <1>10 DEF BlankDat, Frame
<1>11. CASE BlankIdx(p)
  BY <1>0, <1>11 DEF BlankIdx, Frame
<1>12. CASE PushFree(p)
  BY <1>0, <1>12 DEF PushFree, Frame
<1>13. CASE Unlink(p)
  BY <1>0, <1>13 DEF Unlink, Frame
<1>14. CASE DeleteUnlock(p)
  BY <1>0, <1>14 DEF DeleteUnlock, Frame
<1>15. CASE FindFree(p)
  BY <1>0, <1>15 DEF FindFree, Frame
<1>16. CASE FreeWalk(p)
  BY <1>0, <1>16 DEF FreeWalk, Frame
<1>17. CASE TakeFree(p)
  BY <1>0, <1>17 DEF TakeFree, Frame
<1>18. CASE NoFree(p)
  BY <1>0, <1>18 DEF NoFree, Frame
<1>19. CASE FreeUnlock(p)
  BY <1>0, <1>19 DEF FreeUnlock, Frame
<1>20. CASE AppendDat(p)
  BY <1>0, <1>20 DEF AppendDat, Frame
<1>21. CASE AppendIdx(p)
  BY <1>0, <1>21 DEF AppendIdx, Frame
<1>22. CASE ReuseDat(p)
  BY <1>0, <1>22 DEF ReuseDat, Frame
<1>23. CASE ReuseIdx(p)
  BY <1>0, <1>23 DEF ReuseIdx, Frame
<1>24. CASE Link(p)
  BY <1>0, <1>24 DEF Link, Frame
<1> QED
  BY <1>1, <1>2, <1>3, <1>4, <1>5, <1>6, <1>7, <1>8, <1>9, <1>10, <1>11, <1>12, <1>13,
     <1>14, <1>15, <1>16, <1>17, <1>18, <1>19, <1>20, <1>21, <1>22, <1>23, <1>24 DEF ProcNext

(* ... the locks, ... *)
LEMMA LockTypeSteps ==
  ASSUME LockTypes, NEW p \in Procs, ProcNext(p)
  PROVE  LockTypes'
<1> USE DatabaseAssumption DEF DatabaseAssumption, All, LockTypes, WriteLocked, ReadLocked, Unlocked, locks, Locks
<1>1. ASSUME NEW o \in Ops[p], Call(p, o) PROVE LockTypes'
  BY <1>1 DEF Call, Frame
<1>2. CASE FindAndLock(p)
  <2>1. CASE ReadLocked(p, Chain(p))
    BY <2>1
  <2>2. CASE WriteLocked(p, Chain(p))
    BY <2>2
  <2> QED
    BY <1>2, <2>1, <2>2 DEF FindAndLock
<1>3. CASE Walk(p)
  BY <1>3 DEF Walk, Frame
<1>4. CASE Found(p)
  BY <1>4 DEF Found, Frame
<1>5. CASE NotFound(p)
  BY <1>5 DEF NotFound, Frame
<1>6. CASE ReadDat(p)
  BY <1>6 DEF ReadDat, Frame
<1>7. CASE Overwrite(p)
  BY <1>7 DEF Overwrite, Frame
<1>8. CASE UnlockReturn(p)
  BY <1>8 DEF UnlockReturn, Frame
<1>9. CASE DeleteLock(p)
  BY <1>9 DEF DeleteLock, Frame
<1>10. CASE BlankDat(p)
  BY <1>10 DEF BlankDat, Frame
<1>11. CASE BlankIdx(p)
  BY <1>11 DEF BlankIdx, Frame
<1>12. CASE PushFree(p)
  BY <1>12 DEF PushFree, Frame
<1>13. CASE Unlink(p)
  BY <1>13 DEF Unlink, Frame
<1>14. CASE DeleteUnlock(p)
  BY <1>14 DEF DeleteUnlock, Frame
<1>15. CASE FindFree(p)
  BY <1>15 DEF FindFree, Frame
<1>16. CASE FreeWalk(p)
  BY <1>16 DEF FreeWalk, Frame
<1>17. CASE TakeFree(p)
  BY <1>17 DEF TakeFree, Frame
<1>18. CASE NoFree(p)
  BY <1>18 DEF NoFree, Frame
<1>19. CASE FreeUnlock(p)
  BY <1>19 DEF FreeUnlock, Frame
<1>20. CASE AppendDat(p)
  BY <1>20 DEF AppendDat, Frame
<1>21. CASE AppendIdx(p)
  BY <1>21 DEF AppendIdx, Frame
<1>22. CASE ReuseDat(p)
  BY <1>22 DEF ReuseDat, Frame
<1>23. CASE ReuseIdx(p)
  BY <1>23 DEF ReuseIdx, Frame
<1>24. CASE Link(p)
  BY <1>24 DEF Link, Frame
<1> QED
  BY <1>1, <1>2, <1>3, <1>4, <1>5, <1>6, <1>7, <1>8, <1>9, <1>10, <1>11, <1>12, <1>13,
     <1>14, <1>15, <1>16, <1>17, <1>18, <1>19, <1>20, <1>21, <1>22, <1>23, <1>24 DEF ProcNext

(* ... what the calls returned and the scans saw, ... *)
LEMMA HistoryTypeSteps ==
  ASSUME IInv, NEW p \in Procs, ProcNext(p)
  PROVE  HistoryTypes'
<1> USE DatabaseAssumption DEF DatabaseAssumption, HistoryTypes, Frame, Still, Moves, scanVars
<1>0. HistoryTypes
  BY DEF IInv, TypeOK
<1>a. pc[p] # "idle" => Op(p).key \in Keys
  BY CallFacts DEF IInv
<1>1. ASSUME NEW o \in Ops[p], Call(p, o) PROVE HistoryTypes'
  BY <1>1, <1>0 DEF Call, At
<1>2. CASE FindAndLock(p)
  BY <1>2, <1>0 DEF FindAndLock, At
<1>3. CASE Walk(p)
  BY <1>3, <1>0 DEF Walk, At
<1>4. CASE Found(p)
  BY <1>4, <1>0 DEF Found, At
<1>5. CASE NotFound(p)
  BY <1>5, <1>0 DEF NotFound, At
<1>6. CASE ReadDat(p)
  BY <1>6, <1>0 DEF ReadDat, At
<1>7. CASE Overwrite(p)
  BY <1>7, <1>0 DEF Overwrite, At
<1>8. CASE UnlockReturn(p)
  <2>1. db[p].res \in Results
    BY DEF IInv, TypeOK, CallTypes, DBType, All
  <2>2. KV!After(map, Op(p)) \in [Keys -> Values \cup {None}]
    BY <1>8, AfterFacts DEF IInv, UnlockReturn, At
  <2> QED
    BY <1>8, <1>0, <2>1, <2>2 DEF UnlockReturn
<1>9. CASE DeleteLock(p)
  BY <1>9, <1>0 DEF DeleteLock, At
<1>10. CASE BlankDat(p)
  BY <1>10, <1>0 DEF BlankDat, At
<1>11. CASE BlankIdx(p)
  BY <1>11, <1>0, <1>a DEF BlankIdx, At
<1>12. CASE PushFree(p)
  BY <1>12, <1>0 DEF PushFree, At
<1>13. CASE Unlink(p)
  BY <1>13, <1>0 DEF Unlink, At
<1>14. CASE DeleteUnlock(p)
  BY <1>14, <1>0 DEF DeleteUnlock, At
<1>15. CASE FindFree(p)
  BY <1>15, <1>0 DEF FindFree, At
<1>16. CASE FreeWalk(p)
  BY <1>16, <1>0 DEF FreeWalk, At
<1>17. CASE TakeFree(p)
  BY <1>17, <1>0 DEF TakeFree, At
<1>18. CASE NoFree(p)
  BY <1>18, <1>0 DEF NoFree, At
<1>19. CASE FreeUnlock(p)
  BY <1>19, <1>0 DEF FreeUnlock, At
<1>20. CASE AppendDat(p)
  BY <1>20, <1>0 DEF AppendDat, At
<1>21. CASE AppendIdx(p)
  BY <1>21, <1>0, <1>a DEF AppendIdx, At
<1>22. CASE ReuseDat(p)
  BY <1>22, <1>0 DEF ReuseDat, At
<1>23. CASE ReuseIdx(p)
  BY <1>23, <1>0, <1>a DEF ReuseIdx, At
<1>24. CASE Link(p)
  BY <1>24, <1>0 DEF Link, At
<1> QED
  BY <1>1, <1>2, <1>3, <1>4, <1>5, <1>6, <1>7, <1>8, <1>9, <1>10, <1>11, <1>12, <1>13,
     <1>14, <1>15, <1>16, <1>17, <1>18, <1>19, <1>20, <1>21, <1>22, <1>23, <1>24 DEF ProcNext

(* ... what a call keeps in its DB structure, ... *)
LEMMA CallTypeSteps ==
  ASSUME IInv, NEW p \in Procs, ProcNext(p)
  PROVE  db' \in [All -> DBType]
<1>0. db \in [All -> DBType] /\ TypeOK /\ p \in All
  BY DEF IInv, TypeOK, CallTypes, All
<1>a. pc[p] # "idle" => Chain(p) \in Nat /\ ptr[Chain(p)] \in Nat
  BY <1>0, CallFacts, Offsets
<1>b. ptr[FREEOFF] \in Nat /\ FREEOFF \in Nat /\ First + Len(rec) \in Nat /\ Len(dat) + 1 \in Nat
  BY <1>0, DatabaseAssumption, Offsets, LenProperties
  DEF TypeOK, FileTypes, FREEOFF, First, DatabaseAssumption
<1>c. pc[p] \in {"walk", "freewalk"} /\ db[p].off # 0 =>
        db[p].off \in Nat /\ ptr[db[p].off] \in Nat /\ Rec(db[p].off).datoff \in Nat
  BY <1>0, Offsets, InRecords DEF RecType
<1>d. {None, -1, 0, 1} \subseteq Results
  BY DEF Results
<1>e. db' = db => db' \in [All -> DBType]
  BY <1>0
<1>1. ASSUME NEW o \in Ops[p], Call(p, o) PROVE db' \in [All -> DBType]
  <2>1. [NoDB EXCEPT !.op = o] \in DBType
    BY <1>1, <1>d, DatabaseAssumption DEF NoDB, DBType, DatabaseAssumption
  <2> QED
    BY <1>0, <1>1, <2>1 DEF Call
<1>2. CASE FindAndLock(p)
  <2>1. db' = [db EXCEPT ![p].ptroff = Chain(p), ![p].off = ptr[Chain(p)]]
    BY <1>2 DEF FindAndLock
  <2>2. [db[p] EXCEPT !.ptroff = Chain(p), !.off = ptr[Chain(p)]] \in DBType
    BY <1>2, <1>0, <1>a DEF FindAndLock, At, DBType
  <2>3. db' = [db EXCEPT ![p] = [db[p] EXCEPT !.ptroff = Chain(p), !.off = ptr[Chain(p)]]]
    BY <2>1
  <2> QED
    BY <1>0, <2>2, <2>3
<1>3. CASE Walk(p)
  <2>1. db' = [db EXCEPT ![p].ptroff = db[p].off, ![p].off = ptr[db[p].off]]
    BY <1>3 DEF Walk
  <2>2. [db[p] EXCEPT !.ptroff = db[p].off, !.off = ptr[db[p].off]] \in DBType
    BY <1>3, <1>0, <1>c DEF Walk, At, DBType
  <2>3. db' = [db EXCEPT ![p] = [db[p] EXCEPT !.ptroff = db[p].off, !.off = ptr[db[p].off]]]
    BY <2>1
  <2> QED
    BY <1>0, <2>2, <2>3
<1>4. CASE Found(p)
  <2>1. PICK v \in {1, None} :
               db' = [db EXCEPT ![p].idxoff = db[p].off, ![p].datoff = Rec(db[p].off).datoff,
                                ![p].ptrval = ptr[db[p].off], ![p].res = v]
    BY <1>0, <1>4, FoundStep, ZenonT(30)
  <2>2. [db[p] EXCEPT !.idxoff = db[p].off, !.datoff = Rec(db[p].off).datoff,
                      !.ptrval = ptr[db[p].off], !.res = v] \in DBType
    BY <1>4, <1>0, <1>c, <1>d DEF Found, DBType
  <2>3. db' = [db EXCEPT ![p] = [db[p] EXCEPT !.idxoff = db[p].off, !.ptrval = ptr[db[p].off],
                                              !.datoff = Rec(db[p].off).datoff, !.res = v]]
    BY <2>1
  <2> QED
    BY <1>0, <2>2, <2>3, ZenonT(30)
<1>5. CASE NotFound(p)
  <2>1. db' = [db EXCEPT ![p].ptrval = ptr[Chain(p)], ![p].res = IF Op(p).kind = "fetch" THEN None ELSE -1]
    BY <1>5 DEF NotFound
  <2>2. [db[p] EXCEPT !.ptrval = ptr[Chain(p)], !.res = IF Op(p).kind = "fetch" THEN None ELSE -1] \in DBType
    BY <1>5, <1>0, <1>a, <1>d DEF NotFound, At, DBType
  <2>3. db' = [db EXCEPT ![p] = [db[p] EXCEPT !.ptrval = ptr[Chain(p)], !.res = IF Op(p).kind = "fetch" THEN None ELSE -1]]
    BY <2>1
  <2> QED
    BY <1>0, <2>2, <2>3
<1>6. CASE ReadDat(p)
  <2>0. dat[db[p].datoff] \in Results
    <3>1. db[p].datoff \in 1..Len(dat)
      BY <1>6, <1>0, Offsets, InRecords DEF ReadDat, At, IInv, ProcOK, FoundOK, Found_, DatInv, Rec
    <3> QED
      BY <1>0, <3>1, ElementOfSeq DEF TypeOK, FileTypes, Results
  <2>1. db' = [db EXCEPT ![p].res = dat[db[p].datoff]]
    BY <1>6 DEF ReadDat
  <2>2. [db[p] EXCEPT !.res = dat[db[p].datoff]] \in DBType
    BY <1>6, <1>0, <2>0 DEF ReadDat, At, DBType
  <2>3. db' = [db EXCEPT ![p] = [db[p] EXCEPT !.res = dat[db[p].datoff]]]
    BY <2>1
  <2> QED
    BY <1>0, <2>2, <2>3
<1>7. CASE Overwrite(p)
  <2>1. db' = [db EXCEPT ![p].res = 0]
    BY <1>7 DEF Overwrite
  <2>2. [db[p] EXCEPT !.res = 0] \in DBType
    BY <1>7, <1>0, <1>d DEF Overwrite, At, DBType
  <2>3. db' = [db EXCEPT ![p] = [db[p] EXCEPT !.res = 0]]
    BY <2>1
  <2> QED
    BY <1>0, <2>2, <2>3
<1>8. CASE UnlockReturn(p)
  <2>1. NoDB \in DBType
    BY <1>d DEF NoDB, DBType
  <2> QED
    BY <1>8, <1>0, <2>1 DEF UnlockReturn
<1>9. CASE DeleteLock(p)
  BY <1>9, <1>e DEF DeleteLock
<1>10. CASE BlankDat(p)
  BY <1>10, <1>e DEF BlankDat
<1>11. CASE BlankIdx(p)
  BY <1>11, <1>e DEF BlankIdx
<1>12. CASE PushFree(p)
  BY <1>12, <1>e DEF PushFree
<1>13. CASE Unlink(p)
  BY <1>13, <1>e DEF Unlink
<1>14. CASE DeleteUnlock(p)
  <2>1. db' = [db EXCEPT ![p].ptrval = ptr[Chain(p)], ![p].res = 0]
    BY <1>14 DEF DeleteUnlock
  <2>2. [db[p] EXCEPT !.ptrval = ptr[Chain(p)], !.res = 0] \in DBType
    BY <1>14, <1>0, <1>a, <1>d DEF DeleteUnlock, At, DBType
  <2>3. db' = [db EXCEPT ![p] = [db[p] EXCEPT !.ptrval = ptr[Chain(p)], !.res = 0]]
    BY <2>1
  <2> QED
    BY <1>0, <2>2, <2>3
<1>15. CASE FindFree(p)
  <2>1. db' = [db EXCEPT ![p].ptroff = FREEOFF, ![p].off = ptr[FREEOFF]]
    BY <1>15 DEF FindFree
  <2>2. [db[p] EXCEPT !.ptroff = FREEOFF, !.off = ptr[FREEOFF]] \in DBType
    BY <1>15, <1>0, <1>b DEF FindFree, At, DBType
  <2>3. db' = [db EXCEPT ![p] = [db[p] EXCEPT !.ptroff = FREEOFF, !.off = ptr[FREEOFF]]]
    BY <2>1
  <2> QED
    BY <1>0, <2>2, <2>3
<1>16. CASE FreeWalk(p)
  <2>1. db' = [db EXCEPT ![p].ptroff = db[p].off, ![p].off = ptr[db[p].off]]
    BY <1>16 DEF FreeWalk
  <2>2. [db[p] EXCEPT !.ptroff = db[p].off, !.off = ptr[db[p].off]] \in DBType
    BY <1>16, <1>0, <1>c DEF FreeWalk, At, DBType
  <2>3. db' = [db EXCEPT ![p] = [db[p] EXCEPT !.ptroff = db[p].off, !.off = ptr[db[p].off]]]
    BY <2>1
  <2> QED
    BY <1>0, <2>2, <2>3
<1>17. CASE TakeFree(p)
  <2>1. db' = [db EXCEPT ![p].idxoff = db[p].off, ![p].datoff = Rec(db[p].off).datoff]
    BY <1>17 DEF TakeFree
  <2>2. [db[p] EXCEPT !.idxoff = db[p].off, !.datoff = Rec(db[p].off).datoff] \in DBType
    BY <1>17, <1>0, <1>c DEF TakeFree, At, DBType
  <2>3. db' = [db EXCEPT ![p] = [db[p] EXCEPT !.idxoff = db[p].off, !.datoff = Rec(db[p].off).datoff]]
    BY <2>1
  <2> QED
    BY <1>0, <2>2, <2>3
<1>18. CASE NoFree(p)
  BY <1>18, <1>e DEF NoFree
<1>19. CASE FreeUnlock(p)
  BY <1>19, <1>e DEF FreeUnlock
<1>20. CASE AppendDat(p)
  <2>1. db' = [db EXCEPT ![p].datoff = Len(dat) + 1]
    BY <1>20 DEF AppendDat
  <2>2. [db[p] EXCEPT !.datoff = Len(dat) + 1] \in DBType
    BY <1>20, <1>0, <1>b DEF AppendDat, At, DBType
  <2>3. db' = [db EXCEPT ![p] = [db[p] EXCEPT !.datoff = Len(dat) + 1]]
    BY <2>1
  <2> QED
    BY <1>0, <2>2, <2>3
<1>21. CASE AppendIdx(p)
  <2>1. db' = [db EXCEPT ![p].idxoff = First + Len(rec)]
    BY <1>21 DEF AppendIdx
  <2>2. [db[p] EXCEPT !.idxoff = First + Len(rec)] \in DBType
    BY <1>21, <1>0, <1>b DEF AppendIdx, At, DBType
  <2>3. db' = [db EXCEPT ![p] = [db[p] EXCEPT !.idxoff = First + Len(rec)]]
    BY <2>1
  <2> QED
    BY <1>0, <2>2, <2>3
<1>22. CASE ReuseDat(p)
  BY <1>22, <1>e DEF ReuseDat
<1>23. CASE ReuseIdx(p)
  BY <1>23, <1>e DEF ReuseIdx
<1>24. CASE Link(p)
  <2>1. db' = [db EXCEPT ![p].res = 0]
    BY <1>24 DEF Link
  <2>2. [db[p] EXCEPT !.res = 0] \in DBType
    BY <1>24, <1>0, <1>d DEF Link, At, DBType
  <2>3. db' = [db EXCEPT ![p] = [db[p] EXCEPT !.res = 0]]
    BY <2>1
  <2> QED
    BY <1>0, <2>2, <2>3
<1> QED
  BY <1>1, <1>2, <1>3, <1>4, <1>5, <1>6, <1>7, <1>8, <1>9, <1>10, <1>11, <1>12, <1>13,
     <1>14, <1>15, <1>16, <1>17, <1>18, <1>19, <1>20, <1>21, <1>22, <1>23, <1>24 DEF ProcNext

(* What a step of a call leaves alone. *)
LEMMA StepFrame ==
  ASSUME TypeOK, NEW p \in Procs, ProcNext(p)
  PROVE  /\ \A q \in All : q # p => pc'[q] = pc[q] /\ db'[q] = db[q]
         /\ pc[p] # "idle" /\ pc'[p] # "idle" => db'[p].op = db[p].op
         /\ pc[p] = "idle" => pc'[p] = "lock" /\ db'[p].op \in Ops[p]
         /\ pc'[p] = "idle" => pc[p] # "idle" /\ db'[p].op = None
<1>0. /\ db \in [All -> DBType] /\ TypeOK /\ p \in All
      /\ pc \in [All -> ProcPoints \cup ScanPoints]
  BY SMTT(30) DEF TypeOK, CallTypes, PointTypes, All
<1>a. Found(p) => /\ \E n \in {"readdat", "unlock", "delete", "overwrite"} : At(p, "walk", n)
                  /\ \E v \in {1, None} :
                       db' = [db EXCEPT ![p].idxoff = db[p].off, ![p].datoff = Rec(db[p].off).datoff,
                                        ![p].ptrval = ptr[db[p].off], ![p].res = v]
  BY <1>0, FoundStep, ZenonT(30)
<1> DEFINE Goal ==
      /\ \A q \in All : q # p => pc'[q] = pc[q] /\ db'[q] = db[q]
      /\ pc[p] # "idle" /\ pc'[p] # "idle" => db'[p].op = db[p].op
      /\ pc[p] = "idle" => pc'[p] = "lock" /\ db'[p].op \in Ops[p]
      /\ pc'[p] = "idle" => pc[p] # "idle" /\ db'[p].op = None
<1>1. ASSUME NEW o \in Ops[p], Call(p, o) PROVE Goal
  BY <1>1, <1>0 DEF Call, At, DBType, NoDB
<1>2. CASE FindAndLock(p)
  BY <1>2, <1>0 DEF FindAndLock, At, DBType, NoDB
<1>3. CASE Walk(p)
  BY <1>3, <1>0 DEF Walk, At, DBType, NoDB
<1>4. CASE Found(p)
  BY <1>0, <1>a, <1>4 DEF At, DBType
<1>5. CASE NotFound(p)
  BY <1>5, <1>0 DEF NotFound, At, DBType, NoDB
<1>6. CASE ReadDat(p)
  BY <1>6, <1>0 DEF ReadDat, At, DBType, NoDB
<1>7. CASE Overwrite(p)
  BY <1>7, <1>0 DEF Overwrite, At, DBType, NoDB
<1>8. CASE UnlockReturn(p)
  BY <1>8, <1>0 DEF UnlockReturn, At, DBType, NoDB
<1>9. CASE DeleteLock(p)
  BY <1>9, <1>0 DEF DeleteLock, At, DBType, NoDB
<1>10. CASE BlankDat(p)
  BY <1>10, <1>0 DEF BlankDat, At, DBType, NoDB
<1>11. CASE BlankIdx(p)
  BY <1>11, <1>0 DEF BlankIdx, At, DBType, NoDB
<1>12. CASE PushFree(p)
  BY <1>12, <1>0 DEF PushFree, At, DBType, NoDB
<1>13. CASE Unlink(p)
  BY <1>13, <1>0 DEF Unlink, At, DBType, NoDB
<1>14. CASE DeleteUnlock(p)
  BY <1>14, <1>0 DEF DeleteUnlock, At, DBType, NoDB
<1>15. CASE FindFree(p)
  BY <1>15, <1>0 DEF FindFree, At, DBType, NoDB
<1>16. CASE FreeWalk(p)
  BY <1>16, <1>0 DEF FreeWalk, At, DBType, NoDB
<1>17. CASE TakeFree(p)
  BY <1>17, <1>0 DEF TakeFree, At, DBType, NoDB
<1>18. CASE NoFree(p)
  BY <1>18, <1>0 DEF NoFree, At, DBType, NoDB
<1>19. CASE FreeUnlock(p)
  BY <1>19, <1>0 DEF FreeUnlock, At, DBType, NoDB
<1>20. CASE AppendDat(p)
  BY <1>20, <1>0 DEF AppendDat, At, DBType, NoDB
<1>21. CASE AppendIdx(p)
  BY <1>21, <1>0 DEF AppendIdx, At, DBType, NoDB
<1>22. CASE ReuseDat(p)
  BY <1>22, <1>0 DEF ReuseDat, At, DBType, NoDB
<1>23. CASE ReuseIdx(p)
  BY <1>23, <1>0 DEF ReuseIdx, At, DBType, NoDB
<1>24. CASE Link(p)
  BY <1>24, <1>0 DEF Link, At, DBType, NoDB
<1> QED
  BY <1>1, <1>2, <1>3, <1>4, <1>5, <1>6, <1>7, <1>8, <1>9, <1>10, <1>11, <1>12, <1>13,
     <1>14, <1>15, <1>16, <1>17, <1>18, <1>19, <1>20, <1>21, <1>22, <1>23, <1>24 DEF ProcNext
(* Writing and appending records. *)
LEMMA WriteData ==
  ASSUME NEW s \in Seq(Values \cup {Blank}), NEW i \in 1..Len(s), NEW v \in Values \cup {Blank},
         NEW t, t = [s EXCEPT ![i] = v]
  PROVE  /\ t \in Seq(Values \cup {Blank}) /\ Len(t) = Len(s) /\ t[i] = v
         /\ \A j \in 1..Len(s) : j # i => t[j] = s[j]
BY ExceptSeq

LEMMA AppendOne ==
  ASSUME NEW S, NEW s \in Seq(S), NEW v \in S, NEW t, t = Append(s, v)
  PROVE  /\ t \in Seq(S) /\ Len(s) \in Nat /\ Len(t) = Len(s) + 1 /\ t[Len(s) + 1] = v
         /\ \A j \in 1..Len(s) : t[j] = s[j]
BY AppendProperties, LenProperties

(* What each step writes to the files. *)
LEMMA DataOf ==
  ASSUME IInv, NEW p \in Procs,
         \/ pc[p] \in Found_ \/ pc[p] \in {"reusedat", "reuseidx"}
  PROVE  /\ db[p].idxoff \in Records /\ db[p].datoff = Rec(db[p].idxoff).datoff
         /\ db[p].datoff \in 1..Len(dat)
<1>1. db[p].idxoff \in Records
  BY InRecords
<1>2. db[p].datoff = Rec(db[p].idxoff).datoff
  BY DEF IInv, ProcOK, FoundOK, TakenOK
<1>3. Rec(db[p].idxoff).datoff \in 1..Len(dat)
  BY <1>1, Offsets DEF IInv, DatInv, Rec
<1> QED
  BY <1>1, <1>2, <1>3

LEMMA DataWritten ==
  ASSUME IInv, NEW p \in Procs, Overwrite(p) \/ BlankDat(p) \/ ReuseDat(p)
  PROVE  /\ UNCHANGED <<ptr, rec>>
         /\ db[p].datoff \in 1..Len(dat) /\ dat' \in Seq(Values \cup {Blank}) /\ Len(dat') = Len(dat)
         /\ dat'[db[p].datoff] = IF BlankDat(p) THEN Blank ELSE Op(p).val
         /\ \A j \in 1..Len(dat) : j # db[p].datoff => dat'[j] = dat[j]
<1> DEFINE v == IF BlankDat(p) THEN Blank ELSE Op(p).val
<1>1. db[p].datoff \in 1..Len(dat)
  BY DataOf DEF Overwrite, BlankDat, ReuseDat, At, Found_
<1>2. UNCHANGED <<ptr, rec>> /\ dat' = [dat EXCEPT ![db[p].datoff] = v]
  BY DEF Overwrite, BlankDat, ReuseDat, At
<1>3. v \in Values \cup {Blank}
  <2>1. ~ BlankDat(p) => pc[p] \in {"overwrite", "reusedat"}
    BY DEF Overwrite, ReuseDat, At
  <2>2. ~ BlankDat(p) => Op(p).kind = "store"
    BY <2>1 DEF IInv, ProcOK, CallOK, Head_
  <2> QED
    BY <2>1, <2>2, CallFacts DEF IInv
<1> HIDE DEF v
<1>4. dat \in Seq(Values \cup {Blank})
  BY DEF IInv, TypeOK, FileTypes
<1>5. /\ dat' \in Seq(Values \cup {Blank}) /\ Len(dat') = Len(dat) /\ dat'[db[p].datoff] = v
      /\ \A j \in 1..Len(dat) : j # db[p].datoff => dat'[j] = dat[j]
  BY <1>1, <1>2, <1>3, <1>4, WriteData
<1> QED
  BY <1>1, <1>2, <1>5 DEF v

LEMMA AppendDatEffect ==
  ASSUME IInv, NEW p \in Procs, AppendDat(p)
  PROVE  /\ UNCHANGED <<ptr, rec>>
         /\ dat' \in Seq(Values \cup {Blank}) /\ Len(dat) \in Nat /\ Len(dat') = Len(dat) + 1
         /\ dat'[Len(dat) + 1] = Op(p).val /\ \A j \in 1..Len(dat) : dat'[j] = dat[j]
<1>1. Op(p).val \in Values
  BY CallFacts DEF AppendDat, At, IInv, ProcOK, CallOK, Head_
<1>2. dat \in Seq(Values \cup {Blank})
  BY DEF IInv, TypeOK, FileTypes
<1> QED
  BY <1>1, <1>2, AppendOne DEF AppendDat

LEMMA AppendIdxEffect ==
  ASSUME IInv, NEW p \in Procs, AppendIdx(p)
  PROVE  /\ dat' = dat /\ rec' \in Seq(RecType) /\ Len(rec') = Len(rec) + 1
         /\ db'[p].idxoff = First + Len(rec) /\ db'[p].idxoff \notin DOMAIN ptr
         /\ Records' = Records \cup {db'[p].idxoff}
         /\ rec'[Len(rec) + 1].key = Op(p).key /\ rec'[Len(rec) + 1].datoff = db[p].datoff
         /\ rec'[Len(rec) + 1].datlen = VLen[Op(p).val]
         /\ \A j \in 1..Len(rec) : rec'[j] = rec[j]
         /\ \A o \in Records : Rec(o)' = Rec(o)
         /\ db'[p].idxoff - NHash = Len(rec) + 1
         /\ ptr' \in [0..(NHash + Len(rec')) -> Nat]
         /\ ptr'[db'[p].idxoff] = db[p].ptrval
         /\ \A x \in DOMAIN ptr : x \in DOMAIN ptr' /\ ptr'[x] = ptr[x]
<1>1. /\ Op(p).key \in Keys /\ Op(p).val \in Values
  BY CallFacts DEF AppendIdx, At, IInv, ProcOK, CallOK, Head_
<1>2. /\ rec \in Seq(RecType) /\ Len(rec) \in Nat /\ db[p] \in DBType /\ NHash \in Nat
      /\ DOMAIN ptr = 0..(NHash + Len(rec)) /\ \A x \in DOMAIN ptr : ptr[x] \in Nat
      /\ db \in [All -> DBType] /\ p \in All
  BY Offsets, DatabaseAssumption DEF IInv, TypeOK, FileTypes, CallTypes, All, DatabaseAssumption
<1> DEFINE e == [key |-> Op(p).key, klen |-> KLen[Op(p).key],
                 datoff |-> db[p].datoff, datlen |-> VLen[Op(p).val]]
           o == First + Len(rec)
<1>3. e \in RecType
  BY <1>1, <1>2, DatabaseAssumption DEF RecType, DatabaseAssumption, DBType
<1>4. rec' = Append(rec, e) /\ dat' = dat
  BY DEF AppendIdx
<1>5. e.key = Op(p).key /\ e.datoff = db[p].datoff /\ e.datlen = VLen[Op(p).val]
  OBVIOUS
<1> HIDE DEF e
<1>6. /\ rec' \in Seq(RecType) /\ Len(rec') = Len(rec) + 1 /\ rec'[Len(rec) + 1] = e
      /\ \A j \in 1..Len(rec) : rec'[j] = rec[j]
  BY <1>2, <1>3, <1>4, AppendOne
<1>7. db'[p].idxoff = o
  BY <1>2 DEF AppendIdx, DBType
<1>8. ptr' = [j \in 0..o |-> IF j = o THEN db[p].ptrval ELSE ptr[j]]
  BY DEF AppendIdx
<1>9. o = NHash + Len(rec) + 1 /\ o \in Nat
  BY <1>2 DEF First
<1>10. /\ ptr' \in [0..(NHash + Len(rec')) -> Nat]
       /\ ptr'[o] = db[p].ptrval /\ o \notin DOMAIN ptr
       /\ \A x \in DOMAIN ptr : x \in DOMAIN ptr' /\ ptr'[x] = ptr[x]
  <2>1. db[p].ptrval \in Nat
    BY <1>2 DEF DBType
  <2> QED
    BY <1>2, <1>6, <1>8, <1>9, <2>1
<1>11. Records' = Records \cup {o}
  BY <1>2, <1>6, <1>9 DEF Records, First
<1>12. \A x \in Records : Rec(x)' = Rec(x)
  BY <1>2, <1>6 DEF Rec, Records, First
<1>13. db'[p].idxoff - NHash = Len(rec) + 1
  BY <1>2, <1>7, <1>9
<1> QED
  BY <1>4, <1>5, <1>6, <1>7, <1>10, <1>11, <1>12, <1>13

(* A record gets a key, and a pointer. *)
LEMMA RekeyEffect ==
  ASSUME IInv, NEW p \in Procs, BlankIdx(p) \/ ReuseIdx(p)
  PROVE  /\ dat' = dat /\ rec' \in Seq(RecType) /\ Len(rec') = Len(rec) /\ Records' = Records
         /\ db' = db /\ db[p].idxoff \in Records
         /\ Rec(db[p].idxoff)'.key = IF BlankIdx(p) THEN Blank ELSE Op(p).key
         /\ Rec(db[p].idxoff)'.klen = Rec(db[p].idxoff).klen
         /\ Rec(db[p].idxoff)'.datoff = Rec(db[p].idxoff).datoff
         /\ Rec(db[p].idxoff)'.datlen = Rec(db[p].idxoff).datlen
         /\ \A o \in Records : o # db[p].idxoff => Rec(o)' = Rec(o)
         /\ \A i \in 1..Len(rec) : rec'[i].datoff = rec[i].datoff /\ rec'[i].datlen = rec[i].datlen
         /\ \A i \in 1..Len(rec) : i # db[p].idxoff - NHash => rec'[i] = rec[i]
         /\ ptr' \in [0..(NHash + Len(rec')) -> Nat] /\ DOMAIN ptr' = DOMAIN ptr
         /\ ptr'[db[p].idxoff] = IF BlankIdx(p) THEN ptr[FREEOFF] ELSE db[p].ptrval
         /\ \A x \in DOMAIN ptr : x # db[p].idxoff => ptr'[x] = ptr[x]
<1> DEFINE k == IF BlankIdx(p) THEN Blank ELSE Op(p).key
           o == db[p].idxoff
           i == db[p].idxoff - NHash
           v == IF BlankIdx(p) THEN ptr[FREEOFF] ELSE db[p].ptrval
<1>1. /\ rec \in Seq(RecType) /\ Len(rec) \in Nat /\ NHash \in Nat
      /\ ptr \in [0..(NHash + Len(rec)) -> Nat]
  BY Offsets, DatabaseAssumption DEF IInv, TypeOK, FileTypes, DatabaseAssumption
<1>2. o \in Records /\ i = o - NHash /\ i \in 1..Len(rec) /\ o \in 0..(NHash + Len(rec)) /\ o \in Nat
  BY InRecords, Offsets DEF IInv, BlankIdx, ReuseIdx, At, Found_
<1>3. pc[p] # "idle"
  BY DEF BlankIdx, ReuseIdx, At
<1>4. k \in Keys \cup {Blank}
  BY <1>3, CallFacts DEF IInv
<1>5. v \in Nat
  <2>1. db[p].ptrval \in Nat
    BY DEF IInv, TypeOK, CallTypes, DBType, All
  <2> QED
    BY <2>1, Offsets DEF IInv, FREEOFF
<1>6. /\ rec' = [rec EXCEPT ![i].key = k] /\ ptr' = [ptr EXCEPT ![o] = v]
      /\ db' = db /\ dat' = dat
  BY DEF BlankIdx, ReuseIdx, At
<1> HIDE DEF k, o, v, i
<1>7. /\ rec' \in Seq(RecType) /\ Len(rec') = Len(rec) /\ rec'[i].key = k
      /\ rec'[i].klen = rec[i].klen
      /\ rec'[i].datoff = rec[i].datoff
      /\ rec'[i].datlen = rec[i].datlen
      /\ \A j \in 1..Len(rec) : j # i => rec'[j] = rec[j]
  <2>0. rec[i] \in RecType
    BY <1>1, <1>2, ElementOfSeq
  <2>1. rec[i] \in RecType /\ [rec[i] EXCEPT !.key = k] \in RecType
    BY <1>4, <2>0 DEF RecType
  <2>2. rec' = [rec EXCEPT ![i] = [rec[i] EXCEPT !.key = k]]
    BY <1>6
  <2>3. /\ rec' \in Seq(RecType) /\ Len(rec') = Len(rec)
        /\ \A j \in 1..Len(rec) : rec'[j] = IF j = i THEN [rec[i] EXCEPT !.key = k] ELSE rec[j]
    BY <1>1, <1>2, <2>1, <2>2, ExceptSeq
  <2>4. rec'[i] = [rec[i] EXCEPT !.key = k]
    BY <1>2, <2>3
  <2> QED
    BY <1>2, <2>1, <2>3, <2>4 DEF RecType
<1>8. Records' = Records
  BY <1>7 DEF Records
<1>9. \A x \in Records : x # o => Rec(x)' = Rec(x)
  <2>1. SUFFICES ASSUME NEW x \in Records, x # o PROVE rec'[x - NHash] = rec[x - NHash]
    BY DEF Rec
  <2>2. x - NHash \in 1..Len(rec) /\ x \in Nat
    BY Offsets DEF IInv
  <2>3. x - NHash # i
    BY <1>1, <1>2, <2>1, <2>2
  <2> QED
    BY <1>7, <2>2, <2>3
<1>10. ptr' \in [0..(NHash + Len(rec')) -> Nat] /\ ptr'[o] = v
  BY <1>1, <1>2, <1>5, <1>6, <1>7
<1>11. DOMAIN ptr' = DOMAIN ptr /\ \A x \in DOMAIN ptr : x # o => ptr'[x] = ptr[x]
  BY <1>1, <1>6
<1>12. \A j \in 1..Len(rec) : rec'[j].datoff = rec[j].datoff /\ rec'[j].datlen = rec[j].datlen
  BY <1>7
<1>13. /\ Rec(o)'.key = k /\ Rec(o)'.klen = Rec(o).klen /\ Rec(o)'.datoff = Rec(o).datoff
       /\ Rec(o)'.datlen = Rec(o).datlen
  BY <1>6, <1>7 DEF Rec, o, i
<1> QED
  BY <1>2, <1>6, <1>7, <1>8, <1>9, <1>10, <1>11, <1>12, <1>13 DEF k, o, v, i

(* A pointer is set. *)
LEMMA PointerSet ==
  ASSUME IInv, NEW p \in Procs, NEW x \in DOMAIN ptr, NEW v \in Nat,
         ptr' = [ptr EXCEPT ![x] = v], UNCHANGED <<rec, dat>>
  PROVE  /\ Records' = Records /\ \A o \in Records : Rec(o)' = Rec(o)
         /\ ptr' \in [0..(NHash + Len(rec')) -> Nat] /\ DOMAIN ptr' = DOMAIN ptr
         /\ ptr'[x] = v /\ \A y \in DOMAIN ptr : y # x => ptr'[y] = ptr[y]
BY DEF IInv, TypeOK, FileTypes, Records, Rec

LEMMA PushFreeEffect ==
  ASSUME IInv, NEW p \in Procs, PushFree(p)
  PROVE  /\ UNCHANGED <<rec, dat, db>> /\ db[p].idxoff \in Records
         /\ Records' = Records /\ \A o \in Records : Rec(o)' = Rec(o)
         /\ ptr' \in [0..(NHash + Len(rec')) -> Nat] /\ DOMAIN ptr' = DOMAIN ptr
         /\ ptr'[FREEOFF] = db[p].idxoff /\ \A y \in DOMAIN ptr : y # FREEOFF => ptr'[y] = ptr[y]
<1>1. db[p].idxoff \in Records /\ db[p].idxoff \in Nat /\ FREEOFF \in DOMAIN ptr
  BY InRecords, Offsets DEF PushFree, At, IInv, FREEOFF
<1> QED
  BY <1>1, PointerSet DEF PushFree

LEMMA UnlinkEffect ==
  ASSUME IInv, NEW p \in Procs, Unlink(p)
  PROVE  /\ UNCHANGED <<rec, dat, db>>
         /\ db[p].ptroff \in Members(Chain(p)) \cup {Chain(p)} /\ db[p].ptroff \in DOMAIN ptr
         /\ Records' = Records /\ \A o \in Records : Rec(o)' = Rec(o)
         /\ ptr' \in [0..(NHash + Len(rec')) -> Nat] /\ DOMAIN ptr' = DOMAIN ptr
         /\ ptr'[db[p].ptroff] = db[p].ptrval
         /\ \A y \in DOMAIN ptr : y # db[p].ptroff => ptr'[y] = ptr[y]
<1>1. pc[p] = "unlink"
  BY DEF Unlink, At
<1>2. db[p].ptroff \in Members(Chain(p)) \cup {Chain(p)}
  BY <1>1 DEF IInv, ProcOK, UnlinkOK
<1>3. db[p].ptroff \in DOMAIN ptr
  BY <1>1, <1>2, CallFacts, Offsets, MembersIn DEF IInv
<1>4. db[p].ptrval \in Nat
  BY DEF IInv, TypeOK, CallTypes, DBType, All
<1> QED
  BY <1>2, <1>3, <1>4, PointerSet DEF Unlink

LEMMA TakeFreeEffect ==
  ASSUME IInv, NEW p \in Procs, TakeFree(p)
  PROVE  /\ UNCHANGED <<rec, dat>>
         /\ db[p].ptroff \in Members(FREEOFF) \cup {FREEOFF} /\ db[p].ptroff \in DOMAIN ptr
         /\ db[p].off \in Members(FREEOFF) /\ db[p].off = ptr[db[p].ptroff]
         /\ db'[p] = [db[p] EXCEPT !.idxoff = db[p].off, !.datoff = Rec(db[p].off).datoff]
         /\ Records' = Records /\ \A o \in Records : Rec(o)' = Rec(o)
         /\ ptr' \in [0..(NHash + Len(rec')) -> Nat] /\ DOMAIN ptr' = DOMAIN ptr
         /\ ptr'[db[p].ptroff] = ptr[db[p].off]
         /\ \A y \in DOMAIN ptr : y # db[p].ptroff => ptr'[y] = ptr[y]
<1>1. pc[p] = "freewalk" /\ db[p].off # 0
  BY DEF TakeFree, At
<1>2. db[p].ptroff \in Members(FREEOFF) \cup {FREEOFF} /\ db[p].off = ptr[db[p].ptroff]
  BY <1>1 DEF IInv, ProcOK, WalkOK
<1>3. db[p].ptroff \in DOMAIN ptr
  BY <1>2, Offsets, MembersIn DEF IInv, FREEOFF
<1>4. db[p].off \in Members(FREEOFF) /\ db[p].off \in DOMAIN ptr /\ ptr[db[p].off] \in Nat
  BY <1>1, WalkLeads, MembersIn, Offsets DEF IInv
<1>5. db'[p] = [db[p] EXCEPT !.idxoff = db[p].off, !.datoff = Rec(db[p].off).datoff]
  BY DEF TakeFree, IInv, TypeOK, CallTypes, All
<1> QED
  BY <1>2, <1>3, <1>4, <1>5, PointerSet DEF TakeFree

LEMMA LinkEffect ==
  ASSUME IInv, NEW p \in Procs, Link(p)
  PROVE  /\ UNCHANGED <<rec, dat>> /\ db[p].idxoff \in Records
         /\ Chain(p) \in DOMAIN ptr
         /\ Records' = Records /\ \A o \in Records : Rec(o)' = Rec(o)
         /\ ptr' \in [0..(NHash + Len(rec')) -> Nat] /\ DOMAIN ptr' = DOMAIN ptr
         /\ ptr'[Chain(p)] = db[p].idxoff
         /\ \A y \in DOMAIN ptr : y # Chain(p) => ptr'[y] = ptr[y]
<1>1. pc[p] = "link"
  BY DEF Link, At
<1>2. db[p].idxoff \in Records /\ db[p].idxoff \in Nat /\ Chain(p) \in DOMAIN ptr
  BY <1>1, InRecords, CallFacts, Offsets DEF IInv
<1> QED
  BY <1>2, PointerSet DEF Link

(* The steps that only read. *)
LEMMA FilesRead ==
  ASSUME IInv, NEW p \in Procs, ProcNext(p),
         ~ (Overwrite(p) \/ BlankDat(p) \/ ReuseDat(p) \/ AppendDat(p) \/ AppendIdx(p) \/ BlankIdx(p)
            \/ ReuseIdx(p) \/ PushFree(p) \/ Unlink(p) \/ TakeFree(p) \/ Link(p))
  PROVE  UNCHANGED files
BY DEF ProcNext, Call, FindAndLock, Walk, Found, NotFound, ReadDat, UnlockReturn, DeleteLock,
       DeleteUnlock, FindFree, FreeWalk, NoFree, FreeUnlock, files

LEMMA FileTypeSteps ==
  ASSUME IInv, NEW p \in Procs, ProcNext(p)
  PROVE  FileTypes'
<1>1. FileTypes
  BY DEF IInv, TypeOK
<1>2. CASE UNCHANGED files
  BY <1>1, <1>2 DEF files, FileTypes
<1>3. CASE Overwrite(p) \/ BlankDat(p) \/ ReuseDat(p)
  BY <1>1, <1>3, DataWritten DEF FileTypes
<1>4. CASE AppendDat(p)
  BY <1>1, <1>4, AppendDatEffect DEF FileTypes
<1>5. CASE AppendIdx(p)
  BY <1>1, <1>5, AppendIdxEffect DEF FileTypes
<1>6. CASE BlankIdx(p) \/ ReuseIdx(p)
  BY <1>1, <1>6, RekeyEffect DEF FileTypes
<1>7. CASE PushFree(p)
  BY <1>1, <1>7, PushFreeEffect DEF FileTypes
<1>8. CASE Unlink(p)
  BY <1>1, <1>8, UnlinkEffect, SMTT(30) DEF FileTypes
<1>9. CASE TakeFree(p)
  BY <1>1, <1>9, TakeFreeEffect DEF FileTypes
<1>10. CASE Link(p)
  BY <1>1, <1>10, LinkEffect DEF FileTypes
<1> QED
  BY <1>2, <1>3, <1>4, <1>5, <1>6, <1>7, <1>8, <1>9, <1>10, FilesRead

LEMMA TypeSteps ==
  ASSUME IInv, NEW p \in Procs, ProcNext(p)
  PROVE  TypeOK'
<1>1. TypeOK /\ p \in All /\ Scanners \cap Procs = {} /\ None \notin Calls
  BY DatabaseAssumption DEF IInv, All, DatabaseAssumption
<1>2. \A q \in Procs : db'[q].op = None <=> pc'[q] = "idle"
  <2>1. ASSUME NEW q \in Procs, q # p PROVE db'[q].op = None <=> pc'[q] = "idle"
    BY <1>1, <2>1, StepFrame DEF TypeOK, CallTypes, Op, All
  <2>2. Ops[p] \subseteq Calls
    BY DatabaseAssumption DEF DatabaseAssumption
  <2>3. db'[p].op = None <=> pc'[p] = "idle"
    BY <1>1, <2>2, StepFrame DEF TypeOK, CallTypes, Op
  <2> QED
    BY <2>1, <2>3
<1>3. CallTypes'
  BY <1>2, CallTypeSteps DEF CallTypes, Op
<1>4. PointTypes' /\ LockTypes' /\ HistoryTypes' /\ FileTypes'
  BY <1>1, PointSteps, LockTypeSteps, HistoryTypeSteps, FileTypeSteps DEF TypeOK
<1> QED
  BY <1>3, <1>4 DEF TypeOK

-----------------------------------------------------------------------------
(* The locks. *)

LEMMA LockSets ==
  ASSUME TypeOK, NEW p \in All, NEW l \in Locks,
         WriteLocked(p, l) \/ ReadLocked(p, l) \/ Unlocked(p, l)
  PROVE  /\ \A m \in Locks : m # l => writer'[m] = writer[m] /\ readers'[m] = readers[m]
         /\ WriteLocked(p, l) => /\ writer[l] = None /\ readers[l] = {} /\ readers'[l] = {}
                                 /\ writer'[l] = p
         /\ ReadLocked(p, l) => /\ writer[l] = None /\ writer'[l] = None
                                /\ readers'[l] = readers[l] \cup {p}
         /\ Unlocked(p, l) => /\ writer'[l] = IF writer[l] = p THEN None ELSE writer[l]
                              /\ readers'[l] = readers[l] \ {p}
BY DEF TypeOK, LockTypes, WriteLocked, ReadLocked, Unlocked

(* What a step does to the locks. *)
LEMMA LockSteps ==
  ASSUME TypeOK, NEW p \in Procs, ProcNext(p)
  PROVE  \/ UNCHANGED locks /\ ~UnlockReturn(p) /\ ~DeleteUnlock(p) /\ ~FreeUnlock(p)
                            /\ ~FindAndLock(p) /\ ~DeleteLock(p) /\ ~FindFree(p)
         \/ FindAndLock(p) /\ (Op(p).kind = "fetch" => ReadLocked(p, Chain(p)))
                           /\ (Op(p).kind # "fetch" => WriteLocked(p, Chain(p)))
         \/ (DeleteLock(p) \/ FindFree(p)) /\ WriteLocked(p, FREEOFF)
         \/ UnlockReturn(p) /\ Unlocked(p, Chain(p))
         \/ (DeleteUnlock(p) \/ FreeUnlock(p)) /\ Unlocked(p, FREEOFF)
<1>1. CASE UnlockReturn(p) \/ DeleteUnlock(p) \/ FreeUnlock(p)
  BY <1>1 DEF UnlockReturn, DeleteUnlock, FreeUnlock
<1>2. CASE FindAndLock(p) \/ DeleteLock(p) \/ FindFree(p)
  BY <1>2, SMTT(30) DEF FindAndLock, DeleteLock, FindFree
<1>3. CASE ~ (UnlockReturn(p) \/ DeleteUnlock(p) \/ FreeUnlock(p)
              \/ FindAndLock(p) \/ DeleteLock(p) \/ FindFree(p))
  BY <1>3 DEF ProcNext, Call, Walk, Found, NotFound, ReadDat, Overwrite, BlankDat, BlankIdx,
              PushFree, Unlink, FreeWalk, TakeFree, NoFree, AppendDat, AppendIdx, ReuseDat,
              ReuseIdx, Link, locks
<1> QED
  BY <1>1, <1>2, <1>3

LEMMA LocksKept ==
  ASSUME IInv, NEW p \in Procs, ProcNext(p)
  PROVE  /\ \A l \in Locks : writer'[l] # None => readers'[l] = {}
         /\ \A q \in All, l \in Locks : q # p =>
              /\ writer[l] = q => writer'[l] = q
              /\ q \in readers[l] => q \in readers'[l]
         /\ ~UnlockReturn(p) => \A l \in Locks \ {FREEOFF} :
              /\ writer[l] = p => writer'[l] = p
              /\ p \in readers[l] => p \in readers'[l]
         /\ ~DeleteUnlock(p) /\ ~FreeUnlock(p) /\ writer[FREEOFF] = p => writer'[FREEOFF] = p
<1>1. /\ TypeOK /\ LockInv /\ p \in All /\ None \notin All /\ FREEOFF \in Locks
      /\ pc[p] # "idle" => Chain(p) \in Locks /\ Chain(p) # FREEOFF
  BY CallFacts, DatabaseAssumption, Offsets DEF IInv, All, DatabaseAssumption, FREEOFF
<1>2. CASE UNCHANGED locks
  BY <1>1, <1>2 DEF locks, LockInv
<1>3. CASE FindAndLock(p) /\ ReadLocked(p, Chain(p))
  <2>1. pc[p] # "idle" /\ ~UnlockReturn(p) /\ ~DeleteUnlock(p) /\ ~FreeUnlock(p)
    BY <1>3 DEF FindAndLock, UnlockReturn, DeleteUnlock, FreeUnlock, At
  <2> QED
    BY <1>1, <1>3, <2>1, LockSets DEF LockInv
<1>4. CASE FindAndLock(p) /\ WriteLocked(p, Chain(p))
  <2>1. pc[p] # "idle" /\ ~UnlockReturn(p) /\ ~DeleteUnlock(p) /\ ~FreeUnlock(p)
    BY <1>4 DEF FindAndLock, UnlockReturn, DeleteUnlock, FreeUnlock, At
  <2> QED
    BY <1>1, <1>4, <2>1, LockSets DEF LockInv
<1>5. CASE (DeleteLock(p) \/ FindFree(p)) /\ WriteLocked(p, FREEOFF)
  BY <1>1, <1>5, LockSets DEF LockInv
<1>6. CASE UnlockReturn(p) /\ Unlocked(p, Chain(p))
  <2>1. pc[p] # "idle"
    BY <1>6 DEF UnlockReturn, At
  <2> QED
    BY <1>1, <1>6, <2>1, LockSets DEF LockInv
<1>7. CASE (DeleteUnlock(p) \/ FreeUnlock(p)) /\ Unlocked(p, FREEOFF)
  BY <1>1, <1>7, LockSets DEF LockInv
<1> QED
  BY <1>1, <1>2, <1>3, <1>4, <1>5, <1>6, <1>7, LockSteps

(* The points a step goes from and to. *)
LEMMA PointsFromTo ==
  ASSUME TypeOK, NEW p \in Procs, ProcNext(p)
  PROVE  /\ pc'[p] \notin {"idle", "lock"} =>
              \/ FindAndLock(p) /\ pc'[p] = "walk"
              \/ pc[p] \notin {"idle", "lock"} /\ ~UnlockReturn(p)
         /\ pc'[p] \in FreeHeld =>
              \/ DeleteLock(p) \/ FindFree(p)
              \/ pc[p] \in FreeHeld /\ ~DeleteUnlock(p) /\ ~FreeUnlock(p)
<1> USE DEF At, FreeHeld
<1>0. /\ \A t : pc' = [pc EXCEPT ![p] = t] => pc'[p] = t
      /\ Found(p) => /\ \E n \in {"readdat", "unlock", "delete", "overwrite"} : At(p, "walk", n)
                     /\ ~UnlockReturn(p)
  BY FoundStep DEF TypeOK, PointTypes, All, Found, UnlockReturn
<1> QED
  BY <1>0 DEF ProcNext, Call, FindAndLock, Walk, NotFound, ReadDat, Overwrite, UnlockReturn,
              DeleteLock, BlankDat, BlankIdx, PushFree, Unlink, DeleteUnlock, FindFree, FreeWalk,
              TakeFree, NoFree, FreeUnlock, AppendDat, AppendIdx, ReuseDat, ReuseIdx, Link

LEMMA LockInvSteps ==
  ASSUME IInv, NEW p \in Procs, ProcNext(p)
  PROVE  LockInv'
<1>1. /\ TypeOK /\ LockInv /\ p \in All /\ FREEOFF \in Locks
  BY Offsets DEF IInv, All, FREEOFF
<1>2. ASSUME NEW q \in Procs, pc'[q] \notin {"idle", "lock"}
      PROVE  IF Op(q).kind' = "fetch" THEN q \in readers'[Chain(q)'] ELSE writer'[Chain(q)'] = q
  <2>1. CASE q # p
    <3>1. pc[q] = pc'[q] /\ Op(q)' = Op(q) /\ Chain(q)' = Chain(q) /\ q \in All
      BY <1>1, <2>1, StepFrame DEF Op, Chain, All
    <3>2. Chain(q) \in Locks
      BY <1>1, <1>2, <3>1, CallFacts
    <3> QED
      BY <1>1, <1>2, <2>1, <3>1, <3>2, LocksKept DEF LockInv
  <2>2. CASE q = p /\ FindAndLock(p)
    <3>1. pc[p] # "idle" /\ pc'[p] # "idle"
      BY <1>2, <2>2 DEF FindAndLock, At
    <3>2. Op(p)' = Op(p) /\ Chain(p)' = Chain(p) /\ Chain(p) \in Locks
      BY <1>1, <3>1, StepFrame, CallFacts DEF Op, Chain
    <3>3. CASE Op(p).kind = "fetch"
      <4>1. ReadLocked(p, Chain(p))
        BY <2>2, <3>3 DEF FindAndLock
      <4> QED
        BY <1>1, <2>2, <3>2, <3>3, <4>1, LockSets
    <3>4. CASE Op(p).kind # "fetch"
      <4>1. WriteLocked(p, Chain(p))
        BY <2>2, <3>4 DEF FindAndLock
      <4> QED
        BY <1>1, <2>2, <3>2, <3>4, <4>1, LockSets
    <3> QED
      BY <3>3, <3>4
  <2>3. CASE q = p /\ ~FindAndLock(p)
    <3>1. pc[p] \notin {"idle", "lock"} /\ ~UnlockReturn(p)
      BY <1>1, <1>2, <2>3, PointsFromTo
    <3>2. Op(p)' = Op(p) /\ Chain(p)' = Chain(p) /\ Chain(p) \in Locks /\ Chain(p) # FREEOFF
      BY <1>1, <1>2, <2>3, <3>1, StepFrame, CallFacts DEF Op, Chain
    <3> QED
      <4>1. IF Op(p).kind = "fetch" THEN p \in readers[Chain(p)] ELSE writer[Chain(p)] = p
        BY <1>1, <3>1 DEF LockInv
      <4>2. /\ writer[Chain(p)] = p => writer'[Chain(p)] = p
            /\ p \in readers[Chain(p)] => p \in readers'[Chain(p)]
        BY <3>1, <3>2, LocksKept
      <4> QED
        BY <2>3, <3>2, <4>1, <4>2
  <2> QED
    BY <2>1, <2>2, <2>3
<1>3. ASSUME NEW q \in Procs, pc'[q] \in FreeHeld PROVE writer'[FREEOFF] = q
  <2>1. CASE q # p
    <3>1. pc[q] = pc'[q] /\ q \in All
      BY <1>1, <2>1, StepFrame DEF All
    <3> QED
      BY <1>1, <1>3, <2>1, <3>1, LocksKept DEF LockInv
  <2>2. CASE q = p /\ (DeleteLock(p) \/ FindFree(p))
    <3>1. WriteLocked(p, FREEOFF)
      BY <2>2 DEF DeleteLock, FindFree
    <3> QED
      BY <1>1, <2>2, <3>1, LockSets
  <2>3. CASE q = p /\ ~ (DeleteLock(p) \/ FindFree(p))
    <3>1. pc[p] \in FreeHeld /\ ~DeleteUnlock(p) /\ ~FreeUnlock(p)
      BY <1>1, <1>3, <2>3, PointsFromTo
    <3> QED
      BY <1>1, <2>3, <3>1, LocksKept DEF LockInv
  <2> QED
    BY <2>1, <2>2, <2>3
<1>4. ASSUME NEW s \in Scanners, pc'[s] \in {"nextidx", "nextdat", "nextunlock"}
      PROVE  s \in readers'[FREEOFF]
  <2>1. s # p /\ s \in All /\ pc'[s] = pc[s]
    BY <1>1, StepFrame, DatabaseAssumption DEF All, DatabaseAssumption
  <2> QED
    BY <1>1, <1>4, <2>1, LocksKept DEF LockInv
<1> QED
  BY <1>2, <1>3, <1>4, LocksKept DEF LockInv

-----------------------------------------------------------------------------
(* A scan writes no file, and takes no lock from a call. *)
LEMMA ScanFrame ==
  ASSUME TypeOK, LockInv, NEW s \in Scanners, ScanNext(s)
  PROVE  /\ UNCHANGED <<files, left, ret, map, writer>>
         /\ \A q \in Procs : pc'[q] = pc[q] /\ db'[q] = db[q]
         /\ \A q \in Scanners : q # s => /\ pc'[q] = pc[q] /\ db'[q] = db[q] /\ pos'[q] = pos[q]
                                         /\ seen'[q] = seen[q] /\ moved'[q] = moved[q]
         /\ \A l \in Locks : writer'[l] # None => readers'[l] = {}
         /\ \A l \in Locks, q \in All : q # s /\ q \in readers[l] => q \in readers'[l]
         /\ ~NextEof(s) /\ ~NextUnlock(s) =>
              /\ s \in readers[FREEOFF] => s \in readers'[FREEOFF]
              /\ pc'[s] \in {"nextidx", "nextdat", "nextunlock"} => s \in readers'[FREEOFF]
         /\ NextEof(s) \/ NextUnlock(s) => pc'[s] \in {"eof", "nextrec"}
<1>1. /\ s \in All /\ s \notin Procs /\ Procs \subseteq All /\ Scanners \subseteq All
      /\ None \notin All /\ FREEOFF \in Locks
      /\ pc \in [All -> ProcPoints \cup ScanPoints] /\ db \in [All -> DBType]
  BY DatabaseAssumption, Offsets
  DEF All, DatabaseAssumption, FREEOFF, TypeOK, PointTypes, CallTypes
<1>2. /\ pos \in [Scanners -> Nat] /\ seen \in [Scanners -> [Keys -> Nat]]
      /\ moved \in [Scanners -> SUBSET Keys]
      /\ writer \in [Locks -> Procs \cup {None}] /\ readers \in [Locks -> SUBSET All]
  BY DEF TypeOK, HistoryTypes, LockTypes
<1>3. UNCHANGED <<files, left, ret, map>>
  BY DEF ScanNext, Rewind, NextLock, NextIdx, NextEof, NextDat, NextUnlock, Frame, files
<1>4. \A q \in All : q # s => pc'[q] = pc[q] /\ db'[q] = db[q]
  BY <1>1 DEF ScanNext, Rewind, NextLock, NextIdx, NextEof, NextDat, NextUnlock, At
<1>5. \A q \in Scanners : q # s => /\ pos'[q] = pos[q]
                                   /\ seen'[q] = seen[q] /\ moved'[q] = moved[q]
  BY <1>1, <1>2 DEF ScanNext, Rewind, NextLock, NextIdx, NextEof, NextDat, NextUnlock, Frame, Still
<1>6. /\ \A l \in Locks : writer'[l] # None => readers'[l] = {}
      /\ writer' = writer
      /\ \A l \in Locks, q \in All : q # s /\ q \in readers[l] => q \in readers'[l]
      /\ ~NextEof(s) /\ ~NextUnlock(s) =>
           /\ s \in readers[FREEOFF] => s \in readers'[FREEOFF]
           /\ pc'[s] \in {"nextidx", "nextdat", "nextunlock"} => s \in readers'[FREEOFF]
      /\ NextEof(s) \/ NextUnlock(s) => pc'[s] \in {"eof", "nextrec"}
  <2>1. CASE Rewind(s)
    BY <1>1, <2>1 DEF Rewind, At, NextEof, NextUnlock, locks, LockInv
  <2>2. CASE NextLock(s)
    BY <1>1, <1>2, <2>2 DEF NextLock, At, NextEof, NextUnlock, ReadLocked, LockInv
  <2>3. CASE NextIdx(s)
    <3>1. s \in readers[FREEOFF]
      BY <2>3 DEF NextIdx, At, LockInv
    <3>2. ~NextEof(s) /\ ~NextUnlock(s)
      BY <1>1, <2>3 DEF NextIdx, NextEof, NextUnlock, At
    <3> QED
      BY <1>1, <2>3, <3>1, <3>2 DEF NextIdx, locks, LockInv
  <2>4. CASE NextEof(s) \/ NextUnlock(s)
    <3>1. Unlocked(s, FREEOFF) /\ pc'[s] \in {"eof", "nextrec"}
      BY <1>1, <2>4 DEF NextEof, NextUnlock, At
    <3>2. writer' = writer
      BY <1>1, <1>2, <3>1 DEF Unlocked
    <3>3. \A l \in Locks : readers'[l] = IF l = FREEOFF THEN readers[l] \ {s} ELSE readers[l]
      BY <1>1, <1>2, <3>1 DEF Unlocked
    <3> QED
      BY <1>1, <2>4, <3>1, <3>2, <3>3 DEF LockInv
  <2>5. CASE NextDat(s)
    <3>1. s \in readers[FREEOFF]
      BY <2>5 DEF NextDat, At, LockInv
    <3> QED
      BY <1>1, <2>5, <3>1 DEF NextDat, At, NextEof, NextUnlock, locks, LockInv
  <2> QED
    BY <2>1, <2>2, <2>3, <2>4, <2>5 DEF ScanNext
<1> QED
  BY <1>1, <1>3, <1>4, <1>5, <1>6

LEMMA ScanLocks ==
  ASSUME TypeOK, LockInv, NEW s \in Scanners, ScanNext(s)
  PROVE  LockInv'
<1>1. \A q \in Procs : q \in All /\ q # s
  BY DatabaseAssumption DEF All, DatabaseAssumption
<1>2. ASSUME NEW q \in Procs, pc'[q] \notin {"idle", "lock"}
      PROVE  IF Op(q).kind' = "fetch" THEN q \in readers'[Chain(q)'] ELSE writer'[Chain(q)'] = q
  <2>1. pc[q] = pc'[q] /\ Op(q)' = Op(q) /\ Chain(q)' = Chain(q)
    BY ScanFrame DEF Op, Chain
  <2>2. Chain(q) \in Locks
    BY <1>2, <2>1, CallFacts
  <2> QED
    BY <1>1, <1>2, <2>1, <2>2, ScanFrame DEF LockInv
<1>3. ASSUME NEW q \in Procs, pc'[q] \in FreeHeld PROVE writer'[FREEOFF] = q
  BY <1>3, ScanFrame DEF LockInv
<1>4. ASSUME NEW q \in Scanners, pc'[q] \in {"nextidx", "nextdat", "nextunlock"}
      PROVE  q \in readers'[FREEOFF]
  <2>1. CASE q # s
    <3>1. pc'[q] = pc[q] /\ q \in All /\ FREEOFF \in Locks
      BY <2>1, ScanFrame, Offsets DEF All, FREEOFF
    <3>2. q \in readers[FREEOFF]
      BY <1>4, <3>1 DEF LockInv
    <3> QED
      BY <2>1, <3>1, <3>2, ScanFrame
  <2>2. CASE q = s
    BY <1>4, <2>2, ScanFrame
  <2> QED
    BY <2>1, <2>2
<1> QED
  BY <1>2, <1>3, <1>4, ScanFrame DEF LockInv

LEMMA ScanTypes ==
  ASSUME IInv, NEW s \in Scanners, ScanNext(s)
  PROVE  TypeOK'
<1>1. /\ TypeOK /\ LockInv /\ s \in All /\ s \notin Procs /\ FREEOFF \in Locks
      /\ \A q \in Procs : q \in All
  BY DatabaseAssumption, Offsets DEF IInv, All, DatabaseAssumption, FREEOFF
<1>2. UNCHANGED <<files, left, ret, map, writer>>
  BY <1>1, ScanFrame
<1>3. FileTypes'
  BY <1>1, <1>2 DEF TypeOK, FileTypes, files
<1>4. LockTypes'
  BY <1>1 DEF TypeOK, LockTypes, ScanNext, Rewind, NextLock, NextIdx, NextEof, NextDat, NextUnlock,
              ReadLocked, Unlocked, locks
<1>5. PointTypes'
  <2>1. /\ pc' \in [All -> ProcPoints \cup ScanPoints] /\ pc'[s] \in ScanPoints
    BY <1>1 DEF TypeOK, PointTypes, ScanNext, Rewind, NextLock, NextIdx, NextEof, NextDat,
                NextUnlock, At, ScanPoints
  <2> QED
    BY <1>1, <2>1, ScanFrame DEF TypeOK, PointTypes
<1>6. db' \in [All -> DBType]
  <2>1. db \in [All -> DBType] /\ db[s] \in DBType
    BY <1>1 DEF TypeOK, CallTypes
  <2>2. NoDB \in DBType
    BY DEF NoDB, DBType, Results
  <2>3. CASE NextIdx(s)
    <3>1. pos[s] - NHash \in 1..Len(rec)
      <4>1. pos[s] \in First..(First + Len(rec)) /\ pos[s] < First + Len(rec)
        BY <2>3, <1>1 DEF NextIdx, At, IInv, ScanInv
      <4> QED
        BY <4>1, Offsets, <1>1, DatabaseAssumption DEF First, DatabaseAssumption
    <3>2. Rec(pos[s]) \in RecType
      BY <1>1, <3>1, Offsets DEF Rec
    <3>3. Rec(pos[s]).key \in Keys \cup {None, Blank} /\ Rec(pos[s]).datoff \in Nat
      BY <3>2 DEF RecType
    <3>4. [db[s] EXCEPT !.key = Rec(pos[s]).key, !.datoff = Rec(pos[s]).datoff] \in DBType
      BY <2>1, <3>3 DEF DBType
    <3>5. db' = [db EXCEPT ![s] = [db[s] EXCEPT !.key = Rec(pos[s]).key,
                                               !.datoff = Rec(pos[s]).datoff]]
      BY <2>3 DEF NextIdx
    <3> QED
      BY <1>1, <2>1, <3>4, <3>5
  <2>4. CASE NextDat(s)
    <3>1. db[s].datoff \in 1..Len(dat)
      BY <2>4, <1>1 DEF NextDat, At, IInv, ScanInv, HereOK, DatInv
    <3>2. dat[db[s].datoff] \in Results
      BY <1>1, <3>1, ElementOfSeq DEF TypeOK, FileTypes, Results
    <3>3. [db[s] EXCEPT !.res = dat[db[s].datoff]] \in DBType
      BY <2>1, <3>2 DEF DBType
    <3>4. db' = [db EXCEPT ![s] = [db[s] EXCEPT !.res = dat[db[s].datoff]]]
      BY <2>4 DEF NextDat
    <3> QED
      BY <1>1, <2>1, <3>3, <3>4
  <2>5. CASE Rewind(s) \/ NextLock(s) \/ NextEof(s) \/ NextUnlock(s)
    BY <1>1, <2>1, <2>2, <2>5 DEF Rewind, NextLock, NextEof, NextUnlock
  <2> QED
    BY <2>3, <2>4, <2>5 DEF ScanNext
<1>7. CallTypes'
  BY <1>1, <1>6, ScanFrame DEF TypeOK, CallTypes, Op
<1>8. HistoryTypes'
  <2>1. HistoryTypes /\ First \in Nat
    BY <1>1, DatabaseAssumption DEF TypeOK, DatabaseAssumption, First
  <2>2. CASE Rewind(s)
    <3>1. InWork \subseteq Keys
      BY <1>1, CallFacts DEF InWork
    <3> QED
      BY <2>1, <2>2, <3>1 DEF Rewind, HistoryTypes
  <2>3. CASE NextIdx(s)
    BY <2>1, <2>3 DEF NextIdx, HistoryTypes
  <2>4. CASE NextDat(s)
    <3>1. db[s].key \in Keys
      BY <2>4 DEF NextDat, At, IInv, ScanInv, HereOK
    <3>2. seen \in [Scanners -> [Keys -> Nat]] /\ seen[s][db[s].key] + 1 \in Nat
      BY <2>1, <3>1 DEF HistoryTypes
    <3>3. [seen[s] EXCEPT ![db[s].key] = seen[s][db[s].key] + 1] \in [Keys -> Nat]
      BY <3>1, <3>2
    <3>4. seen' = [seen EXCEPT ![s] = [seen[s] EXCEPT ![db[s].key] = seen[s][db[s].key] + 1]]
      BY <2>4 DEF NextDat
    <3>5. seen' \in [Scanners -> [Keys -> Nat]]
      BY <3>2, <3>3, <3>4
    <3> QED
      BY <2>1, <2>4, <3>5 DEF NextDat, HistoryTypes
  <2>5. CASE NextLock(s) \/ NextEof(s) \/ NextUnlock(s)
    BY <2>1, <2>5 DEF NextLock, NextEof, NextUnlock, HistoryTypes, Frame, Still
  <2> QED
    BY <2>2, <2>3, <2>4, <2>5 DEF ScanNext
<1> QED
  BY <1>3, <1>4, <1>5, <1>7, <1>8 DEF TypeOK

-----------------------------------------------------------------------------
(* How the lists change. *)
SuccOK ==
  /\ \A q \in Procs : Unlinking(q) /\ db[q].ptroff \in DOMAIN ptr => Succ[db[q].ptroff] = db[q].ptrval
  /\ \A x \in DOMAIN ptr : (\A q \in Procs : Unlinking(q) => db[q].ptroff # x) => Succ[x] = ptr[x]

LEMMA SuccFacts == TypeOK /\ LockInv => SuccOK
<1> SUFFICES ASSUME TypeOK, LockInv PROVE SuccOK
  OBVIOUS
<1>1. \A q \in Procs : Unlinking(q) => writer[FREEOFF] = q
  BY DEF Unlinking, LockInv, FreeHeld
<1>2. \A x \in DOMAIN ptr : Succ[x] = IF Unlinking(writer[FREEOFF]) /\ db[writer[FREEOFF]].ptroff = x
                                      THEN db[writer[FREEOFF]].ptrval ELSE ptr[x]
  BY DEF Succ
<1> QED
  BY <1>1, <1>2 DEF SuccOK, Unlinking

LEMMA SuccFactsNext == TypeOK' /\ LockInv' => SuccOK'
BY SuccFacts, PTL

(* Who has a record in hand. *)
LEMMA HandOfStep ==
  ASSUME IInv, NEW p \in Procs, ProcNext(p), NEW o \in Records
  PROVE  /\ ~ (BlankIdx(p) \/ PushFree(p) \/ TakeFree(p) \/ Link(p)) =>
              (pc'[p] \in InHand /\ db'[p].idxoff = o <=> pc[p] \in InHand /\ db[p].idxoff = o)
         /\ BlankIdx(p) => pc[p] \notin InHand /\ pc'[p] \in InHand /\ db' = db
         /\ TakeFree(p) => pc[p] \notin InHand /\ pc'[p] \in InHand /\ db'[p].idxoff = db[p].off
         /\ PushFree(p) => pc[p] \in InHand /\ pc'[p] \notin InHand /\ db' = db
         /\ Link(p) => pc[p] \in InHand /\ pc'[p] \notin InHand
<1>1. /\ pc \in [All -> ProcPoints \cup ScanPoints] /\ db \in [All -> DBType] /\ p \in All
      /\ db[p] \in DBType /\ o # 0 /\ TypeOK
  BY Offsets DEF IInv, TypeOK, PointTypes, CallTypes, All
<1>2. CASE BlankIdx(p)
  BY <1>1, <1>2 DEF BlankIdx, PushFree, TakeFree, Link, At, InHand
<1>3. CASE TakeFree(p)
  BY <1>1, <1>3, TakeFreeEffect DEF BlankIdx, PushFree, TakeFree, Link, At, InHand, DBType
<1>4. CASE PushFree(p)
  BY <1>1, <1>4 DEF BlankIdx, PushFree, TakeFree, Link, At, InHand
<1>5. CASE Link(p)
  BY <1>1, <1>5 DEF BlankIdx, PushFree, TakeFree, Link, At, InHand
<1>6. CASE AppendIdx(p)
  <2>1. o # db'[p].idxoff
    BY <1>1, <1>6, AppendIdxEffect, Offsets
  <2> QED
    BY <1>1, <1>6, <2>1 DEF AppendIdx, At, InHand, BlankIdx, PushFree, TakeFree, Link
<1>7. CASE NoFree(p)
  <2>1. db[p].idxoff = 0 /\ db' = db
    BY <1>7 DEF NoFree, At, Frame, IInv, ProcOK, TakenOK
  <2> QED
    BY <1>1, <1>7, <2>1 DEF NoFree, At, InHand, BlankIdx, PushFree, TakeFree, Link
<1>8. CASE FreeUnlock(p)
  BY <1>1, <1>8 DEF FreeUnlock, At, InHand, BlankIdx, PushFree, TakeFree, Link
<1>9. CASE ReuseDat(p) \/ ReuseIdx(p)
  BY <1>1, <1>9 DEF ReuseDat, ReuseIdx, At, InHand, BlankIdx, PushFree, TakeFree, Link
<1>10. ASSUME ~ (BlankIdx(p) \/ PushFree(p) \/ TakeFree(p) \/ Link(p) \/ AppendIdx(p) \/ NoFree(p)
                \/ FreeUnlock(p) \/ ReuseDat(p) \/ ReuseIdx(p))
       PROVE  pc[p] \notin InHand /\ pc'[p] \notin InHand
  <2>1. Found(p) => \E n \in {"readdat", "unlock", "delete", "overwrite"} : At(p, "walk", n)
    BY <1>1, FoundStep, ZenonT(30)
  <2> QED
    BY <1>1, <1>10, <2>1, SMTT(30)
    DEF ProcNext, Call, FindAndLock, Walk, NotFound, ReadDat, Overwrite, UnlockReturn,
        DeleteLock, BlankDat, Unlink, DeleteUnlock, FindFree, FreeWalk, AppendDat, At, InHand
<1> QED
  BY <1>2, <1>3, <1>4, <1>5, <1>6, <1>7, <1>8, <1>9, <1>10

LEMMA HeldSteps ==
  ASSUME IInv, NEW p \in Procs, ProcNext(p), NEW o \in Records
  PROVE  /\ ~ (BlankIdx(p) \/ PushFree(p) \/ TakeFree(p) \/ Link(p)) => (Held(o)' <=> Held(o))
         /\ BlankIdx(p) => (Held(o)' <=> Held(o) \/ o = db[p].idxoff)
         /\ TakeFree(p) => (Held(o)' <=> Held(o) \/ o = db[p].off)
         /\ PushFree(p) \/ Link(p) => (Held(o)' <=> Held(o) /\ o # db[p].idxoff)
<1>1. Held(o) <=> \/ pc[p] \in InHand /\ db[p].idxoff = o
                  \/ \E q \in Procs \ {p} : pc[q] \in InHand /\ db[q].idxoff = o
  BY DEF Held
<1>2. Held(o)' <=> \/ pc'[p] \in InHand /\ db'[p].idxoff = o
                   \/ \E q \in Procs \ {p} : pc'[q] \in InHand /\ db'[q].idxoff = o
  BY DEF Held
<1>3. \A q \in Procs \ {p} : pc'[q] = pc[q] /\ db'[q] = db[q]
  BY StepFrame DEF IInv, All
<1>4. CASE PushFree(p) \/ Link(p)
  <2>1. o # 0 /\ pc[p] \in InHand /\ pc'[p] \notin InHand
    BY <1>4, HandOfStep, Offsets DEF IInv
  <2>2. \A q \in Procs \ {p} : ~ (pc[q] \in InHand /\ db[q].idxoff = o /\ db[p].idxoff = o)
    BY <2>1 DEF IInv, HeldOnce
  <2>3. Held(o)' <=> Held(o) /\ o # db[p].idxoff
    BY <1>1, <1>2, <1>3, <2>1, <2>2
  <2>4. ~BlankIdx(p) /\ ~TakeFree(p)
    BY <1>4 DEF PushFree, Link, BlankIdx, TakeFree, At
  <2> QED
    BY <1>4, <2>3, <2>4
<1>5. CASE ~ (PushFree(p) \/ Link(p))
  BY <1>1, <1>2, <1>3, <1>5, HandOfStep
<1> QED
  BY <1>4, <1>5
(* What a step leaves of the records. *)
LEMMA RecordSteps ==
  ASSUME IInv, NEW p \in Procs, ProcNext(p)
  PROVE  /\ Records \subseteq Records'
         /\ \A o \in Records : (~BlankIdx(p) /\ ~ReuseIdx(p)) \/ o # db[p].idxoff => Rec(o)' = Rec(o)
         /\ \A o \in Records : /\ Rec(o)'.datoff = Rec(o).datoff
                               /\ Rec(o)'.klen = Rec(o).klen /\ Rec(o)'.datlen = Rec(o).datlen
         /\ \A o \in Records' : o \notin Records => AppendIdx(p) /\ o = db'[p].idxoff
<1>2. CASE UNCHANGED files \/ Overwrite(p) \/ BlankDat(p) \/ ReuseDat(p) \/ AppendDat(p)
  <2>1. UNCHANGED rec
    BY <1>2, DataWritten, AppendDatEffect DEF files
  <2> QED
    BY <2>1 DEF Records, Rec
<1>5. CASE AppendIdx(p)
  BY <1>5, AppendIdxEffect
<1>6. CASE BlankIdx(p) \/ ReuseIdx(p)
  <2>1. \A o \in Records : o = db[p].idxoff =>
          /\ Rec(o)'.datoff = Rec(o).datoff
          /\ Rec(o)'.klen = Rec(o).klen /\ Rec(o)'.datlen = Rec(o).datlen
    BY <1>6, RekeyEffect
  <2> QED
    BY <1>6, <2>1, RekeyEffect
<1>7. CASE PushFree(p)
  BY <1>7, PushFreeEffect
<1>8. CASE Unlink(p)
  BY <1>8, UnlinkEffect
<1>9. CASE TakeFree(p)
  BY <1>9, TakeFreeEffect
<1>10. CASE Link(p)
  BY <1>10, LinkEffect
<1> QED
  BY <1>2, <1>5, <1>6, <1>7, <1>8, <1>9, <1>10, FilesRead

(* How a step changes the lists. *)
LEMMA MembersSteps ==
  ASSUME IInv, NEW p \in Procs, ProcNext(p), NEW h \in Locks
  PROVE  /\ ~ (BlankIdx(p) \/ PushFree(p) \/ TakeFree(p) \/ Link(p)) => Members(h)' = Members(h)
         /\ BlankIdx(p) => Members(h)' = Members(h) \ {db[p].idxoff}
         /\ TakeFree(p) => Members(h)' = Members(h) \ {db[p].off}
         /\ PushFree(p) => Members(h)' = IF h = FREEOFF THEN Members(h) \cup {db[p].idxoff}
                                         ELSE Members(h)
         /\ Link(p) => Members(h)' = IF h = Chain(p) THEN Members(h) \cup {db[p].idxoff}
                                     ELSE Members(h)
<1>1. Members(h) = {o \in Records : ~Held(o) /\ Home(o) = h}
  BY DEF Members
<1>2. Members(h)' = {o \in Records' : ~Held(o)' /\ Home(o)' = h}
  BY DEF Members
<1>3. \A o \in Records : Rec(o)' = Rec(o) => Home(o)' = Home(o)
  BY DEF Home
<1>4. CASE AppendIdx(p)
  <2>1. ~ (BlankIdx(p) \/ PushFree(p) \/ TakeFree(p) \/ Link(p) \/ ReuseIdx(p))
    BY <1>4 DEF AppendIdx, At, BlankIdx, PushFree, TakeFree, Link, ReuseIdx
  <2>2. pc'[p] = "link"
    BY <1>4 DEF AppendIdx, At, IInv, TypeOK, PointTypes, All
  <2>3. \A o \in Records' : o \notin Records => Held(o)'
    BY <2>2, RecordSteps DEF Held, InHand
  <2> QED
    BY <1>1, <1>2, <1>3, <2>1, <2>3, RecordSteps, HeldSteps
<1>5. CASE ReuseIdx(p)
  <2>1. ~ (BlankIdx(p) \/ PushFree(p) \/ TakeFree(p) \/ Link(p) \/ AppendIdx(p)) /\ pc[p] = "reuseidx"
    BY <1>5 DEF AppendIdx, At, BlankIdx, PushFree, TakeFree, Link, ReuseIdx
  <2>2. db[p].idxoff \in Records /\ Held(db[p].idxoff)
    BY <2>1, InRecords DEF Held, InHand
  <2> QED
    BY <1>1, <1>2, <1>3, <2>1, <2>2, RecordSteps, HeldSteps
<1>6. CASE BlankIdx(p)
  <2>1. ~ (ReuseIdx(p) \/ PushFree(p) \/ TakeFree(p) \/ Link(p) \/ AppendIdx(p))
    BY <1>6 DEF AppendIdx, At, BlankIdx, PushFree, TakeFree, Link, ReuseIdx
  <2> QED
    BY <1>1, <1>2, <1>3, <1>6, <2>1, RecordSteps, HeldSteps
<1>7. CASE TakeFree(p)
  <2>1. ~ (ReuseIdx(p) \/ PushFree(p) \/ BlankIdx(p) \/ Link(p) \/ AppendIdx(p))
    BY <1>7 DEF AppendIdx, At, BlankIdx, PushFree, TakeFree, Link, ReuseIdx
  <2> QED
    BY <1>1, <1>2, <1>3, <1>7, <2>1, RecordSteps, HeldSteps
<1>8. CASE PushFree(p)
  <2>1. /\ ~ (ReuseIdx(p) \/ TakeFree(p) \/ BlankIdx(p) \/ Link(p) \/ AppendIdx(p))
        /\ pc[p] = "pushfree"
    BY <1>8 DEF AppendIdx, At, BlankIdx, PushFree, TakeFree, Link, ReuseIdx
  <2>2. db[p].idxoff \in Records /\ Home(db[p].idxoff) = FREEOFF /\ Held(db[p].idxoff)
    BY <2>1 DEF IInv, ProcOK, UnlinkOK, Home, Held, InHand
  <2>3. \A o \in Records : Home(o)' = Home(o) /\ (Held(o)' <=> Held(o) /\ o # db[p].idxoff)
    BY <1>3, <1>8, <2>1, RecordSteps, HeldSteps
  <2>4. Records' = Records
    BY <2>1, RecordSteps
  <2> QED
    BY <1>1, <1>2, <1>8, <2>1, <2>2, <2>3, <2>4
<1>9. CASE Link(p)
  <2>1. /\ ~ (ReuseIdx(p) \/ TakeFree(p) \/ BlankIdx(p) \/ PushFree(p) \/ AppendIdx(p))
        /\ pc[p] = "link"
    BY <1>9 DEF AppendIdx, At, BlankIdx, PushFree, TakeFree, Link, ReuseIdx
  <2>2. db[p].idxoff \in Records /\ Home(db[p].idxoff) = Chain(p) /\ Held(db[p].idxoff)
    <3>1. db[p].idxoff \in Records /\ Rec(db[p].idxoff).key = Op(p).key
      BY <2>1 DEF IInv, ProcOK, LinkOK
    <3>2. Op(p).key # Blank /\ Chain(p) = Hash[Op(p).key]
      BY <2>1, CallFacts, DatabaseAssumption DEF IInv, DatabaseAssumption
    <3> QED
      BY <2>1, <3>1, <3>2 DEF Home, Held, InHand
  <2>3. \A o \in Records : Home(o)' = Home(o) /\ (Held(o)' <=> Held(o) /\ o # db[p].idxoff)
    BY <1>3, <1>9, <2>1, RecordSteps, HeldSteps
  <2>4. Records' = Records
    BY <2>1, RecordSteps
  <2> QED
    BY <1>1, <1>2, <1>9, <2>1, <2>2, <2>3, <2>4
<1>10. CASE ~ (AppendIdx(p) \/ ReuseIdx(p) \/ BlankIdx(p) \/ TakeFree(p) \/ PushFree(p) \/ Link(p))
  BY <1>1, <1>2, <1>3, <1>10, RecordSteps, HeldSteps
<1> QED
  BY <1>4, <1>5, <1>6, <1>7, <1>8, <1>9, <1>10

(* Nobody else's delete is under way while a call deletes a record, and no *)
(* step but these changes the pointers as they will be.                    *)
LEMMA UnlinkingSteps ==
  ASSUME IInv, NEW p \in Procs, ProcNext(p), NEW q \in Procs
  PROVE  /\ ~BlankIdx(p) /\ ~Unlink(p) => (Unlinking(q)' <=> Unlinking(q))
         /\ Unlinking(q) /\ ~Unlink(p) =>
              db'[q].ptroff = db[q].ptroff /\ db'[q].ptrval = db[q].ptrval
         /\ BlankIdx(p) => (Unlinking(q)' <=> q = p) /\ ~Unlinking(q)
         /\ Unlink(p) => ~Unlinking(q)' /\ (Unlinking(q) <=> q = p)
<1>1. q # p => pc'[q] = pc[q] /\ db'[q] = db[q]
  BY StepFrame DEF IInv, All
<1>2. /\ pc \in [All -> ProcPoints \cup ScanPoints] /\ p \in All /\ TypeOK /\ LockInv
  BY DEF IInv, TypeOK, PointTypes, CallTypes, All
<1>3. \A q1, q2 \in Procs : Unlinking(q1) /\ pc[q2] \in FreeHeld => q1 = q2
  BY <1>2 DEF LockInv, Unlinking, FreeHeld
<1>4. CASE BlankIdx(p)
  <2>1. pc[p] = "blankidx" /\ pc'[p] = "pushfree" /\ db' = db
    BY <1>2, <1>4 DEF BlankIdx, At
  <2> QED
    BY <1>1, <1>3, <1>4, <2>1 DEF Unlinking, Unlink, At, FreeHeld
<1>5. CASE Unlink(p)
  <2>1. pc[p] = "unlink" /\ pc'[p] = "deleted" /\ db' = db
    BY <1>2, <1>5 DEF Unlink, At
  <2> QED
    BY <1>1, <1>3, <1>5, <2>1 DEF Unlinking, BlankIdx, At, FreeHeld
<1>6. CASE PushFree(p)
  BY <1>1, <1>2, <1>6 DEF PushFree, At, Unlinking, BlankIdx, Unlink
<1>7. CASE ~BlankIdx(p) /\ ~Unlink(p) /\ ~PushFree(p)
  <2>1. ~Unlinking(p) /\ ~Unlinking(p)'
    <3>1. Found(p) => \E n \in {"readdat", "unlock", "delete", "overwrite"} : At(p, "walk", n)
      BY <1>2, FoundStep, ZenonT(30)
    <3> QED
      BY <1>2, <1>7, <3>1, SMTT(30)
      DEF Unlinking, ProcNext, Call, FindAndLock, Walk, NotFound, ReadDat, Overwrite,
        UnlockReturn, DeleteLock, BlankDat, DeleteUnlock, FindFree, FreeWalk, TakeFree, NoFree,
        FreeUnlock, AppendDat, AppendIdx, ReuseDat, ReuseIdx, Link, At
  <2> QED
    BY <1>1, <1>7, <2>1 DEF Unlinking
<1> QED
  BY <1>4, <1>5, <1>6, <1>7
LEMMA DomainGrows ==
  ASSUME IInv, NEW p \in Procs, ProcNext(p)
  PROVE  DOMAIN ptr \subseteq DOMAIN ptr'
<1>1. DOMAIN ptr = 0..(NHash + Len(rec)) /\ Len(rec) \in Nat
  BY Offsets DEF IInv
<1>2. CASE UNCHANGED files \/ Overwrite(p) \/ BlankDat(p) \/ ReuseDat(p) \/ AppendDat(p)
  BY <1>2, DataWritten, AppendDatEffect DEF files
<1>3. CASE AppendIdx(p)
  BY <1>3, AppendIdxEffect
<1> QED
  BY <1>2, <1>3, FilesRead, RekeyEffect, PushFreeEffect, UnlinkEffect, TakeFreeEffect, LinkEffect

LEMMA SuccSteps ==
  ASSUME IInv, NEW p \in Procs, ProcNext(p), NEW x \in DOMAIN ptr
  PROVE  /\ ~BlankIdx(p) /\ ~Unlink(p) /\ ptr'[x] = ptr[x] => Succ'[x] = Succ[x]
         /\ Unlink(p) => Succ'[x] = Succ[x]
         /\ BlankIdx(p) /\ x # db[p].idxoff /\ x # db[p].ptroff => Succ'[x] = Succ[x]
         /\ BlankIdx(p) /\ x = db[p].ptroff => Succ'[x] = db[p].ptrval
<1>1. SuccOK /\ SuccOK' /\ x \in DOMAIN ptr'
  BY SuccFacts, SuccFactsNext, TypeSteps, LockInvSteps, DomainGrows DEF IInv
<1>2. /\ \A q \in Procs : Unlinking(q) /\ db[q].ptroff = x => Succ[x] = db[q].ptrval
      /\ (\A q \in Procs : Unlinking(q) => db[q].ptroff # x) => Succ[x] = ptr[x]
  BY <1>1 DEF SuccOK
<1>3. /\ \A q \in Procs : Unlinking(q)' /\ db'[q].ptroff = x => Succ'[x] = db'[q].ptrval
      /\ (\A q \in Procs : Unlinking(q)' => db'[q].ptroff # x) => Succ'[x] = ptr'[x]
  BY <1>1 DEF SuccOK
<1>4. CASE BlankIdx(p)
  <2>1. /\ \A q \in Procs : ~Unlinking(q) /\ (Unlinking(q)' <=> q = p)
        /\ db' = db /\ ~Unlink(p)
    BY <1>4, UnlinkingSteps DEF BlankIdx, Unlink, At
  <2>2. x # db[p].idxoff => ptr'[x] = ptr[x]
    BY <1>4, RekeyEffect
  <2> QED
    BY <1>2, <1>3, <1>4, <2>1, <2>2
<1>5. CASE Unlink(p)
  <2>1. \A q \in Procs : ~Unlinking(q)' /\ (Unlinking(q) <=> q = p)
    BY <1>5, UnlinkingSteps
  <2>2. x = db[p].ptroff => ptr'[x] = db[p].ptrval
    BY <1>5, UnlinkEffect
  <2>3. x # db[p].ptroff => ptr'[x] = ptr[x]
    BY <1>5, UnlinkEffect
  <2>4. ~BlankIdx(p)
    BY <1>5 DEF Unlink, BlankIdx, At
  <2> QED
    BY <1>2, <1>3, <1>5, <2>1, <2>2, <2>3, <2>4
<1>6. CASE ~BlankIdx(p) /\ ~Unlink(p)
  <2>1. \A q \in Procs : /\ Unlinking(q)' <=> Unlinking(q)
                         /\ Unlinking(q) => db'[q].ptroff = db[q].ptroff /\ db'[q].ptrval = db[q].ptrval
    BY <1>6, UnlinkingSteps
  <2> QED
    BY <1>2, <1>3, <1>6, <2>1
<1> QED
  BY <1>4, <1>5, <1>6

(* Where the delete that is under way is. *)
LEMMA UnlinkingAway ==
  ASSUME IInv, NEW q \in Procs, Unlinking(q)
  PROVE  /\ db[q].ptroff \in Members(Chain(q)) \cup {Chain(q)}
         /\ Chain(q) \in Locks /\ Chain(q) # FREEOFF
         /\ \A p \in Procs : pc[p] \in FreeHeld => p = q
         /\ \A p \in Procs : p # q /\ pc[p] \notin {"idle", "lock"} => Chain(p) # Chain(q)
<1>1. UnlinkOK(q) /\ Op(q).kind # "fetch"
  BY DEF IInv, ProcOK, CallOK, Unlinking, Gone_
<1>2. Chain(q) \in Locks /\ Chain(q) # FREEOFF /\ pc[q] \in FreeHeld
  BY CallFacts DEF IInv, Unlinking, FreeHeld
<1>3. \A p \in Procs : pc[p] \in FreeHeld => p = q
  BY <1>2 DEF IInv, LockInv
<1>4. \A p \in Procs : p # q /\ pc[p] \notin {"idle", "lock"} => Chain(p) # Chain(q)
  BY <1>1, OwnChain DEF IInv, Unlinking
<1> QED
  BY <1>1, <1>2, <1>3, <1>4 DEF Unlinking, UnlinkOK

(* A record in hand is in no list. *)
LEMMA HeldOut ==
  ASSUME IInv, NEW p \in Procs, pc[p] \in InHand, db[p].idxoff \in Records
  PROVE  /\ Held(db[p].idxoff) /\ db[p].idxoff \notin Locks
         /\ \A h : db[p].idxoff \notin Members(h)
BY Offsets DEF IInv, Held, Members

(* The chain another call works on stays as it is. *)
LEMMA OthersChain ==
  ASSUME IInv, NEW p \in Procs, ProcNext(p), NEW q \in Procs, q # p,
         pc[q] \notin {"idle", "lock"}, NEW h \in Locks, h = Chain(q)
  PROVE  /\ pc'[q] = pc[q] /\ db'[q] = db[q] /\ Op(q)' = Op(q) /\ Chain(q)' = h
         /\ h # FREEOFF /\ Members(h)' = Members(h)
         /\ \A m \in Members(h) : Rec(m)' = Rec(m)
         /\ \A x \in Members(h) \cup {h} : x \in DOMAIN ptr /\ ptr'[x] = ptr[x]
<1>1. pc'[q] = pc[q] /\ db'[q] = db[q] /\ Op(q)' = Op(q) /\ Chain(q)' = h /\ TypeOK
  BY StepFrame DEF IInv, All, Op, Chain
<1>2. h # FREEOFF /\ Members(h) \subseteq Records /\ \A x \in Members(h) \cup {h} : x \in DOMAIN ptr
  BY <1>1, CallFacts, MembersIn, Offsets
<1>3. pc[p] \in {"blankidx", "pushfree", "unlink", "link"} => Chain(p) # h /\ Chain(p) \in Locks
  <2>1. pc[p] \in {"blankidx", "pushfree", "unlink", "link"} => Op(p).kind # "fetch"
    BY DEF IInv, ProcOK, CallOK, Gone_
  <2> QED
    BY <1>1, <2>1, OwnChain, CallFacts DEF IInv
<1>4. \A l \in Locks : l # h => Members(l) \cap Members(h) = {} /\ l \notin Members(h)
  BY <1>1, MembersIn
<1>5. CASE BlankIdx(p)
  <2>1. db[p].idxoff \in Members(Chain(p)) /\ pc[p] = "blankidx"
    BY <1>5 DEF BlankIdx, At, IInv, ProcOK, FoundOK, Found_
  <2>2. db[p].idxoff \notin Members(h) \cup {h}
    BY <1>1, <1>3, <1>4, <2>1, MembersIn
  <2> QED
    <3>1. Members(h)' = Members(h)
      BY <1>5, <2>2, MembersSteps
    <3>2. \A m \in Members(h) : Rec(m)' = Rec(m)
      BY <1>2, <2>2, RecordSteps
    <3>3. \A x \in Members(h) \cup {h} : ptr'[x] = ptr[x]
      BY <1>2, <1>5, <2>2, RekeyEffect
    <3> QED
      BY <1>1, <1>2, <3>1, <3>2, <3>3
<1>6. CASE ReuseIdx(p)
  <2>1. pc[p] = "reuseidx" /\ db[p].idxoff \in Records
    BY <1>6, InRecords DEF ReuseIdx, At
  <2>2. db[p].idxoff \notin Members(h) \cup {h}
    BY <2>1, HeldOut DEF InHand
  <2>3. ~ (BlankIdx(p) \/ PushFree(p) \/ TakeFree(p) \/ Link(p))
    BY <1>6 DEF ReuseIdx, BlankIdx, PushFree, TakeFree, Link, At
  <2> QED
    BY <1>1, <1>2, <1>6, <2>2, <2>3, MembersSteps, RecordSteps, RekeyEffect
<1>7. CASE PushFree(p)
  <2>1. pc[p] = "pushfree" /\ ~BlankIdx(p) /\ ~ReuseIdx(p)
    BY <1>7 DEF PushFree, BlankIdx, ReuseIdx, At
  <2>2. FREEOFF \notin Members(h) \cup {h}
    BY <1>2, <1>4, Offsets DEF FREEOFF, IInv
  <2> QED
    BY <1>1, <1>2, <1>7, <2>1, <2>2, MembersSteps, RecordSteps, PushFreeEffect
<1>8. CASE Unlink(p)
  <2>1. pc[p] = "unlink" /\ ~ (BlankIdx(p) \/ PushFree(p) \/ TakeFree(p) \/ Link(p) \/ ReuseIdx(p))
    BY <1>8 DEF ReuseIdx, BlankIdx, PushFree, TakeFree, Link, Unlink, At
  <2>2. db[p].ptroff \notin Members(h) \cup {h}
    BY <1>1, <1>3, <1>4, <1>8, <2>1, UnlinkEffect, MembersIn
  <2> QED
    <3>1. Members(h)' = Members(h)
      BY <1>8, <2>1, MembersSteps
    <3>2. \A m \in Members(h) : Rec(m)' = Rec(m)
      BY <1>2, <2>1, RecordSteps
    <3>3. \A x \in Members(h) \cup {h} : ptr'[x] = ptr[x]
      BY <1>2, <1>8, <2>2, UnlinkEffect
    <3> QED
      BY <1>1, <1>2, <3>1, <3>2, <3>3
<1>9. CASE TakeFree(p)
  <2>1. ~BlankIdx(p) /\ ~ReuseIdx(p) /\ FREEOFF \in Locks
    BY <1>1, <1>9, Offsets DEF TakeFree, BlankIdx, ReuseIdx, At, FREEOFF
  <2>2. /\ db[p].ptroff \notin Members(h) \cup {h} /\ db[p].off \notin Members(h)
    <3>1. db[p].ptroff \in Members(FREEOFF) \cup {FREEOFF} /\ db[p].off \in Members(FREEOFF)
      BY <1>9, TakeFreeEffect
    <3>2. Members(FREEOFF) \cap Members(h) = {} /\ FREEOFF \notin Members(h)
      BY <1>2, <1>4, <2>1
    <3>3. h \notin Members(FREEOFF)
      BY <1>1, MembersIn
    <3> QED
      BY <1>2, <3>1, <3>2, <3>3
  <2> QED
    <3>1. Members(h)' = Members(h)
      BY <1>9, <2>2, MembersSteps, SMTT(30)
    <3>2. \A m \in Members(h) : Rec(m)' = Rec(m)
      BY <1>2, <2>1, RecordSteps
    <3>3. \A x \in Members(h) \cup {h} : ptr'[x] = ptr[x]
      <4>1. \A y \in DOMAIN ptr : y # db[p].ptroff => ptr'[y] = ptr[y]
        BY <1>9, TakeFreeEffect
      <4> QED
        BY <1>2, <2>2, <4>1
    <3> QED
      BY <1>1, <1>2, <3>1, <3>2, <3>3
<1>10. CASE Link(p)
  <2>1. pc[p] = "link" /\ ~BlankIdx(p) /\ ~ReuseIdx(p)
    BY <1>10 DEF Link, BlankIdx, ReuseIdx, At
  <2>2. Chain(p) \notin Members(h) \cup {h}
    BY <1>3, <1>4, <2>1
  <2> QED
    BY <1>1, <1>2, <1>10, <2>1, <2>2, MembersSteps, RecordSteps, LinkEffect
<1>11. CASE ~ (BlankIdx(p) \/ PushFree(p) \/ TakeFree(p) \/ Link(p) \/ ReuseIdx(p) \/ Unlink(p))
  <2>1. \A x \in DOMAIN ptr : ptr'[x] = ptr[x]
    <3>1. UNCHANGED files \/ Overwrite(p) \/ BlankDat(p) \/ ReuseDat(p) \/ AppendDat(p) \/ AppendIdx(p)
      BY <1>11, FilesRead
    <3> QED
      BY <3>1, DataWritten, AppendDatEffect, AppendIdxEffect DEF files
  <2> QED
    BY <1>1, <1>2, <1>11, <2>1, MembersSteps, RecordSteps
<1> QED
  BY <1>5, <1>6, <1>7, <1>8, <1>9, <1>10, <1>11

(* The lists stay lists: the new ranks differ from the old ones only where *)
(* a record becomes the head of a list.                                    *)
Ranks(r, h, o) == [r EXCEPT ![o] = r[h], ![h] = r[h] + 1]

LEMMA RankFacts ==
  ASSUME NEW r \in [Nat -> Nat], NEW h \in Nat, NEW o \in Nat
  PROVE  /\ Ranks(r, h, o) \in [Nat -> Nat]
         /\ \A x \in Nat : x # o /\ x # h => Ranks(r, h, o)[x] = r[x]
BY DEF Ranks

LEMMA SuccStill ==
  ASSUME IInv, NEW p \in Procs, ProcNext(p), NEW x \in DOMAIN ptr, ~BlankIdx(p),
         ptr'[x] = ptr[x] \/ Unlink(p)
  PROVE  Succ'[x] = Succ[x]
BY SuccSteps

(* What the steps that put a record into a list or take one out do to it. *)
LEMMA BlankShape ==
  ASSUME IInv, NEW p \in Procs, BlankIdx(p), NEW h \in Locks, NEW r \in [Nat -> Nat],
         Shaped(Members(h), h, r, Succ)
  PROVE  Shaped(Members(h)', h, r, Succ')
<1>1. /\ TypeOK /\ ProcNext(p) /\ pc[p] = "blankidx" /\ ~Unlinking(p)
  BY DEF IInv, BlankIdx, At, ProcNext, Unlinking
<1>2. /\ db[p].ptroff \in Members(Chain(p)) \cup {Chain(p)} /\ ptr[db[p].ptroff] = db[p].idxoff
      /\ db[p].idxoff \in Members(Chain(p)) /\ db[p].ptrval = ptr[db[p].idxoff]
      /\ Chain(p) \in Locks
  BY <1>1, CallFacts DEF IInv, ProcOK, FoundOK, Found_
<1>3. Succ[db[p].ptroff] = db[p].idxoff /\ Succ[db[p].idxoff] = db[p].ptrval
  BY <1>1, <1>2, ChainStill
<1>4. \A l \in Locks : Members(l) \in SUBSET Nat /\ 0 \notin Members(l) /\ l \in Nat \ Members(l)
                       /\ \A x \in Members(l) \cup {l} : x \in DOMAIN ptr
  BY <1>1, MembersIn, Offsets
<1>5. CASE h = Chain(p)
  <2>1. Members(h)' = Members(h) \ {db[p].idxoff}
    BY <1>1, MembersSteps
  <2>2. Succ'[db[p].ptroff] = Succ[db[p].idxoff]
    BY <1>1, <1>2, <1>3, <1>4, <1>5, SuccSteps
  <2>3. \A m \in (Members(h) \cup {h}) \ {db[p].ptroff, db[p].idxoff} : Succ'[m] = Succ[m]
    BY <1>1, <1>4, SuccSteps
  <2> DEFINE M == Members(h)
             o == db[p].idxoff
             x == db[p].ptroff
             next == Succ
             next2 == Succ'
  <2>4. M \in SUBSET Nat /\ h \in Nat \ M /\ o \in M /\ x \in M \cup {h} /\ 0 \notin M
    BY <1>2, <1>4, <1>5
  <2>5. /\ next[x] = o /\ next2[x] = next[o] /\ Shaped(M, h, r, next)
        /\ \A m \in (M \cup {h}) \ {x, o} : next2[m] = next[m]
    BY <1>3, <2>2, <2>3
  <2> HIDE DEF M, o, x, next, next2
  <2>6. Shaped(M \ {o}, h, r, next2)
    BY <2>4, <2>5, ShapedDrop
  <2> QED
    BY <2>1, <2>6 DEF M, o, next2
<1>6. CASE h # Chain(p)
  <2>1. db[p].idxoff \notin Members(h) \cup {h} /\ db[p].ptroff \notin Members(h) \cup {h}
    BY <1>1, <1>2, <1>6, MembersIn
  <2>2. Members(h)' = Members(h)
    BY <1>1, <2>1, MembersSteps, SMTT(30)
  <2>3. \A m \in Members(h) \cup {h} : Succ'[m] = Succ[m]
    BY <1>1, <1>4, <2>1, SuccSteps
  <2> QED
    BY <2>2, <2>3, ShapedSame
<1> QED
  BY <1>5, <1>6

LEMMA TakeShape ==
  ASSUME IInv, NEW p \in Procs, TakeFree(p), NEW h \in Locks, NEW r \in [Nat -> Nat],
         Shaped(Members(h), h, r, Succ)
  PROVE  Shaped(Members(h)', h, r, Succ')
<1>1. /\ TypeOK /\ ProcNext(p) /\ pc[p] = "freewalk" /\ ~BlankIdx(p) /\ ~Unlink(p)
      /\ pc'[p] = "freedone" /\ FREEOFF \in Locks
  BY Offsets DEF IInv, TakeFree, At, ProcNext, BlankIdx, Unlink, TypeOK, PointTypes, All, FREEOFF
<1>2. /\ db[p].ptroff \in Members(FREEOFF) \cup {FREEOFF} /\ ptr[db[p].ptroff] = db[p].off
      /\ db[p].off \in Members(FREEOFF) /\ ptr'[db[p].ptroff] = ptr[db[p].off]
      /\ \A y \in DOMAIN ptr : y # db[p].ptroff => ptr'[y] = ptr[y]
      /\ DOMAIN ptr' = DOMAIN ptr
  BY TakeFreeEffect
<1>3. Succ[db[p].ptroff] = db[p].off /\ Succ[db[p].off] = ptr[db[p].off]
  BY <1>2, FreeStill
<1>4. \A l \in Locks : Members(l) \in SUBSET Nat /\ 0 \notin Members(l) /\ l \in Nat \ Members(l)
                       /\ \A x \in Members(l) \cup {l} : x \in DOMAIN ptr
  BY <1>1, MembersIn, Offsets
<1>5. Succ'[db[p].ptroff] = ptr'[db[p].ptroff]
  <2>1. SuccOK' /\ \A q \in Procs : ~Unlinking(q)
    <3>1. \A q \in Procs : ~Unlinking(q)
      BY <1>1, UnlinkingAway DEF FreeHeld, Unlinking
    <3> QED
      BY <1>1, <3>1, SuccFactsNext, TypeSteps, LockInvSteps
  <2>2. \A q \in Procs : ~Unlinking(q)'
    BY <1>1, <2>1, UnlinkingSteps
  <2> QED
    BY <1>1, <1>2, <1>4, <2>1, <2>2 DEF SuccOK
<1>6. CASE h = FREEOFF
  <2>1. Members(h)' = Members(h) \ {db[p].off}
    BY <1>1, MembersSteps
  <2>2. Succ'[db[p].ptroff] = Succ[db[p].off]
    BY <1>2, <1>3, <1>5
  <2>3. \A m \in (Members(h) \cup {h}) \ {db[p].ptroff, db[p].off} : Succ'[m] = Succ[m]
    BY <1>1, <1>2, <1>4, SuccStill
  <2> DEFINE M == Members(h)
             o == db[p].off
             x == db[p].ptroff
             next == Succ
             next2 == Succ'
  <2>4. M \in SUBSET Nat /\ h \in Nat \ M /\ o \in M /\ x \in M \cup {h} /\ 0 \notin M
    BY <1>2, <1>4, <1>6
  <2>5. /\ next[x] = o /\ next2[x] = next[o] /\ Shaped(M, h, r, next)
        /\ \A m \in (M \cup {h}) \ {x, o} : next2[m] = next[m]
    BY <1>3, <2>2, <2>3
  <2> HIDE DEF M, o, x, next, next2
  <2>6. Shaped(M \ {o}, h, r, next2)
    BY <2>4, <2>5, ShapedDrop
  <2> QED
    BY <2>1, <2>6 DEF M, o, next2
<1>7. CASE h # FREEOFF
  <2>1. db[p].off \notin Members(h) \cup {h} /\ db[p].ptroff \notin Members(h) \cup {h}
    BY <1>1, <1>2, <1>7, MembersIn
  <2>2. Members(h)' = Members(h)
    BY <1>1, <2>1, MembersSteps
  <2>3. \A m \in Members(h) \cup {h} : Succ'[m] = Succ[m]
    BY <1>1, <1>2, <1>4, <2>1, SuccStill
  <2> QED
    BY <2>2, <2>3, ShapedSame
<1> QED
  BY <1>6, <1>7

LEMMA PushShape ==
  ASSUME IInv, NEW p \in Procs, PushFree(p), NEW h \in Locks, NEW r \in [Nat -> Nat],
         Shaped(Members(h), h, r, Succ)
  PROVE  Shaped(Members(h)', h, Ranks(r, FREEOFF, db[p].idxoff), Succ')
<1>1. /\ TypeOK /\ ProcNext(p) /\ pc[p] = "pushfree" /\ ~BlankIdx(p) /\ ~Unlink(p)
      /\ FREEOFF \in Locks /\ Unlinking(p)
  BY Offsets DEF IInv, PushFree, At, ProcNext, BlankIdx, Unlink, FREEOFF, Unlinking
<1> DEFINE o == db[p].idxoff
           r2 == Ranks(r, FREEOFF, o)
<1>2. /\ o \in Records /\ ptr[o] = ptr[FREEOFF] /\ ptr'[FREEOFF] = o
      /\ \A y \in DOMAIN ptr : y # FREEOFF => ptr'[y] = ptr[y]
      /\ DOMAIN ptr' = DOMAIN ptr
  BY <1>1, PushFreeEffect DEF IInv, ProcOK, UnlinkOK
<1>3. \A l \in Locks : o \notin Members(l) \cup {l}
  BY <1>1, <1>2, HeldOut DEF InHand
<1>4. \A l \in Locks : Members(l) \in SUBSET Nat /\ 0 \notin Members(l) /\ l \in Nat \ Members(l)
                       /\ \A x \in Members(l) \cup {l} : x \in DOMAIN ptr
  BY <1>1, MembersIn, Offsets
<1>5. /\ db[p].ptroff \in Members(Chain(p)) \cup {Chain(p)} /\ db[p].ptroff # FREEOFF
      /\ db[p].ptroff # o /\ \A q \in Procs : Unlinking(q) => q = p
  <2>1. /\ db[p].ptroff \in Members(Chain(p)) \cup {Chain(p)} /\ Chain(p) \in Locks
        /\ Chain(p) # FREEOFF /\ \A q \in Procs : Unlinking(q) => q = p
    BY <1>1, UnlinkingAway DEF FreeHeld
  <2> QED
    BY <1>1, <1>3, <2>1, MembersIn
<1>6. Succ[FREEOFF] = ptr[FREEOFF] /\ Succ[o] = ptr[o] /\ o \in DOMAIN ptr
  <2>1. SuccOK /\ o \in DOMAIN ptr /\ FREEOFF \in DOMAIN ptr
    BY <1>1, <1>2, SuccFacts, Offsets DEF IInv
  <2> QED
    BY <1>5, <2>1 DEF SuccOK
<1>7. Succ'[FREEOFF] = o /\ Succ'[o] = Succ[FREEOFF]
  <2>1. SuccOK' /\ \A q \in Procs : Unlinking(q)' => db'[q].ptroff # FREEOFF
    BY <1>1, <1>5, SuccFactsNext, TypeSteps, LockInvSteps, UnlinkingSteps
  <2>2. FREEOFF \in DOMAIN ptr'
    BY <1>1, <1>2, Offsets
  <2>3. Succ'[FREEOFF] = ptr'[FREEOFF]
    BY <2>1, <2>2 DEF SuccOK
  <2>4. Succ'[o] = Succ[o]
    BY <1>1, <1>2, <1>3, <1>6, SuccStill
  <2> QED
    BY <1>2, <1>6, <2>3, <2>4
<1>8. CASE h = FREEOFF
  <2>1. Members(h)' = Members(h) \cup {o}
    BY <1>1, <1>8, MembersSteps
  <2>2. \A m \in Members(h) : Succ'[m] = Succ[m]
    BY <1>1, <1>2, <1>4, <1>8, SuccStill
  <2>3. o \in Nat \ (Members(h) \cup {h}) /\ h \in Nat \ Members(h) /\ Members(h) \in SUBSET Nat
    BY <1>1, <1>3, <1>4, <1>6, Offsets
  <2> HIDE DEF o
  <2>4. Shaped(Members(h) \cup {o}, h, [r EXCEPT ![o] = r[h], ![h] = r[h] + 1], Succ')
    BY <1>7, <1>8, <2>2, <2>3, ShapedPush
  <2> QED
    BY <1>8, <2>1, <2>4 DEF Ranks, o
<1>9. CASE h # FREEOFF
  <2>1. Members(h)' = Members(h)
    BY <1>1, <1>9, MembersSteps
  <2>2. FREEOFF \notin Members(h) \cup {h} /\ o \notin Members(h) \cup {h}
    BY <1>1, <1>3, <1>9, MembersIn
  <2>3. \A m \in Members(h) \cup {h} : Succ'[m] = Succ[m]
    BY <1>1, <1>2, <1>4, <2>2, SuccStill
  <2>4. \A m \in Members(h) \cup {h} : r2[m] = r[m]
    <3>1. \A m \in Members(h) \cup {h} : m \in Nat /\ m # o /\ m # FREEOFF
      BY <1>4, <2>2
    <3>2. o \in Nat /\ FREEOFF \in Nat
      BY <1>1, <1>6, Offsets
    <3>3. \A m \in Nat : m # o /\ m # FREEOFF => r2[m] = r[m]
      <4> HIDE DEF o
      <4> QED
        BY <3>2, RankFacts
    <3> QED
      BY <3>1, <3>3
  <2> QED
    BY <2>1, <2>3, <2>4, ShapedSame
<1> QED
  BY <1>8, <1>9

LEMMA LinkShape ==
  ASSUME IInv, NEW p \in Procs, Link(p), NEW h \in Locks, NEW r \in [Nat -> Nat],
         Shaped(Members(h), h, r, Succ)
  PROVE  Shaped(Members(h)', h, Ranks(r, Chain(p), db[p].idxoff), Succ')
<1>1. /\ TypeOK /\ ProcNext(p) /\ pc[p] = "link" /\ ~BlankIdx(p) /\ ~Unlink(p)
      /\ Chain(p) \in Locks /\ Op(p).kind # "fetch"
  BY CallFacts DEF IInv, Link, At, ProcNext, BlankIdx, Unlink, ProcOK, CallOK, Gone_
<1> DEFINE o == db[p].idxoff
           c == Chain(p)
           r2 == Ranks(r, c, o)
<1>2. /\ o \in Records /\ ptr[o] = ptr[c] /\ ptr'[c] = o
      /\ \A y \in DOMAIN ptr : y # c => ptr'[y] = ptr[y]
      /\ DOMAIN ptr' = DOMAIN ptr
  BY <1>1, LinkEffect DEF IInv, ProcOK, LinkOK
<1>3. \A l \in Locks : o \notin Members(l) \cup {l}
  BY <1>1, <1>2, HeldOut DEF InHand
<1>4. \A l \in Locks : Members(l) \in SUBSET Nat /\ 0 \notin Members(l) /\ l \in Nat \ Members(l)
                       /\ \A x \in Members(l) \cup {l} : x \in DOMAIN ptr
  BY <1>1, MembersIn, Offsets
<1>5. \A q \in Procs : Unlinking(q) => db[q].ptroff # c /\ db[q].ptroff # o
  <2>1. SUFFICES ASSUME NEW q \in Procs, Unlinking(q) PROVE db[q].ptroff # c /\ db[q].ptroff # o
    OBVIOUS
  <2>2. /\ db[q].ptroff \in Members(Chain(q)) \cup {Chain(q)} /\ Chain(q) \in Locks
        /\ q # p /\ Chain(p) # Chain(q)
    BY <1>1, <2>1, UnlinkingAway DEF Unlinking
  <2> QED
    BY <1>1, <1>3, <2>2, MembersIn
<1>6. Succ[c] = ptr[c] /\ Succ[o] = ptr[o] /\ o \in DOMAIN ptr
  <2>1. SuccOK /\ o \in DOMAIN ptr /\ c \in DOMAIN ptr
    BY <1>1, <1>2, SuccFacts, Offsets DEF IInv
  <2> QED
    BY <1>5, <2>1 DEF SuccOK
<1>7. Succ'[c] = o /\ Succ'[o] = Succ[c]
  <2>1. SuccOK' /\ \A q \in Procs : Unlinking(q)' => db'[q].ptroff # c
    BY <1>1, <1>5, SuccFactsNext, TypeSteps, LockInvSteps, UnlinkingSteps
  <2>2. c \in DOMAIN ptr'
    BY <1>1, <1>2, Offsets
  <2>3. Succ'[c] = ptr'[c]
    BY <2>1, <2>2 DEF SuccOK
  <2>4. Succ'[o] = Succ[o]
    BY <1>1, <1>2, <1>3, <1>6, SuccStill
  <2> QED
    BY <1>2, <1>6, <2>3, <2>4
<1>8. CASE h = c
  <2>1. Members(h)' = Members(h) \cup {o}
    BY <1>1, <1>8, MembersSteps
  <2>2. \A m \in Members(h) : Succ'[m] = Succ[m]
    BY <1>1, <1>2, <1>4, <1>8, SuccStill
  <2>3. o \in Nat \ (Members(h) \cup {h}) /\ h \in Nat \ Members(h) /\ Members(h) \in SUBSET Nat
    BY <1>1, <1>3, <1>4, <1>6, Offsets
  <2> HIDE DEF o, c
  <2>4. Shaped(Members(h) \cup {o}, h, [r EXCEPT ![o] = r[h], ![h] = r[h] + 1], Succ')
    BY <1>7, <1>8, <2>2, <2>3, ShapedPush
  <2> QED
    BY <1>8, <2>1, <2>4 DEF Ranks, o, c
<1>9. CASE h # c
  <2>1. Members(h)' = Members(h)
    BY <1>1, <1>9, MembersSteps
  <2>2. c \notin Members(h) \cup {h} /\ o \notin Members(h) \cup {h}
    BY <1>1, <1>3, <1>9, MembersIn
  <2>3. \A m \in Members(h) \cup {h} : Succ'[m] = Succ[m]
    BY <1>1, <1>2, <1>4, <2>2, SuccStill
  <2>4. \A m \in Members(h) \cup {h} : r2[m] = r[m]
    <3>1. \A m \in Members(h) \cup {h} : m \in Nat /\ m # o /\ m # c
      BY <1>4, <2>2
    <3>2. o \in Nat /\ c \in Nat
      BY <1>1, <1>6, Offsets
    <3>3. \A m \in Nat : m # o /\ m # c => r2[m] = r[m]
      <4> HIDE DEF o, c
      <4> QED
        BY <3>2, RankFacts
    <3> QED
      BY <3>1, <3>3
  <2> QED
    BY <2>1, <2>3, <2>4, ShapedSame
<1> QED
  BY <1>8, <1>9

LEMMA OtherShape ==
  ASSUME IInv, NEW p \in Procs, ProcNext(p),
         ~ (BlankIdx(p) \/ PushFree(p) \/ TakeFree(p) \/ Link(p)),
         NEW h \in Locks, NEW r \in [Nat -> Nat], Shaped(Members(h), h, r, Succ)
  PROVE  Shaped(Members(h)', h, r, Succ')
<1>1. Members(h)' = Members(h)
  BY MembersSteps
<1>2. \A x \in Members(h) \cup {h} : x \in DOMAIN ptr /\ x \notin {db[q].idxoff : q \in {c \in Procs : pc[c] = "reuseidx"}}
  <2>1. \A x \in Members(h) \cup {h} : x \in DOMAIN ptr
    BY MembersIn, Offsets DEF IInv
  <2>2. ASSUME NEW q \in Procs, pc[q] = "reuseidx" PROVE db[q].idxoff \notin Members(h) \cup {h}
    BY <2>2, InRecords, HeldOut DEF InHand
  <2> QED
    BY <2>1, <2>2
<1>3. \A x \in Members(h) \cup {h} : ptr'[x] = ptr[x] \/ Unlink(p)
  <2>1. CASE ReuseIdx(p)
    BY <1>2, <2>1, RekeyEffect DEF ReuseIdx, At
  <2>2. CASE ~ReuseIdx(p)
    <3>1. UNCHANGED files \/ Overwrite(p) \/ BlankDat(p) \/ ReuseDat(p) \/ AppendDat(p)
            \/ AppendIdx(p) \/ Unlink(p)
      BY <2>2, FilesRead
    <3> QED
      BY <1>2, <3>1, DataWritten, AppendDatEffect, AppendIdxEffect DEF files
  <2> QED
    BY <2>1, <2>2
<1>4. \A x \in Members(h) \cup {h} : Succ'[x] = Succ[x]
  BY <1>2, <1>3, SuccStill
<1> QED
  BY <1>1, <1>4, ShapedSame

(* The ranks after a step. *)
NewRanks(r, p) ==
  IF PushFree(p) THEN Ranks(r, FREEOFF, db[p].idxoff)
  ELSE IF Link(p) THEN Ranks(r, Chain(p), db[p].idxoff) ELSE r

LEMMA ShapeSteps ==
  ASSUME IInv, NEW p \in Procs, ProcNext(p), NEW h \in Locks, NEW r \in [Nat -> Nat],
         Shaped(Members(h), h, r, Succ)
  PROVE  Shaped(Members(h)', h, NewRanks(r, p), Succ')
<1>1. CASE BlankIdx(p) \/ TakeFree(p)
  <2>1. ~PushFree(p) /\ ~Link(p)
    BY <1>1 DEF BlankIdx, TakeFree, PushFree, Link, At
  <2> QED
    BY <1>1, <2>1, BlankShape, TakeShape DEF NewRanks
<1>2. CASE PushFree(p)
  BY <1>2, PushShape DEF NewRanks
<1>3. CASE Link(p)
  <2>1. ~PushFree(p)
    BY <1>3 DEF PushFree, Link, At
  <2> QED
    BY <1>3, <2>1, LinkShape DEF NewRanks
<1>4. CASE ~ (BlankIdx(p) \/ PushFree(p) \/ TakeFree(p) \/ Link(p))
  BY <1>4, OtherShape DEF NewRanks
<1> QED
  BY <1>1, <1>2, <1>3, <1>4

LEMMA NewRanksFacts ==
  ASSUME IInv, NEW p \in Procs, ProcNext(p), NEW r \in [Nat -> Nat]
  PROVE  /\ NewRanks(r, p) \in [Nat -> Nat]
         /\ ~PushFree(p) /\ ~Link(p) => NewRanks(r, p) = r
         /\ \A q \in Procs, h \in Locks :
              q # p /\ pc[q] \notin {"idle", "lock"} /\ h = Chain(q) =>
              \A x \in Members(h) \cup {h} : NewRanks(r, p)[x] = r[x]
<1>1. CASE PushFree(p)
  <2>1. db[p].idxoff \in Records /\ pc[p] = "pushfree" /\ TypeOK
    BY <1>1, PushFreeEffect DEF PushFree, At, IInv
  <2>2. db[p].idxoff \in Nat /\ FREEOFF \in Nat /\ FREEOFF \in Locks
    BY <2>1, Offsets DEF FREEOFF
  <2>3. ASSUME NEW q \in Procs, NEW h \in Locks, q # p, pc[q] \notin {"idle", "lock"}, h = Chain(q),
               NEW x \in Members(h) \cup {h}
        PROVE  x \in Nat /\ x # db[p].idxoff /\ x # FREEOFF
    <3>1. h # FREEOFF /\ x \in Nat
      BY <2>1, <2>3, CallFacts, MembersIn, Offsets
    <3> QED
      BY <2>1, <2>2, <2>3, <3>1, HeldOut, MembersIn DEF InHand
  <2> QED
    <3>1. NewRanks(r, p) = Ranks(r, FREEOFF, db[p].idxoff) /\ (PushFree(p) \/ Link(p))
      BY <1>1, <2>1 DEF NewRanks
    <3>2. /\ NewRanks(r, p) \in [Nat -> Nat]
          /\ \A x \in Nat : x # db[p].idxoff /\ x # FREEOFF => NewRanks(r, p)[x] = r[x]
      <4> DEFINE o == db[p].idxoff
                 a == FREEOFF
                 r2 == NewRanks(r, p)
      <4>1. o \in Nat /\ a \in Nat /\ r2 = [r EXCEPT ![o] = r[a], ![a] = r[a] + 1]
        BY <2>2, <3>1 DEF Ranks
      <4> HIDE DEF o, a, r2
      <4>2. r2 \in [Nat -> Nat] /\ \A x \in Nat : x # o /\ x # a => r2[x] = r[x]
        BY <4>1
      <4> QED
        BY <4>2 DEF o, a, r2
    <3> QED
      BY <2>3, <3>1, <3>2
<1>2. CASE Link(p)
  <2>1. db[p].idxoff \in Records /\ pc[p] = "link" /\ TypeOK /\ ~PushFree(p)
    BY <1>2, LinkEffect DEF Link, PushFree, At, IInv
  <2>2. db[p].idxoff \in Nat /\ Chain(p) \in Nat /\ Chain(p) \in Locks
    BY <2>1, Offsets, CallFacts
  <2>3. ASSUME NEW q \in Procs, NEW h \in Locks, q # p, pc[q] \notin {"idle", "lock"}, h = Chain(q),
               NEW x \in Members(h) \cup {h}
        PROVE  x \in Nat /\ x # db[p].idxoff /\ x # Chain(p)
    <3>1. h # Chain(p)
      <4>1. Op(p).kind # "fetch"
        BY <2>1 DEF IInv, ProcOK, CallOK, Gone_
      <4> QED
        BY <2>1, <2>3, <4>1, OwnChain DEF IInv
    <3>2. x \in Nat
      BY <2>1, MembersIn, Offsets
    <3> QED
      BY <2>1, <2>2, <2>3, <3>1, <3>2, HeldOut, MembersIn DEF InHand
  <2> QED
    <3>1. NewRanks(r, p) = Ranks(r, Chain(p), db[p].idxoff) /\ (PushFree(p) \/ Link(p))
      BY <1>2, <2>1 DEF NewRanks
    <3>2. /\ NewRanks(r, p) \in [Nat -> Nat]
          /\ \A x \in Nat : x # db[p].idxoff /\ x # Chain(p) => NewRanks(r, p)[x] = r[x]
      <4> DEFINE o == db[p].idxoff
                 a == Chain(p)
                 r2 == NewRanks(r, p)
      <4>1. o \in Nat /\ a \in Nat /\ r2 = [r EXCEPT ![o] = r[a], ![a] = r[a] + 1]
        BY <2>2, <3>1 DEF Ranks
      <4> HIDE DEF o, a, r2
      <4>2. r2 \in [Nat -> Nat] /\ \A x \in Nat : x # o /\ x # a => r2[x] = r[x]
        BY <4>1
      <4> QED
        BY <4>2 DEF o, a, r2
    <3> QED
      BY <2>3, <3>1, <3>2
<1>3. CASE ~PushFree(p) /\ ~Link(p)
  BY <1>3 DEF NewRanks
<1> QED
  BY <1>1, <1>2, <1>3

LEMMA WalkRanks ==
  ASSUME IInv, NEW p \in Procs, ProcNext(p), NEW r \in [Nat -> Nat], Ordered(r),
         NEW q \in Procs, pc'[q] = "walk", NEW h \in Locks, h = Chain(q)',
         NEW m, m \in Members(h)', ~ NewRanks(r, p)[m] < NewRanks(r, p)[db'[q].ptroff]
  PROVE  Rec(m)'.key # Op(q)'.key
<1>1. CASE q # p
  <2>1. pc[q] = "walk" /\ Chain(q) = h
    BY <1>1, StepFrame DEF IInv, All, Chain, Op
  <2>2. /\ db'[q] = db[q] /\ Op(q)' = Op(q) /\ Members(h)' = Members(h) /\ Rec(m)' = Rec(m)
    BY <1>1, <2>1, OthersChain
  <2>3. db[q].ptroff \in Members(h) \cup {h}
    BY <2>1 DEF IInv, ProcOK, WalkOK
  <2>4. NewRanks(r, p)[m] = r[m] /\ NewRanks(r, p)[db[q].ptroff] = r[db[q].ptroff]
    BY <1>1, <2>1, <2>2, <2>3, NewRanksFacts
  <2> QED
    BY <2>1, <2>2, <2>4 DEF Ordered
<1>2. CASE q = p /\ FindAndLock(p)
  <2>1. ~ (BlankIdx(p) \/ PushFree(p) \/ TakeFree(p) \/ Link(p)) /\ pc[p] = "lock"
    BY <1>2 DEF FindAndLock, BlankIdx, PushFree, TakeFree, Link, At
  <2>2. Chain(p) = h /\ db'[p].ptroff = h
    <3>1. Op(p)' = Op(p) /\ Chain(p)' = Chain(p)
      BY <1>2, <2>1, StepFrame DEF IInv, Chain, Op
    <3>2. db'[p].ptroff = Chain(p)
      BY <1>2 DEF FindAndLock, IInv, TypeOK, CallTypes, DBType, All
    <3> QED
      BY <1>2, <3>1, <3>2
  <2>3. Members(h)' = Members(h) /\ NewRanks(r, p) = r
    BY <2>1, MembersSteps, NewRanksFacts
  <2>4. r[m] < r[h]
    BY <2>3 DEF Ordered, Shaped
  <2> QED
    BY <1>2, <2>2, <2>3, <2>4
<1>3. CASE q = p /\ Walk(p)
  <2>1. ~ (BlankIdx(p) \/ PushFree(p) \/ TakeFree(p) \/ Link(p) \/ ReuseIdx(p)) /\ pc[p] = "walk"
    BY <1>3 DEF Walk, BlankIdx, PushFree, TakeFree, Link, ReuseIdx, At
  <2>2. Op(p)' = Op(p) /\ Chain(p) = h /\ db'[p].ptroff = db[p].off
    <3>1. db' = [db EXCEPT ![p].ptroff = db[p].off, ![p].off = ptr[db[p].off]]
      BY <1>3 DEF Walk
    <3>2. db \in [All -> DBType] /\ p \in All /\ db[p] \in DBType
      BY DEF IInv, TypeOK, CallTypes, All
    <3>3. db'[p].ptroff = db[p].off
      BY <3>1, <3>2 DEF DBType
    <3>4. Op(p)' = Op(p) /\ Chain(p)' = Chain(p)
      BY <1>3, <2>1, StepFrame DEF IInv, Chain, Op
    <3> QED
      BY <1>3, <3>3, <3>4
  <2>3. Members(h)' = Members(h) /\ NewRanks(r, p) = r /\ Rec(m)' = Rec(m)
    <3>1. Members(h)' = Members(h) /\ NewRanks(r, p) = r
      BY <2>1, MembersSteps, NewRanksFacts
    <3>2. m \in Records
      BY <3>1, MembersIn DEF IInv
    <3> QED
      BY <2>1, <3>1, <3>2, RecordSteps
  <2>4. ~ r[m] < r[db[p].off]
    BY <1>3, <2>2, <2>3
  <2>5. /\ db[p].ptroff \in Members(h) \cup {h} /\ ptr[db[p].ptroff] = db[p].off
        /\ db[p].off # 0 /\ Rec(db[p].off).key # Op(p).key
    BY <1>3, <2>1, <2>2 DEF IInv, ProcOK, WalkOK, Walk
  <2>6. Succ[db[p].ptroff] = db[p].off
    BY <2>1, <2>2, <2>5, ChainStill DEF Unlinking
  <2>7. Shaped(Members(h), h, r, Succ)
    BY DEF Ordered
  <2>8. /\ db[p].off \in Members(h) /\ r[db[p].off] < r[db[p].ptroff]
        /\ r[m] < r[db[p].ptroff] => ~ r[db[p].off] < r[m]
    BY <2>3, <2>5, <2>6, <2>7 DEF Shaped, NextLower
  <2>9. CASE r[m] < r[db[p].ptroff]
    <3>1. r[m] \in Nat /\ r[db[p].off] \in Nat
      BY <2>3, <2>8, MembersIn DEF IInv
    <3>2. r[m] = r[db[p].off]
      BY <2>4, <2>8, <2>9, <3>1
    <3>3. m = db[p].off
      BY <2>3, <2>7, <2>8, <3>2 DEF Shaped
    <3> QED
      BY <1>3, <2>2, <2>3, <2>5, <3>3
  <2>10. CASE ~ r[m] < r[db[p].ptroff]
    <3>1. Rec(m).key # Op(p).key
      BY <2>1, <2>2, <2>3, <2>10 DEF Ordered
    <3> QED
      BY <1>3, <2>2, <2>3, <3>1
  <2> QED
    BY <2>9, <2>10
<1>4. q = p => FindAndLock(p) \/ Walk(p)
  <2>1. Found(p) => \E n \in {"readdat", "unlock", "delete", "overwrite"} : At(p, "walk", n)
    BY FoundStep, ZenonT(30) DEF IInv
  <2>2. \A n : At(p, pc[p], n) => pc'[p] = n
    BY DEF At, IInv, TypeOK, PointTypes, All
  <2> QED
    BY <2>1, <2>2, ZenonT(30)
    DEF At, ProcNext, Call, NotFound, ReadDat, Overwrite, UnlockReturn, DeleteLock, BlankDat,
        BlankIdx, PushFree, Unlink, DeleteUnlock, FindFree, FreeWalk, TakeFree, NoFree,
        FreeUnlock, AppendDat, AppendIdx, ReuseDat, ReuseIdx, Link
<1> QED
  BY <1>1, <1>2, <1>3, <1>4

ChainsOK == \A q \in Procs : pc[q] # "idle" =>
  Op(q) \in Calls /\ Op(q).key \in Keys /\ Chain(q) \in Locks /\ Chain(q) # FREEOFF

LEMMA ChainOf == TypeOK => ChainsOK
BY CallFacts DEF ChainsOK

LEMMA ChainOfNext == TypeOK' => ChainsOK'
BY ChainOf, PTL

LEMMA ListSteps ==
  ASSUME IInv, NEW p \in Procs, ProcNext(p)
  PROVE  ListInv'
<1>1. PICK r \in [Nat -> Nat] : Ordered(r)
  BY DEF IInv, ListInv
<1> DEFINE r2 == NewRanks(r, p)
<1>2. TypeOK' /\ r2 \in [Nat -> Nat]
  BY TypeSteps, NewRanksFacts
<1>3. \A h \in Locks : Shaped(Members(h)', h, r2, Succ')
  BY <1>1, ShapeSteps DEF Ordered
<1>4. ASSUME NEW q \in Procs, pc'[q] = "walk", NEW h, h = Chain(q)',
             NEW m, m \in Members(h)', ~ r2[m] < r2[db'[q].ptroff]
      PROVE  Rec(m)'.key # Op(q)'.key
  <2>1. h \in Locks
    BY <1>2, <1>4, ChainOfNext DEF ChainsOK
  <2> QED
    BY <1>1, <1>4, <2>1, WalkRanks
<1> HIDE DEF r2
<1>5. PICK r3 \in [Nat -> Nat] : r3 = r2
  BY <1>2
<1>6. Ordered(r3)'
  BY <1>3, <1>4, <1>5 DEF Ordered
<1> QED
  BY <1>5, <1>6 DEF ListInv

-----------------------------------------------------------------------------
(* Who has a record in hand, nobody else has; and a key has one record. *)
LEMMA InHandIn ==
  ASSUME IInv, NEW q \in Procs, pc[q] \in InHand, db[q].idxoff # 0
  PROVE  db[q].idxoff \in Records
BY InRecords, SMTT(30) DEF IInv, ProcOK, TakenOK, InHand

LEMMA Unheld ==
  ASSUME IInv, NEW p \in Procs
  PROVE  /\ pc[p] \in Found_ => ~Held(db[p].idxoff)
         /\ TakeFree(p) => ~Held(db[p].off)
         /\ \A h, x : x \in Members(h) => ~Held(x)
BY TakeFreeEffect DEF IInv, ProcOK, FoundOK, Members

LEMMA HeldOnceSteps ==
  ASSUME IInv, NEW p \in Procs, ProcNext(p)
  PROVE  HeldOnce'
<1>1. ASSUME NEW a \in Procs, NEW b \in Procs, a # b, b # p, pc'[a] \in InHand, pc'[b] \in InHand,
             db'[a].idxoff = db'[b].idxoff, db'[b].idxoff # 0
      PROVE  FALSE
  <2>1. pc[b] \in InHand /\ db'[b].idxoff = db[b].idxoff /\ db[b].idxoff # 0
    BY <1>1, StepFrame DEF IInv, All
  <2>2. db[b].idxoff \in Records /\ Held(db[b].idxoff)
    BY <2>1, InHandIn DEF Held
  <2>3. CASE a # p
    BY <1>1, <2>1, <2>3, StepFrame DEF IInv, HeldOnce, All
  <2>4. CASE a = p
    <3>1. CASE BlankIdx(p)
      BY <1>1, <2>1, <2>2, <2>4, <3>1, HandOfStep, Unheld DEF BlankIdx, At, Found_
    <3>2. CASE TakeFree(p)
      BY <1>1, <2>1, <2>2, <2>4, <3>2, HandOfStep, Unheld
    <3>3. CASE PushFree(p) \/ Link(p)
      BY <1>1, <2>2, <2>4, <3>3, HandOfStep
    <3>4. CASE ~ (BlankIdx(p) \/ PushFree(p) \/ TakeFree(p) \/ Link(p))
      <4>1. pc[p] \in InHand /\ db[p].idxoff = db[b].idxoff
        BY <1>1, <2>1, <2>2, <2>4, <3>4, HandOfStep
      <4> QED
        BY <1>1, <2>1, <2>4, <4>1 DEF IInv, HeldOnce
    <3> QED
      BY <3>1, <3>2, <3>3, <3>4
  <2> QED
    BY <2>3, <2>4
<1> QED
  BY <1>1 DEF HeldOnce

LEMMA OneRecordSteps ==
  ASSUME IInv, NEW p \in Procs, ProcNext(p)
  PROVE  OneRecord'
<1>1. \A o \in Records' : ~Held(o)' => o \in Records
  <2>1. ASSUME NEW o \in Records', o \notin Records PROVE Held(o)'
    <3>1. AppendIdx(p) /\ o = db'[p].idxoff
      BY <2>1, RecordSteps
    <3>2. pc'[p] = "link"
      BY <3>1 DEF AppendIdx, At, IInv, TypeOK, PointTypes, All
    <3> QED
      BY <3>1, <3>2 DEF Held, InHand
  <2> QED
    BY <2>1
<1>2. CASE Link(p)
  <2>1. pc[p] = "link" /\ ~BlankIdx(p) /\ ~ReuseIdx(p)
    BY <1>2 DEF Link, BlankIdx, ReuseIdx, At
  <2>2. /\ Op(p).key \in Keys /\ Blank \notin Keys /\ Rec(db[p].idxoff).key = Op(p).key
        /\ \A m \in Members(Chain(p)) : Rec(m).key # Op(p).key
    BY <2>1, CallFacts, DatabaseAssumption DEF IInv, ProcOK, LinkOK, CallOK, Gone_, DatabaseAssumption
  <2>3. \A o \in Records : Rec(o)' = Rec(o) /\ (Held(o)' <=> Held(o) /\ o # db[p].idxoff)
    BY <1>2, <2>1, RecordSteps, HeldSteps
  <2>4. \A o \in Records : ~Held(o) => Rec(o).key # Op(p).key
    BY <2>2 DEF Members, Home, Chain
  <2> QED
    BY <1>1, <2>2, <2>3, <2>4 DEF IInv, OneRecord
<1>3. CASE PushFree(p)
  <2>1. pc[p] = "pushfree" /\ ~BlankIdx(p) /\ ~ReuseIdx(p)
    BY <1>3 DEF PushFree, BlankIdx, ReuseIdx, At
  <2>2. Rec(db[p].idxoff).key = Blank
    BY <2>1 DEF IInv, ProcOK, UnlinkOK
  <2>3. \A o \in Records : Rec(o)' = Rec(o) /\ (Held(o)' <=> Held(o) /\ o # db[p].idxoff)
    BY <1>3, <2>1, RecordSteps, HeldSteps
  <2> QED
    BY <1>1, <2>2, <2>3 DEF IInv, OneRecord
<1>4. CASE ~PushFree(p) /\ ~Link(p)
  <2>1. \A o \in Records : Held(o) => Held(o)'
    BY <1>4, HeldSteps
  <2>2. ASSUME NEW o \in Records, ~Held(o)' PROVE Rec(o)' = Rec(o)
    <3>1. CASE BlankIdx(p)
      BY <2>2, <3>1, HeldSteps, RecordSteps
    <3>2. CASE ReuseIdx(p)
      <4>1. pc[p] = "reuseidx"
        BY <3>2 DEF ReuseIdx, At
      <4>2. Held(db[p].idxoff)
        BY <4>1 DEF Held, InHand
      <4> QED
        BY <2>1, <2>2, <4>2, RecordSteps
    <3>3. CASE ~BlankIdx(p) /\ ~ReuseIdx(p)
      BY <3>3, RecordSteps
    <3> QED
      BY <3>1, <3>2, <3>3
  <2> QED
    BY <1>1, <2>1, <2>2 DEF IInv, OneRecord
<1> QED
  BY <1>2, <1>3, <1>4

-----------------------------------------------------------------------------
(* What the steps of one call leave of what another one works on: the      *)
(* record it has in hand, ...                                              *)
LEMMA HandStill ==
  ASSUME IInv, NEW p \in Procs, ProcNext(p), NEW q \in Procs, q # p, pc[q] \in InHand,
         NEW o \in Records, o = db[q].idxoff
  PROVE  Rec(o)' = Rec(o) /\ o \in DOMAIN ptr /\ ptr'[o] = ptr[o]
<1>1. Held(o) /\ o \in DOMAIN ptr /\ o \notin Locks /\ (\A h : o \notin Members(h)) /\ o # 0
  BY HeldOut, Offsets DEF IInv
<1>2. pc[p] \in InHand \cup Found_ => o # db[p].idxoff
  BY <1>1, Unheld DEF IInv, HeldOnce
<1>3. CASE BlankIdx(p) \/ ReuseIdx(p)
  <2>1. o # db[p].idxoff
    BY <1>2, <1>3 DEF BlankIdx, ReuseIdx, At, InHand, Found_
  <2> QED
    BY <1>1, <1>3, <2>1, RekeyEffect
<1>4. CASE PushFree(p)
  BY <1>1, <1>4, PushFreeEffect, Offsets DEF FREEOFF
<1>5. CASE Unlink(p)
  <2>1. o # db[p].ptroff
    <3>1. pc[p] = "unlink"
      BY <1>5 DEF Unlink, At
    <3>2. Chain(p) \in Locks
      BY <3>1, CallFacts, SMTT(30) DEF IInv
    <3> QED
      BY <1>1, <1>5, <3>2, UnlinkEffect
  <2> QED
    BY <1>1, <1>5, <2>1, UnlinkEffect
<1>6. CASE TakeFree(p)
  <2>1. o # db[p].ptroff
    BY <1>1, <1>6, TakeFreeEffect, Offsets DEF IInv, FREEOFF
  <2>2. /\ \A y \in DOMAIN ptr : y # db[p].ptroff => ptr'[y] = ptr[y]
        /\ \A x \in Records : Rec(x)' = Rec(x)
    BY <1>6, TakeFreeEffect
  <2> QED
    BY <1>1, <2>1, <2>2
<1>7. CASE Link(p)
  <2>1. Chain(p) \in Locks
    BY <1>7, CallFacts DEF IInv, Link, At
  <2> QED
    BY <1>1, <1>7, <2>1, LinkEffect
<1>8. CASE ~ (BlankIdx(p) \/ PushFree(p) \/ TakeFree(p) \/ Link(p) \/ ReuseIdx(p) \/ Unlink(p))
  <2>1. UNCHANGED files \/ Overwrite(p) \/ BlankDat(p) \/ ReuseDat(p) \/ AppendDat(p) \/ AppendIdx(p)
    BY <1>8, FilesRead
  <2>2. ptr'[o] = ptr[o]
    BY <1>1, <2>1, DataWritten, AppendDatEffect, AppendIdxEffect DEF files
  <2> QED
    BY <1>1, <1>8, <2>2, RecordSteps
<1> QED
  BY <1>3, <1>4, <1>5, <1>6, <1>7, <1>8

(* ... the free list it has locked, ... *)
LEMMA FreeOfHolder ==
  ASSUME IInv, NEW p \in Procs, ProcNext(p), NEW q \in Procs, q # p, pc[q] \in FreeHeld
  PROVE  /\ Members(FREEOFF)' = Members(FREEOFF)
         /\ \A m \in Members(FREEOFF) : Rec(m)' = Rec(m)
         /\ \A x \in Members(FREEOFF) \cup {FREEOFF} : ptr'[x] = ptr[x]
<1>1. /\ pc[p] \notin FreeHeld /\ FREEOFF \in Locks /\ TypeOK
      /\ FREEOFF \notin Members(FREEOFF) /\ Members(FREEOFF) \subseteq Records
      /\ \A x \in Members(FREEOFF) \cup {FREEOFF} : x \in DOMAIN ptr
  <2>1. TypeOK /\ FREEOFF \in Locks
    BY Offsets DEF IInv, FREEOFF
  <2> QED
    BY <2>1, MembersIn, Offsets DEF IInv, LockInv
<1>2. ~ (BlankIdx(p) \/ PushFree(p) \/ TakeFree(p) \/ Unlink(p))
  BY <1>1 DEF BlankIdx, PushFree, TakeFree, Unlink, At, FreeHeld
<1>3. Members(FREEOFF)' = Members(FREEOFF)
  <2>1. Link(p) => Chain(p) # FREEOFF
    BY <1>1, CallFacts DEF Link, At
  <2> QED
    BY <1>1, <1>2, <2>1, MembersSteps
<1>4. CASE ReuseIdx(p)
  <2>1. pc[p] = "reuseidx" /\ db[p].idxoff \in Records
    BY <1>4, InRecords DEF ReuseIdx, At
  <2>2. db[p].idxoff \notin Members(FREEOFF) \cup {FREEOFF}
    BY <1>1, <2>1, HeldOut DEF InHand
  <2> QED
    BY <1>1, <1>3, <1>4, <2>2, RekeyEffect
<1>5. CASE Link(p)
  <2>1. Chain(p) \in Locks /\ Chain(p) # FREEOFF
    BY <1>1, <1>5, CallFacts DEF Link, At
  <2>2. Chain(p) \notin Members(FREEOFF) \cup {FREEOFF}
    BY <1>1, <2>1, MembersIn
  <2> QED
    BY <1>1, <1>3, <1>5, <2>2, LinkEffect
<1>6. CASE ~ReuseIdx(p) /\ ~Link(p)
  <2>1. UNCHANGED files \/ Overwrite(p) \/ BlankDat(p) \/ ReuseDat(p) \/ AppendDat(p) \/ AppendIdx(p)
    BY <1>2, <1>6, FilesRead
  <2>2. \A x \in DOMAIN ptr : ptr'[x] = ptr[x]
    BY <2>1, DataWritten, AppendDatEffect, AppendIdxEffect DEF files
  <2> QED
    BY <1>1, <1>2, <1>3, <1>6, <2>2, RecordSteps
<1> QED
  BY <1>4, <1>5, <1>6

(* ... the data records, ... *)
LEMMA DatStill ==
  ASSUME IInv, NEW p \in Procs, ProcNext(p), NEW o \in Records,
         ~ (Overwrite(p) \/ BlankDat(p) \/ ReuseDat(p)) \/ o # db[p].idxoff
  PROVE  /\ Rec(o).datoff \in 1..Len(dat) /\ Rec(o)'.datoff = Rec(o).datoff
         /\ dat'[Rec(o).datoff] = dat[Rec(o).datoff]
<1>1. o - NHash \in 1..Len(rec) /\ Rec(o).datoff \in 1..Len(dat)
  BY Offsets DEF IInv, DatInv, Rec
<1>2. Rec(o)'.datoff = Rec(o).datoff
  BY RecordSteps
<1>3. CASE Overwrite(p) \/ BlankDat(p) \/ ReuseDat(p)
  <2>1. db[p].idxoff \in Records /\ db[p].datoff = Rec(db[p].idxoff).datoff
    BY <1>3, DataOf DEF Overwrite, BlankDat, ReuseDat, At, Found_
  <2>2. db[p].idxoff - NHash \in 1..Len(rec) /\ db[p].idxoff \in Nat /\ o \in Nat /\ NHash \in Nat
    BY <2>1, Offsets, DatabaseAssumption DEF IInv, DatabaseAssumption
  <2>3. Rec(o).datoff # db[p].datoff
    <3>1. o # db[p].idxoff
      BY <1>3
    <3>2. o - NHash # db[p].idxoff - NHash
      BY <2>2, <3>1
    <3> QED
      BY <1>1, <2>1, <2>2, <3>2 DEF IInv, DatInv, Rec
  <2> QED
    BY <1>1, <1>2, <1>3, <2>3, DataWritten
<1>4. CASE AppendDat(p)
  BY <1>1, <1>2, <1>4, AppendDatEffect, SMTT(30)
<1>5. CASE ~ (Overwrite(p) \/ BlankDat(p) \/ ReuseDat(p) \/ AppendDat(p))
  <2>1. dat' = dat
    BY <1>5, FilesRead, AppendIdxEffect, RekeyEffect, PushFreeEffect, UnlinkEffect, TakeFreeEffect,
       LinkEffect, ZenonT(30) DEF files
  <2> QED
    BY <1>1, <1>2, <2>1
<1> QED
  BY <1>3, <1>4, <1>5

(* ... and what the map says of its key. *)
LEMMA MapOthers ==
  ASSUME IInv, NEW p \in Procs, ProcNext(p), NEW q \in Procs, q # p, pc[q] \notin {"idle", "lock"}
  PROVE  /\ map'[Op(q).key] = map[Op(q).key]
         /\ KV!Result(map', Op(q)) = KV!Result(map, Op(q))
<1>1. map'[Op(q).key] = map[Op(q).key]
  <2>1. CASE ~UnlockReturn(p)
    BY <2>1, ZenonT(30) DEF ProcNext, Call, FindAndLock, Walk, Found, NotFound, ReadDat, Overwrite, DeleteLock,
                BlankDat, BlankIdx, PushFree, Unlink, DeleteUnlock, FindFree, FreeWalk, TakeFree,
                NoFree, FreeUnlock, AppendDat, AppendIdx, ReuseDat, ReuseIdx, Link, Frame
  <2>2. CASE UnlockReturn(p)
    <3>1. pc[p] \notin {"idle", "lock"} /\ map' = KV!After(map, Op(p)) /\ TypeOK /\ Op(q).key \in Keys
      BY <2>2, CallFacts DEF UnlockReturn, At, IInv
    <3>2. CASE Op(p).kind = "fetch"
      BY <3>1, <3>2, AfterFacts
    <3>3. CASE Op(p).kind # "fetch"
      <4>1. Op(q).key # Op(p).key
        BY <3>1, <3>3, OwnChain DEF IInv, Chain
      <4> QED
        BY <3>1, <4>1, AfterFacts
    <3> QED
      BY <3>2, <3>3
  <2> QED
    BY <2>1, <2>2, SMTT(30)
<1> QED
  BY <1>1 DEF KV!Result, KV!Missing

LEMMA ProcOKOthers ==
  ASSUME IInv, NEW p \in Procs, ProcNext(p), NEW q \in Procs, q # p
  PROVE  ProcOK(q)'
<1>1. pc'[q] = pc[q] /\ db'[q] = db[q] /\ Op(q)' = Op(q) /\ TypeOK /\ ProcOK(q)
  BY StepFrame DEF IInv, All, Op
<1>2. CASE pc[q] \in {"idle", "lock"}
  BY <1>1, <1>2
  DEF ProcOK, WalkOK, FoundOK, UnlinkOK, TakenOK, LinkOK, CallOK, Found_, Head_, Gone_
<1>3. CASE pc[q] \notin {"idle", "lock"}
  <2>0. PICK h \in Locks : h = Chain(q)
    BY <1>1, <1>3, CallFacts
  <2>1. /\ Chain(q)' = h /\ Members(h)' = Members(h)
        /\ \A m \in Members(h) : Rec(m)' = Rec(m)
        /\ \A x \in Members(h) \cup {h} : ptr'[x] = ptr[x]
    BY <1>1, <1>3, <2>0, OthersChain
  <2>7. PICK o : o = db[q].idxoff /\ o = db'[q].idxoff
    BY <1>1
  <2>2. pc[q] \in InHand /\ o # 0 =>
          /\ o \in Records /\ Rec(o)' = Rec(o) /\ ptr'[o] = ptr[o]
    BY <2>7, InHandIn, HandStill
  <2>3. pc[q] \in FreeHeld =>
          /\ Members(FREEOFF)' = Members(FREEOFF)
          /\ \A x \in Members(FREEOFF) \cup {FREEOFF} : ptr'[x] = ptr[x]
    BY FreeOfHolder
  <2>4. /\ map'[Op(q).key] = map[Op(q).key] /\ KV!Result(map', Op(q)) = KV!Result(map, Op(q))
    BY <1>3, MapOthers
  <2>5. \A x \in Records : x \in Records' /\ Rec(x)'.datlen = Rec(x).datlen
    BY RecordSteps
  <2>6. pc[q] \in InHand /\ o # 0 => dat'[Rec(o).datoff] = dat[Rec(o).datoff]
    <3>1. SUFFICES ASSUME pc[q] \in InHand, o # 0, db[p].idxoff = o,
                          Overwrite(p) \/ BlankDat(p) \/ ReuseDat(p)
                   PROVE  FALSE
      BY <2>2, DatStill
    <3>2. Held(o)
      BY <2>7, <3>1 DEF Held
    <3>3. pc[p] \in Found_ \cup InHand
      BY <3>1 DEF Overwrite, BlankDat, ReuseDat, At, Found_, InHand
    <3> QED
      BY <2>7, <3>1, <3>2, <3>3, Unheld DEF IInv, HeldOnce
  <2>8. WalkOK(q)'
    BY <1>1, <2>0, <2>1, <2>3 DEF ProcOK, WalkOK, FreeHeld
  <2>9. FoundOK(q)'
    <3>1. pc[q] \in Found_ => Rec(o)' = Rec(o) /\ ptr'[o] = ptr[o] /\ o \in Members(h)'
      BY <1>1, <2>0, <2>1, <2>7 DEF ProcOK, FoundOK
    <3> QED
      BY <1>1, <2>0, <2>1, <2>7, <3>1 DEF ProcOK, FoundOK
  <2>10. UnlinkOK(q)'
    <3>1. pc[q] = "pushfree" => /\ o \in Records' /\ Rec(o)' = Rec(o) /\ ptr'[o] = ptr[o]
                                /\ ptr'[FREEOFF] = ptr[FREEOFF]
      BY <1>1, <2>2, <2>3, <2>5, <2>7, Offsets DEF ProcOK, UnlinkOK, InHand, FreeHeld
    <3> QED
      BY <1>1, <2>0, <2>1, <2>7, <3>1 DEF ProcOK, UnlinkOK
  <2>11. TakenOK(q)'
    <3>1. pc[q] \in {"freedone", "reusedat", "reuseidx"} /\ o # 0 =>
            /\ o \in Records' /\ Rec(o)'.key = Blank /\ Fits(q, Rec(o))'
            /\ db[q].datoff = Rec(o)'.datoff
      BY <1>1, <2>2, <2>5, <2>7 DEF ProcOK, TakenOK, InHand, Fits
    <3>2. pc[q] = "reuseidx" => dat'[db[q].datoff] = Op(q).val
      BY <1>1, <2>6, <2>7 DEF ProcOK, TakenOK, InHand
    <3> QED
      BY <1>1, <2>7, <3>1, <3>2 DEF ProcOK, TakenOK
  <2>12. LinkOK(q)'
    <3>1. pc[q] = "link" =>
            /\ o \in Records' /\ Rec(o)'.key = Op(q).key /\ ptr'[o] = ptr'[h]
            /\ dat'[Rec(o)'.datoff] = Op(q).val /\ Rec(o)'.datlen = VLen[Op(q).val]
      BY <1>1, <2>0, <2>1, <2>2, <2>5, <2>6, <2>7, Offsets DEF ProcOK, LinkOK, InHand
    <3> QED
      BY <1>1, <2>0, <2>1, <2>7, <3>1 DEF ProcOK, LinkOK
  <2>13. CallOK(q)'
    <3>1. pc[q] = "overwrite" => Rec(o)'.datlen = Rec(o).datlen
      BY <2>5, <2>7, InRecords DEF Found_
    <3>2. pc[q] \in Gone_ => \A m \in Members(h)' : Rec(m)'.key # Op(q).key
      BY <1>1, <2>0, <2>1 DEF ProcOK, CallOK
    <3> QED
      BY <1>1, <2>0, <2>1, <2>4, <2>7, <3>1, <3>2 DEF ProcOK, CallOK
  <2> QED
    BY <2>8, <2>9, <2>10, <2>11, <2>12, <2>13 DEF ProcOK
<1> QED
  BY <1>2, <1>3

-----------------------------------------------------------------------------
(* What the map says of the key of a call that has changed nothing yet. *)
LEMMA OwnValue ==
  ASSUME IInv, NEW p \in Procs, pc[p] \notin {"idle", "lock", "unlock", "blankidx"}, pc[p] \notin Gone_
  PROVE  /\ map[Op(p).key] # None => \E m \in Members(Chain(p)) : Rec(m).key = Op(p).key
         /\ \A m \in Members(Chain(p)) : Rec(m).key = Op(p).key =>
              /\ map[Op(p).key] # None /\ dat[Rec(m).datoff] = map[Op(p).key]
              /\ Rec(m).datlen = VLen[map[Op(p).key]]
<1> DEFINE k == Op(p).key
           h == Chain(p)
<1>1. k \in Keys /\ Hash[k] = h /\ h \in Locks /\ None \notin Procs /\ TypeOK /\ LockInv
  BY CallFacts, DatabaseAssumption DEF IInv, DatabaseAssumption
<1>2. writer[h] = p \/ writer[h] = None
  BY <1>1 DEF LockInv
<1>3. ~Busy(k) /\ Value(k) = map[k]
  BY <1>1, <1>2 DEF Busy, Value
<1>4. Agrees(k)
  BY <1>1, <1>3 DEF IInv, MapInv
<1> QED
  BY <1>1, <1>3, <1>4 DEF Agrees

LEMMA SelfFrame ==
  ASSUME IInv, NEW p \in Procs, ProcNext(p), pc[p] # "idle", pc'[p] # "idle"
  PROVE  /\ Op(p)' = Op(p) /\ Chain(p)' = Chain(p) /\ Chain(p) \in Locks /\ Chain(p) # FREEOFF
         /\ map' = map /\ ~UnlockReturn(p)
<1>1. ~UnlockReturn(p) /\ \A o \in Ops[p] : ~Call(p, o)
  BY SMTT(30) DEF UnlockReturn, Call, At, IInv, TypeOK, PointTypes, All
<1>2. map' = map
  BY <1>1 DEF ProcNext, FindAndLock, Walk, Found, NotFound, ReadDat, Overwrite, DeleteLock,
              BlankDat, BlankIdx, PushFree, Unlink, DeleteUnlock, FindFree, FreeWalk, TakeFree,
              NoFree, FreeUnlock, AppendDat, AppendIdx, ReuseDat, ReuseIdx, Link, Frame
<1> QED
  BY <1>1, <1>2, StepFrame, CallFacts DEF IInv, Op, Chain

(* Steps that write no list: the point the call goes to, and the DB        *)
(* structure it then has.                                                  *)
LEMMA StepNow ==
  ASSUME TypeOK, NEW p \in Procs
  PROVE  /\ \A a, n : At(p, a, n) => pc[p] = a /\ pc'[p] = n
         /\ db \in [All -> DBType] /\ p \in All /\ db[p] \in DBType
BY DEF TypeOK, PointTypes, CallTypes, At, All

LEMMA NoRecord ==
  ASSUME IInv, NEW p \in Procs, pc[p] = "walk", db[p].off = 0, NEW h \in Locks, h = Chain(p)
  PROVE  \A m \in Members(h) : Rec(m).key # Op(p).key
<1>1. PICK r \in [Nat -> Nat] : Ordered(r)
  BY DEF IInv, ListInv
<1>2. db[p].ptroff \in Members(h) \cup {h} /\ ptr[db[p].ptroff] = 0
  BY DEF IInv, ProcOK, WalkOK
<1>3. Succ[db[p].ptroff] = 0 /\ 0 \notin Members(h)
  BY <1>2, ChainStill, MembersIn DEF Unlinking, IInv
<1>4. \A m \in Members(h) : ~ r[m] < r[db[p].ptroff]
  BY <1>1, <1>2, <1>3 DEF Ordered, Shaped, NextLower
<1> QED
  BY <1>1, <1>4 DEF Ordered

LEMMA SelfLock ==
  ASSUME IInv, NEW p \in Procs, FindAndLock(p)
  PROVE  ProcOK(p)'
<1>1. pc[p] = "lock" /\ pc'[p] = "walk" /\ ProcNext(p) /\ UNCHANGED files
      /\ db[p].idxoff = 0
  BY StepNow DEF IInv, FindAndLock, ProcNext, ProcOK, TakenOK, At
<1>2. PICK h \in Locks : h = Chain(p) /\ h = Chain(p)'
  BY <1>1, SelfFrame
<1>3. db' = [db EXCEPT ![p] = [db[p] EXCEPT !.ptroff = h, !.off = ptr[h]]]
  BY <1>2 DEF FindAndLock
<1>4. db'[p].ptroff = h /\ db'[p].off = ptr[h] /\ db'[p].idxoff = 0
  BY <1>1, <1>3, StepNow DEF IInv, DBType
<1> QED
  BY <1>1, <1>2, <1>4
  DEF ProcOK, WalkOK, FoundOK, UnlinkOK, TakenOK, LinkOK, CallOK, Found_, Head_, Gone_, files

LEMMA SelfWalk ==
  ASSUME IInv, NEW p \in Procs, Walk(p)
  PROVE  ProcOK(p)'
<1>1. /\ pc[p] = "walk" /\ pc'[p] = "walk" /\ ProcNext(p) /\ UNCHANGED files
      /\ db[p].idxoff = 0 /\ db[p].off # 0
  BY DEF IInv, Walk, ProcNext, ProcOK, TakenOK
<1>2. PICK h \in Locks : h = Chain(p) /\ h = Chain(p)'
  BY <1>1, SelfFrame
<1>3. db' = [db EXCEPT ![p] = [db[p] EXCEPT !.ptroff = db[p].off, !.off = ptr[db[p].off]]]
  BY DEF Walk
<1>4. db'[p].ptroff = db[p].off /\ db'[p].off = ptr[db[p].off] /\ db'[p].idxoff = 0
  BY <1>1, <1>3, StepNow DEF IInv, DBType
<1>5. db[p].off \in Members(h) /\ Members(h)' = Members(h)
  <2>1. ~ (BlankIdx(p) \/ PushFree(p) \/ TakeFree(p) \/ Link(p))
    BY <1>1 DEF BlankIdx, PushFree, TakeFree, Link, At
  <2> QED
    BY <1>1, <1>2, <2>1, WalkLeads, MembersSteps
<1> QED
  BY <1>1, <1>2, <1>4, <1>5
  DEF ProcOK, WalkOK, FoundOK, UnlinkOK, TakenOK, LinkOK, CallOK, Found_, Head_, Gone_, files

LEMMA SelfFound ==
  ASSUME IInv, NEW p \in Procs, Found(p)
  PROVE  ProcOK(p)'
<1>1. PICK n \in {"readdat", "unlock", "delete", "overwrite"} :
        /\ At(p, "walk", n)
        /\ db' = [db EXCEPT ![p].idxoff = db[p].off, ![p].datoff = Rec(db[p].off).datoff,
                            ![p].ptrval = ptr[db[p].off],
                            ![p].res = IF n = "unlock" THEN 1 ELSE None]
        /\ n = "readdat" <=> Op(p).kind = "fetch"
        /\ n = "unlock" <=> Op(p).kind = "store" /\ Op(p).flag = "insert"
        /\ n = "overwrite" => /\ Op(p).kind = "store" /\ Op(p).flag # "insert"
                              /\ VLen[Op(p).val] = Rec(db[p].off).datlen
        /\ n = "delete" => \/ Op(p).kind = "delete"
                           \/ Op(p).kind = "store" /\ Op(p).flag # "insert"
  BY FoundStep, ZenonT(30) DEF IInv
<1>2. /\ pc[p] = "walk" /\ pc'[p] = n /\ ProcNext(p) /\ UNCHANGED files
      /\ db[p].off # 0 /\ Rec(db[p].off).key = Op(p).key
  BY <1>1, StepNow DEF IInv, Found, ProcNext, files
<1>3. PICK h \in Locks : h = Chain(p) /\ h = Chain(p)'
  BY <1>1, <1>2, SelfFrame
<1>4. PICK o : o = db[p].off
  OBVIOUS
<1>5. o \in Members(h) /\ Members(h)' = Members(h)
  <2>1. ~ (BlankIdx(p) \/ PushFree(p) \/ TakeFree(p) \/ Link(p))
    BY <1>2 DEF BlankIdx, PushFree, TakeFree, Link, At
  <2> QED
    BY <1>2, <1>3, <1>4, <2>1, WalkLeads, MembersSteps
<1>6. /\ db'[p].idxoff = o /\ db'[p].datoff = Rec(o).datoff /\ db'[p].ptrval = ptr[o]
      /\ db'[p].res = (IF n = "unlock" THEN 1 ELSE None) /\ db'[p].ptroff = db[p].ptroff
  <2>1. db' = [db EXCEPT ![p] = [db[p] EXCEPT !.idxoff = o, !.datoff = Rec(o).datoff,
                 !.ptrval = ptr[o], !.res = IF n = "unlock" THEN 1 ELSE None]]
    BY <1>1, <1>4
  <2> QED
    BY <2>1, StepNow DEF IInv, DBType
<1>7. Op(p)' = Op(p) /\ map' = map
  BY <1>1, <1>2, SelfFrame
<1>8. Rec(o)' = Rec(o) /\ ptr' = ptr
  BY <1>2 DEF files, Rec
<1>9. db[p].ptroff \in Members(h) \cup {h} /\ ptr[db[p].ptroff] = o
  BY <1>2, <1>3, <1>4 DEF IInv, ProcOK, WalkOK
<1>10. map[Op(p).key] # None
  <2>1. pc[p] \notin {"idle", "lock", "unlock", "blankidx"} /\ pc[p] \notin Gone_
    BY <1>2 DEF Gone_, Head_
  <2>2. \A m \in Members(h) : Rec(m).key = Op(p).key => map[Op(p).key] # None
    BY <1>3, <2>1, OwnValue
  <2> QED
    BY <1>2, <1>4, <1>5, <2>2
<1>11. FoundOK(p)'
  BY <1>2, <1>3, <1>4, <1>5, <1>6, <1>7, <1>8, <1>9 DEF FoundOK
<1>12. CallOK(p)'
  <2>1. n = "unlock" => KV!Result(map, Op(p)) = 1
    BY <1>1, <1>2, <1>10, AfterFacts DEF IInv
  <2>2. n \in {"overwrite", "delete"} => KV!Result(map, Op(p)) = 0 /\ Op(p).kind # "fetch"
    <3>1. Op(p).kind = "store" => Op(p).flag \in {"insert", "replace", "store"}
      BY <1>2, CallFacts DEF IInv
    <3> QED
      BY <1>1, <1>2, <1>10, <3>1, AfterFacts DEF IInv
  <2> QED
    BY <1>1, <1>2, <1>4, <1>6, <1>7, <1>8, <2>1, <2>2 DEF CallOK, Gone_, Head_
<1>13. WalkOK(p)' /\ UnlinkOK(p)' /\ TakenOK(p)' /\ LinkOK(p)'
  BY <1>2 DEF WalkOK, UnlinkOK, TakenOK, LinkOK, Head_
<1> QED
  BY <1>11, <1>12, <1>13, SMTT(30) DEF ProcOK

(* The steps that write no list leave all lists as they are. *)
LEMMA ListsRead ==
  ASSUME IInv, NEW p \in Procs, ProcNext(p), NEW h \in Locks, UNCHANGED <<ptr, rec>>
  PROVE  /\ Records' = Records /\ \A o \in Records : Rec(o)' = Rec(o)
         /\ ~ (BlankIdx(p) \/ PushFree(p) \/ TakeFree(p) \/ Link(p)) => Members(h)' = Members(h)
BY MembersSteps DEF Records, Rec

LEMMA SelfNotFound ==
  ASSUME IInv, NEW p \in Procs, NotFound(p)
  PROVE  ProcOK(p)'
<1> DEFINE inserts == Op(p).kind = "store" /\ Op(p).flag # "replace"
           res == IF Op(p).kind = "fetch" THEN None ELSE -1
<1>1. /\ pc[p] = "walk" /\ pc'[p] = (IF inserts THEN "findfree" ELSE "unlock")
      /\ ProcNext(p) /\ UNCHANGED files /\ db[p].off = 0 /\ db[p].idxoff = 0
  BY StepNow DEF IInv, NotFound, ProcNext, ProcOK, TakenOK
<1>2. PICK h \in Locks : h = Chain(p) /\ h = Chain(p)'
  BY <1>1, SelfFrame
<1>3. Op(p)' = Op(p) /\ map' = map
  BY <1>1, SelfFrame
<1>4. /\ db'[p].idxoff = 0 /\ db'[p].ptrval = ptr[h] /\ db'[p].res = res
  <2>1. db' = [db EXCEPT ![p] = [db[p] EXCEPT !.ptrval = ptr[h], !.res = res]]
    BY <1>2 DEF NotFound
  <2> QED
    BY <1>1, <2>1, StepNow DEF IInv, DBType
<1>5. Members(h)' = Members(h) /\ \A m \in Members(h) : Rec(m)' = Rec(m)
  <2>1. ~ (BlankIdx(p) \/ PushFree(p) \/ TakeFree(p) \/ Link(p))
    BY <1>1 DEF BlankIdx, PushFree, TakeFree, Link, At
  <2> QED
    BY <1>1, <2>1, ListsRead, MembersIn DEF files, IInv
<1>6. \A m \in Members(h) : Rec(m).key # Op(p).key
  BY <1>1, <1>2, NoRecord
<1>7. map[Op(p).key] = None
  BY <1>1, <1>2, <1>6, OwnValue DEF Gone_, Head_
<1>8. CallOK(p)'
  <2>0. /\ Op(p).kind \in {"fetch", "delete", "store"}
        /\ Op(p).kind = "store" => Op(p).flag \in {"insert", "replace", "store"}
    BY <1>1, CallFacts DEF IInv
  <2>1. ~inserts => KV!Result(map, Op(p)) = res
    BY <1>1, <1>7, <2>0, AfterFacts DEF IInv
  <2>2. inserts => KV!Result(map, Op(p)) = 0
    BY <1>1, <1>7, <2>0, AfterFacts DEF IInv
  <2>3. \A m \in Members(h)' : Rec(m)'.key # Op(p)'.key
    BY <1>3, <1>5, <1>6
  <2> HIDE DEF res
  <2> QED
    BY <1>1, <1>2, <1>3, <1>4, <2>1, <2>2, <2>3 DEF CallOK, Gone_, Head_
<1>9. LinkOK(p)' /\ TakenOK(p)'
  BY <1>1, <1>2, <1>4 DEF LinkOK, TakenOK, files
<1>10. WalkOK(p)' /\ UnlinkOK(p)' /\ FoundOK(p)'
  BY <1>1 DEF WalkOK, UnlinkOK, FoundOK, Found_
<1> QED
  BY <1>8, <1>9, <1>10 DEF ProcOK

LEMMA SelfReadDat ==
  ASSUME IInv, NEW p \in Procs, ReadDat(p)
  PROVE  ProcOK(p)'
<1>1. /\ pc[p] = "readdat" /\ pc'[p] = "unlock" /\ ProcNext(p)
  BY StepNow DEF IInv, ReadDat, ProcNext
<1>2. Op(p)' = Op(p) /\ map' = map
  BY <1>1, SelfFrame
<1>3. db'[p].res = dat[db[p].datoff]
  <2>1. db' = [db EXCEPT ![p] = [db[p] EXCEPT !.res = dat[db[p].datoff]]]
    BY DEF ReadDat
  <2> QED
    BY <2>1, StepNow DEF IInv, DBType
<1>4. /\ db[p].idxoff \in Members(Chain(p)) /\ Rec(db[p].idxoff).key = Op(p).key
      /\ db[p].datoff = Rec(db[p].idxoff).datoff /\ Op(p).kind = "fetch"
  BY <1>1 DEF IInv, ProcOK, FoundOK, CallOK, Found_
<1>5. dat[db[p].datoff] = map[Op(p).key]
  BY <1>1, <1>4, OwnValue DEF Gone_, Head_
<1>6. KV!Result(map, Op(p)) = map[Op(p).key]
  BY <1>1, <1>4, AfterFacts DEF IInv
<1> QED
  BY <1>1, <1>2, <1>3, <1>5, <1>6
  DEF ProcOK, WalkOK, FoundOK, UnlinkOK, TakenOK, LinkOK, CallOK, Found_, Head_, Gone_

(* The steps that end what a call does: it returns 0. *)
LEMMA SelfDone ==
  ASSUME IInv, NEW p \in Procs,
         Overwrite(p) \/ Link(p) \/ (DeleteUnlock(p) /\ Op(p).kind = "delete")
  PROVE  ProcOK(p)'
<1>1. /\ pc[p] \in {"overwrite", "link", "deleted"} /\ pc'[p] = "unlock" /\ ProcNext(p)
  BY StepNow DEF IInv, Overwrite, Link, DeleteUnlock, ProcNext
<1>2. Op(p)' = Op(p) /\ map' = map
  BY <1>1, SelfFrame
<1>3. db'[p].res = 0
  <2>1. CASE Overwrite(p) \/ Link(p)
    <3>1. db' = [db EXCEPT ![p] = [db[p] EXCEPT !.res = 0]]
      BY <2>1 DEF Overwrite, Link
    <3> QED
      BY <3>1, StepNow DEF IInv, DBType
  <2>2. CASE DeleteUnlock(p)
    <3>1. db' = [db EXCEPT ![p] = [db[p] EXCEPT !.ptrval = ptr[Chain(p)], !.res = 0]]
      BY <2>2 DEF DeleteUnlock
    <3> QED
      BY <3>1, StepNow DEF IInv, DBType
  <2> QED
    BY <2>1, <2>2
<1>4. KV!Result(map, Op(p)) = 0
  BY <1>1 DEF IInv, ProcOK, CallOK, Gone_
<1> QED
  BY <1>1, <1>2, <1>3, <1>4
  DEF ProcOK, WalkOK, FoundOK, UnlinkOK, TakenOK, LinkOK, CallOK, Found_, Head_, Gone_

(* The steps of a delete. *)
LEMMA SelfDelete ==
  ASSUME IInv, NEW p \in Procs, DeleteLock(p) \/ BlankDat(p)
  PROVE  ProcOK(p)'
<1>1. /\ pc[p] \in {"delete", "blankdat"} /\ pc'[p] \in {"blankdat", "blankidx"} /\ ProcNext(p)
      /\ UNCHANGED <<ptr, rec, db>>
  BY StepNow DEF IInv, DeleteLock, BlankDat, ProcNext, files
<1>2. PICK h \in Locks : h = Chain(p) /\ h = Chain(p)'
  BY <1>1, SelfFrame
<1>3. Op(p)' = Op(p) /\ map' = map
  BY <1>1, SelfFrame
<1>4. Members(h)' = Members(h) /\ \A m \in Members(h) : Rec(m)' = Rec(m)
  <2>1. ~ (BlankIdx(p) \/ PushFree(p) \/ TakeFree(p) \/ Link(p))
    BY <1>1, StepNow DEF BlankIdx, PushFree, TakeFree, Link, At, IInv
  <2> QED
    BY <1>1, <2>1, ListsRead, MembersIn DEF IInv
<1>5. PICK o : o = db[p].idxoff /\ o = db'[p].idxoff
  BY <1>1
<1>6. FoundOK(p)'
  <2>1. FoundOK(p) /\ pc[p] \in Found_ /\ o \in Members(h) /\ Rec(o)' = Rec(o)
    BY <1>1, <1>2, <1>4, <1>5 DEF IInv, ProcOK, FoundOK, Found_
  <2> QED
    BY <1>1, <1>2, <1>3, <1>4, <1>5, <2>1 DEF FoundOK
<1>7. CallOK(p)'
  BY <1>1, <1>3 DEF IInv, ProcOK, CallOK, Gone_, Head_
<1> QED
  BY <1>1, <1>6, <1>7 DEF ProcOK, WalkOK, UnlinkOK, TakenOK, LinkOK, Head_

LEMMA SelfBlankIdx ==
  ASSUME IInv, NEW p \in Procs, BlankIdx(p)
  PROVE  ProcOK(p)'
<1>1. /\ pc[p] = "blankidx" /\ pc'[p] = "pushfree" /\ ProcNext(p) /\ db' = db
  BY StepNow DEF IInv, BlankIdx, ProcNext
<1>2. PICK h \in Locks : h = Chain(p) /\ h = Chain(p)' /\ h # FREEOFF
  BY <1>1, SelfFrame
<1>3. Op(p)' = Op(p) /\ map' = map
  BY <1>1, SelfFrame
<1>4. PICK o : o = db[p].idxoff /\ o = db'[p].idxoff
  BY <1>1
<1>5. PICK x : x = db[p].ptroff /\ x = db'[p].ptroff
  BY <1>1
<1>6. /\ x \in Members(h) \cup {h} /\ ptr[x] = o /\ o \in Members(h) /\ Rec(o).key = Op(p).key
      /\ Op(p).kind # "fetch" /\ KV!Result(map, Op(p)) = 0
  BY <1>1, <1>2, <1>4, <1>5 DEF IInv, ProcOK, FoundOK, CallOK, Found_
<1>7. x # o
  <2>1. PICK r \in [Nat -> Nat] : Ordered(r)
    BY DEF IInv, ListInv
  <2>2. Succ[x] = o /\ 0 \notin Members(h)
    BY <1>1, <1>2, <1>6, ChainStill, MembersIn DEF Unlinking, IInv
  <2>3. r[o] < r[x] /\ r[o] \in Nat
    BY <1>6, <2>1, <2>2, MembersIn DEF Ordered, Shaped, NextLower, IInv
  <2> QED
    BY <2>3
<1>8. Members(h)' = Members(h) \ {o}
  BY <1>1, <1>4, MembersSteps
<1>9. /\ o \in Records' /\ Rec(o)'.key = Blank /\ ptr'[o] = ptr[FREEOFF] /\ ptr'[FREEOFF] = ptr[FREEOFF]
  <2>1. o \in Records /\ FREEOFF \in DOMAIN ptr /\ FREEOFF # o
    BY <1>6, MembersIn, Offsets DEF IInv, FREEOFF
  <2>2. Rec(db[p].idxoff)'.key = Blank
    BY RekeyEffect
  <2>3. Rec(o)'.key = Blank
    BY <1>4, <2>2 DEF Rec
  <2> QED
    BY <1>4, <2>1, <2>3, RekeyEffect
<1>10. ASSUME NEW m \in Members(h) \ {o} PROVE Rec(m)'.key # Op(p).key
  <2>1. /\ m \in Records /\ o \in Records /\ ~Held(m) /\ ~Held(o) /\ Op(p).key # Blank
    BY <1>1, <1>6, CallFacts, DatabaseAssumption DEF Members, IInv, DatabaseAssumption
  <2>2. Rec(m)' = Rec(m)
    BY <1>1, <1>4, <1>10, <2>1, RecordSteps
  <2> QED
    BY <1>6, <1>10, <2>1, <2>2 DEF IInv, OneRecord
<1>11. UnlinkOK(p)'
  BY <1>1, <1>2, <1>4, <1>5, <1>6, <1>7, <1>8, <1>9 DEF UnlinkOK
<1>12. CallOK(p)'
  BY <1>1, <1>2, <1>3, <1>6, <1>8, <1>10 DEF CallOK, Gone_, Head_
<1> QED
  BY <1>1, <1>11, <1>12 DEF ProcOK, WalkOK, FoundOK, TakenOK, LinkOK, Head_, Found_

LEMMA SelfUnlink ==
  ASSUME IInv, NEW p \in Procs, PushFree(p) \/ Unlink(p)
  PROVE  ProcOK(p)'
<1>1. /\ ProcNext(p) /\ db' = db
      /\ PushFree(p) => pc[p] = "pushfree" /\ pc'[p] = "unlink"
      /\ Unlink(p) => pc[p] = "unlink" /\ pc'[p] = "deleted"
  BY StepNow DEF IInv, PushFree, Unlink, ProcNext
<1>2. PICK h \in Locks : h = Chain(p) /\ h = Chain(p)' /\ h # FREEOFF
  BY <1>1, SelfFrame
<1>3. Op(p)' = Op(p) /\ map' = map
  BY <1>1, SelfFrame
<1>4. Members(h)' = Members(h) /\ \A m \in Members(h) : Rec(m)' = Rec(m)
  <2>1. ~ (BlankIdx(p) \/ TakeFree(p) \/ Link(p) \/ ReuseIdx(p)) /\ (Unlink(p) => ~PushFree(p))
    BY <1>1 DEF BlankIdx, TakeFree, Link, ReuseIdx, At, PushFree, Unlink
  <2> QED
    BY <1>1, <1>2, <2>1, MembersSteps, RecordSteps, MembersIn DEF IInv
<1>5. CallOK(p)'
  <2>1. /\ Op(p).kind # "fetch" /\ KV!Result(map, Op(p)) = 0
        /\ \A m \in Members(h) : Rec(m).key # Op(p).key
    BY <1>1, <1>2 DEF IInv, ProcOK, CallOK, Gone_
  <2> QED
    BY <1>1, <1>2, <1>3, <1>4, <2>1 DEF CallOK, Gone_, Head_
<1>6. UnlinkOK(p)'
  BY <1>1, <1>2, <1>4 DEF UnlinkOK, IInv, ProcOK
<1> QED
  BY <1>1, <1>5, <1>6 DEF ProcOK, WalkOK, FoundOK, TakenOK, LinkOK, Head_, Found_

(* The steps of a store that inserts: its key stays absent from its chain, *)
(* which only the last of them changes.                                    *)
LEMMA SelfHead ==
  ASSUME IInv, NEW p \in Procs, ProcNext(p), pc[p] \in Gone_, pc'[p] \in Head_ \cup {"link"},
         Op(p).kind = "store"
  PROVE  /\ CallOK(p)'
         /\ \A h \in Locks : h = Chain(p) => /\ Chain(p)' = h /\ Op(p)' = Op(p) /\ ptr'[h] = ptr[h]
                                             /\ pc[p] \in Head_ => db[p].ptrval = ptr[h]
<1>1. PICK h \in Locks : h = Chain(p) /\ h = Chain(p)' /\ h # FREEOFF /\ Op(p)' = Op(p) /\ map' = map
  BY SelfFrame DEF Head_, Gone_
<1>2. ~ (BlankIdx(p) \/ PushFree(p) \/ Link(p) \/ Unlink(p))
  BY StepNow DEF BlankIdx, PushFree, Link, Unlink, Head_, IInv
<1>3. Members(h)' = Members(h) /\ ptr'[h] = ptr[h] /\ \A m \in Members(h) : Rec(m)' = Rec(m)
  <2>1. CASE TakeFree(p)
    <3>1. db[p].off \notin Members(h) /\ db[p].ptroff # h
      <4>1. db[p].off \in Members(FREEOFF) /\ db[p].ptroff \in Members(FREEOFF) \cup {FREEOFF}
        BY <2>1, TakeFreeEffect
      <4>2. h \notin Members(FREEOFF) /\ Members(FREEOFF) \cap Members(h) = {}
        BY <1>1, MembersIn DEF IInv
      <4> QED
        BY <1>1, <4>1, <4>2, SMTT(30)
    <3>2. h \in DOMAIN ptr /\ Members(h) \subseteq Records
      BY MembersIn, Offsets DEF IInv
    <3>3. Members(h)' = Members(h)
      BY <2>1, <3>1, MembersSteps, SMTT(30)
    <3>4. ptr'[h] = ptr[h] /\ \A m \in Members(h) : Rec(m)' = Rec(m)
      BY <2>1, <3>1, <3>2, TakeFreeEffect
    <3> QED
      BY <3>3, <3>4
  <2>2. CASE ReuseIdx(p)
    <3>1. pc[p] = "reuseidx" /\ db[p].idxoff \in Records
      BY <2>2, InRecords DEF ReuseIdx, At
    <3>2. db[p].idxoff \notin Members(h) \cup {h}
      BY <1>1, <3>1, HeldOut DEF InHand
    <3>3. h \in DOMAIN ptr /\ Members(h) \subseteq Records /\ ~TakeFree(p)
      BY <1>1, <3>1, MembersIn, Offsets DEF IInv, TakeFree, At
    <3> QED
      BY <1>2, <2>2, <3>2, <3>3, RekeyEffect, MembersSteps
  <2>3. CASE ~TakeFree(p) /\ ~ReuseIdx(p)
    <3>1. UNCHANGED files \/ Overwrite(p) \/ BlankDat(p) \/ ReuseDat(p) \/ AppendDat(p) \/ AppendIdx(p)
      BY <1>2, <2>3, FilesRead
    <3>2. h \in DOMAIN ptr /\ Members(h) \subseteq Records
      BY <1>1, MembersIn, Offsets DEF IInv
    <3>3. ptr'[h] = ptr[h]
      BY <3>1, <3>2, DataWritten, AppendDatEffect, AppendIdxEffect DEF files
    <3> QED
      BY <1>2, <2>3, <3>2, <3>3, MembersSteps, RecordSteps
  <2> QED
    BY <2>1, <2>2, <2>3
<1>4. CallOK(p)'
  <2>1. KV!Result(map, Op(p)) = 0 /\ \A m \in Members(h) : Rec(m).key # Op(p).key
    BY <1>1 DEF IInv, ProcOK, CallOK
  <2> QED
    BY <1>1, <1>3, <2>1 DEF CallOK, Gone_, Head_
<1>5. pc[p] \in Head_ => db[p].ptrval = ptr[h]
  BY <1>1 DEF IInv, ProcOK, LinkOK
<1> QED
  BY <1>1, <1>3, <1>4, <1>5

LEMMA SelfReplace ==
  ASSUME IInv, NEW p \in Procs, DeleteUnlock(p), Op(p).kind # "delete"
  PROVE  ProcOK(p)'
<1>1. pc[p] = "deleted" /\ pc'[p] = "appenddat" /\ ProcNext(p) /\ UNCHANGED files
  BY StepNow DEF IInv, DeleteUnlock, ProcNext
<1>2. Op(p).kind = "store"
  BY <1>1, CallFacts DEF IInv, ProcOK, CallOK, Gone_
<1>3. db'[p].ptrval = ptr[Chain(p)]
  <2>1. db' = [db EXCEPT ![p] = [db[p] EXCEPT !.ptrval = ptr[Chain(p)], !.res = 0]]
    BY DEF DeleteUnlock
  <2> QED
    BY <2>1, StepNow DEF IInv, DBType
<1>4. CallOK(p)' /\ Chain(p)' = Chain(p)
  BY <1>1, <1>2, SelfHead, CallFacts DEF Gone_, Head_, IInv
<1> QED
  BY <1>1, <1>3, <1>4
  DEF ProcOK, WalkOK, FoundOK, UnlinkOK, TakenOK, LinkOK, Found_, Head_, files

LEMMA SelfFindFree ==
  ASSUME IInv, NEW p \in Procs, FindFree(p) \/ FreeWalk(p)
  PROVE  ProcOK(p)'
<1>1. pc[p] \in {"findfree", "freewalk"} /\ pc'[p] = "freewalk" /\ ProcNext(p) /\ UNCHANGED files
  BY StepNow DEF IInv, FindFree, FreeWalk, ProcNext
<1>2. Op(p).kind = "store" /\ db[p].idxoff = 0
  BY <1>1 DEF IInv, ProcOK, CallOK, TakenOK, Head_
<1>3. PICK x : x = (IF FindFree(p) THEN FREEOFF ELSE db[p].off)
  OBVIOUS
<1>4. x \in Members(FREEOFF) \cup {FREEOFF}
  <2>1. FindFree(p) \/ (pc[p] = "freewalk" /\ db[p].off # 0)
    BY DEF FreeWalk
  <2> QED
    BY <1>3, <2>1, WalkLeads
<1>5. db'[p].ptroff = x /\ db'[p].off = ptr[x] /\ db'[p].idxoff = 0 /\ db'[p].ptrval = db[p].ptrval
  <2>1. db' = [db EXCEPT ![p] = [db[p] EXCEPT !.ptroff = x, !.off = ptr[x]]]
    <3>1. FindFree(p) => db' = [db EXCEPT ![p].ptroff = FREEOFF, ![p].off = ptr[FREEOFF]]
      BY DEF FindFree
    <3>2. ~FindFree(p) => db' = [db EXCEPT ![p].ptroff = db[p].off, ![p].off = ptr[db[p].off]]
      BY DEF FreeWalk
    <3> QED
      BY <1>3, <3>1, <3>2
  <2> QED
    BY <1>2, <2>1, StepNow DEF IInv, DBType
<1>6. Members(FREEOFF)' = Members(FREEOFF) /\ ptr' = ptr
  <2>1. ~ (BlankIdx(p) \/ PushFree(p) \/ TakeFree(p) \/ Link(p))
    BY <1>1, StepNow DEF BlankIdx, PushFree, TakeFree, Link, IInv
  <2> QED
    BY <1>1, <2>1, ListsRead, Offsets DEF files, IInv, FREEOFF
<1>7. CallOK(p)' /\ Chain(p)' = Chain(p) /\ db[p].ptrval = ptr[Chain(p)]
  BY <1>1, <1>2, SelfHead, CallFacts DEF Gone_, Head_, IInv
<1> QED
  BY <1>1, <1>4, <1>5, <1>6, <1>7
  DEF ProcOK, WalkOK, FoundOK, UnlinkOK, TakenOK, LinkOK, Found_, Head_

LEMMA SelfTakeFree ==
  ASSUME IInv, NEW p \in Procs, TakeFree(p)
  PROVE  ProcOK(p)'
<1>1. pc[p] = "freewalk" /\ pc'[p] = "freedone" /\ ProcNext(p) /\ Fits(p, Rec(db[p].off))
  BY StepNow DEF IInv, TakeFree, ProcNext
<1>2. Op(p).kind = "store"
  BY <1>1 DEF IInv, ProcOK, CallOK, Head_
<1>0. PICK d : d = Rec(db[p].off).datoff
  OBVIOUS
<1>a. db'[p] = [db[p] EXCEPT !.idxoff = db[p].off, !.datoff = d] /\ db[p].off \in Members(FREEOFF)
  BY <1>0, TakeFreeEffect
<1>3. PICK o : o = db[p].off /\ o = db'[p].idxoff
  BY <1>a, StepNow DEF DBType, IInv
<1>4. db'[p].datoff = Rec(o).datoff /\ db'[p].ptrval = db[p].ptrval
  <2>1. db'[p].datoff = d /\ db'[p].ptrval = db[p].ptrval
    BY <1>a, StepNow DEF DBType, IInv
  <2> QED
    BY <1>0, <1>3, <2>1
<1>5. o \in Records /\ o \in Records' /\ Rec(o)' = Rec(o) /\ Rec(o).key = Blank
  <2>1. o \in Members(FREEOFF) /\ o \in Records
    BY <1>3, <1>a, MembersIn DEF IInv
  <2>2. Rec(o).key = Blank
    <3>1. Rec(o) \in RecType
      BY <2>1, Offsets DEF IInv
    <3>2. Home(o) = FREEOFF /\ \A k \in Keys : Hash[k] # FREEOFF
      BY <2>1, DatabaseAssumption DEF Members, DatabaseAssumption, FREEOFF
    <3> QED
      BY <3>1, <3>2 DEF Home, RecType
  <2> QED
    BY <1>3, <2>1, <2>2, TakeFreeEffect
<1>6. /\ CallOK(p)' /\ Chain(p)' = Chain(p) /\ db[p].ptrval = ptr[Chain(p)] /\ Op(p)' = Op(p)
      /\ ptr'[Chain(p)] = ptr[Chain(p)]
  BY <1>1, <1>2, SelfHead, CallFacts DEF Gone_, Head_, IInv
<1>7. TakenOK(p)'
  <2>1. Fits(p, Rec(o))'
    BY <1>1, <1>3, <1>5, <1>6 DEF Fits
  <2> QED
    BY <1>1, <1>3, <1>4, <1>5, <2>1 DEF TakenOK
<1>8. LinkOK(p)'
  BY <1>1, <1>4, <1>6 DEF LinkOK
<1> QED
  BY <1>1, <1>6, <1>7, <1>8 DEF ProcOK, WalkOK, FoundOK, UnlinkOK, Found_

(* The steps that keep the DB structure. *)
LEMMA SelfReuse ==
  ASSUME IInv, NEW p \in Procs, NoFree(p) \/ FreeUnlock(p) \/ ReuseDat(p)
  PROVE  ProcOK(p)'
<1>1. /\ ProcNext(p) /\ db' = db /\ UNCHANGED <<ptr, rec>>
      /\ NoFree(p) => pc[p] = "freewalk" /\ pc'[p] = "freedone"
      /\ FreeUnlock(p) => /\ pc[p] = "freedone"
                          /\ pc'[p] = IF db[p].idxoff = 0 THEN "appenddat" ELSE "reusedat"
      /\ ReuseDat(p) => pc[p] = "reusedat" /\ pc'[p] = "reuseidx"
  BY StepNow DEF IInv, NoFree, FreeUnlock, ReuseDat, ProcNext, files
<1>2. /\ pc[p] \in {"freewalk", "freedone", "reusedat"}
      /\ pc'[p] \in {"freedone", "appenddat", "reusedat", "reuseidx"}
      /\ pc[p] \in Gone_ /\ pc[p] \in Head_ /\ pc'[p] \in Head_
  BY <1>1 DEF Gone_, Head_
<1>3. Op(p).kind = "store"
  BY <1>2 DEF IInv, ProcOK, CallOK
<1>4. PICK o : o = db[p].idxoff /\ o = db'[p].idxoff
  BY <1>1
<1>5. /\ CallOK(p)' /\ Chain(p)' = Chain(p) /\ db[p].ptrval = ptr[Chain(p)] /\ Op(p)' = Op(p)
  BY <1>1, <1>2, <1>3, SelfHead, CallFacts DEF IInv
<1>6. pc[p] \in {"freedone", "reusedat"} /\ o # 0 =>
        /\ o \in Records /\ Rec(o).key = Blank /\ Fits(p, Rec(o)) /\ db[p].datoff = Rec(o).datoff
  BY <1>4 DEF IInv, ProcOK, TakenOK
<1>7. Records' = Records /\ Rec(o)' = Rec(o) /\ (Fits(p, Rec(o))' <=> Fits(p, Rec(o)))
  BY <1>1, <1>4, <1>5 DEF Records, Rec, Fits
<1>8. ReuseDat(p) => o # 0 /\ dat'[db[p].datoff] = Op(p).val
  <2>1. ReuseDat(p) => o # 0 /\ ~BlankDat(p)
    BY <1>1, <1>4 DEF IInv, ProcOK, TakenOK, BlankDat, At
  <2> QED
    BY <2>1, DataWritten
<1>9. TakenOK(p)'
  <2>1. NoFree(p) => o = 0
    BY <1>1, <1>4 DEF IInv, ProcOK, TakenOK
  <2>2. pc'[p] \in {"reusedat", "reuseidx"} => o # 0
    BY <1>1, <1>4, <1>8
  <2>3. pc'[p] = "reuseidx" => dat'[db[p].datoff] = Op(p).val
    BY <1>1, <1>8
  <2>4. o # 0 => pc[p] \in {"freedone", "reusedat"}
    BY <1>1, <2>1
  <2> QED
    BY <1>1, <1>2, <1>4, <1>5, <1>6, <1>7, <2>1, <2>2, <2>3, <2>4 DEF TakenOK
<1>10. LinkOK(p)'
  BY <1>1, <1>2, <1>5 DEF LinkOK
<1> QED
  BY <1>2, <1>5, <1>9, <1>10 DEF ProcOK, WalkOK, FoundOK, UnlinkOK, Found_

LEMMA SelfAppendDat ==
  ASSUME IInv, NEW p \in Procs, AppendDat(p)
  PROVE  ProcOK(p)'
<1>1. /\ ProcNext(p) /\ pc[p] = "appenddat" /\ pc'[p] = "appendidx"
      /\ pc[p] \in Gone_ /\ pc[p] \in Head_ /\ pc'[p] \in Head_
  BY StepNow DEF IInv, AppendDat, ProcNext, Gone_, Head_
<1>2. Op(p).kind = "store"
  BY <1>1 DEF IInv, ProcOK, CallOK
<1>3. db'[p].ptrval = db[p].ptrval
  <2>1. db' = [db EXCEPT ![p] = [db[p] EXCEPT !.datoff = Len(dat) + 1]]
    BY DEF AppendDat
  <2> QED
    BY <2>1, StepNow DEF IInv, DBType
<1>4. CallOK(p)' /\ Chain(p)' = Chain(p) /\ db[p].ptrval = ptr[Chain(p)] /\ ptr'[Chain(p)] = ptr[Chain(p)]
  BY <1>1, <1>2, SelfHead, CallFacts DEF IInv
<1> QED
  BY <1>1, <1>3, <1>4 DEF ProcOK, WalkOK, FoundOK, UnlinkOK, TakenOK, LinkOK, Found_

LEMMA SelfAppendIdx ==
  ASSUME IInv, NEW p \in Procs, AppendIdx(p)
  PROVE  ProcOK(p)'
<1>1. /\ ProcNext(p) /\ pc[p] = "appendidx" /\ pc'[p] = "link" /\ pc[p] \in Gone_ /\ pc[p] \in Head_
  BY StepNow DEF IInv, AppendIdx, ProcNext, Gone_, Head_
<1>2. Op(p).kind = "store"
  BY <1>1 DEF IInv, ProcOK, CallOK
<1>3. /\ CallOK(p)' /\ Chain(p)' = Chain(p) /\ db[p].ptrval = ptr[Chain(p)] /\ Op(p)' = Op(p)
      /\ ptr'[Chain(p)] = ptr[Chain(p)]
  BY <1>1, <1>2, SelfHead, CallFacts DEF IInv
<1>4. PICK o : o = db'[p].idxoff
  OBVIOUS
<1>5. o \in Records' /\ ptr'[o] = ptr[Chain(p)] /\ Rec(o)' = rec'[Len(rec) + 1]
  BY <1>3, <1>4, AppendIdxEffect DEF Rec
<1>6. /\ Rec(o)'.key = Op(p).key /\ Rec(o)'.datlen = VLen[Op(p).val]
      /\ Rec(o)'.datoff = db[p].datoff /\ dat'[db[p].datoff] = Op(p).val
  BY <1>1, <1>5, AppendIdxEffect DEF IInv, DatInv
<1>7. LinkOK(p)'
  BY <1>1, <1>3, <1>4, <1>5, <1>6 DEF LinkOK, Head_
<1> QED
  BY <1>1, <1>3, <1>7 DEF ProcOK, WalkOK, FoundOK, UnlinkOK, TakenOK, Found_

LEMMA SelfReuseIdx ==
  ASSUME IInv, NEW p \in Procs, ReuseIdx(p)
  PROVE  ProcOK(p)'
<1>1. /\ ProcNext(p) /\ pc[p] = "reuseidx" /\ pc'[p] = "link" /\ pc[p] \in Gone_ /\ pc[p] \in Head_
      /\ db' = db
  BY StepNow DEF IInv, ReuseIdx, ProcNext, Gone_, Head_
<1>2. Op(p).kind = "store"
  BY <1>1 DEF IInv, ProcOK, CallOK
<1>3. /\ CallOK(p)' /\ Chain(p)' = Chain(p) /\ db[p].ptrval = ptr[Chain(p)] /\ Op(p)' = Op(p)
      /\ ptr'[Chain(p)] = ptr[Chain(p)]
  BY <1>1, <1>2, SelfHead, CallFacts DEF IInv
<1>4. PICK o : o = db[p].idxoff /\ o = db'[p].idxoff
  BY <1>1
<1>5. /\ Fits(p, Rec(o)) /\ db[p].datoff = Rec(o).datoff /\ dat[Rec(o).datoff] = Op(p).val
  BY <1>1, <1>4 DEF IInv, ProcOK, TakenOK
<1>6. /\ o \in Records' /\ ptr'[o] = db[p].ptrval
      /\ dat' = dat /\ ~BlankIdx(p)
  BY <1>1, <1>4, RekeyEffect DEF BlankIdx, At
<1>7. Rec(o)'.key = Op(p).key /\ Rec(o)'.datlen = Rec(o).datlen /\ Rec(o)'.datoff = Rec(o).datoff
  <2>1. Rec(o)' = Rec(db[p].idxoff)'
    BY <1>1, <1>4 DEF Rec
  <2> QED
    BY <1>4, <1>6, <2>1, RekeyEffect
<1>8. LinkOK(p)'
  BY <1>1, <1>3, <1>4, <1>5, <1>6, <1>7 DEF LinkOK, Head_, Fits
<1> QED
  BY <1>1, <1>3, <1>8 DEF ProcOK, WalkOK, FoundOK, UnlinkOK, TakenOK, Found_

LEMMA ProcOKSteps ==
  ASSUME IInv, NEW p \in Procs, ProcNext(p)
  PROVE  \A q \in Procs : ProcOK(q)'
<1>1. ProcOK(p)'
  <2>1. CASE UnlockReturn(p)
    <3>1. pc'[p] = "idle"
      BY <2>1, StepNow DEF IInv, UnlockReturn
    <3> QED
      BY <3>1 DEF ProcOK, WalkOK, FoundOK, UnlinkOK, TakenOK, LinkOK, CallOK, Found_, Head_, Gone_
  <2>2. ASSUME NEW o \in Ops[p], Call(p, o) PROVE ProcOK(p)'
    <3>1. pc'[p] = "lock" /\ db'[p].idxoff = 0
      BY <2>2, StepNow DEF IInv, Call, NoDB
    <3> QED
      BY <3>1 DEF ProcOK, WalkOK, FoundOK, UnlinkOK, TakenOK, LinkOK, CallOK, Found_, Head_, Gone_
  <2>3. CASE \/ Overwrite(p) \/ Link(p) \/ DeleteUnlock(p) \/ DeleteLock(p) \/ BlankDat(p)
             \/ PushFree(p) \/ Unlink(p) \/ FindFree(p) \/ FreeWalk(p) \/ NoFree(p)
             \/ FreeUnlock(p) \/ ReuseDat(p)
    BY <2>3, SelfDone, SelfDelete, SelfUnlink, SelfReplace, SelfFindFree, SelfReuse
  <2> QED
    BY <2>1, <2>2, <2>3, SelfLock, SelfWalk, SelfFound, SelfNotFound, SelfReadDat,
       SelfBlankIdx, SelfTakeFree, SelfAppendDat, SelfAppendIdx, SelfReuseIdx DEF ProcNext
<1> QED
  BY <1>1, ProcOKOthers

-----------------------------------------------------------------------------
(* The data records: each belongs to one index record, or to the store     *)
(* that has just appended it.                                              *)
LEMMA DatoffSteps ==
  ASSUME IInv, NEW p \in Procs, ProcNext(p)
  PROVE  /\ \A i \in 1..Len(rec) : i \in 1..Len(rec') /\ rec'[i].datoff = rec[i].datoff
         /\ ~AppendIdx(p) => Len(rec') = Len(rec)
<1>1. Len(rec) \in Nat /\ NHash \in Nat
  BY Offsets, DatabaseAssumption, SMTT(30) DEF IInv, DatabaseAssumption
<1>2. ~AppendIdx(p) => Len(rec') = Len(rec)
  BY FilesRead, RekeyEffect, PushFreeEffect, UnlinkEffect, TakeFreeEffect, LinkEffect,
     DataWritten, AppendDatEffect DEF files
<1>3. AppendIdx(p) => Len(rec') = Len(rec) + 1
  BY AppendIdxEffect
<1>4. ASSUME NEW i \in 1..Len(rec) PROVE i \in 1..Len(rec') /\ rec'[i].datoff = rec[i].datoff
  <2>1. NHash + i \in Records /\ (NHash + i) - NHash = i
    BY <1>1 DEF Records, First
  <2>2. Rec(NHash + i)'.datoff = Rec(NHash + i).datoff
    BY <2>1, RecordSteps
  <2>3. rec'[i].datoff = rec[i].datoff
    BY <2>1, <2>2 DEF Rec
  <2> QED
    BY <1>1, <1>2, <1>3, <2>3
<1> QED
  BY <1>2, <1>4

LEMMA DatLengthSteps ==
  ASSUME IInv, NEW p \in Procs, ProcNext(p)
  PROVE  /\ Len(dat) \in Nat /\ Len(dat') \in Nat /\ 1..Len(dat) \subseteq 1..Len(dat')
         /\ \A i \in 1..Len(dat) : (\A j \in 1..Len(rec) : rec[j].datoff # i) => dat'[i] = dat[i]
<1>1. Len(dat) \in Nat
  BY LenProperties DEF IInv, TypeOK, FileTypes
<1>2. CASE Overwrite(p) \/ BlankDat(p) \/ ReuseDat(p)
  <2>1. db[p].idxoff \in Records /\ db[p].datoff = Rec(db[p].idxoff).datoff
    BY <1>2, DataOf DEF Overwrite, BlankDat, ReuseDat, At, Found_
  <2>2. \E j \in 1..Len(rec) : rec[j].datoff = db[p].datoff
    BY <2>1, Offsets DEF IInv, Rec
  <2> QED
    BY <1>1, <1>2, <2>2, DataWritten
<1>3. CASE AppendDat(p)
  BY <1>3, AppendDatEffect
<1>4. CASE ~ (Overwrite(p) \/ BlankDat(p) \/ ReuseDat(p) \/ AppendDat(p))
  <2>1. dat' = dat
    BY <1>4, FilesRead, AppendIdxEffect, RekeyEffect, PushFreeEffect, UnlinkEffect, TakeFreeEffect,
       LinkEffect DEF files
  <2> QED
    BY <1>1, <2>1, SMTT(30)
<1> QED
  BY <1>2, <1>3, <1>4

LEMMA DatInvSteps ==
  ASSUME IInv, NEW p \in Procs, ProcNext(p)
  PROVE  DatInv'
<1>1. /\ Len(rec) \in Nat /\ Len(dat) \in Nat /\ DatInv
  BY Offsets, DatLengthSteps DEF IInv
<1>2. ASSUME AppendIdx(p)
      PROVE  /\ pc[p] = "appendidx" /\ pc'[p] = "link" /\ Len(rec') = Len(rec) + 1
             /\ rec'[Len(rec) + 1].datoff = db[p].datoff /\ dat' = dat
  BY <1>2, StepNow, AppendIdxEffect DEF AppendIdx, IInv
<1>3. ASSUME NEW i \in 1..Len(rec'), i \notin 1..Len(rec)
      PROVE  AppendIdx(p) /\ i = Len(rec) + 1
  <2>1. AppendIdx(p)
    BY <1>3, DatoffSteps
  <2> QED
    BY <1>1, <1>2, <1>3, <2>1
<1>4. \A i \in 1..Len(rec') : rec'[i].datoff \in 1..Len(dat')
  <2>1. ASSUME NEW i \in 1..Len(rec') PROVE rec'[i].datoff \in 1..Len(dat')
    <3>1. CASE i \in 1..Len(rec)
      BY <1>1, <3>1, DatoffSteps, DatLengthSteps DEF DatInv
    <3>2. CASE i \notin 1..Len(rec)
      BY <1>1, <1>2, <1>3, <3>2, DatLengthSteps DEF DatInv
    <3> QED
      BY <3>1, <3>2
  <2> QED
    BY <2>1
<1>5. \A i, j \in 1..Len(rec') : rec'[i].datoff = rec'[j].datoff => i = j
  <2>1. \A i, j \in 1..Len(rec) : rec'[i].datoff = rec'[j].datoff => i = j
    BY <1>1, DatoffSteps DEF DatInv
  <2>2. \A i \in 1..Len(rec') : i \notin 1..Len(rec) =>
          /\ i = Len(rec) + 1 /\ \A j \in 1..Len(rec) : rec'[i].datoff # rec'[j].datoff
    BY <1>1, <1>2, <1>3, DatoffSteps DEF DatInv
  <2> QED
    BY <2>1, <2>2
<1>6. ASSUME NEW q \in Procs, pc'[q] = "appendidx"
      PROVE  /\ db'[q].datoff \in 1..Len(dat') /\ dat'[db'[q].datoff] = Op(q)'.val
             /\ \A i \in 1..Len(rec') : rec'[i].datoff # db'[q].datoff
             /\ \A b \in Procs : pc'[b] = "appendidx" /\ db'[b].datoff = db'[q].datoff => b = q
  <2>1. \A b \in Procs \ {p} : pc'[b] = pc[b] /\ db'[b] = db[b] /\ Op(b)' = Op(b)
    BY StepFrame DEF IInv, All, Op
  <2>2. ASSUME pc'[p] = "appendidx"
        PROVE  /\ AppendDat(p) /\ db'[p].datoff = Len(dat) + 1 /\ Len(dat') = Len(dat) + 1
               /\ dat'[Len(dat) + 1] = Op(p).val /\ Op(p)' = Op(p) /\ rec' = rec
    <3>1. Found(p) => \E n \in {"readdat", "unlock", "delete", "overwrite"} : At(p, "walk", n)
      BY FoundStep, ZenonT(30) DEF IInv
    <3>2. pc[p] # "appendidx" \/ ~Walk(p)
      BY DEF Walk
    <3>3. AppendDat(p)
      BY <2>2, <3>1, StepNow
      DEF IInv, ProcNext, Call, FindAndLock, Walk, NotFound, ReadDat, Overwrite, UnlockReturn,
          DeleteLock, BlankDat, BlankIdx, PushFree, Unlink, DeleteUnlock, FindFree, FreeWalk,
          TakeFree, NoFree, FreeUnlock, AppendIdx, ReuseDat, ReuseIdx, Link
    <3>4. db'[p].datoff = Len(dat) + 1
      <4>1. db' = [db EXCEPT ![p] = [db[p] EXCEPT !.datoff = Len(dat) + 1]]
        BY <3>3 DEF AppendDat
      <4> QED
        BY <4>1, StepNow DEF IInv, DBType
    <3>5. Op(p)' = Op(p)
      BY <2>2, <3>3, SelfFrame DEF AppendDat, At
    <3> QED
      BY <3>3, <3>4, <3>5, AppendDatEffect, SMTT(30)
  <2>3. CASE q = p
    <3>1. \A i \in 1..Len(rec') : rec'[i].datoff # db'[q].datoff
      BY <1>1, <1>6, <2>2, <2>3 DEF DatInv
    <3>2. \A b \in Procs \ {p} : pc[b] = "appendidx" => db[b].datoff \in 1..Len(dat)
      BY <1>1 DEF DatInv
    <3> QED
      BY <1>1, <1>6, <2>1, <2>2, <2>3, <3>1, <3>2
  <2>4. CASE q # p
    <3>1. /\ pc[q] = "appendidx" /\ db'[q] = db[q] /\ Op(q)' = Op(q)
          /\ db[q].datoff \in 1..Len(dat) /\ dat[db[q].datoff] = Op(q).val
          /\ \A i \in 1..Len(rec) : rec[i].datoff # db[q].datoff
          /\ \A b \in Procs : pc[b] = "appendidx" /\ db[b].datoff = db[q].datoff => b = q
      BY <1>1, <1>6, <2>1, <2>4 DEF DatInv
    <3>2. db[q].datoff \in 1..Len(dat') /\ dat'[db[q].datoff] = Op(q).val
      BY <3>1, DatLengthSteps
    <3>3. \A i \in 1..Len(rec') : rec'[i].datoff # db[q].datoff
      BY <1>2, <1>3, <2>4, <3>1, DatoffSteps
    <3>4. \A b \in Procs : pc'[b] = "appendidx" /\ db'[b].datoff = db[q].datoff => b = q
      BY <1>1, <2>1, <2>2, <3>1
    <3> QED
      BY <3>1, <3>2, <3>3, <3>4
  <2> QED
    BY <2>3, <2>4
<1> QED
  BY <1>4, <1>5, <1>6 DEF DatInv

-----------------------------------------------------------------------------
(* The map and the files.  Which call is behind Busy and Value: *)
Deep == Gone_ \cup {"blankidx"}

ValueOK ==
  /\ \A k : Busy(k) <=> \E q \in Procs : pc[q] \in Deep /\ Op(q).key = k
  /\ \A q \in Procs : pc[q] = "unlock" => Value(Op(q).key) = KV!After(map, Op(q))[Op(q).key]
  /\ \A k : (\A q \in Procs : pc[q] = "unlock" => Op(q).key # k) => Value(k) = map[k]

LEMMA ValueFacts == TypeOK /\ LockInv /\ (\A p \in Procs : ProcOK(p)) => ValueOK
<1> SUFFICES ASSUME TypeOK, LockInv, \A p \in Procs : ProcOK(p) PROVE ValueOK
  OBVIOUS
<1>0. None \notin Procs
  BY DatabaseAssumption DEF DatabaseAssumption
<1>1. \A q \in Procs : pc[q] \in Deep => /\ Op(q) # None /\ Chain(q) = Hash[Op(q).key]
                                         /\ writer[Chain(q)] = q
  BY DEF Deep, Gone_, Head_, ProcOK, CallOK, LockInv, TypeOK, CallTypes, Chain
<1>2. ASSUME NEW q \in Procs, pc[q] = "unlock"
      PROVE  Value(Op(q).key) = KV!After(map, Op(q))[Op(q).key]
  <2>1. Op(q) # None /\ Chain(q) = Hash[Op(q).key] /\ Chain(q) \in Locks
    BY <1>2, CallFacts DEF TypeOK, CallTypes, Chain
  <2>2. CASE Op(q).kind # "fetch"
    BY <1>2, <2>1, <2>2 DEF LockInv, Value
  <2>3. CASE Op(q).kind = "fetch"
    <3>1. writer[Chain(q)] = None
      BY <1>2, <2>1, <2>3 DEF LockInv
    <3>2. KV!After(map, Op(q)) = map
      BY <1>2, <2>3, AfterFacts
    <3> QED
      BY <1>0, <2>1, <3>1, <3>2 DEF Value
  <2> QED
    BY <2>2, <2>3
<1>3. \A k : Busy(k) <=> \E q \in Procs : pc[q] \in Deep /\ Op(q).key = k
  BY <1>0, <1>1 DEF Busy, Deep
<1>4. \A k : (\A q \in Procs : pc[q] = "unlock" => Op(q).key # k) => Value(k) = map[k]
  BY DEF Value
<1> QED
  BY <1>2, <1>3, <1>4 DEF ValueOK

LEMMA ValueFactsNext == TypeOK' /\ LockInv' /\ (\A p \in Procs : ProcOK(p))' => ValueOK'
BY ValueFacts, PTL

LEMMA AfterAgree ==
  ASSUME NEW m1 \in [Keys -> Values \cup {None}], NEW m2 \in [Keys -> Values \cup {None}],
         NEW o \in Calls, m1[o.key] = m2[o.key]
  PROVE  KV!After(m1, o)[o.key] = KV!After(m2, o)[o.key]
<1>1. o.key \in Keys /\ o.kind \in {"fetch", "delete", "store"}
  BY DEF Calls
<1>2. KV!Result(m1, o) = KV!Result(m2, o)
  BY DEF KV!Result, KV!Missing
<1>3. CASE o.kind = "fetch"
  BY <1>3 DEF KV!After
<1>4. CASE o.kind = "delete"
  BY <1>1, <1>4 DEF KV!After
<1>5. CASE o.kind = "store"
  BY <1>1, <1>2, <1>5 DEF KV!After
<1> QED
  BY <1>1, <1>3, <1>4, <1>5

(* What a step leaves of the records of a key. *)
LEMMA KeyRecords ==
  ASSUME IInv, NEW p \in Procs, ProcNext(p), NEW k \in Keys, NEW h \in Locks, h = Hash[k],
         \/ Op(p).key # k
         \/ ~ (BlankIdx(p) \/ Link(p) \/ Overwrite(p) \/ BlankDat(p))
  PROVE  /\ \A m : m \in Members(h)' /\ Rec(m)'.key = k <=> m \in Members(h) /\ Rec(m).key = k
         /\ \A m \in Members(h) : Rec(m).key = k =>
              Rec(m)' = Rec(m) /\ dat'[Rec(m).datoff] = dat[Rec(m).datoff]
<1>1. /\ TypeOK /\ h # FREEOFF /\ k # Blank
  BY DatabaseAssumption, SMTT(30) DEF IInv, DatabaseAssumption, FREEOFF
<1>2. /\ pc[p] \in Found_ => Rec(db[p].idxoff).key = Op(p).key
      /\ pc[p] = "link" => Rec(db[p].idxoff).key = Op(p).key
      /\ pc[p] \in InHand => Held(db[p].idxoff)
  BY DEF IInv, ProcOK, FoundOK, LinkOK, Held
<1>3. \A m \in Members(h) : m \in Records /\ ~Held(m)
  BY DEF Members
<1>4. ASSUME NEW m \in Members(h), Rec(m).key = k
      PROVE  Rec(m)' = Rec(m) /\ dat'[Rec(m).datoff] = dat[Rec(m).datoff]
  <2>1. CASE BlankIdx(p)
    <3>1. pc[p] = "blankidx" /\ ~ (Overwrite(p) \/ BlankDat(p) \/ ReuseDat(p)) /\ ~ReuseIdx(p)
      BY <2>1 DEF BlankIdx, Overwrite, BlankDat, ReuseDat, ReuseIdx, At
    <3> QED
      BY <1>2, <1>3, <1>4, <2>1, <3>1, RecordSteps, DatStill DEF Found_
  <2>2. CASE ReuseIdx(p)
    <3>1. pc[p] = "reuseidx" /\ ~ (Overwrite(p) \/ BlankDat(p) \/ ReuseDat(p)) /\ ~BlankIdx(p)
      BY <2>2 DEF BlankIdx, Overwrite, BlankDat, ReuseDat, ReuseIdx, At
    <3> QED
      BY <1>2, <1>3, <1>4, <2>2, <3>1, RecordSteps, DatStill DEF InHand
  <2>3. CASE Overwrite(p) \/ BlankDat(p) \/ ReuseDat(p)
    <3>1. /\ (pc[p] \in Found_ /\ (Overwrite(p) \/ BlankDat(p))) \/ pc[p] = "reusedat"
          /\ ~BlankIdx(p) /\ ~ReuseIdx(p)
      BY <2>3 DEF BlankIdx, Overwrite, BlankDat, ReuseDat, ReuseIdx, At, Found_
    <3>2. m # db[p].idxoff
      BY <1>2, <1>3, <1>4, <3>1 DEF InHand
    <3> QED
      BY <1>3, <3>1, <3>2, RecordSteps, DatStill
  <2>4. CASE ~ (Overwrite(p) \/ BlankDat(p) \/ ReuseDat(p) \/ BlankIdx(p) \/ ReuseIdx(p))
    BY <1>3, <2>4, RecordSteps, DatStill
  <2> QED
    BY <2>1, <2>2, <2>3, <2>4
<1>5. ASSUME NEW m PROVE m \in Members(h)' /\ Rec(m)'.key = k <=> m \in Members(h) /\ Rec(m).key = k
  <2>1. ASSUME m \in Members(h), Rec(m).key = k PROVE m \in Members(h)'
    <3>1. BlankIdx(p) => m # db[p].idxoff
      BY <1>2, <2>1, SMTT(30) DEF BlankIdx, At, Found_
    <3>2. TakeFree(p) => m # db[p].off
      <4>1. Members(FREEOFF) \cap Members(h) = {}
        BY <1>1, MembersIn
      <4> QED
        BY <2>1, <4>1, TakeFreeEffect
    <3> QED
      BY <2>1, <3>1, <3>2, MembersSteps
  <2>2. ASSUME m \in Members(h)', Rec(m)'.key = k PROVE m \in Members(h) /\ Rec(m).key = k
    <3>1. CASE Link(p) /\ h = Chain(p) /\ m = db[p].idxoff
      <4>1. m \in Records /\ ~BlankIdx(p) /\ ~ReuseIdx(p) /\ pc[p] = "link"
        BY <3>1, LinkEffect DEF Link, BlankIdx, ReuseIdx, At
      <4> QED
        BY <1>2, <2>2, <3>1, <4>1, RecordSteps
    <3>2. CASE ~ (Link(p) /\ h = Chain(p) /\ m = db[p].idxoff)
      <4>1. m \in Members(h)
        BY <1>1, <2>2, <3>2, MembersSteps
      <4>2. CASE (~BlankIdx(p) /\ ~ReuseIdx(p)) \/ m # db[p].idxoff
        BY <1>3, <2>2, <4>1, <4>2, RecordSteps
      <4>3. CASE BlankIdx(p) /\ m = db[p].idxoff
        BY <2>2, <4>3, MembersSteps
      <4>4. CASE ReuseIdx(p) /\ m = db[p].idxoff
        BY <1>2, <1>3, <4>1, <4>4 DEF ReuseIdx, At, InHand
      <4> QED
        BY <4>1, <4>2, <4>3, <4>4
    <3> QED
      BY <3>1, <3>2
  <2> QED
    BY <1>4, <2>1, <2>2
<1> QED
  BY <1>4, <1>5

(* A step that has nothing to do with a key. *)
LEMMA QuietStep ==
  ASSUME IInv, NEW p \in Procs, ProcNext(p), NEW k \in Keys,
         \/ pc[p] # "idle" /\ Op(p).key # k
         \/ pc[p] \notin Deep \cup {"unlock"} /\ pc'[p] \notin Deep \cup {"unlock"}
  PROVE  /\ Busy(k)' <=> Busy(k)
         /\ Value(k)' = Value(k)
<1>1. /\ TypeOK /\ LockInv /\ (\A q \in Procs : ProcOK(q)) /\ ValueOK
      /\ TypeOK' /\ LockInv' /\ (\A q \in Procs : ProcOK(q))' /\ ValueOK'
  <2>1. (\A q \in Procs : ProcOK(q))'
    BY ProcOKSteps
  <2> QED
    BY <2>1, ValueFacts, ValueFactsNext, TypeSteps, LockInvSteps DEF IInv
<1>2. \A q \in Procs \ {p} : pc'[q] = pc[q] /\ db'[q] = db[q] /\ Op(q)' = Op(q)
  BY <1>1, StepFrame DEF All, Op
<1>3. /\ ~ (pc[p] \in Deep \cup {"unlock"} /\ Op(p).key = k)
      /\ ~ (pc'[p] \in Deep \cup {"unlock"} /\ Op(p)'.key = k)
  <2>1. CASE pc[p] # "idle" /\ Op(p).key # k
    <3>1. pc'[p] = "idle" \/ Op(p)' = Op(p)
      BY <2>1, SelfFrame
    <3> QED
      BY <2>1, <3>1 DEF Deep, Gone_, Head_
  <2>2. CASE pc[p] \notin Deep \cup {"unlock"} /\ pc'[p] \notin Deep \cup {"unlock"}
    BY <2>2
  <2> QED
    BY <2>1, <2>2
<1>4. Busy(k)' <=> Busy(k)
  <2>1. Busy(k) <=> \E q \in Procs \ {p} : pc[q] \in Deep /\ Op(q).key = k
    BY <1>1, <1>3 DEF ValueOK
  <2>2. Busy(k)' <=> \E q \in Procs \ {p} : pc'[q] \in Deep /\ Op(q)'.key = k
    BY <1>1, <1>3 DEF ValueOK
  <2> QED
    BY <1>2, <2>1, <2>2
<1>5. map'[k] = map[k]
  <2>1. CASE UnlockReturn(p)
    <3>1. pc[p] = "unlock" /\ map' = KV!After(map, Op(p))
      BY <2>1, SMTT(30) DEF UnlockReturn, At
    <3> QED
      BY <1>1, <1>3, <3>1, AfterFacts
  <2>2. CASE ~UnlockReturn(p)
    BY <2>2 DEF ProcNext, Call, FindAndLock, Walk, Found, NotFound, ReadDat, Overwrite, DeleteLock,
                BlankDat, BlankIdx, PushFree, Unlink, DeleteUnlock, FindFree, FreeWalk, TakeFree,
                NoFree, FreeUnlock, AppendDat, AppendIdx, ReuseDat, ReuseIdx, Link, Frame
  <2> QED
    BY <2>1, <2>2
<1>6. CASE \E q \in Procs : pc[q] = "unlock" /\ Op(q).key = k
  <2>1. PICK q \in Procs \ {p} : pc[q] = "unlock" /\ Op(q).key = k
    BY <1>3, <1>6
  <2>2. PICK o \in Calls : o = Op(q) /\ o = Op(q)'
    BY <1>1, <1>2, <2>1, CallFacts
  <2>3. Value(k) = KV!After(map, o)[k]
    BY <1>1, <2>1, <2>2 DEF ValueOK
  <2>4. Value(k)' = KV!After(map', o)[k]
    BY <1>1, <1>2, <2>1, <2>2 DEF ValueOK
  <2>5. KV!After(map, o)[k] = KV!After(map', o)[k]
    <3>1. map \in [Keys -> Values \cup {None}] /\ map' \in [Keys -> Values \cup {None}]
      BY <1>1 DEF TypeOK, HistoryTypes
    <3> QED
      BY <1>5, <2>1, <2>2, <3>1, AfterAgree
  <2> QED
    BY <1>4, <2>3, <2>4, <2>5
<1>7. CASE \A q \in Procs : pc[q] = "unlock" => Op(q).key # k
  <2>1. \A q \in Procs : pc'[q] = "unlock" => Op(q)'.key # k
    BY <1>2, <1>3, <1>7
  <2> QED
    BY <1>1, <1>4, <1>5, <1>7, <2>1 DEF ValueOK
<1> QED
  BY <1>6, <1>7

(* The steps at which a call has its result: those that write nothing do   *)
(* not change what the map says, ...                                       *)
LEMMA DoneValue ==
  ASSUME IInv, NEW p \in Procs, ProcNext(p), pc'[p] = "unlock",
         NEW k \in Keys, k = Op(p).key, ReadDat(p) \/ Found(p) \/ NotFound(p)
  PROVE  /\ KV!After(map, Op(p))[k] = map[k]
         /\ pc[p] \notin {"idle", "lock", "unlock", "blankidx"} /\ pc[p] \notin Gone_
         /\ ~ (BlankIdx(p) \/ Link(p) \/ Overwrite(p) \/ BlankDat(p))
<1>1. /\ pc[p] \in {"walk", "readdat"} /\ pc[p] # "idle"
      /\ pc[p] \notin {"idle", "lock", "unlock", "blankidx"} /\ pc[p] \notin Gone_
  BY DEF ReadDat, Found, NotFound, At, Gone_, Head_
<1>2. ~ (BlankIdx(p) \/ Link(p) \/ Overwrite(p) \/ BlankDat(p))
  BY <1>1 DEF BlankIdx, Link, Overwrite, BlankDat, At
<1>3. /\ Op(p).kind \in {"fetch", "delete", "store"} /\ TypeOK
      /\ Op(p).kind = "store" => Op(p).flag \in {"insert", "replace", "store"}
  BY <1>1, CallFacts DEF IInv
<1>4. CASE ReadDat(p)
  <2>1. Op(p).kind = "fetch"
    BY <1>4 DEF ReadDat, At, IInv, ProcOK, CallOK
  <2> QED
    BY <1>1, <1>2, <1>3, <2>1, AfterFacts
<1>5. CASE Found(p)
  <2>1. Op(p).kind = "store" /\ Op(p).flag = "insert"
    BY <1>3, <1>5, FoundStep, StepNow, ZenonT(30)
  <2>2. map[k] # None
    BY <1>1, <1>5, WalkLeads, OwnValue DEF Found
  <2> QED
    BY <1>1, <1>2, <1>3, <2>1, <2>2, AfterFacts, SMTT(30)
<1>6. CASE NotFound(p)
  <2>1. /\ pc[p] = "walk" /\ db[p].off = 0 /\ ~ (Op(p).kind = "store" /\ Op(p).flag # "replace")
    BY <1>3, <1>6, StepNow DEF NotFound, At
  <2>2. map[k] = None
    <3>1. PICK h \in Locks : h = Chain(p)
      BY <1>1, <1>3, CallFacts
    <3>2. \A m \in Members(h) : Rec(m).key # k
      BY <2>1, <3>1, NoRecord
    <3> QED
      BY <1>1, <3>1, <3>2, OwnValue
  <2> QED
    BY <1>1, <1>2, <1>3, <2>1, <2>2, AfterFacts
<1> QED
  BY <1>1, <1>2, <1>4, <1>5, <1>6

(* ... and the others have made the files agree with what it will say.     *)
LEMMA DoneStep ==
  ASSUME IInv, NEW p \in Procs, ProcNext(p), pc'[p] = "unlock",
         NEW k \in Keys, k = Op(p).key, NEW h \in Locks, h = Hash[k]
  PROVE  LET v == KV!After(map, Op(p))[k]
         IN  /\ v # None => \E m \in Members(h)' : Rec(m)'.key = k
             /\ \A m \in Members(h)' : Rec(m)'.key = k =>
                  v # None /\ dat'[Rec(m)'.datoff] = v /\ Rec(m)'.datlen = VLen[v]
<1>1. /\ TypeOK /\ pc[p] # "idle" /\ Chain(p) = h /\ db \in [All -> DBType]
      /\ k # Blank /\ None \notin Values /\ VLen \in [Values -> Nat]
  BY StepFrame, DatabaseAssumption DEF IInv, Chain, DatabaseAssumption, TypeOK, CallTypes
<1>2. /\ Op(p).kind \in {"fetch", "delete", "store"}
      /\ Op(p).kind = "store" => Op(p).val \in Values /\ Op(p).flag \in {"insert", "replace", "store"}
  BY <1>1, CallFacts
<1>3. CASE ReadDat(p) \/ Found(p) \/ NotFound(p)
  <2>1. /\ ~ (BlankIdx(p) \/ Link(p) \/ Overwrite(p) \/ BlankDat(p))
        /\ pc[p] \notin {"idle", "lock", "unlock", "blankidx"} /\ pc[p] \notin Gone_
        /\ KV!After(map, Op(p))[k] = map[k]
    BY <1>3, DoneValue
  <2>2. /\ map[k] # None => \E m \in Members(h) : Rec(m).key = k
        /\ \A m \in Members(h) : Rec(m).key = k =>
             map[k] # None /\ dat[Rec(m).datoff] = map[k] /\ Rec(m).datlen = VLen[map[k]]
    BY <1>1, <2>1, OwnValue
  <2> QED
    BY <2>1, <2>2, KeyRecords
<1>4. CASE Overwrite(p)
  <2>1. pc[p] = "overwrite" /\ ~ (BlankIdx(p) \/ PushFree(p) \/ TakeFree(p) \/ Link(p)) /\ ~ReuseIdx(p)
        /\ ~BlankDat(p)
    BY <1>4 DEF Overwrite, BlankIdx, PushFree, TakeFree, Link, ReuseIdx, BlankDat, At
  <2>2. PICK o : o = db[p].idxoff
    OBVIOUS
  <2>3. /\ o \in Members(h) /\ Rec(o).key = k /\ db[p].datoff = Rec(o).datoff
        /\ Rec(o).datlen = VLen[Op(p).val] /\ Op(p).kind = "store" /\ KV!Result(map, Op(p)) = 0
    BY <1>1, <2>1, <2>2 DEF IInv, ProcOK, FoundOK, CallOK, Found_
  <2>4. KV!After(map, Op(p))[k] = Op(p).val
    BY <1>1, <2>3, AfterFacts
  <2>5. Members(h)' = Members(h) /\ \A m \in Members(h) : Rec(m)' = Rec(m)
    BY <1>1, <2>1, MembersSteps, RecordSteps, MembersIn
  <2>6. \A m \in Members(h) : Rec(m).key = k => m = o
    BY <1>1, <2>3 DEF IInv, OneRecord, Members
  <2>7. dat'[Rec(o).datoff] = Op(p).val
    BY <1>4, <2>1, <2>3, DataWritten
  <2> QED
    BY <1>1, <1>2, <2>3, <2>4, <2>5, <2>6, <2>7
<1>5. CASE DeleteUnlock(p)
  <2>1. pc[p] = "deleted" /\ Op(p).kind = "delete"
        /\ ~ (BlankIdx(p) \/ Link(p) \/ Overwrite(p) \/ BlankDat(p))
    BY <1>1, <1>5, StepNow DEF DeleteUnlock, BlankIdx, Link, Overwrite, BlankDat, At
  <2>2. \A m \in Members(h) : Rec(m).key # k
    BY <1>1, <2>1 DEF IInv, ProcOK, CallOK, Gone_
  <2>3. KV!After(map, Op(p))[k] = None
    BY <1>1, <2>1, AfterFacts
  <2> QED
    BY <2>1, <2>2, <2>3, KeyRecords
<1>6. CASE Link(p)
  <2>1. pc[p] = "link"
    BY <1>6 DEF Link, At
  <2>2. PICK o : o = db[p].idxoff
    OBVIOUS
  <2>3. /\ o \in Records /\ Rec(o).key = k /\ dat[Rec(o).datoff] = Op(p).val
        /\ Rec(o).datlen = VLen[Op(p).val] /\ Op(p).kind = "store" /\ KV!Result(map, Op(p)) = 0
        /\ \A m \in Members(h) : Rec(m).key # k
    BY <1>1, <2>1, <2>2 DEF IInv, ProcOK, LinkOK, CallOK, Gone_
  <2>4. KV!After(map, Op(p))[k] = Op(p).val
    BY <1>1, <2>3, AfterFacts
  <2>5. /\ Members(h)' = Members(h) \cup {o} /\ Members(h) \subseteq Records
        /\ dat' = dat /\ \A m \in Records : Rec(m)' = Rec(m)
    BY <1>1, <1>6, <2>2, MembersSteps, MembersIn, LinkEffect
  <2> QED
    BY <1>1, <1>2, <2>3, <2>4, <2>5
<1>7. \/ ReadDat(p) \/ Found(p) \/ NotFound(p) \/ Overwrite(p) \/ DeleteUnlock(p) \/ Link(p)
  <2>1. Walk(p) => pc[p] = "walk" /\ pc' = pc
    BY DEF Walk
  <2>2. FreeWalk(p) => pc[p] = "freewalk" /\ pc' = pc
    BY DEF FreeWalk
  <2> QED
    BY <1>1, <2>1, <2>2, StepNow
    DEF ProcNext, Call, FindAndLock, UnlockReturn, DeleteLock, BlankDat, BlankIdx, PushFree, Unlink,
        FindFree, TakeFree, NoFree, FreeUnlock, AppendDat, AppendIdx, ReuseDat, ReuseIdx
<1> QED
  BY <1>3, <1>4, <1>5, <1>6, <1>7

LEMMA MapInvSteps ==
  ASSUME IInv, NEW p \in Procs, ProcNext(p)
  PROVE  MapInv'
<1> SUFFICES ASSUME NEW k \in Keys, ~Busy(k)' PROVE Agrees(k)'
  BY DEF MapInv
<1>1. /\ TypeOK /\ LockInv /\ (\A q \in Procs : ProcOK(q)) /\ ValueOK
      /\ TypeOK' /\ LockInv' /\ (\A q \in Procs : ProcOK(q))' /\ ValueOK'
  <2>1. (\A q \in Procs : ProcOK(q))'
    BY ProcOKSteps
  <2> QED
    BY <2>1, ValueFacts, ValueFactsNext, TypeSteps, LockInvSteps DEF IInv
<1>2. PICK h \in Locks : h = Hash[k]
  BY DatabaseAssumption DEF DatabaseAssumption, Locks, FREEOFF
<1>3. CASE \/ pc[p] # "idle" /\ Op(p).key # k
           \/ pc[p] \notin Deep \cup {"unlock"} /\ pc'[p] \notin Deep \cup {"unlock"}
  <2>1. PICK v : v = Value(k) /\ v = Value(k)'
    BY <1>3, QuietStep
  <2>2. /\ v # None => \E m \in Members(h) : Rec(m).key = k
        /\ \A m \in Members(h) : Rec(m).key = k =>
             v # None /\ dat[Rec(m).datoff] = v /\ Rec(m).datlen = VLen[v]
    BY <1>2, <1>3, <2>1, QuietStep DEF IInv, MapInv, Agrees
  <2>3. \/ Op(p).key # k
        \/ ~ (BlankIdx(p) \/ Link(p) \/ Overwrite(p) \/ BlankDat(p))
    BY <1>1, <1>3, StepNow DEF BlankIdx, Link, Overwrite, BlankDat, Deep, Gone_
  <2>4. /\ v # None => \E m \in Members(h)' : Rec(m)'.key = k
        /\ \A m \in Members(h)' : Rec(m)'.key = k =>
             v # None /\ dat'[Rec(m)'.datoff] = v /\ Rec(m)'.datlen = VLen[v]
    BY <1>2, <2>2, <2>3, KeyRecords
  <2> QED
    BY <1>2, <2>1, <2>4 DEF Agrees
<1>4. CASE ~ (\/ pc[p] # "idle" /\ Op(p).key # k
              \/ pc[p] \notin Deep \cup {"unlock"} /\ pc'[p] \notin Deep \cup {"unlock"})
  <2>1. pc[p] # "idle" /\ Op(p).key = k
    <3>1. pc[p] = "idle" => pc[p] \notin Deep \cup {"unlock"} /\ pc'[p] \notin Deep \cup {"unlock"}
      BY <1>1, StepFrame DEF Deep, Gone_, Head_
    <3> QED
      BY <1>4, <3>1
  <2>2. pc'[p] \notin Deep
    <3>1. pc'[p] \in Deep => Op(p)' = Op(p)
      BY <2>1, SelfFrame DEF Deep, Gone_, Head_
    <3> QED
      BY <1>1, <2>1, <3>1 DEF ValueOK
  <2>3. CASE pc'[p] = "unlock"
    <3>1. Op(p)' = Op(p) /\ map' = map
      BY <2>1, <2>3, SelfFrame
    <3>2. Value(k)' = KV!After(map, Op(p))[k]
      BY <1>1, <2>1, <2>3, <3>1 DEF ValueOK
    <3>3. PICK v : v = KV!After(map, Op(p))[k] /\ v = Value(k)'
      BY <3>2
    <3>4. /\ v # None => \E m \in Members(h)' : Rec(m)'.key = k
          /\ \A m \in Members(h)' : Rec(m)'.key = k =>
               v # None /\ dat'[Rec(m)'.datoff] = v /\ Rec(m)'.datlen = VLen[v]
      <4>1. LET u == KV!After(map, Op(p))[k]
            IN  /\ u # None => \E m \in Members(h)' : Rec(m)'.key = k
                /\ \A m \in Members(h)' : Rec(m)'.key = k =>
                     u # None /\ dat'[Rec(m)'.datoff] = u /\ Rec(m)'.datlen = VLen[u]
        BY <1>2, <2>1, <2>3, DoneStep
      <4> QED
        BY <3>3, <4>1
    <3> QED
      BY <1>2, <3>3, <3>4 DEF Agrees
  <2>4. CASE pc'[p] # "unlock"
    <3>1. UnlockReturn(p)
      <4>1. pc[p] \in Deep \cup {"unlock"} /\ pc'[p] \notin Deep \cup {"unlock"}
        BY <1>4, <2>1, <2>2, <2>4, SMTT(30)
      <4>2. Found(p) => \E n \in {"readdat", "unlock", "delete", "overwrite"} : At(p, "walk", n)
        BY <1>1, FoundStep, ZenonT(30)
      <4>3. FreeWalk(p) => pc[p] = "freewalk" /\ pc' = pc
        BY DEF FreeWalk
      <4>4. Walk(p) => pc[p] = "walk"
        BY DEF Walk
      <4> QED
        BY <1>1, <4>1, <4>2, <4>3, <4>4, StepNow
        DEF ProcNext, Call, FindAndLock, NotFound, ReadDat, Overwrite, DeleteLock, BlankDat,
            BlankIdx, PushFree, Unlink, DeleteUnlock, FindFree, TakeFree, NoFree, FreeUnlock,
            AppendDat, AppendIdx, ReuseDat, ReuseIdx, Link, Deep, Gone_, Head_
    <3>2. pc[p] = "unlock" /\ map' = KV!After(map, Op(p)) /\ pc'[p] = "idle"
      BY <1>1, <3>1, StepNow DEF UnlockReturn
    <3>3. \A q \in Procs \ {p} : pc'[q] = pc[q] /\ db'[q] = db[q] /\ Op(q)' = Op(q)
      BY <1>1, StepFrame DEF All, Op
    <3>4. ~Busy(k)
      BY <1>1, <3>2, <3>3 DEF ValueOK, Deep, Gone_, Head_
    <3>5. PICK v : v = map'[k]
      OBVIOUS
    <3>6. Value(k) = v
      BY <1>1, <2>1, <3>2, <3>5 DEF ValueOK
    <3>7. Value(k)' = v
      <4>1. CASE \E q \in Procs : pc'[q] = "unlock" /\ Op(q)'.key = k
        <5>1. PICK q \in Procs \ {p} : pc[q] = "unlock" /\ Op(q).key = k /\ Op(q)' = Op(q) /\ pc'[q] = "unlock"
          BY <2>4, <3>3, <4>1
        <5>2. PICK o : o = Op(q) /\ o = Op(q)'
          BY <5>1
        <5>3. o.kind = "fetch"
          BY <1>1, <2>1, <3>2, <5>1, <5>2, OwnChain DEF Chain
        <5>4. KV!After(map', o) = map'
          BY <5>3 DEF KV!After
        <5> QED
          BY <1>1, <3>5, <5>1, <5>2, <5>4 DEF ValueOK
      <4>2. CASE \A q \in Procs : pc'[q] = "unlock" => Op(q)'.key # k
        BY <1>1, <3>5, <4>2 DEF ValueOK
      <4> QED
        BY <4>1, <4>2
    <3>8. /\ v # None => \E m \in Members(h) : Rec(m).key = k
          /\ \A m \in Members(h) : Rec(m).key = k =>
               v # None /\ dat[Rec(m).datoff] = v /\ Rec(m).datlen = VLen[v]
      BY <1>2, <3>4, <3>6 DEF IInv, MapInv, Agrees
    <3>9. ~ (BlankIdx(p) \/ Link(p) \/ Overwrite(p) \/ BlankDat(p))
      BY <3>2 DEF BlankIdx, Link, Overwrite, BlankDat, At
    <3>10. /\ v # None => \E m \in Members(h)' : Rec(m)'.key = k
           /\ \A m \in Members(h)' : Rec(m)'.key = k =>
                v # None /\ dat'[Rec(m)'.datoff] = v /\ Rec(m)'.datlen = VLen[v]
      BY <1>2, <3>8, <3>9, KeyRecords
    <3> QED
      BY <1>2, <3>7, <3>10 DEF Agrees
  <2> QED
    BY <2>3, <2>4
<1> QED
  BY <1>3, <1>4

-----------------------------------------------------------------------------
(* The scans.  What a step of a call leaves of the keys in the file:       *)
LEMMA KeysStill ==
  ASSUME IInv, NEW p \in Procs, ProcNext(p)
  PROVE  /\ \A s \in Scanners : moved[s] \subseteq moved'[s]
         /\ BlankIdx(p) \/ AppendIdx(p) \/ ReuseIdx(p) => \A s \in Scanners : Op(p).key \in moved'[s]
         /\ \A s \in Scanners, k \in Keys : k \notin moved'[s] =>
              \A o : o \in Records' /\ Rec(o)'.key = k <=> o \in Records /\ Rec(o).key = k
<1>1. \A s \in Scanners : moved[s] \subseteq moved'[s]
  BY ZenonT(30) DEF IInv, TypeOK, HistoryTypes, ProcNext, Call, FindAndLock, Walk, Found, NotFound, ReadDat,
         Overwrite, UnlockReturn, DeleteLock, BlankDat, BlankIdx, PushFree, Unlink, DeleteUnlock,
         FindFree, FreeWalk, TakeFree, NoFree, FreeUnlock, AppendDat, AppendIdx, ReuseDat, ReuseIdx,
         Link, Still, Moves, scanVars
<1>2. BlankIdx(p) \/ AppendIdx(p) \/ ReuseIdx(p) => \A s \in Scanners : Op(p).key \in moved'[s]
  BY DEF IInv, TypeOK, HistoryTypes, BlankIdx, AppendIdx, ReuseIdx, Moves
<1>3. ASSUME NEW s \in Scanners, NEW k \in Keys, k \notin moved'[s], NEW o
      PROVE  o \in Records' /\ Rec(o)'.key = k <=> o \in Records /\ Rec(o).key = k
  <2>0. Blank \notin Keys
    BY DatabaseAssumption DEF DatabaseAssumption
  <2>1. BlankIdx(p) \/ AppendIdx(p) \/ ReuseIdx(p) => Op(p).key # k
    BY <1>2, <1>3
  <2>2. CASE o \in Records /\ ((~BlankIdx(p) /\ ~ReuseIdx(p)) \/ o # db[p].idxoff)
    BY <2>2, RecordSteps
  <2>3. CASE o \in Records /\ (BlankIdx(p) \/ ReuseIdx(p)) /\ o = db[p].idxoff
    <3>1. Rec(o).key \in {Blank, Op(p).key}
      BY <2>3 DEF BlankIdx, ReuseIdx, At, IInv, ProcOK, FoundOK, TakenOK, Found_
    <3>2. Rec(o)'.key \in {Blank, Op(p).key}
      <4>1. Rec(db[p].idxoff)'.key \in {Blank, Op(p).key}
        BY <2>3, RekeyEffect
      <4>2. db'[p].idxoff = db[p].idxoff
        BY <2>3, RekeyEffect
      <4> QED
        BY <2>3, <4>1, <4>2 DEF Rec
    <3> QED
      BY <2>0, <2>1, <2>3, <3>1, <3>2
  <2>4. CASE o \notin Records
    <3>1. o \in Records' => AppendIdx(p) /\ Rec(o)'.key = Op(p).key
      BY <2>4, RecordSteps, AppendIdxEffect DEF Rec
    <3> QED
      BY <2>1, <2>4, <3>1
  <2> QED
    BY <2>2, <2>3, <2>4
<1> QED
  BY <1>1, <1>2, <1>3, SMTT(30)

(* Where a call is whose key the scan has not seen moving. *)
LEMMA UnmovedSteps ==
  ASSUME IInv, NEW p \in Procs, ProcNext(p), NEW s \in Scanners, NEW k \in Keys,
         k \notin moved'[s], UnmovedOK(s, k)
  PROVE  UnmovedOK(s, k)'
<1> SUFFICES ASSUME NEW q \in Procs, pc'[q] # "idle", Op(q)'.key = k
             PROVE  /\ pc'[q] \notin {"pushfree", "unlink", "deleted", "link"}
                    /\ pc'[q] \in Gone_ => map'[k] = None
                    /\ pc'[q] = "blankidx" => map'[k] # None
                    /\ pc'[q] = "unlock" => (KV!After(map', Op(q)')[k] = None <=> map'[k] = None)
  BY DEF UnmovedOK
<1>1. TypeOK /\ TypeOK' /\ None \notin Values
  BY TypeSteps, DatabaseAssumption DEF IInv, DatabaseAssumption
<1>2. CASE q # p
  <2>1. pc'[q] = pc[q] /\ Op(q)' = Op(q)
    BY <1>1, <1>2, StepFrame DEF All, Op
  <2>2. /\ pc[q] \notin {"pushfree", "unlink", "deleted", "link"}
        /\ pc[q] \in Gone_ => map[k] = None
        /\ pc[q] = "blankidx" => map[k] # None
        /\ pc[q] = "unlock" => (KV!After(map, Op(q))[k] = None <=> map[k] = None)
    BY <2>1 DEF UnmovedOK
  <2>3. pc[q] \notin {"idle", "lock"} => map'[k] = map[k]
    BY <1>2, <2>1, MapOthers
  <2>4. pc[q] = "unlock" => KV!After(map, Op(q))[k] = KV!After(map', Op(q))[k]
    <3>1. map \in [Keys -> Values \cup {None}] /\ map' \in [Keys -> Values \cup {None}]
      BY <1>1 DEF TypeOK, HistoryTypes
    <3>2. pc[q] = "unlock" => Op(q) \in Calls /\ map'[Op(q).key] = map[Op(q).key]
      BY <1>1, <2>1, <2>3, CallFacts
    <3> QED
      BY <2>1, <3>1, <3>2, AfterAgree
  <2> QED
    BY <2>1, <2>2, <2>3, <2>4 DEF Gone_, Head_
<1>3. CASE q = p /\ pc[p] = "idle"
  <2>1. pc'[p] = "lock"
    BY <1>1, <1>3, StepFrame
  <2> QED
    BY <1>3, <2>1 DEF Gone_, Head_
<1>4. CASE q = p /\ pc[p] # "idle"
  <2>1. Op(p)' = Op(p) /\ map' = map /\ Op(p).key = k /\ ~UnlockReturn(p)
    BY <1>4, SelfFrame
  <2>2. /\ pc[p] \notin {"pushfree", "unlink", "deleted", "link"}
        /\ pc[p] \in Gone_ => map[k] = None
    BY <1>4, <2>1 DEF UnmovedOK
  <2>3. ~BlankIdx(p) /\ ~AppendIdx(p) /\ ~ReuseIdx(p)
    BY <2>1, KeysStill
  <2>4. CASE ReadDat(p) \/ Found(p) \/ NotFound(p)
    <3>1. pc'[p] = "unlock" => KV!After(map, Op(p))[k] = map[k]
      BY <2>1, <2>4, DoneValue
    <3>2. ReadDat(p) => pc'[p] = "unlock"
      BY <1>1, StepNow, SMTT(30) DEF ReadDat
    <3>3. Found(p) => pc'[p] \in {"readdat", "unlock", "delete", "overwrite"}
      <4>1. \A n : At(p, "walk", n) => pc'[p] = n
        BY <1>1, StepNow
      <4>2. Found(p) => \E n \in {"readdat", "unlock", "delete", "overwrite"} : At(p, "walk", n)
        BY <1>1, FoundStep
      <4> QED
        BY <4>1, <4>2
    <3>4. NotFound(p) => pc'[p] \in {"unlock", "findfree"}
      BY <1>1, StepNow DEF NotFound
    <3>5. NotFound(p) => map[k] = None
      <4>1. NotFound(p) => /\ pc[p] = "walk" /\ db[p].off = 0
                           /\ pc[p] \notin {"idle", "lock", "unlock", "blankidx"} /\ pc[p] \notin Gone_
        BY DEF NotFound, At, Gone_, Head_
      <4>2. PICK h \in Locks : h = Chain(p)
        BY <1>1, <1>4, CallFacts
      <4> QED
        BY <2>1, <4>1, <4>2, NoRecord, OwnValue
    <3> QED
      BY <1>4, <2>1, <2>4, <3>1, <3>2, <3>3, <3>4, <3>5 DEF Gone_, Head_
  <2>5. CASE Overwrite(p)
    <3>1. /\ pc[p] = "overwrite" /\ pc'[p] = "unlock"
          /\ pc[p] \notin {"idle", "lock", "unlock", "blankidx"} /\ pc[p] \notin Gone_
      BY <1>1, <2>5, StepNow DEF Overwrite, Gone_, Head_
    <3>2. /\ db[p].idxoff \in Members(Chain(p)) /\ Rec(db[p].idxoff).key = k
          /\ Op(p).kind = "store" /\ KV!Result(map, Op(p)) = 0
      BY <2>1, <3>1 DEF IInv, ProcOK, FoundOK, CallOK, Found_
    <3>3. map[k] # None
      BY <2>1, <3>1, <3>2, OwnValue
    <3>4. KV!After(map, Op(p))[k] = Op(p).val /\ Op(p).val \in Values
      BY <1>1, <1>4, <2>1, <3>2, AfterFacts, CallFacts
    <3> QED
      BY <1>1, <1>4, <2>1, <3>1, <3>3, <3>4 DEF Gone_, Head_
  <2>6. CASE BlankDat(p)
    <3>1. /\ pc[p] = "blankdat" /\ pc'[p] = "blankidx"
          /\ pc[p] \notin {"idle", "lock", "unlock", "blankidx"} /\ pc[p] \notin Gone_
      BY <1>1, <2>6, StepNow DEF BlankDat, Gone_, Head_
    <3>2. db[p].idxoff \in Members(Chain(p)) /\ Rec(db[p].idxoff).key = k
      BY <2>1, <3>1 DEF IInv, ProcOK, FoundOK, Found_
    <3>3. map[k] # None
      BY <2>1, <3>1, <3>2, OwnValue
    <3> QED
      BY <1>4, <2>1, <3>1, <3>3 DEF Gone_, Head_
  <2>7. CASE ~ (ReadDat(p) \/ Found(p) \/ NotFound(p) \/ Overwrite(p) \/ BlankDat(p))
    <3>1. /\ pc'[p] \notin {"pushfree", "unlink", "deleted", "link", "unlock", "blankidx"}
          /\ pc'[p] \in Gone_ => pc[p] \in Gone_
      BY <1>1, <1>4, <2>1, <2>2, <2>3, <2>7, StepNow
      DEF ProcNext, Call, FindAndLock, Walk, DeleteLock, PushFree, Unlink, DeleteUnlock,
          FindFree, FreeWalk, TakeFree, NoFree, FreeUnlock, AppendDat, ReuseDat, Link, Gone_, Head_
    <3> QED
      BY <1>4, <2>1, <2>2, <3>1
  <2> QED
    BY <2>4, <2>5, <2>6, <2>7
<1> QED
  BY <1>2, <1>3, <1>4

LEMMA ScanInvSteps ==
  ASSUME IInv, NEW p \in Procs, ProcNext(p)
  PROVE  ScanInv'
<1> SUFFICES ASSUME NEW s \in Scanners
             PROVE  /\ pc'[s] = "idle" => pos'[s] = 0 /\ \A k \in Keys : seen'[s][k] = 0
                    /\ pc'[s] # "idle" => pos'[s] \in First..(First + Len(rec'))
                    /\ HereOK(s)'
                    /\ pc'[s] # "idle" => \A k \in Keys \ moved'[s] : UnmovedOK(s, k)' /\ CountOK(s, k)'
  BY DEF ScanInv
<1>1. /\ pc'[s] = pc[s] /\ db'[s] = db[s] /\ pos' = pos /\ seen' = seen /\ TypeOK
      /\ Blank \notin Keys /\ NHash \in Nat
  <2>1. s \in All /\ s # p
    BY DatabaseAssumption DEF DatabaseAssumption, All
  <2>2. pos' = pos /\ seen' = seen
    BY ZenonT(30) DEF ProcNext, Call, FindAndLock, Walk, Found, NotFound, ReadDat, Overwrite, UnlockReturn,
           DeleteLock, BlankDat, BlankIdx, PushFree, Unlink, DeleteUnlock, FindFree, FreeWalk,
           TakeFree, NoFree, FreeUnlock, AppendDat, AppendIdx, ReuseDat, ReuseIdx, Link, Frame,
           scanVars
  <2> QED
    BY <2>1, <2>2, StepFrame, DatabaseAssumption DEF IInv, DatabaseAssumption
<1>2. /\ pc[s] = "idle" => pos[s] = 0 /\ \A k \in Keys : seen[s][k] = 0
      /\ pc[s] # "idle" => pos[s] \in First..(First + Len(rec))
      /\ HereOK(s)
      /\ pc[s] # "idle" => \A k \in Keys \ moved[s] : UnmovedOK(s, k) /\ CountOK(s, k)
  BY DEF IInv, ScanInv
<1>3. pc[s] # "idle" => pos[s] \in First..(First + Len(rec'))
  <2>1. Len(rec) \in Nat /\ (Len(rec') = Len(rec) \/ Len(rec') = Len(rec) + 1)
    BY <1>1, Offsets, DatoffSteps, AppendIdxEffect
  <2> QED
    BY <1>1, <1>2, <2>1 DEF First
<1>4. HereOK(s)'
  <2> SUFFICES ASSUME pc[s] = "nextdat"
               PROVE  /\ db[s].key \in Keys
                      /\ \E i \in 1..Len(rec') : rec'[i].key = db[s].key /\ rec'[i].datoff = db[s].datoff
    BY <1>1 DEF HereOK
  <2>1. PICK i \in 1..Len(rec) : /\ db[s].key \in Keys
                                 /\ rec[i].key = db[s].key /\ rec[i].datoff = db[s].datoff
    BY <1>2 DEF HereOK
  <2>2. PICK o : o = NHash + i
    OBVIOUS
  <2>3. o \in Records /\ Rec(o) = rec[i] /\ o - NHash = i
    BY <1>1, <2>2, Offsets DEF Records, First, Rec
  <2>4. ~BlankIdx(p)
    <3>1. s \in readers[FREEOFF] /\ FREEOFF \in Locks
      BY <1>1, Offsets DEF IInv, LockInv, FREEOFF
    <3>2. pc[p] = "blankidx" => writer[FREEOFF] = p /\ p # None
      BY DatabaseAssumption DEF IInv, LockInv, FreeHeld, DatabaseAssumption
    <3>3. writer[FREEOFF] # None => readers[FREEOFF] = {}
      BY <3>1 DEF IInv, LockInv
    <3> QED
      BY <3>1, <3>2, <3>3 DEF BlankIdx, At
  <2>5. ReuseIdx(p) => o # db[p].idxoff
    BY <1>1, <2>1, <2>3 DEF ReuseIdx, At, IInv, ProcOK, TakenOK
  <2>6. Rec(o)' = Rec(o)
    BY <2>3, <2>4, <2>5, RecordSteps
  <2>7. rec'[i] = rec[i] /\ i \in 1..Len(rec')
    BY <2>3, <2>6, DatoffSteps DEF Rec
  <2> QED
    BY <2>1, <2>7
<1>5. ASSUME pc[s] # "idle", NEW k \in Keys \ moved'[s] PROVE UnmovedOK(s, k)' /\ CountOK(s, k)'
  <2>1. UnmovedOK(s, k) /\ CountOK(s, k)
    BY <1>2, <1>5, KeysStill
  <2>2. \A o : o \in Records' /\ Rec(o)'.key = k <=> o \in Records /\ Rec(o).key = k
    BY <1>5, KeysStill
  <2>3. Passed(s, k)' <=> Passed(s, k)
    BY <1>1, <2>2 DEF Passed
  <2>4. CountOK(s, k)'
    BY <1>1, <2>1, <2>2, <2>3 DEF CountOK
  <2> QED
    BY <1>5, <2>1, <2>4, UnmovedSteps
<1> QED
  BY <1>1, <1>2, <1>3, <1>4, <1>5

(* The steps of a scan change nothing that the calls and the lists rest on. *)
Still_ ==
  /\ UNCHANGED <<files, map, writer>>
  /\ \A q \in Procs : pc'[q] = pc[q] /\ db'[q] = db[q]

LEMMA ListsStill ==
  ASSUME IInv, Still_
  PROVE  /\ Records' = Records /\ \A o : Rec(o)' = Rec(o)
         /\ \A o : Held(o)' <=> Held(o)
         /\ \A h : Members(h)' = Members(h)
         /\ Succ' = Succ
         /\ \A q \in Procs : Op(q)' = Op(q) /\ Chain(q)' = Chain(q)
<1>1. UNCHANGED <<ptr, rec, writer>> /\ \A q \in Procs : pc'[q] = pc[q] /\ db'[q] = db[q]
  BY DEF Still_, files
<1>2. Records' = Records /\ \A o : Rec(o)' = Rec(o)
  BY <1>1 DEF Records, Rec
<1>3. \A o : Held(o)' <=> Held(o)
  BY <1>1 DEF Held
<1>4. \A o : Home(o)' = Home(o)
  BY <1>2 DEF Home
<1>5. \A h : Members(h)' = Members(h)
  BY <1>2, <1>3, <1>4 DEF Members
<1>6. Succ' = Succ
  <2>1. \A q : Unlinking(q) => q \in Procs
    BY DEF Unlinking
  <2>2. \A q : Unlinking(q)' <=> Unlinking(q)
    BY <1>1 DEF Unlinking
  <2> QED
    BY <1>1, <2>1, <2>2 DEF Succ
<1>7. \A q \in Procs : Op(q)' = Op(q) /\ Chain(q)' = Chain(q)
  BY <1>1 DEF Op, Chain
<1> QED
  BY <1>2, <1>3, <1>5, <1>6, <1>7

LEMMA CallsStill ==
  ASSUME IInv, Still_
  PROVE  /\ ListInv' /\ OneRecord' /\ (\A p \in Procs : ProcOK(p))'
         /\ HeldOnce' /\ DatInv' /\ MapInv'
<1>1. /\ UNCHANGED <<ptr, rec, dat, map, writer>>
      /\ \A q \in Procs : pc'[q] = pc[q] /\ db'[q] = db[q]
  BY DEF Still_, files
<1>2. ListInv'
  <2>1. PICK r \in [Nat -> Nat] : Ordered(r)
    BY DEF IInv, ListInv
  <2>2. \A h \in Locks : Shaped(Members(h)', h, r, Succ')
    BY <2>1, ListsStill DEF Ordered
  <2>3. ASSUME NEW p \in Procs, pc'[p] = "walk", NEW m \in Members(Chain(p))',
               ~ r[m] < r[db'[p].ptroff]
        PROVE  Rec(m)'.key # Op(p)'.key
    <3>1. PICK h : h = Chain(p) /\ h = Chain(p)'
      BY ListsStill
    <3>2. m \in Members(h)
      BY <2>3, <3>1, ListsStill
    <3> QED
      BY <1>1, <2>1, <2>3, <3>1, <3>2, ListsStill DEF Ordered
  <2>4. Ordered(r)'
    BY <2>2, <2>3 DEF Ordered
  <2> QED
    BY <2>4 DEF ListInv
<1>3. OneRecord'
  BY ListsStill DEF IInv, OneRecord
<1>4. ASSUME NEW p \in Procs PROVE ProcOK(p)'
  <2>1. PICK h : h = Chain(p) /\ h = Chain(p)'
    BY ListsStill
  <2>2. PICK o : o = db[p].idxoff /\ o = db'[p].idxoff
    BY <1>1
  <2>3. PICK c : c = Op(p) /\ c = Op(p)'
    BY ListsStill
  <2>4. ProcOK(p) /\ pc'[p] = pc[p] /\ db'[p] = db[p]
    BY <1>1 DEF IInv
  <2>5. Members(h)' = Members(h) /\ Members(FREEOFF)' = Members(FREEOFF) /\ Records' = Records
    BY ListsStill
  <2>6. \A x : Rec(x)' = Rec(x) /\ (Fits(p, Rec(x))' <=> Fits(p, Rec(x)))
    BY <2>3, ListsStill DEF Fits
  <2>7. WalkOK(p)' /\ UnlinkOK(p)'
    BY <1>1, <2>1, <2>2, <2>4, <2>5, <2>6 DEF ProcOK, WalkOK, UnlinkOK
  <2>8. FoundOK(p)'
    BY <1>1, <2>1, <2>2, <2>3, <2>4, <2>5, <2>6 DEF ProcOK, FoundOK
  <2>9. TakenOK(p)' /\ LinkOK(p)'
    BY <1>1, <2>1, <2>2, <2>3, <2>4, <2>5, <2>6 DEF ProcOK, TakenOK, LinkOK
  <2>10. CallOK(p)'
    BY <1>1, <2>1, <2>2, <2>3, <2>4, <2>5, <2>6 DEF ProcOK, CallOK
  <2> QED
    BY <2>7, <2>8, <2>9, <2>10 DEF ProcOK
<1>5. HeldOnce'
  BY <1>1 DEF IInv, HeldOnce
<1>6. DatInv'
  BY <1>1, ListsStill DEF IInv, DatInv
<1>7. ASSUME NEW k \in Keys, ~Busy(k)' PROVE Agrees(k)'
  <2>1. ~Busy(k)
    BY <1>1, <1>7, ListsStill DEF Busy
  <2>2. PICK v : v = Value(k) /\ v = Value(k)'
    BY <1>1, ListsStill DEF Value
  <2>3. Agrees(k)
    BY <2>1 DEF IInv, MapInv
  <2> QED
    BY <1>1, <2>2, <2>3, ListsStill DEF Agrees
<1> QED
  BY <1>2, <1>3, <1>4, <1>5, <1>6, <1>7 DEF MapInv

(* The scan itself.  A key the scan has not seen moving has one record.    *)
LEMMA OneOfKey ==
  ASSUME IInv, NEW s \in Scanners, pc[s] \in {"nextidx", "nextdat", "nextunlock"},
         NEW k \in Keys \ moved[s], NEW o1 \in Records, NEW o2 \in Records,
         Rec(o1).key = k, Rec(o2).key = k
  PROVE  o1 = o2
<1>0. Blank \notin Keys /\ None \notin Procs /\ 0 \notin Records /\ TypeOK
  BY Offsets, DatabaseAssumption DEF IInv, DatabaseAssumption
<1>1. UnmovedOK(s, k)
  BY DEF IInv, ScanInv
<1>2. ASSUME NEW o \in Records, Rec(o).key = k, Held(o) PROVE FALSE
  <2>1. PICK q \in Procs : pc[q] \in InHand /\ db[q].idxoff = o
    BY <1>2 DEF Held
  <2>2. pc[q] # "link" => Rec(o).key = Blank
    BY <1>0, <2>1 DEF IInv, ProcOK, UnlinkOK, TakenOK, InHand
  <2>3. pc[q] = "link" => Rec(o).key = Op(q).key
    BY <2>1 DEF IInv, ProcOK, LinkOK
  <2> QED
    BY <1>0, <1>1, <1>2, <2>1, <2>2, <2>3 DEF UnmovedOK
<1> QED
  BY <1>0, <1>2 DEF IInv, OneRecord

ScanOK(s) ==
  /\ pc[s] = "idle" => pos[s] = 0 /\ \A k \in Keys : seen[s][k] = 0
  /\ pc[s] # "idle" => pos[s] \in First..(First + Len(rec))
  /\ HereOK(s)
  /\ pc[s] # "idle" => \A k \in Keys \ moved[s] : UnmovedOK(s, k) /\ CountOK(s, k)

LEMMA ScanOthers ==
  ASSUME IInv, NEW s \in Scanners, ScanNext(s), NEW t \in Scanners, t # s
  PROVE  ScanOK(t)'
<1>1. /\ UNCHANGED <<rec, map>> /\ Still_
      /\ pc'[t] = pc[t] /\ db'[t] = db[t] /\ pos'[t] = pos[t] /\ seen'[t] = seen[t] /\ moved'[t] = moved[t]
  BY ScanFrame DEF IInv, Still_, files
<1>2. ScanOK(t)
  BY DEF IInv, ScanInv, ScanOK
<1>3. HereOK(t)'
  BY <1>1, <1>2 DEF ScanOK, HereOK
<1>4. \A k : UnmovedOK(t, k) => UnmovedOK(t, k)'
  BY <1>1, ListsStill DEF UnmovedOK, Still_
<1>5. \A k : CountOK(t, k) => CountOK(t, k)'
  <2>1. \A k : Passed(t, k)' <=> Passed(t, k)
    BY <1>1, ListsStill DEF Passed
  <2> QED
    BY <1>1, <2>1, ListsStill DEF CountOK
<1> QED
  BY <1>1, <1>2, <1>3, <1>4, <1>5 DEF ScanOK

LEMMA ScanRewind ==
  ASSUME IInv, NEW s \in Scanners, Rewind(s)
  PROVE  ScanOK(s)'
<1>1. /\ pc[s] = "idle" /\ pc'[s] = "nextrec" /\ ScanNext(s) /\ TypeOK
      /\ pos'[s] = First /\ seen' = seen /\ moved'[s] = InWork /\ rec' = rec
  BY DEF IInv, TypeOK, PointTypes, HistoryTypes, Rewind, At, ScanNext, All, files
<1>2. /\ Still_ /\ NHash \in Nat /\ Len(rec) \in Nat
  BY <1>1, ScanFrame, Offsets, DatabaseAssumption DEF IInv, Still_, DatabaseAssumption
<1>3. First \in First..(First + Len(rec))
  BY <1>2 DEF First
<1>4. ASSUME NEW k \in Keys \ moved'[s] PROVE UnmovedOK(s, k)' /\ CountOK(s, k)'
  <2>1. \A q \in Procs : pc[q] # "idle" => Op(q).key # k
    BY <1>1, <1>4 DEF InWork
  <2>2. UnmovedOK(s, k)'
    BY <1>2, <2>1, ListsStill DEF UnmovedOK, Still_
  <2>3. ~Passed(s, k)'
    BY <1>1, <1>2 DEF Passed, Records, First
  <2>4. seen[s][k] = 0
    BY <1>1, <1>4 DEF IInv, ScanInv
  <2> QED
    BY <1>1, <2>2, <2>3, <2>4 DEF CountOK
<1> QED
  BY <1>1, <1>3, <1>4 DEF ScanOK, HereOK

LEMMA ScanIdx ==
  ASSUME IInv, NEW s \in Scanners, NextIdx(s)
  PROVE  ScanOK(s)'
<1>0. PICK o : o = pos[s]
  OBVIOUS
<1>1. /\ pc[s] = "nextidx" /\ ScanNext(s) /\ TypeOK /\ UNCHANGED <<rec, seen, moved>>
      /\ o < First + Len(rec) /\ pos'[s] = o + 1
      /\ pc'[s] = IF Rec(o).key = Blank THEN "nextidx" ELSE "nextdat"
  BY <1>0 DEF IInv, TypeOK, PointTypes, HistoryTypes, NextIdx, At, ScanNext, All, files
<1>2. /\ Still_ /\ NHash \in Nat /\ Len(rec) \in Nat /\ Blank \notin Keys
      /\ \A k \in Keys \ moved[s] : UnmovedOK(s, k) /\ CountOK(s, k)
  BY <1>1, ScanFrame, Offsets, DatabaseAssumption DEF IInv, Still_, DatabaseAssumption, ScanInv
<1>3. /\ o \in First..(First + Len(rec)) /\ o \in Nat
      /\ o \in Records /\ o + 1 \in First..(First + Len(rec))
  <2>1. o \in First..(First + Len(rec))
    BY <1>0, <1>1 DEF IInv, ScanInv
  <2> QED
    BY <1>1, <1>2, <2>1 DEF Records, First
<1>4. Rec(o) \in RecType /\ o - NHash \in 1..Len(rec)
  BY <1>1, <1>3, Offsets
<1>5. db'[s].key = Rec(o).key /\ db'[s].datoff = Rec(o).datoff
  <2>1. db' = [db EXCEPT ![s] = [db[s] EXCEPT !.key = Rec(o).key, !.datoff = Rec(o).datoff]]
    BY <1>0 DEF NextIdx
  <2> QED
    BY <1>1, <2>1 DEF TypeOK, CallTypes, DBType, All
<1>6. HereOK(s)'
  <2>1. pc'[s] = "nextdat" => Rec(o).key \in Keys
    BY <1>1, <1>4 DEF RecType
  <2> QED
    BY <1>1, <1>4, <1>5, <2>1 DEF HereOK, Rec
<1>7. ASSUME NEW k \in Keys \ moved'[s] PROVE UnmovedOK(s, k)' /\ CountOK(s, k)'
  <2>1. UnmovedOK(s, k) /\ seen[s][k] = (IF Passed(s, k) THEN 1 ELSE 0)
    BY <1>1, <1>2, <1>7 DEF CountOK
  <2>2. UnmovedOK(s, k)'
    BY <1>2, <2>1, ListsStill DEF UnmovedOK, Still_
  <2>3. Passed(s, k)' <=> Passed(s, k) \/ Rec(o).key = k
    <3>1. \A x \in Records : x < o + 1 <=> x < o \/ x = o
      BY <1>2, <1>3 DEF Records, First
    <3> QED
      BY <1>0, <1>1, <1>2, <1>3, <3>1, ListsStill DEF Passed
  <2>4. ~ (Passed(s, k) /\ Rec(o).key = k)
    <3>1. ASSUME NEW x \in Records, x < o, Rec(x).key = k, Rec(o).key = k PROVE FALSE
      <4>1. x = o
        BY <1>1, <1>3, <1>7, <3>1, OneOfKey
      <4> QED
        BY <1>3, <3>1, <4>1
    <3> QED
      BY <1>0, <3>1 DEF Passed
  <2>5. pc'[s] = "nextdat" /\ db'[s].key = k <=> Rec(o).key = k
    BY <1>1, <1>2, <1>5
  <2>6. CountOK(s, k)'
    BY <1>1, <2>1, <2>3, <2>4, <2>5 DEF CountOK
  <2> QED
    BY <2>2, <2>6
<1> QED
  BY <1>1, <1>3, <1>6, <1>7 DEF ScanOK

LEMMA ScanDat ==
  ASSUME IInv, NEW s \in Scanners, NextDat(s)
  PROVE  ScanOK(s)'
<1>1. /\ pc[s] = "nextdat" /\ pc'[s] = "nextunlock" /\ ScanNext(s) /\ TypeOK
      /\ UNCHANGED <<rec, pos, moved>>
      /\ \A k \in Keys : seen'[s][k] = IF k = db[s].key THEN seen[s][k] + 1 ELSE seen[s][k]
  BY DEF IInv, TypeOK, PointTypes, HistoryTypes, NextDat, At, ScanNext, All, files
<1>2. /\ Still_ /\ pos[s] \in First..(First + Len(rec))
      /\ \A k \in Keys \ moved[s] : UnmovedOK(s, k) /\ CountOK(s, k)
  BY <1>1, ScanFrame DEF IInv, Still_, ScanInv
<1>3. ASSUME NEW k \in Keys \ moved'[s] PROVE UnmovedOK(s, k)' /\ CountOK(s, k)'
  <2>1. UnmovedOK(s, k) /\ CountOK(s, k)
    BY <1>1, <1>2, <1>3
  <2>2. UnmovedOK(s, k)'
    BY <1>2, <2>1, ListsStill DEF UnmovedOK, Still_
  <2>3. Passed(s, k)' <=> Passed(s, k)
    BY <1>1, <1>2, ListsStill DEF Passed
  <2>4. seen'[s][k] = IF Passed(s, k) THEN 1 ELSE 0
    BY <1>1, <1>3, <2>1 DEF CountOK
  <2> QED
    BY <1>1, <2>2, <2>3, <2>4 DEF CountOK
<1> QED
  BY <1>1, <1>2, <1>3 DEF ScanOK, HereOK

(* The steps that lock and unlock. *)
LEMMA ScanLocking ==
  ASSUME IInv, NEW s \in Scanners, NextLock(s) \/ NextEof(s) \/ NextUnlock(s)
  PROVE  ScanOK(s)'
<1>1. /\ pc[s] \in {"nextrec", "nextidx", "nextunlock"} /\ pc'[s] \in {"nextidx", "eof", "nextrec"}
      /\ pc'[s] = "eof" => pos[s] >= First + Len(rec)
      /\ ScanNext(s) /\ TypeOK /\ UNCHANGED <<rec, pos, seen, moved>>
  BY DEF IInv, TypeOK, PointTypes, NextLock, NextEof, NextUnlock, At, ScanNext, All, files, Frame, Still
<1>2. /\ Still_ /\ pos[s] \in First..(First + Len(rec)) /\ NHash \in Nat /\ Len(rec) \in Nat
      /\ \A k \in Keys \ moved[s] : UnmovedOK(s, k) /\ CountOK(s, k)
  BY <1>1, ScanFrame, Offsets, DatabaseAssumption DEF IInv, Still_, ScanInv, DatabaseAssumption
<1>3. ASSUME NEW k \in Keys \ moved'[s] PROVE UnmovedOK(s, k)' /\ CountOK(s, k)'
  <2>1. UnmovedOK(s, k) /\ CountOK(s, k)
    BY <1>1, <1>2, <1>3
  <2>2. UnmovedOK(s, k)'
    BY <1>2, <2>1, ListsStill DEF UnmovedOK, Still_
  <2>3. Passed(s, k)' <=> Passed(s, k)
    BY <1>1, <1>2, ListsStill DEF Passed
  <2>4. pc'[s] = "eof" => \A o \in Records' : o < pos[s]
    BY <1>1, <1>2 DEF Records, First
  <2> QED
    BY <1>1, <2>1, <2>2, <2>3, <2>4 DEF CountOK
<1> QED
  BY <1>1, <1>2, <1>3 DEF ScanOK, HereOK

LEMMA ScanStepInv ==
  ASSUME IInv, NEW s \in Scanners, ScanNext(s)
  PROVE  IInv'
<1>1. Still_ /\ TypeOK' /\ LockInv'
  BY ScanFrame, ScanTypes, ScanLocks DEF IInv, Still_
<1>2. /\ ListInv' /\ OneRecord' /\ (\A p \in Procs : ProcOK(p))' /\ HeldOnce' /\ DatInv' /\ MapInv'
  BY <1>1, CallsStill
<1>3. ScanOK(s)'
  BY ScanRewind, ScanIdx, ScanDat, ScanLocking DEF ScanNext
<1>4. ScanInv'
  BY <1>3, ScanOthers DEF ScanInv, ScanOK
<1> QED
  BY <1>1, <1>2, <1>4 DEF IInv

LEMMA ProcStepInv ==
  ASSUME IInv, NEW p \in Procs, ProcNext(p)
  PROVE  IInv'
<1>1. (\A q \in Procs : ProcOK(q))'
  BY ProcOKSteps
<1> QED
  BY <1>1, TypeSteps, LockInvSteps, ListSteps, OneRecordSteps, HeldOnceSteps, DatInvSteps,
     MapInvSteps, ScanInvSteps DEF IInv

LEMMA StutterInv ==
  ASSUME IInv, UNCHANGED vars
  PROVE  IInv'
<1>1. /\ UNCHANGED <<ptr, rec, dat, writer, readers, pc, db, left, ret, map, pos, seen, moved>>
  BY DEF vars, files, locks, scanVars
<1>2. Still_
  BY <1>1 DEF Still_, files
<1>3. TypeOK' /\ LockInv'
  BY <1>1 DEF IInv, TypeOK, FileTypes, LockTypes, PointTypes, CallTypes, HistoryTypes, LockInv, Op, Chain
<1>4. ASSUME NEW s \in Scanners PROVE ScanOK(s)'
  <2>1. ScanOK(s)
    BY DEF IInv, ScanInv, ScanOK
  <2>2. HereOK(s)'
    BY <1>1, <2>1 DEF ScanOK, HereOK
  <2>3. \A k : UnmovedOK(s, k) => UnmovedOK(s, k)'
    BY <1>1, <1>2, ListsStill DEF UnmovedOK
  <2>4. \A k : CountOK(s, k) => CountOK(s, k)'
    BY <1>1, <1>2, ListsStill DEF CountOK, Passed
  <2> QED
    BY <1>1, <2>1, <2>2, <2>3, <2>4 DEF ScanOK
<1>5. ScanInv'
  BY <1>4 DEF ScanInv, ScanOK
<1> QED
  BY <1>2, <1>3, <1>5, CallsStill DEF IInv

-----------------------------------------------------------------------------
(* The database that Preload was stored into. *)
LEMMA LastOfFacts ==
  ASSUME NEW h, NEW i \in Nat
  PROVE  LET S == {j \in 1..i : Hash[Preload[j][1]] = h}
         IN  \/ S = {} /\ LastOf(h, i) = 0
             \/ \E j \in S : LastOf(h, i) = NHash + j /\ \A k \in S : k <= j
<1> DEFINE S == {j \in 1..i : Hash[Preload[j][1]] = h}
<1>1. CASE S = {}
  BY <1>1 DEF LastOf
<1>2. CASE S # {}
  <2> DEFINE T == {i - j : j \in S}
  <2>1. T \in SUBSET Nat /\ T # {}
    BY <1>2
  <2>2. PICK t \in T : \A u \in T : ~ u < t
    <3> HIDE DEF T
    <3> QED
      BY <2>1, Least
  <2>3. PICK j \in S : t = i - j
    BY <2>2
  <2>4. \A k \in S : k <= j
    <3>1. ASSUME NEW k \in S PROVE k <= j
      <4>1. ~ (i - k) < i - j
        BY <2>2, <2>3
      <4> QED
        BY <4>1
    <3> QED
      BY <3>1
  <2>5. LastOf(h, i) = NHash + (CHOOSE x \in S : \A k \in S : k <= x)
    BY <1>2 DEF LastOf
  <2>6. j = CHOOSE x \in S : \A k \in S : k <= x
    <3>1. \A x \in S : (\A k \in S : k <= x) => x = j
      BY <2>4
    <3> QED
      BY <2>4, <3>1
  <2> QED
    BY <2>4, <2>5, <2>6
<1> QED
  BY <1>1, <1>2

LEMMA InitTypes == Init => TypeOK /\ LockInv
<1> SUFFICES ASSUME Init PROVE TypeOK /\ LockInv
  OBVIOUS
<1>1. /\ Preload \in Seq(Keys \X Values) /\ Len(Preload) \in Nat /\ DOMAIN Preload = 1..Len(Preload)
      /\ \A i \in 1..Len(Preload) : Preload[i][1] \in Keys /\ Preload[i][2] \in Values
  <2>1. Preload \in Seq(Keys \X Values)
    BY DatabaseAssumption DEF DatabaseAssumption
  <2> QED
    BY <2>1, LenProperties, ElementOfSeq
<1>2. NHash \in Nat \ {0} /\ KLen \in [Keys -> Nat] /\ VLen \in [Values -> Nat]
  BY DatabaseAssumption DEF DatabaseAssumption
<1>3. rec \in [1..Len(Preload) -> RecType] /\ dat \in [1..Len(Preload) -> Values \cup {Blank}]
  BY <1>1, <1>2 DEF Init, RecType
<1>4. /\ rec \in Seq(RecType) /\ Len(rec) = Len(Preload)
      /\ dat \in Seq(Values \cup {Blank}) /\ Len(dat) = Len(Preload)
  BY <1>1, <1>3, IsASeq, LenProperties, SMTT(30)
<1>5. \A h, i : i \in Nat => LastOf(h, i) \in Nat
  BY <1>2, LastOfFacts
<1>6. ptr \in [0..(NHash + Len(Preload)) -> Nat]
  <2>1. \A o \in 0..(NHash + Len(Preload)) : ~ o <= NHash => o - First \in Nat
    BY <1>1, <1>2 DEF First
  <2> QED
    BY <1>1, <1>5, <2>1 DEF Init
<1>7. FileTypes
  BY <1>4, <1>6 DEF FileTypes
<1>8. LockTypes
  BY DEF Init, LockTypes
<1>9. PointTypes
  BY DEF Init, PointTypes, ProcPoints, ScanPoints, All
<1>10. CallTypes
  <2>1. NoDB \in DBType /\ NoDB.op = None
    BY DEF NoDB, DBType, Results
  <2> QED
    BY <2>1 DEF Init, CallTypes, Op, All
<1>11. HistoryTypes
  <2>1. map \in [Keys -> Values \cup {None}]
    <3>1. \A k : (\E i \in DOMAIN Preload : Preload[i][1] = k) =>
            (CHOOSE i \in DOMAIN Preload : Preload[i][1] = k) \in DOMAIN Preload
      OBVIOUS
    <3> QED
      BY <1>1, <3>1 DEF Init
  <2> QED
    BY <2>1, DatabaseAssumption DEF Init, HistoryTypes, Results, DatabaseAssumption
<1>12. LockInv
  BY DEF Init, LockInv, All, FreeHeld
<1> QED
  BY <1>7, <1>8, <1>9, <1>10, <1>11, <1>12 DEF TypeOK

LEMMA InitFacts ==
  ASSUME Init
  PROVE  /\ TypeOK /\ NHash \in Nat \ {0} /\ Len(Preload) \in Nat /\ Len(rec) = Len(Preload)
         /\ DOMAIN Preload = 1..Len(Preload) /\ Len(dat) = Len(Preload)
         /\ \A i \in 1..Len(Preload) : Preload[i][1] \in Keys /\ Preload[i][2] \in Values
         /\ \A i \in 1..Len(Preload) :
              /\ rec[i].key = Preload[i][1] /\ rec[i].datoff = i /\ dat[i] = Preload[i][2]
              /\ rec[i].datlen = VLen[Preload[i][2]]
         /\ Records = First..(NHash + Len(Preload))
         /\ \A o \in Records : o - NHash \in 1..Len(Preload) /\ ~Held(o)
                               /\ Home(o) = Hash[Preload[o - NHash][1]]
         /\ \A o \in 0..(NHash + Len(Preload)) : Succ[o] = ptr[o]
<1>1. /\ TypeOK /\ Preload \in Seq(Keys \X Values) /\ NHash \in Nat \ {0} /\ Blank \notin Keys
  BY InitTypes, DatabaseAssumption DEF DatabaseAssumption
<1>2. /\ Len(Preload) \in Nat /\ DOMAIN Preload = 1..Len(Preload)
      /\ \A i \in 1..Len(Preload) : Preload[i][1] \in Keys /\ Preload[i][2] \in Values
  BY <1>1, LenProperties, ElementOfSeq
<1>3. Len(rec) = Len(Preload) /\ Len(dat) = Len(Preload)
  <2>1. DOMAIN rec = 1..Len(Preload) /\ DOMAIN dat = 1..Len(Preload)
    BY <1>2 DEF Init
  <2>2. rec \in Seq(RecType) /\ dat \in Seq(Values \cup {Blank})
    BY <1>1 DEF TypeOK, FileTypes
  <2> QED
    BY <1>2, <2>1, <2>2, LenProperties
<1>4. \A i \in 1..Len(Preload) :
        /\ rec[i].key = Preload[i][1] /\ rec[i].datoff = i /\ dat[i] = Preload[i][2]
        /\ rec[i].datlen = VLen[Preload[i][2]]
  BY <1>2 DEF Init
<1>5. Records = First..(NHash + Len(Preload))
  BY <1>3 DEF Records
<1>6. \A p \in Procs : pc[p] = "idle"
  BY DEF Init, All
<1>7. \A o \in Records : o - NHash \in 1..Len(Preload) /\ ~Held(o)
                         /\ Home(o) = Hash[Preload[o - NHash][1]]
  <2>1. \A o \in Records : o - NHash \in 1..Len(Preload)
    BY <1>1, <1>2, <1>5 DEF First
  <2>2. \A o : ~Held(o)
    BY <1>6 DEF Held, InHand
  <2> QED
    BY <1>1, <1>2, <1>4, <2>1, <2>2 DEF Home, Rec
<1>8. \A o \in 0..(NHash + Len(Preload)) : Succ[o] = ptr[o]
  <2>1. \A q : ~Unlinking(q)
    BY <1>6 DEF Unlinking
  <2> QED
    BY <2>1 DEF Succ, Init
<1> QED
  BY <1>1, <1>2, <1>3, <1>4, <1>5, <1>7, <1>8

LEMMA InitList == Init => ListInv
<1> SUFFICES ASSUME Init PROVE ListInv
  OBVIOUS
<1> DEFINE n == Len(Preload)
           M(h) == {o \in Records : Hash[Preload[o - NHash][1]] = h}
           r == [x \in Nat |-> IF x \in Locks THEN NHash + n + 1 ELSE x]
<1>1. /\ NHash \in Nat \ {0} /\ n \in Nat /\ Records = First..(NHash + n) /\ First = NHash + 1
      /\ Records \subseteq Nat /\ Locks = 0..NHash /\ Records \cap Locks = {}
      /\ \A o \in Records : o - NHash \in 1..n
  <2>1. NHash \in Nat \ {0} /\ n \in Nat /\ Records = First..(NHash + n)
    BY InitFacts
  <2> QED
    BY <2>1 DEF First, Locks, FREEOFF
<1>2. \A h : Members(h) = M(h)
  BY InitFacts DEF Members
<1>3. r \in [Nat -> Nat] /\ (\A h \in Locks : r[h] = NHash + n + 1) /\ \A o \in Records : r[o] = o
  BY <1>1
<1> HIDE DEF r
<1>4. /\ \A h \in Locks \ {FREEOFF} : Succ[h] = LastOf(h, n)
      /\ Succ[FREEOFF] = 0
      /\ \A o \in Records : Succ[o] = LastOf(Hash[Preload[o - NHash][1]], o - First)
  <2>1. /\ \A o \in 0..(NHash + n) : Succ[o] = ptr[o]
        /\ ptr = [o \in 0..(NHash + n) |->
              IF o = FREEOFF THEN 0
              ELSE IF o <= NHash THEN LastOf(o, n)
              ELSE LastOf(Hash[Preload[o - NHash][1]], o - First)]
    BY InitFacts DEF Init
  <2>2. \A h \in Locks \ {FREEOFF} : h \in 0..(NHash + n) /\ h # 0 /\ h <= NHash
    BY <1>1 DEF FREEOFF
  <2>3. \A o \in Records : o \in 0..(NHash + n) /\ o # 0 /\ ~ o <= NHash
    BY <1>1
  <2>4. 0 \in 0..(NHash + n)
    BY <1>1
  <2>5. \A h \in Locks \ {FREEOFF} : Succ[h] = LastOf(h, n)
    BY <2>1, <2>2 DEF FREEOFF
  <2>6. Succ[FREEOFF] = 0
    BY <2>1, <2>4 DEF FREEOFF
  <2>7. \A o \in Records : Succ[o] = LastOf(Hash[Preload[o - NHash][1]], o - First)
    BY <2>1, <2>3 DEF FREEOFF
  <2> QED
    BY <2>5, <2>6, <2>7
(* The last record of a chain below a place is the one of the next lower rank. *)
<1>5. ASSUME NEW h \in Locks, NEW x \in M(h) \cup {h}, NEW i \in 0..n,
             \A o \in M(h) : o - NHash \in 1..i <=> r[o] < r[x],
             Succ[x] = LastOf(h, i)
      PROVE  NextLower(M(h), r, x, Succ[x])
  <2> DEFINE S == {j \in 1..i : Hash[Preload[j][1]] = h}
  <2>1. ASSUME NEW j \in S
        PROVE  NHash + j \in M(h) /\ (NHash + j) - NHash = j /\ r[NHash + j] = NHash + j
    <3>1. NHash + j \in Records /\ (NHash + j) - NHash = j
      BY <1>1
    <3> QED
      BY <1>3, <3>1
  <2>2. \A o \in M(h) : r[o] < r[x] => o - NHash \in S
    BY <1>5
  <2>3. \/ S = {} /\ LastOf(h, i) = 0
        \/ \E j \in S : LastOf(h, i) = NHash + j /\ \A k \in S : k <= j
    BY LastOfFacts
  <2>4. CASE S = {} /\ LastOf(h, i) = 0
    BY <1>5, <2>2, <2>4 DEF NextLower
  <2>5. CASE \E j \in S : LastOf(h, i) = NHash + j /\ \A k \in S : k <= j
    <3>1. PICK j \in S : LastOf(h, i) = NHash + j /\ \A k \in S : k <= j
      BY <2>5
    <3>2. PICK y : y = NHash + j
      OBVIOUS
    <3>3. y \in M(h) /\ y - NHash = j /\ r[y] = y /\ j \in 1..i
      BY <2>1, <3>1, <3>2
    <3>4. Succ[x] = y /\ r[y] < r[x]
      BY <1>5, <3>1, <3>2, <3>3
    <3>5. ASSUME NEW m \in M(h), r[m] < r[x] PROVE ~ r[y] < r[m]
      <4>1. m - NHash \in S /\ m \in Nat /\ r[m] = m
        BY <1>1, <1>3, <2>2, <3>5
      <4>2. m - NHash <= j
        BY <3>1, <4>1
      <4> QED
        BY <1>1, <3>2, <3>3, <4>1, <4>2
    <3> QED
      BY <3>3, <3>4, <3>5 DEF NextLower
  <2> QED
    BY <2>3, <2>4, <2>5
<1>6. M(FREEOFF) = {}
  <2>1. \A o \in Records : Preload[o - NHash][1] \in Keys
    BY <1>1, InitFacts
  <2>2. \A k \in Keys : Hash[k] # FREEOFF
    BY DatabaseAssumption DEF DatabaseAssumption, FREEOFF
  <2> QED
    BY <2>1, <2>2
<1>7. ASSUME NEW h \in Locks PROVE Shaped(M(h), h, r, Succ)
  <2>1. \A m \in M(h) : r[m] = m /\ m \in Nat /\ r[m] < r[h]
    BY <1>1, <1>3
  <2>2. ASSUME NEW x \in M(h) \cup {h} PROVE NextLower(M(h), r, x, Succ[x])
    <3>1. CASE x = h /\ h = FREEOFF
      BY <1>4, <1>6, <3>1 DEF NextLower
    <3>2. CASE x = h /\ h # FREEOFF
      <4>1. \A o \in M(h) : o - NHash \in 1..n <=> r[o] < r[x]
        BY <1>1, <2>1, <3>2
      <4>2. n \in 0..n /\ Succ[x] = LastOf(h, n)
        BY <1>1, <1>4, <3>2
      <4> QED
        BY <1>5, <4>1, <4>2
    <3>3. CASE x \in M(h)
      <4>1. x - First \in 0..n
        BY <1>1, <3>3
      <4>2. \A o \in M(h) : o - NHash \in 1..(x - First) <=> r[o] < r[x]
        <5>1. ASSUME NEW o \in M(h) PROVE o - NHash \in 1..(x - First) <=> o < x
          <6>1. o \in Nat /\ x \in Nat /\ o - NHash \in 1..n /\ x - NHash \in 1..n
            BY <1>1, <3>3
          <6> QED
            BY <1>1, <6>1
        <5> QED
          BY <2>1, <3>3, <5>1
      <4>3. Succ[x] = LastOf(h, x - First)
        BY <1>4, <3>3
      <4> QED
        BY <1>5, <4>1, <4>2, <4>3
    <3> QED
      BY <3>1, <3>2, <3>3
  <2> QED
    BY <2>1, <2>2 DEF Shaped
<1>8. Ordered(r)
  <2>1. \A h \in Locks : Shaped(Members(h), h, r, Succ)
    BY <1>2, <1>7
  <2>2. \A p \in Procs : pc[p] = "idle"
    BY DEF Init, All
  <2> QED
    BY <2>1, <2>2 DEF Ordered
<1> QED
  BY <1>3, <1>8 DEF ListInv

LEMMA InitIInv == Init => IInv
<1> SUFFICES ASSUME Init PROVE IInv
  OBVIOUS
<1>1. (\A p \in Procs : pc[p] = "idle" /\ Op(p) = None) /\ \A s \in Scanners : pc[s] = "idle"
  BY DEF Init, All, Op, NoDB
<1>2. \A i, j \in DOMAIN Preload : Preload[i][1] = Preload[j][1] => i = j
  BY DatabaseAssumption DEF DatabaseAssumption
<1>3. NHash \in Nat
  BY DatabaseAssumption DEF DatabaseAssumption
<1>4. OneRecord
  <2>1. \A m, n \in Records : m - NHash = n - NHash => m = n
    BY <1>3, InitFacts DEF First
  <2> QED
    BY <1>2, <2>1, InitFacts DEF OneRecord, Rec
<1>5. \A p \in Procs : ProcOK(p)
  BY <1>1
  DEF ProcOK, WalkOK, FoundOK, UnlinkOK, TakenOK, LinkOK, CallOK, Found_, Head_, Gone_
<1>6. HeldOnce
  BY <1>1 DEF HeldOnce, InHand
<1>7. DatInv
  <2>1. Len(rec) = Len(dat) /\ \A i \in 1..Len(rec) : rec[i].datoff = i
    BY InitFacts
  <2>2. \A p \in Procs : pc[p] # "appendidx"
    BY <1>1
  <2> QED
    BY <2>1, <2>2 DEF DatInv
<1>8. ASSUME NEW k \in Keys PROVE Agrees(k)
  <2>1. Value(k) = map[k]
    BY <1>1 DEF Value
  <2>2. ASSUME NEW i \in 1..Len(Preload), Preload[i][1] = k PROVE map[k] = Preload[i][2]
    <3>1. i = CHOOSE j \in DOMAIN Preload : Preload[j][1] = k
      BY <1>2, <2>2, InitFacts
    <3> QED
      BY <2>2, <3>1, InitFacts DEF Init
  <2>3. map[k] # None => \E i \in 1..Len(Preload) : Preload[i][1] = k
    BY InitFacts DEF Init
  <2>4. \A m \in Members(Hash[k]) : Rec(m).key = k =>
          map[k] # None /\ dat[Rec(m).datoff] = map[k] /\ Rec(m).datlen = VLen[map[k]]
    <3>1. ASSUME NEW m \in Members(Hash[k]), Rec(m).key = k
          PROVE  map[k] # None /\ dat[Rec(m).datoff] = map[k] /\ Rec(m).datlen = VLen[map[k]]
      <4>1. PICK i \in 1..Len(Preload) : i = m - NHash
        BY InitFacts DEF Members
      <4>2. rec[i].key = k /\ Preload[i][1] = k /\ Preload[i][2] \in Values
        BY <3>1, <4>1, InitFacts DEF Rec
      <4> QED
        BY <2>2, <4>1, <4>2, InitFacts, DatabaseAssumption DEF Rec, DatabaseAssumption
    <3> QED
      BY <3>1
  <2>5. map[k] # None => \E m \in Members(Hash[k]) : Rec(m).key = k
    <3>1. ASSUME NEW i \in 1..Len(Preload), Preload[i][1] = k
          PROVE  \E m \in Members(Hash[k]) : Rec(m).key = k
      <4>1. PICK m : m = NHash + i
        OBVIOUS
      <4>2. m \in Records /\ m - NHash = i
        BY <1>3, <4>1, InitFacts DEF First
      <4> QED
        BY <3>1, <4>2, InitFacts DEF Members, Rec
    <3> QED
      BY <2>3, <3>1
  <2> QED
    BY <2>1, <2>4, <2>5 DEF Agrees
<1>9. MapInv
  BY <1>8 DEF MapInv
<1>10. ScanInv
  BY <1>1 DEF ScanInv, HereOK, Init
<1> QED
  BY <1>4, <1>5, <1>6, <1>7, <1>9, <1>10, InitTypes, InitList DEF IInv

(* The invariant holds in every state: every call, every scan and every    *)
(* interleaving of them under the record locks keeps the files in order.   *)
THEOREM Invariant == Spec => []IInv
<1>1. IInv /\ [Next]_vars => IInv'
  BY ProcStepInv, ScanStepInv, StutterInv DEF Next
<1> QED
  BY <1>1, InitIInv, PTL DEF Spec

-----------------------------------------------------------------------------
(* What the lists lead through, when nobody is unlinking from them. *)
LEMMA ListedIsMembers ==
  ASSUME IInv, NEW h \in Locks, \A x \in Members(h) \cup {h} : Succ[x] = ptr[x]
  PROVE  Listed(h) = Members(h) /\ \E x \in {h} \cup Members(h) : ptr[x] = 0
<1>1. /\ TypeOK /\ Members(h) \in SUBSET Nat /\ Members(h) \subseteq Records /\ 0 \notin Members(h)
      /\ h \notin Members(h) /\ h \in Nat
  BY MembersIn, Offsets DEF IInv
<1>2. PICK r \in [Nat -> Nat] : Shaped(Members(h), h, r, Succ)
  BY DEF IInv, ListInv, Ordered
<1>3. \E x \in {h} \cup Members(h) : ptr[x] = 0
  BY <1>1, <1>2, ShapedEnds
<1>4. Closed(h, Members(h))
  BY <1>1, Leads DEF Closed, IInv
<1>5. ASSUME NEW S \in SUBSET Records, Closed(h, S) PROVE Members(h) \subseteq S
  <2>1. Shaped(Members(h), h, r, ptr)
    BY <1>2, ShapedSame
  <2>2. \A x \in {h} \cup S : ptr[x] \in {0} \cup S
    BY <1>5 DEF Closed
  <2> QED
    BY <1>1, <2>1, <2>2, ShapedLeast
<1>6. Listed(h) = Members(h)
  BY <1>1, <1>4, <1>5 DEF Listed
<1> QED
  BY <1>3, <1>6

(* A free record that is in no list has just been taken by a store. *)
LEMMA FreeRecords ==
  ASSUME IInv, writer[FREEOFF] = None
  PROVE  Members(FREEOFF) = {o \in Records : Rec(o).key = Blank} \ Taken
<1>1. /\ TypeOK /\ None \notin Procs /\ Blank \notin Keys /\ FREEOFF \notin 1..NHash
      /\ Hash \in [Keys -> 1..NHash]
  BY DatabaseAssumption DEF IInv, DatabaseAssumption, FREEOFF
<1>2. ASSUME NEW o \in Records PROVE Home(o) = FREEOFF <=> Rec(o).key = Blank
  <2>1. Rec(o).key \in Keys \cup {Blank}
    BY <1>1, Offsets DEF RecType
  <2> QED
    BY <1>1, <2>1 DEF Home
<1>3. ASSUME NEW o \in Records, Rec(o).key = Blank PROVE Held(o) <=> o \in Taken
  <2>1. ASSUME NEW q \in Procs, pc[q] \in InHand, db[q].idxoff = o
        PROVE  pc[q] \in {"reusedat", "reuseidx"}
    <3>1. pc[q] \notin FreeHeld
      BY <1>1 DEF IInv, LockInv
    <3>2. pc[q] # "link"
      <4>1. ASSUME pc[q] = "link" PROVE FALSE
        <5>1. Rec(o).key = Op(q).key
          BY <2>1, <4>1 DEF IInv, ProcOK, LinkOK
        <5>2. Op(q).key \in Keys
          BY <1>1, <4>1, CallFacts
        <5> QED
          BY <1>1, <1>3, <5>1, <5>2
      <4> QED
        BY <4>1
    <3> QED
      BY <2>1, <3>1, <3>2 DEF InHand, FreeHeld
  <2> QED
    BY <2>1 DEF Held, Taken, InHand
<1> QED
  BY <1>2, <1>3 DEF Members

LEMMA FilesInOrder == IInv => OnDisk
<1> SUFFICES ASSUME IInv PROVE OnDisk
  OBVIOUS
<1>1. /\ TypeOK /\ None \notin Procs /\ Blank \notin Keys /\ Hash \in [Keys -> 1..NHash]
      /\ NHash \in Nat /\ None \notin Values
  BY DatabaseAssumption DEF IInv, DatabaseAssumption
<1>2. DOMAIN ptr = 0..(NHash + Len(rec))
  BY <1>1, Offsets
<1>3. ASSUME NEW h \in 1..NHash, writer[h] = None
      PROVE  LET out == Listed(h)
             IN  /\ \E o \in {h} \cup out : ptr[o] = 0
                 /\ \A o \in out : /\ Rec(o).key \in Keys /\ Hash[Rec(o).key] = h
                                   /\ map[Rec(o).key] = dat[Rec(o).datoff]
                                   /\ Rec(o).datlen = VLen[dat[Rec(o).datoff]]
                 /\ \A k \in {c \in Keys : Hash[c] = h /\ map[c] # None} :
                      \E o \in out : \A q \in out : Rec(q).key = k <=> q = o
  <2>1. h \in Locks /\ h # FREEOFF
    BY <1>1 DEF Locks, FREEOFF
  <2>2. \A x \in Members(h) \cup {h} : Succ[x] = ptr[x]
    <3>1. ASSUME NEW q \in Procs, Unlinking(q) PROVE UnlinkOK(q) /\ Chain(q) # h
      <4>1. Op(q).kind # "fetch" /\ UnlinkOK(q)
        BY <3>1 DEF IInv, ProcOK, CallOK, Unlinking, Gone_
      <4>2. writer[Chain(q)] = q
        BY <3>1, <4>1 DEF IInv, LockInv, Unlinking
      <4> QED
        BY <1>1, <1>3, <4>1, <4>2
    <3> QED
      BY <1>1, <2>1, <3>1, PtrIsSucc
  <2>3. Listed(h) = Members(h) /\ \E x \in {h} \cup Members(h) : ptr[x] = 0
    BY <2>1, <2>2, ListedIsMembers
  <2>4. ASSUME NEW o \in Members(h) PROVE Rec(o).key \in Keys /\ Hash[Rec(o).key] = h
    <3>1. Rec(o).key \in Keys \cup {Blank} /\ Home(o) = h
      BY <1>1, Offsets DEF RecType, Members
    <3> QED
      BY <2>1, <3>1 DEF Home
  <2>5. ASSUME NEW k \in Keys, Hash[k] = h PROVE ~Busy(k) /\ Value(k) = map[k] /\ Agrees(k)
    BY <1>1, <1>3, <2>5 DEF Busy, Value, IInv, MapInv
  <2>6. ASSUME NEW o \in Members(h)
        PROVE  map[Rec(o).key] = dat[Rec(o).datoff] /\ Rec(o).datlen = VLen[dat[Rec(o).datoff]]
    BY <2>4, <2>5 DEF Agrees
  <2>7. ASSUME NEW k \in Keys, Hash[k] = h, map[k] # None
        PROVE  \E o \in Members(h) : \A q \in Members(h) : Rec(q).key = k <=> q = o
    <3>1. PICK o \in Members(h) : Rec(o).key = k
      BY <2>5, <2>7 DEF Agrees
    <3> QED
      BY <1>1, <3>1 DEF IInv, OneRecord, Members
  <2> QED
    BY <2>3, <2>4, <2>6, <2>7
<1>4. ASSUME writer[FREEOFF] = None
      PROVE  LET out == Listed(FREEOFF)
             IN  /\ \E o \in {FREEOFF} \cup out : ptr[o] = 0
                 /\ out = {o \in Records : Rec(o).key = Blank} \ Taken
  BY <1>1, <1>4, FreeStill, ListedIsMembers, FreeRecords, Offsets DEF FREEOFF
<1> QED
  BY <1>2, <1>3, <1>4 DEF OnDisk

(* Whenever nobody holds the write lock of a chain, it ends and leads to   *)
(* exactly one record per key that the finished calls left in it, with its *)
(* value and length; whenever nobody holds the free list, it ends and      *)
(* leads to exactly the blank records (_db_writeidx, _db_writeptr under    *)
(* the locks of _db_find_and_lock, _db_dodelete and _db_findfree).         *)
THEOREM ListsOnDisk == Spec => []OnDisk
BY Invariant, FilesInOrder, PTL

(* The structures, offsets and locks keep their types, and a lock has      *)
(* either one writer or readers (writew_lock, readw_lock).                 *)
THEOREM Types == Spec => [](TypeOK /\ LockInv)
<1>1. IInv => TypeOK /\ LockInv
  BY DEF IInv
<1> QED
  BY <1>1, Invariant, PTL

-----------------------------------------------------------------------------
(* The scans.  A record with a key that no call has in hand is in the      *)
(* chain of the key; the one a call has in hand is about to be linked.     *)
LEMMA KeyedRecord ==
  ASSUME IInv, NEW k \in Keys, NEW o \in Records, Rec(o).key = k
  PROVE  \/ o \in Members(Hash[k])
         \/ \E q \in Procs : pc[q] = "link" /\ Op(q).key = k /\ db[q].idxoff = o
<1>1. Blank \notin Keys /\ 0 \notin Records
  BY Offsets, DatabaseAssumption DEF IInv, DatabaseAssumption
<1>2. ASSUME NEW q \in Procs, pc[q] \in InHand, db[q].idxoff = o
      PROVE  pc[q] = "link" /\ Op(q).key = k
  <2>1. pc[q] # "link" => Rec(o).key = Blank
    BY <1>1, <1>2 DEF IInv, ProcOK, UnlinkOK, TakenOK, InHand
  <2>2. pc[q] = "link" => Rec(o).key = Op(q).key
    BY <1>2 DEF IInv, ProcOK, LinkOK
  <2> QED
    BY <1>1, <1>2, <2>1, <2>2
<1> QED
  BY <1>1, <1>2 DEF Held, Members, Home

LEMMA ScanStepReadsLive ==
  ASSUME IInv, NEW s \in Scanners, NextDat(s)
  PROVE  db'[s].res \in {map[db[s].key]} \cup
           {Op(p).val : p \in {q \in Procs : Op(q) # None /\ Op(q).key = db[s].key
                                                       /\ Op(q).kind = "store"}}
<1>1. /\ TypeOK /\ LockInv /\ ValueOK /\ None \notin Procs /\ pc[s] = "nextdat" /\ HereOK(s)
      /\ NHash \in Nat /\ Len(rec) \in Nat
  BY ValueFacts, Offsets, DatabaseAssumption DEF IInv, DatabaseAssumption, NextDat, At, ScanInv
<1>2. PICK k \in Keys : k = db[s].key
  BY <1>1 DEF HereOK
<1>3. PICK i \in 1..Len(rec) : rec[i].key = k /\ rec[i].datoff = db[s].datoff
  BY <1>1, <1>2 DEF HereOK
<1>4. PICK o \in Records : Rec(o).key = k /\ Rec(o).datoff = db[s].datoff
  <2>1. NHash + i \in Records /\ (NHash + i) - NHash = i
    BY <1>1 DEF Records, First
  <2> QED
    BY <1>3, <2>1 DEF Rec
<1>5. db'[s].res = dat[Rec(o).datoff]
  <2>1. db \in [All -> DBType] /\ s \in All
    BY <1>1 DEF TypeOK, CallTypes, All
  <2> QED
    BY <1>4, <2>1 DEF NextDat, DBType
<1>6. ASSUME NEW q \in Procs, pc[q] # "idle" PROVE Op(q) # None
  BY <1>1, <1>6 DEF TypeOK, CallTypes
<1>7. CASE \E q \in Procs : pc[q] = "link" /\ Op(q).key = k /\ db[q].idxoff = o
  <2>1. PICK q \in Procs : pc[q] = "link" /\ Op(q).key = k /\ db[q].idxoff = o
    BY <1>7
  <2>2. dat[Rec(o).datoff] = Op(q).val /\ Op(q).kind = "store"
    BY <2>1 DEF IInv, ProcOK, LinkOK, CallOK
  <2> QED
    BY <1>2, <1>5, <1>6, <2>1, <2>2
<1>8. CASE o \in Members(Hash[k])
  <2>1. ~Busy(k)
    <3>1. ASSUME NEW q \in Procs, pc[q] \in Deep, Op(q).key = k PROVE FALSE
      <4>1. CASE pc[q] \in Gone_
        BY <1>4, <1>8, <3>1, <4>1 DEF IInv, ProcOK, CallOK, Chain
      <4>2. CASE pc[q] = "blankidx"
        <5>1. writer[FREEOFF] = q /\ s \in readers[FREEOFF] /\ FREEOFF \in Locks
          BY <1>1, <4>2, Offsets DEF LockInv, FreeHeld, FREEOFF
        <5> QED
          BY <1>1, <5>1 DEF LockInv
      <4> QED
        BY <3>1, <4>1, <4>2 DEF Deep
    <3> QED
      BY <1>1, <3>1 DEF ValueOK
  <2>2. Value(k) # None /\ dat[Rec(o).datoff] = Value(k)
    BY <1>4, <1>8, <2>1 DEF IInv, MapInv, Agrees
  <2>3. CASE \E q \in Procs : pc[q] = "unlock" /\ Op(q).key = k
    <3>1. PICK q \in Procs : pc[q] = "unlock" /\ Op(q).key = k
      BY <2>3
    <3>2. Value(k) = KV!After(map, Op(q))[k]
      BY <1>1, <3>1 DEF ValueOK
    <3>3. Value(k) = map[k] \/ (Op(q).kind = "store" /\ Value(k) = Op(q).val)
      BY <1>1, <2>2, <3>1, <3>2, AfterFacts, CallFacts
    <3> QED
      BY <1>2, <1>5, <1>6, <2>2, <3>1, <3>3
  <2>4. CASE \A q \in Procs : pc[q] = "unlock" => Op(q).key # k
    BY <1>1, <1>2, <1>5, <2>2, <2>4 DEF ValueOK
  <2> QED
    BY <2>3, <2>4
<1> QED
  BY <1>4, <1>7, <1>8, KeyedRecord

LEMMA ScanStepOnly ==
  ASSUME IInv, [Next]_vars, NEW s \in Scanners, pc[s] = "nextdat", pc'[s] # "nextdat"
  PROVE  NextDat(s)
<1>1. TypeOK /\ LockInv /\ Procs \cap Scanners = {}
  BY DatabaseAssumption DEF IInv, DatabaseAssumption
<1>2. ~ UNCHANGED vars
  BY DEF vars
<1>3. ASSUME NEW p \in Procs, ProcNext(p) PROVE FALSE
  BY <1>1, <1>3, StepFrame DEF All
<1>4. ASSUME NEW t \in Scanners, ScanNext(t), t # s PROVE FALSE
  BY <1>1, <1>4, ScanFrame
<1>5. ScanNext(s)
  BY <1>2, <1>3, <1>4 DEF Next
<1> QED
  BY <1>5 DEF ScanNext, Rewind, NextLock, NextIdx, NextEof, NextUnlock, At

(* db_nextrec returns a value its key has, or one a store of the key is    *)
(* just writing, although it holds only the free list: never the data of   *)
(* another key, nor of a record that is being deleted (_db_dodelete blanks *)
(* data and index record under the lock of the free list).                 *)
THEOREM ScansReadLive == Spec => ScanReadsLive
<1>1. IInv /\ [Next]_vars =>
        \A s \in Scanners : pc[s] = "nextdat" /\ pc'[s] # "nextdat" =>
          db'[s].res \in {map[db[s].key]} \cup
            {Op(p).val : p \in {q \in Procs : Op(q) # None /\ Op(q).key = db[s].key
                                                        /\ Op(q).kind = "store"}}
  BY ScanStepReadsLive, ScanStepOnly
<1> QED
  BY <1>1, Invariant, PTL DEF Spec, ScanReadsLive

LEMMA CountsRight == IInv => ScanComplete
<1> SUFFICES ASSUME IInv, NEW s \in Scanners, pc[s] = "eof", NEW k \in Keys \ moved[s]
             PROVE  seen[s][k] = IF map[k] = None THEN 0 ELSE 1
  BY DEF ScanComplete
<1>1. /\ TypeOK /\ ValueOK /\ UnmovedOK(s, k) /\ CountOK(s, k)
  BY ValueFacts DEF IInv, ScanInv
<1>2. seen[s][k] = IF \E o \in Records : Rec(o).key = k THEN 1 ELSE 0
  BY <1>1 DEF CountOK, Passed
<1>3. ASSUME NEW o \in Records, Rec(o).key = k PROVE o \in Members(Hash[k])
  <2>1. ~ \E q \in Procs : pc[q] = "link" /\ Op(q).key = k /\ db[q].idxoff = o
    BY <1>1 DEF UnmovedOK
  <2> QED
    BY <1>3, <2>1, KeyedRecord
<1>4. Members(Hash[k]) \subseteq Records
  BY <1>1, MembersIn
<1>5. CASE Busy(k)
  <2>1. PICK q \in Procs : pc[q] \in Deep /\ Op(q).key = k
    BY <1>1, <1>5 DEF ValueOK
  <2>2. CASE pc[q] = "blankidx"
    <3>1. map[k] # None
      BY <1>1, <2>1, <2>2 DEF UnmovedOK
    <3>2. db[q].idxoff \in Members(Chain(q)) /\ Rec(db[q].idxoff).key = k
      BY <2>1, <2>2 DEF IInv, ProcOK, FoundOK, Found_
    <3>3. db[q].idxoff \in Records
      BY <1>1, <3>2, MembersIn
    <3> QED
      BY <1>2, <3>1, <3>2, <3>3
  <2>3. CASE pc[q] \in Gone_
    <3>1. map[k] = None
      BY <1>1, <2>1, <2>3 DEF UnmovedOK, Gone_, Head_
    <3>2. \A m \in Members(Hash[k]) : Rec(m).key # k
      BY <2>1, <2>3 DEF IInv, ProcOK, CallOK, Chain
    <3> QED
      BY <1>2, <1>3, <3>1, <3>2
  <2> QED
    BY <2>1, <2>2, <2>3 DEF Deep
<1>6. CASE ~Busy(k)
  <2>1. Value(k) = None <=> map[k] = None
    <3>1. CASE \E q \in Procs : pc[q] = "unlock" /\ Op(q).key = k
      BY <1>1, <3>1 DEF UnmovedOK, ValueOK
    <3>2. CASE \A q \in Procs : pc[q] = "unlock" => Op(q).key # k
      BY <1>1, <3>2 DEF ValueOK
    <3> QED
      BY <3>1, <3>2
  <2>2. Agrees(k)
    BY <1>6 DEF IInv, MapInv
  <2> QED
    BY <1>2, <1>3, <1>4, <2>1, <2>2 DEF Agrees
<1> QED
  BY <1>5, <1>6

(* A scan that reached the end of the file has returned every key of the   *)
(* database exactly once, whatever the calls did meanwhile, except keys    *)
(* whose record was removed or written during the scan (db_rewind,         *)
(* db_nextrec).                                                            *)
THEOREM ScansComplete == Spec => []ScanComplete
BY Invariant, CountsRight, PTL

-----------------------------------------------------------------------------
(* The calls and the map. *)
LEMMA InitImplements == Init => KV!Init
BY DEF Init, KV!Init, All, NoDB

LEMMA StepImplements ==
  ASSUME IInv, [Next]_vars
  PROVE  [KV!Next]_<<map, [p \in Procs |-> db[p].op], ret>>
<1> DEFINE call == [p \in Procs |-> db[p].op]
<1>1. TypeOK /\ LockInv /\ db \in [All -> DBType]
  BY DEF IInv, TypeOK, CallTypes
<1>2. CASE UNCHANGED vars
  BY <1>2 DEF vars
<1>3. ASSUME NEW s \in Scanners, ScanNext(s) PROVE UNCHANGED <<map, call, ret>>
  BY <1>1, <1>3, ScanFrame
<1>4. ASSUME NEW p \in Procs, NEW o \in Ops[p], Call(p, o) PROVE KV!Next
  <2>1. ProcNext(p) /\ pc[p] = "idle" /\ UNCHANGED <<map, ret>>
    BY <1>4 DEF ProcNext, Call, At, scanVars
  <2>2. \A q \in Procs : db'[q].op = IF q = p THEN o ELSE db[q].op
    <3>1. db'[p].op = o
      BY <1>1, <1>4 DEF Call, All, NoDB
    <3> QED
      BY <1>1, <2>1, <3>1, StepFrame DEF All
  <2>3. call' = [call EXCEPT ![p] = o]
    BY <2>2
  <2>4. call[p] = None
    BY <1>1, <2>1 DEF TypeOK, CallTypes, Op
  <2>5. o \in UNION {Ops[q] : q \in Procs}
    OBVIOUS
  <2> QED
    BY <2>1, <2>3, <2>4, <2>5 DEF KV!Next, KV!Call
<1>5. ASSUME NEW p \in Procs, UnlockReturn(p) PROVE KV!Next
  <2>1. /\ ProcNext(p) /\ pc[p] = "unlock" /\ pc'[p] = "idle"
        /\ map' = KV!After(map, Op(p)) /\ ret' = [ret EXCEPT ![p] = db[p].res]
    BY <1>1, <1>5 DEF ProcNext, UnlockReturn, At, TypeOK, PointTypes, All
  <2>2. db[p].res = KV!Result(map, Op(p))
    BY <2>1 DEF IInv, ProcOK, CallOK
  <2>3. \A q \in Procs : db'[q].op = IF q = p THEN None ELSE db[q].op
    BY <1>1, <2>1, StepFrame DEF All
  <2>4. call' = [call EXCEPT ![p] = None]
    BY <2>3
  <2>5. call[p] = Op(p) /\ Op(p) # None
    BY <1>1, <2>1 DEF Op, TypeOK, CallTypes
  <2> QED
    BY <2>1, <2>2, <2>4, <2>5 DEF KV!Next, KV!Return
<1>6. ASSUME NEW p \in Procs, ProcNext(p), ~UnlockReturn(p), \A o \in Ops[p] : ~Call(p, o)
      PROVE  UNCHANGED <<map, call, ret>>
  <2>0. UNCHANGED <<map, ret>>
    BY <1>6, ZenonT(30)
    DEF ProcNext, FindAndLock, Walk, Found, NotFound, ReadDat, Overwrite,
        DeleteLock, BlankDat, BlankIdx, PushFree, Unlink, DeleteUnlock, FindFree, FreeWalk,
        TakeFree, NoFree, FreeUnlock, AppendDat, AppendIdx, ReuseDat, ReuseIdx, Link, Frame
  <2>1. UNCHANGED <<map, ret>> /\ pc[p] # "idle" /\ pc'[p] # "idle"
    <3>1. Found(p) => \E n \in {"readdat", "unlock", "delete", "overwrite"} : At(p, "walk", n)
      BY <1>1, FoundStep, ZenonT(30)
    <3>2. Walk(p) => pc[p] = "walk" /\ pc' = pc
      BY DEF Walk
    <3>3. FreeWalk(p) => pc[p] = "freewalk" /\ pc' = pc
      BY DEF FreeWalk
    <3> QED
      BY <1>1, <1>6, <2>0, <3>1, <3>2, <3>3, StepNow, SMTT(30)
      DEF ProcNext, FindAndLock, NotFound, ReadDat, Overwrite, DeleteLock, BlankDat, BlankIdx,
          PushFree, Unlink, DeleteUnlock, FindFree, TakeFree, NoFree, FreeUnlock, AppendDat,
          AppendIdx, ReuseDat, ReuseIdx, Link, At
  <2>2. \A q \in Procs : db'[q].op = db[q].op
    BY <1>1, <1>6, <2>1, StepFrame DEF All
  <2> QED
    BY <2>1, <2>2
<1> QED
  BY <1>2, <1>3, <1>4, <1>5, <1>6 DEF Next

(* db_fetch, db_store and db_delete of any number of processes return what *)
(* they would return had each acted on the map alone, at the moment at     *)
(* which it unlocks its chain.                                             *)
THEOREM Implements == Spec => ImplementsKeyValue
BY Invariant, InitImplements, StepImplements, PTL DEF Spec, ImplementsKeyValue, KV!Spec
====
