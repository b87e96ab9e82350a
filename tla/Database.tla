------------------------------ MODULE Database ------------------------------
(***************************************************************************)
(* The record database of linux/apue.3e.exs/apue3/apue.3e/db/db.c, shared  *)
(* by several processes that each have it open.                            *)
(*                                                                         *)
(* The index file: the free-list pointer at offset FREEOFF, the heads of   *)
(* the hash chains at 1..NHash, then the index records; a record has a     *)
(* chain pointer, a key and the place and length of its data record.       *)
(* Offset 0 as the value of a pointer ends a chain.  Index and data        *)
(* records keep their lengths for ever.  Locking is by fcntl record locks  *)
(* on the bytes of the chain heads and of the free-list pointer; the locks *)
(* that make lseek and write of an append atomic are part of that step.    *)
(* One read or write of a record is one step.                              *)
(***************************************************************************)
EXTENDS Integers, Sequences, FiniteSets

CONSTANTS
  Keys, Values,
  KLen, VLen,     \* lengths of keys and values
  NHash, Hash,    \* number of chains, and the chain of each key
  Procs,          \* processes that fetch, store and delete
  Scanners,       \* processes that read the records one after the other
  Ops,            \* the calls each process makes: [kind, key, val, flag]
  Quota,          \* how many calls each process makes (bound)
  Preload,        \* <<key, value>> pairs stored before
  None, Blank

Calls ==
  [kind : {"fetch", "delete"}, key : Keys, val : {None}, flag : {None}] \cup
  [kind : {"store"}, key : Keys, val : Values, flag : {"insert", "replace", "store"}]

ASSUME DatabaseAssumption ==
  /\ NHash \in Nat \ {0} /\ Hash \in [Keys -> 1..NHash]
  /\ KLen \in [Keys -> Nat] /\ VLen \in [Values -> Nat]
  /\ Procs \cap Scanners = {}
  /\ Ops \in [Procs -> SUBSET Calls] /\ Quota \in [Procs -> Nat]
  /\ Preload \in Seq(Keys \X Values)
  /\ \A i, j \in DOMAIN Preload : Preload[i][1] = Preload[j][1] => i = j
  /\ None \notin Keys \cup Values \cup Procs \cup Scanners \cup Calls
  /\ Blank \notin Keys \cup Values \cup {None}

FREEOFF == 0
First == NHash + 1
Locks == FREEOFF..NHash     \* the bytes that are locked
All == Procs \cup Scanners

VARIABLES
  ptr,        \* pointer fields, by offset
  rec,        \* index records in the order of the file: key, klen, datoff, datlen
  dat,        \* data records
  writer,     \* who holds the write lock on a byte, or None
  readers,    \* who holds a read lock
  pc,
  db,         \* the DB structure of each process, and the call it is in
  left,       \* calls each process may still make
  ret,        \* what its last call returned, or None
  map,        \* history: the database as the calls that returned left it
  pos,        \* file offset of a scanner
  seen,       \* history: how often a scan has returned each key
  moved       \* history: keys whose record was removed or written meanwhile

files == <<ptr, rec, dat>>
locks == <<writer, readers>>
scanVars == <<pos, seen, moved>>
vars == <<files, locks, pc, db, left, ret, map, scanVars>>

NoDB == [op |-> None, off |-> 0, ptroff |-> 0, idxoff |-> 0, datoff |-> 0, ptrval |-> 0,
         key |-> None, res |-> None]

(* The map the calls act on, in the eyes of the callers. *)
KV == INSTANCE KeyValue WITH call <- [p \in Procs |-> db[p].op],
                             Ops <- UNION {Ops[p] : p \in Procs}

(* A database that Preload was stored into, each record at the head of its *)
(* chain (db_open with O_CREAT has written zeros before).                  *)
LastOf(h, i) == LET S == {j \in 1..i : Hash[Preload[j][1]] = h}
                IN  IF S = {} THEN 0 ELSE NHash + (CHOOSE j \in S : \A k \in S : k <= j)

Init ==
  /\ ptr = [o \in 0..(NHash + Len(Preload)) |->
              IF o = FREEOFF THEN 0
              ELSE IF o <= NHash THEN LastOf(o, Len(Preload))
              ELSE LastOf(Hash[Preload[o - NHash][1]], o - First)]
  /\ rec = [i \in DOMAIN Preload |->
              [key |-> Preload[i][1], klen |-> KLen[Preload[i][1]],
               datoff |-> i, datlen |-> VLen[Preload[i][2]]]]
  /\ dat = [i \in DOMAIN Preload |-> Preload[i][2]]
  /\ map = [k \in Keys |-> IF \E i \in DOMAIN Preload : Preload[i][1] = k
                           THEN Preload[CHOOSE i \in DOMAIN Preload : Preload[i][1] = k][2]
                           ELSE None]
  /\ writer = [l \in Locks |-> None]
  /\ readers = [l \in Locks |-> {}]
  /\ pc = [p \in All |-> "idle"]
  /\ db = [p \in All |-> NoDB]
  /\ left = Quota
  /\ ret = [p \in Procs |-> None]
  /\ pos = [p \in Scanners |-> 0]
  /\ seen = [p \in Scanners |-> [k \in Keys |-> 0]]
  /\ moved = [p \in Scanners |-> {}]

-----------------------------------------------------------------------------
(* Record locks *)
WriteLocked(p, l) ==
  /\ writer[l] = None /\ readers[l] = {}
  /\ writer' = [writer EXCEPT ![l] = p]
  /\ UNCHANGED readers

ReadLocked(p, l) ==
  /\ writer[l] = None
  /\ readers' = [readers EXCEPT ![l] = @ \cup {p}]
  /\ UNCHANGED writer

Unlocked(p, l) ==
  /\ writer' = [writer EXCEPT ![l] = IF @ = p THEN None ELSE @]
  /\ readers' = [readers EXCEPT ![l] = @ \ {p}]

At(p, from, to) == pc[p] = from /\ pc' = [pc EXCEPT ![p] = to]
Rec(o) == rec[o - NHash]
Op(p) == db[p].op
Chain(p) == Hash[Op(p).key]
Frame == UNCHANGED <<left, ret, map, pos, seen>>
Moves(k) == moved' = [s \in Scanners |-> moved[s] \cup {k}]
Still == UNCHANGED moved

-----------------------------------------------------------------------------
(* db_fetch, db_store and db_delete; _db_find_and_lock *)

Call(p, o) ==
  /\ At(p, "idle", "lock")
  /\ left[p] > 0
  /\ left' = [left EXCEPT ![p] = @ - 1]
  /\ db' = [db EXCEPT ![p] = [NoDB EXCEPT !.op = o]]
  /\ UNCHANGED <<files, locks, ret, map, scanVars>>

(* Mutant: a store locks its chain for reading only. *)
FindAndLock_Shared(p) ==
  /\ At(p, "lock", "walk")
  /\ ReadLocked(p, Chain(p))
  /\ db' = [db EXCEPT ![p].ptroff = Chain(p), ![p].off = ptr[Chain(p)]]
  /\ Frame /\ Still /\ UNCHANGED files

(* The chain is locked, and its head read. *)
FindAndLock(p) ==
  /\ At(p, "lock", "walk")
  /\ IF Op(p).kind = "fetch" THEN ReadLocked(p, Chain(p)) ELSE WriteLocked(p, Chain(p))
  /\ db' = [db EXCEPT ![p].ptroff = Chain(p), ![p].off = ptr[Chain(p)]]
  /\ Frame /\ Still /\ UNCHANGED files

(* One record of the chain, of another key. *)
Walk(p) ==
  /\ pc[p] = "walk"
  /\ db[p].off # 0 /\ Rec(db[p].off).key # Op(p).key
  /\ db' = [db EXCEPT ![p].ptroff = db[p].off, ![p].off = ptr[db[p].off]]
  /\ Frame /\ Still /\ UNCHANGED <<files, locks, pc>>

(* The record of the key: what the three functions go on with. *)
Found(p) ==
  /\ pc[p] = "walk"
  /\ db[p].off # 0 /\ Rec(db[p].off).key = Op(p).key
  /\ LET r == Rec(db[p].off)
         o == Op(p)
         next == CASE o.kind = "fetch" -> "readdat"
                   [] o.kind = "delete" -> "delete"
                   [] o.kind = "store" -> IF o.flag = "insert" THEN "unlock"
                                          ELSE IF VLen[o.val] # r.datlen THEN "delete"
                                          ELSE "overwrite"
     IN  /\ At(p, "walk", next)
         /\ db' = [db EXCEPT ![p].idxoff = db[p].off, ![p].datoff = r.datoff,
                             ![p].ptrval = ptr[db[p].off],
                             ![p].res = IF next = "unlock" THEN 1 ELSE None]
  /\ Frame /\ Still /\ UNCHANGED <<files, locks>>

(* No record of the key.  A store that may insert has read the chain head. *)
NotFound(p) ==
  /\ pc[p] = "walk"
  /\ db[p].off = 0
  /\ LET o == Op(p)
         inserts == o.kind = "store" /\ o.flag # "replace"
     IN  /\ At(p, "walk", IF inserts THEN "findfree" ELSE "unlock")
         /\ db' = [db EXCEPT ![p].ptrval = ptr[Chain(p)],
                             ![p].res = IF o.kind = "fetch" THEN None ELSE -1]
  /\ Frame /\ Still /\ UNCHANGED <<files, locks>>

(* db_fetch: _db_readdat. *)
ReadDat(p) ==
  /\ At(p, "readdat", "unlock")
  /\ db' = [db EXCEPT ![p].res = dat[db[p].datoff]]
  /\ Frame /\ Still /\ UNCHANGED <<files, locks>>

(* Same length: only the data record is written. *)
Overwrite(p) ==
  /\ At(p, "overwrite", "unlock")
  /\ dat' = [dat EXCEPT ![db[p].datoff] = Op(p).val]
  /\ db' = [db EXCEPT ![p].res = 0]
  /\ Frame /\ Still /\ UNCHANGED <<ptr, rec, locks>>

(* The chain is unlocked and the call returns. *)
UnlockReturn(p) ==
  /\ At(p, "unlock", "idle")
  /\ Unlocked(p, Chain(p))
  /\ map' = KV!After(map, Op(p))
  /\ ret' = [ret EXCEPT ![p] = db[p].res]
  /\ db' = [db EXCEPT ![p] = NoDB]
  /\ Still /\ UNCHANGED <<files, left, pos, seen>>

-----------------------------------------------------------------------------
(* _db_dodelete *)

DeleteLock(p) ==
  /\ At(p, "delete", "blankdat")
  /\ WriteLocked(p, FREEOFF)
  /\ Frame /\ Still /\ UNCHANGED <<files, db>>

BlankDat(p) ==
  /\ At(p, "blankdat", "blankidx")
  /\ dat' = [dat EXCEPT ![db[p].datoff] = Blank]
  /\ Frame /\ Still /\ UNCHANGED <<ptr, rec, locks, db>>

(* The index record gets a blank key and points to the first free record. *)
BlankIdx(p) ==
  /\ At(p, "blankidx", "pushfree")
  /\ rec' = [rec EXCEPT ![db[p].idxoff - NHash].key = Blank]
  /\ ptr' = [ptr EXCEPT ![db[p].idxoff] = ptr[FREEOFF]]
  /\ Moves(Op(p).key)
  /\ Frame /\ UNCHANGED <<dat, locks, db>>

PushFree(p) ==
  /\ At(p, "pushfree", "unlink")
  /\ ptr' = [ptr EXCEPT ![FREEOFF] = db[p].idxoff]
  /\ Frame /\ Still /\ UNCHANGED <<rec, dat, locks, db>>

(* The pointer to the record gets the record's old pointer. *)
Unlink(p) ==
  /\ At(p, "unlink", "deleted")
  /\ ptr' = [ptr EXCEPT ![db[p].ptroff] = db[p].ptrval]
  /\ Frame /\ Still /\ UNCHANGED <<rec, dat, locks, db>>

(* Mutant: the free list stays locked when the record is to be replaced. *)
DeleteUnlock_Kept(p) ==
  /\ At(p, "deleted", IF Op(p).kind = "delete" THEN "unlock" ELSE "appenddat")
  /\ IF Op(p).kind = "delete" THEN Unlocked(p, FREEOFF) ELSE UNCHANGED locks
  /\ db' = [db EXCEPT ![p].ptrval = ptr[Chain(p)], ![p].res = 0]
  /\ Frame /\ Still /\ UNCHANGED files

(* The free list is unlocked; db_store reads the chain head again. *)
DeleteUnlock(p) ==
  /\ At(p, "deleted", IF Op(p).kind = "delete" THEN "unlock" ELSE "appenddat")
  /\ Unlocked(p, FREEOFF)
  /\ db' = [db EXCEPT ![p].ptrval = ptr[Chain(p)], ![p].res = 0]
  /\ Frame /\ Still /\ UNCHANGED files

-----------------------------------------------------------------------------
(* db_store: a free record of the same sizes (_db_findfree), or new ones.  *)

Fits(p, r) == r.klen = KLen[Op(p).key] /\ r.datlen = VLen[Op(p).val]

(* Mutant: the free list is searched without a lock. *)
FindFree_Unlocked(p) ==
  /\ At(p, "findfree", "freewalk")
  /\ db' = [db EXCEPT ![p].ptroff = FREEOFF, ![p].off = ptr[FREEOFF]]
  /\ Frame /\ Still /\ UNCHANGED <<files, locks>>

FindFree(p) ==
  /\ At(p, "findfree", "freewalk")
  /\ WriteLocked(p, FREEOFF)
  /\ db' = [db EXCEPT ![p].ptroff = FREEOFF, ![p].off = ptr[FREEOFF]]
  /\ Frame /\ Still /\ UNCHANGED files

FreeWalk(p) ==
  /\ pc[p] = "freewalk"
  /\ db[p].off # 0 /\ ~Fits(p, Rec(db[p].off))
  /\ db' = [db EXCEPT ![p].ptroff = db[p].off, ![p].off = ptr[db[p].off]]
  /\ Frame /\ Still /\ UNCHANGED <<files, locks, pc>>

TakeFree(p) ==
  /\ At(p, "freewalk", "freedone")
  /\ db[p].off # 0 /\ Fits(p, Rec(db[p].off))
  /\ ptr' = [ptr EXCEPT ![db[p].ptroff] = ptr[db[p].off]]
  /\ db' = [db EXCEPT ![p].idxoff = db[p].off, ![p].datoff = Rec(db[p].off).datoff]
  /\ Frame /\ Still /\ UNCHANGED <<rec, dat, locks>>

NoFree(p) ==
  /\ At(p, "freewalk", "freedone")
  /\ db[p].off = 0
  /\ Frame /\ Still /\ UNCHANGED <<files, locks, db>>

FreeUnlock(p) ==
  /\ At(p, "freedone", IF db[p].idxoff = 0 THEN "appenddat" ELSE "reusedat")
  /\ Unlocked(p, FREEOFF)
  /\ Frame /\ Still /\ UNCHANGED <<files, db>>

AppendDat(p) ==
  /\ At(p, "appenddat", "appendidx")
  /\ dat' = Append(dat, Op(p).val)
  /\ db' = [db EXCEPT ![p].datoff = Len(dat) + 1]
  /\ Frame /\ Still /\ UNCHANGED <<ptr, rec, locks>>

AppendIdx(p) ==
  /\ At(p, "appendidx", "link")
  /\ LET o == First + Len(rec)
     IN  /\ rec' = Append(rec, [key |-> Op(p).key, klen |-> KLen[Op(p).key],
                                datoff |-> db[p].datoff, datlen |-> VLen[Op(p).val]])
         /\ ptr' = [j \in 0..o |-> IF j = o THEN db[p].ptrval ELSE ptr[j]]
         /\ db' = [db EXCEPT ![p].idxoff = o]
  /\ Moves(Op(p).key)
  /\ Frame /\ UNCHANGED <<dat, locks>>

ReuseDat(p) ==
  /\ At(p, "reusedat", "reuseidx")
  /\ dat' = [dat EXCEPT ![db[p].datoff] = Op(p).val]
  /\ Frame /\ Still /\ UNCHANGED <<ptr, rec, locks, db>>

ReuseIdx(p) ==
  /\ At(p, "reuseidx", "link")
  /\ rec' = [rec EXCEPT ![db[p].idxoff - NHash].key = Op(p).key]
  /\ ptr' = [ptr EXCEPT ![db[p].idxoff] = db[p].ptrval]
  /\ Moves(Op(p).key)
  /\ Frame /\ UNCHANGED <<dat, locks, db>>

(* The record becomes the head of its chain. *)
Link(p) ==
  /\ At(p, "link", "unlock")
  /\ ptr' = [ptr EXCEPT ![Chain(p)] = db[p].idxoff]
  /\ db' = [db EXCEPT ![p].res = 0]
  /\ Frame /\ Still /\ UNCHANGED <<rec, dat, locks>>

-----------------------------------------------------------------------------
(* db_rewind and db_nextrec *)

(* Keys some call is about to remove or insert. *)
InWork == {Op(q).key : q \in {r \in Procs : pc[r] # "idle"}}

Rewind(s) ==
  /\ At(s, "idle", "nextrec")
  /\ pos[s] = 0
  /\ pos' = [pos EXCEPT ![s] = First]
  /\ moved' = [moved EXCEPT ![s] = InWork]
  /\ UNCHANGED <<files, locks, db, left, ret, map, seen>>

(* Mutant: the free list is not locked. *)
NextLock_None(s) ==
  /\ At(s, "nextrec", "nextidx")
  /\ Frame /\ Still /\ UNCHANGED <<files, locks, db>>

NextLock(s) ==
  /\ At(s, "nextrec", "nextidx")
  /\ ReadLocked(s, FREEOFF)
  /\ Frame /\ Still /\ UNCHANGED <<files, db>>

(* The next index record; the loop skips those with a blank key. *)
NextIdx(s) ==
  /\ pos[s] < First + Len(rec)
  /\ At(s, "nextidx", IF Rec(pos[s]).key = Blank THEN "nextidx" ELSE "nextdat")
  /\ pos' = [pos EXCEPT ![s] = @ + 1]
  /\ db' = [db EXCEPT ![s].key = Rec(pos[s]).key, ![s].datoff = Rec(pos[s]).datoff]
  /\ UNCHANGED <<files, locks, left, ret, map, seen, moved>>

(* Mutant: the last record passes for the end of the file. *)
NextEof_Early(s) ==
  /\ pos[s] >= NHash + Len(rec)
  /\ At(s, "nextidx", "eof")
  /\ db' = [db EXCEPT ![s] = NoDB]
  /\ Unlocked(s, FREEOFF)
  /\ Frame /\ Still /\ UNCHANGED files

(* The end of the file: the scan is over. *)
NextEof(s) ==
  /\ pos[s] >= First + Len(rec)
  /\ At(s, "nextidx", "eof")
  /\ db' = [db EXCEPT ![s] = NoDB]
  /\ Unlocked(s, FREEOFF)
  /\ Frame /\ Still /\ UNCHANGED files

(* The data record; the key is the one in idxbuf. *)
NextDat(s) ==
  /\ At(s, "nextdat", "nextunlock")
  /\ seen' = [seen EXCEPT ![s][db[s].key] = @ + 1]
  /\ db' = [db EXCEPT ![s].res = dat[db[s].datoff]]
  /\ UNCHANGED <<files, locks, left, ret, map, pos, moved>>

NextUnlock(s) ==
  /\ At(s, "nextunlock", "nextrec")
  /\ Unlocked(s, FREEOFF)
  /\ db' = [db EXCEPT ![s] = NoDB]
  /\ Frame /\ Still /\ UNCHANGED files

-----------------------------------------------------------------------------
ProcNext(p) ==
  \/ \E o \in Ops[p] : Call(p, o)
  \/ FindAndLock(p) \/ Walk(p) \/ Found(p) \/ NotFound(p)
  \/ ReadDat(p) \/ Overwrite(p) \/ UnlockReturn(p)
  \/ DeleteLock(p) \/ BlankDat(p) \/ BlankIdx(p) \/ PushFree(p) \/ Unlink(p) \/ DeleteUnlock(p)
  \/ FindFree(p) \/ FreeWalk(p) \/ TakeFree(p) \/ NoFree(p) \/ FreeUnlock(p)
  \/ AppendDat(p) \/ AppendIdx(p) \/ ReuseDat(p) \/ ReuseIdx(p) \/ Link(p)

ScanNext(s) ==
  \/ Rewind(s)
  \/ NextLock(s) \/ NextIdx(s) \/ NextEof(s) \/ NextDat(s) \/ NextUnlock(s)

Next == (\E p \in Procs : ProcNext(p)) \/ (\E s \in Scanners : ScanNext(s))

(* A process that is not waiting for a lock runs, and a lock that stays    *)
(* free is granted.                                                        *)
Spec ==
  /\ Init /\ [][Next]_vars
  /\ \A p \in Procs : WF_vars(ProcNext(p))
  /\ \A s \in Scanners : WF_vars(ScanNext(s))

-----------------------------------------------------------------------------
Records == First..(NHash + Len(rec))

(* The records a list leads through: the smallest set that holds what its  *)
(* head and the records in the set point to.                               *)
Closed(h, S) == \A o \in {h} \cup S : ptr[o] \in {0} \cup S
Listed(h) == LET closed == {S \in SUBSET Records : Closed(h, S)}
             IN  {o \in Records : \A S \in closed : o \in S}

Taken == {db[p].idxoff : p \in {q \in Procs : pc[q] \in {"freedone", "reusedat", "reuseidx"}}}

(* What the files hold whenever nobody is writing to a list (the locks of  *)
(* _db_find_and_lock, _db_dodelete and _db_findfree).  Every chain ends,   *)
(* and leads to one record for each key the finished calls left in it,     *)
(* with that key's value and its length; the free list ends, and leads to  *)
(* the records with a blank key, except those a store has just taken.      *)
OnDisk ==
  /\ DOMAIN ptr = 0..(NHash + Len(rec))
  /\ \A h \in 1..NHash : writer[h] = None =>
       LET out == Listed(h)
       IN  /\ \E o \in {h} \cup out : ptr[o] = 0
           /\ \A o \in out : /\ Rec(o).key \in Keys /\ Hash[Rec(o).key] = h
                             /\ map[Rec(o).key] = dat[Rec(o).datoff]
                             /\ Rec(o).datlen = VLen[dat[Rec(o).datoff]]
           /\ \A k \in {c \in Keys : Hash[c] = h /\ map[c] # None} :
                \E o \in out : \A q \in out : Rec(q).key = k <=> q = o
  /\ writer[FREEOFF] = None =>
       LET out == Listed(FREEOFF)
       IN  /\ \E o \in {FREEOFF} \cup out : ptr[o] = 0
           /\ out = {o \in Records : Rec(o).key = Blank} \ Taken

(* db_fetch, db_store and db_delete of processes that share the files      *)
(* return what they would return if each had run alone at some moment      *)
(* between its call and its return.                                        *)
ImplementsKeyValue == KV!Spec

(* db_nextrec never returns the data of another key or of a record that is *)
(* being deleted: the data it reads is the value of the key, or one that a *)
(* store of that key is just writing.                                      *)
ScanReadsLive ==
  [][\A s \in Scanners : pc[s] = "nextdat" /\ pc'[s] # "nextdat" =>
       db'[s].res \in {map[db[s].key]} \cup
         {Op(p).val : p \in {q \in Procs : Op(q) # None /\ Op(q).key = db[s].key
                                                     /\ Op(q).kind = "store"}}]_vars

(* A scan that reached the end of the file has returned each key of the    *)
(* database exactly once, unless the key's record was removed or written   *)
(* during the scan.                                                        *)
ScanComplete ==
  \A s \in Scanners : pc[s] = "eof" =>
    \A k \in Keys \ moved[s] : seen[s][k] = IF map[k] = None THEN 0 ELSE 1

(* Every call returns and every scan ends: processes that wait for chains  *)
(* and for the free list never wait in a circle.                           *)
OpReturns == \A p \in All : pc[p] # "idle" ~> pc[p] \in {"idle", "eof"}
=============================================================================
