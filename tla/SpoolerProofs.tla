---------------------------- MODULE SpoolerProofs ----------------------------
(***************************************************************************)
(* For any number of submissions, job numbers, stops and failures.         *)
(*                                                                         *)
(* A SIGHUP that arrives while the printer thread works is not lost        *)
(* (HangupKept).                                                           *)
(*                                                                         *)
(* A submission whose number nobody else was given, and whose request a    *)
(* restart did not fail to read, keeps its files until the printer has     *)
(* confirmed it (Acknowledged) and is in one place (Held) unless a failed  *)
(* open or opendir dropped it.  It is printed only when its file is        *)
(* finished (Finished) and not at all when it was refused (NotPrinted),    *)
(* and confirmed no more often than there were lives of the daemon         *)
(* (Confirmed).  These follow from one inductive   *)
(* invariant, IInv: the phases, whose number each file and each queue      *)
(* entry carries, where each submission is, and how far its files are.     *)
(* For each part there is one lemma for the steps of main, one for those   *)
(* of a client thread, one for those of the printer thread, and one for    *)
(* the rest.                                                               *)
(*                                                                         *)
(* A number is handed out twice only after a stop at a bad time            *)
(* (NumbersReused), by counting the numbers given out.                     *)
(***************************************************************************)
EXTENDS Spooler, SequenceTheorems, FiniteSetTheorems, TLAPS

(* Only the printer thread takes the flag back: the steps of main ... *)
LEMMA MainKeepsHangup ==
  ASSUME HangupNotLost, MainStep \/ ScanFails
  PROVE  HangupNotLost'
<1> USE DEF HangupNotLost, printerVars
<1>1. CASE Start
  BY <1>1 DEF Start
<1>2. CASE ScanWake
  BY <1>2 DEF ScanWake, Signalled
<1>3. CASE ScanPurge
  BY <1>3 DEF ScanPurge
<1>4. CASE ScanDone
  BY <1>4 DEF ScanDone
<1>5. ASSUME NEW n \in Numbers, ScanJob(n) PROVE HangupNotLost'
  BY <1>5 DEF ScanJob
<1>6. ASSUME NEW n \in Numbers, ScanPartial(n) PROVE HangupNotLost'
  BY <1>6 DEF ScanPartial
<1>7. ASSUME NEW n \in Numbers, ScanSkip(n) PROVE HangupNotLost'
  BY <1>7 DEF ScanSkip, SkipFrame, Fault
<1>8. ASSUME NEW n \in Numbers, ScanUnreadable(n) PROVE HangupNotLost'
  BY <1>8 DEF ScanUnreadable, Fault
<1>9. CASE ScanAbandon
  BY <1>9 DEF ScanAbandon, SkipFrame, Fault
<1>10. QED
  BY <1>1, <1>2, <1>3, <1>4, <1>5, <1>6, <1>7, <1>8, <1>9 DEF MainStep, ScanFails

(* ... and of a client thread leave it alone. *)
LEMMA ClientKeepsHangup ==
  ASSUME HangupNotLost, NEW s \in Subs, ClientStep(s)
  PROVE  HangupNotLost'
<1> USE DEF HangupNotLost, ClientFrame, Keep
<1>1. CASE BadHeader(s)
  BY <1>1 DEF BadHeader
<1>2. CASE GetNewJobno(s)
  BY <1>2 DEF GetNewJobno
<1>3. CASE CreateData(s)
  BY <1>3 DEF CreateData
<1>4. CASE CreateDataFails(s)
  BY <1>4 DEF CreateDataFails
<1>5. CASE CopyDataFails(s)
  BY <1>5 DEF CopyDataFails
<1>6. CASE EndOfData(s)
  BY <1>6 DEF EndOfData
<1>7. CASE CreateReqFails(s)
  BY <1>7 DEF CreateReqFails
<1>8. CASE WriteReq(s)
  BY <1>8 DEF WriteReq
<1>9. CASE WriteReqFails(s)
  BY <1>9 DEF WriteReqFails
<1>10. CASE UndoReq(s)
  BY <1>10 DEF UndoReq
<1>11. CASE UndoData(s)
  BY <1>11 DEF UndoData
<1>12. CASE ReplyOk(s)
  BY <1>12 DEF ReplyOk
<1>13. CASE AddJob(s)
  BY <1>13 DEF AddJob
<1>14. CASE Signal(s)
  BY <1>14 DEF Signal, Signalled
<1>15. QED
  BY <1>1, <1>2, <1>3, <1>4, <1>5, <1>6, <1>7, <1>8, <1>9, <1>10, <1>11, <1>12, <1>13, <1>14
  DEF ClientStep, Finish

(* The printer thread clears reread only on its way to init_printer, which *)
(* reads the configuration after the flag was cleared.                     *)
LEMMA PrinterKeepsHangup ==
  ASSUME HangupNotLost, PrinterStep \/ StatusOk \/ DeferJob
  PROVE  HangupNotLost'
<1> USE DEF HangupNotLost, PrinterAt
<1>1. CASE WaitForJob
  BY <1>1 DEF WaitForJob
<1>2. CASE PickUp
  BY <1>2 DEF PickUp
<1>3. CASE UpdateJobno
  BY <1>3 DEF UpdateJobno
<1>4. CASE CheckConfig
  BY <1>4 DEF CheckConfig
<1>5. CASE InitPrinter
  BY <1>5 DEF InitPrinter
<1>6. CASE OpenData
  BY <1>6 DEF OpenData
<1>7. CASE CancelJob
  BY <1>7 DEF CancelJob
<1>8. CASE SendJob
  BY <1>8 DEF SendJob
<1>9. CASE UnlinkData
  BY <1>9 DEF UnlinkData
<1>10. CASE UnlinkReq
  BY <1>10 DEF UnlinkReq
<1>11. CASE ReplaceJob
  BY <1>11 DEF ReplaceJob
<1>12. CASE StatusOk
  BY <1>12 DEF StatusOk
<1>13. CASE DeferJob
  BY <1>13 DEF DeferJob
<1>14. QED
  BY <1>1, <1>2, <1>3, <1>4, <1>5, <1>6, <1>7, <1>8, <1>9, <1>10, <1>11, <1>12, <1>13
  DEF PrinterStep

(* The configuration the last SIGHUP was about is in use, or the printer   *)
(* thread is going to read it, whenever signal_thread sets reread relative *)
(* to the test, the clearing and init_printer in printer_thread.           *)
THEOREM HangupKept == Spec => []HangupNotLost
<1>1. Init => HangupNotLost
  BY DEF Init, HangupNotLost
<1>2. HangupNotLost /\ [Next]_vars => HangupNotLost'
  <2> SUFFICES ASSUME HangupNotLost, [Next]_vars PROVE HangupNotLost'
    OBVIOUS
  <2>1. CASE MainStep \/ ScanFails
    BY <2>1, MainKeepsHangup
  <2>2. CASE PrinterStep \/ StatusOk \/ DeferJob
    BY <2>2, PrinterKeepsHangup
  <2>3. ASSUME NEW s \in Subs, ClientStep(s) PROVE HangupNotLost'
    BY <2>3, ClientKeepsHangup
  <2>4. CASE Hangup
    BY <2>4 DEF Hangup, HangupNotLost
  <2>5. CASE Stop
    BY <2>5 DEF Stop, HangupNotLost
  <2>6. CASE UNCHANGED vars
    BY <2>6 DEF vars, printerVars, HangupNotLost
  <2>7. QED
    BY <2>1, <2>2, <2>3, <2>4, <2>5, <2>6 DEF Next
<1>3. QED
  BY <1>1, <1>2, PTL DEF Spec
-----------------------------------------------------------------------------
(* The jobs.  The inductive invariant: where the threads can be, by the    *)
(* phase of the daemon's life, ...                                         *)
JobType == [id : Numbers, sub : Subs]

LifeOK ==
  /\ main = "down" => queue = <<>> /\ jp = NoJob /\ prt = "down"
  /\ main # "down" => nextjob \in Numbers /\ prt # "down"
  /\ main \in {"down", "serve"} => todo = {}
  /\ main # "serve" => \A s \in Subs : pc[s] \in {"new", "done"}
  /\ main = "purge" => cur \in Numbers /\ req[cur] = None
  /\ prt \in {"down", "get", "waiting"} <=> jp = NoJob
  /\ prt \in {"send", "status", "unlinkdata", "unlinkreq", "defer"} <=> pfd # None

(* ... whose number each file and each queue entry has: a number that two  *)
(* submissions were given is in reused, ...                                *)
SubNum(s) ==
  /\ pc[s] = "new" => num[s] = 0 /\ reply[s] = "none"
  /\ reply[s] = "ok" => num[s] # 0
  /\ pc[s] \notin {"new", "done"} => num[s] # 0
  /\ pc[s] = "data" => file[s] # None
  /\ file[s] # None => num[file[s]] = num[s] /\ num[s] # 0
  /\ inode[s].of # None => num[inode[s].of] = num[s] /\ num[s] # 0

FileNum(n) ==
  /\ data[n] # None => num[data[n]] = n /\ inode[data[n]].of # None
  /\ req[n] \in Subs => num[req[n]] = n

OneOwner == \A s, t \in Subs : num[s] = num[t] /\ num[s] # 0 /\ num[s] \notin reused => s = t

QueueNum == \A k \in DOMAIN queue : num[queue[k].sub] = queue[k].id

JobNum ==
  /\ jp # NoJob => num[jp.sub] = jp.id
  /\ pfd # None => num[pfd] = jp.id /\ inode[pfd].of # None

NumOK ==
  /\ \A s \in Subs : SubNum(s)
  /\ \A n \in Numbers : FileNum(n)
  /\ OneOwner /\ QueueNum /\ JobNum
  /\ \A p \in printed : num[p.of] # 0

(* ... that a submission is in one place: with its client thread, still to *)
(* be found by build_qonstart, in the queue, or with the printer thread,   *)
Queued(s) == \E k \in DOMAIN queue : queue[k].sub = s

OneEntry == \A j, k \in DOMAIN queue : queue[j].sub = queue[k].sub => j = k

ToFind(s) == num[s] \in todo /\ req[num[s]] = s

OnceOK(s) ==
  /\ Queued(s) \/ jp.sub = s => pc[s] \in {"signal", "done"} /\ ~ToFind(s)
  /\ Queued(s) => jp.sub # s

(* ... that one which may still be confirmed in this life of the daemon    *)
(* was confirmed at most once in each life before, ...                     *)
Open(s) ==
  \/ main = "down"
  \/ pc[s] \notin {"signal", "done"}
  \/ ToFind(s)
  \/ Queued(s)
  \/ jp.sub = s /\ prt \notin {"unlinkdata", "unlinkreq"}

ConfirmedOK(s) == confirmed[s] <= stops + 1 /\ (Open(s) => confirmed[s] <= stops)

DoneOK == prt \in {"unlinkdata", "unlinkreq"} => confirmed[jp.sub] > 0

(* ... and the files of a submission whose number nobody else was given.   *)
Whole(s) == inode[s] = [of |-> s, closed |-> TRUE]
Own(s) == num[s] # 0 /\ num[s] \notin reused

FilesOK(s) ==
  /\ pc[s] \in {"creat", "data", "writereq"} => reply[s] = "none"
  /\ pc[s] \in {"unlinkreq", "unlinkdata"} => reply[s] = "refused"
  /\ pc[s] = "data" => data[num[s]] = s /\ inode[s] = [of |-> s, closed |-> FALSE]
  /\ pc[s] = "writereq" => data[num[s]] = s /\ Whole(s)
  /\ pc[s] \in {"reply", "add"} => req[num[s]] = s /\ data[num[s]] = s
  /\ req[num[s]] = s => /\ pc[s] \in {"reply", "add", "signal", "done"}
                        /\ reply[s] # "refused" /\ Whole(s)
  /\ Queued(s) \/ jp.sub = s => reply[s] # "refused" /\ Whole(s)
  /\ reply[s] = "ok" /\ confirmed[s] = 0 /\ s \notin unread => req[num[s]] = s /\ data[num[s]] = s
  /\ \A p \in printed : p.of = s => p.closed /\ reply[s] # "refused" /\ pc[s] \in {"signal", "done"}

PlaceOK(s) ==
  main # "down" /\ reply[s] = "ok" /\ confirmed[s] = 0 /\ s \notin dropped \cup unread =>
    Queued(s) \/ jp.sub = s \/ pc[s] = "add" \/ num[s] \in todo

IInv ==
  /\ TypeOK /\ LifeOK /\ NumOK /\ OneEntry /\ DoneOK
  /\ \A s \in Subs : OnceOK(s) /\ ConfirmedOK(s)
  /\ \A s \in Subs : Own(s) => FilesOK(s) /\ PlaceOK(s)

-----------------------------------------------------------------------------
(* What the steps on the queue do to it. *)
LEMMA QueueGrows ==
  ASSUME queue \in Seq(JobType), NEW j \in JobType,
         queue' = Append(queue, j) \/ queue' = <<j>> \o queue
  PROVE  /\ queue' \in Seq(JobType)
         /\ \A s : Queued(s)' <=> Queued(s) \/ s = j.sub
         /\ OneEntry /\ ~Queued(j.sub) => OneEntry'
         /\ QueueNum /\ num' = num /\ num[j.sub] = j.id => QueueNum'
<1>1. Len(queue) \in Nat /\ DOMAIN queue = 1..Len(queue)
  BY LenProperties
<1>2. CASE queue' = Append(queue, j)
  <2>1. /\ queue' \in Seq(JobType) /\ DOMAIN queue' = 1..(Len(queue) + 1)
        /\ \A k \in 1..Len(queue) : queue'[k] = queue[k]
        /\ queue'[Len(queue) + 1] = j
    BY <1>1, <1>2, AppendProperties, LenProperties
  <2>2. \A s : Queued(s)' <=> Queued(s) \/ s = j.sub
    BY <1>1, <2>1 DEF Queued
  <2> QED
    BY <1>1, <2>1, <2>2 DEF Queued, OneEntry, QueueNum
<1>3. CASE queue' = <<j>> \o queue
  <2>1. <<j>> \in Seq(JobType) /\ Len(<<j>>) = 1 /\ <<j>>[1] = j
    OBVIOUS
  <2>2. /\ queue' \in Seq(JobType) /\ DOMAIN queue' = 1..(Len(queue) + 1)
        /\ \A k \in 1..(Len(queue) + 1) : queue'[k] = IF k <= 1 THEN <<j>>[k] ELSE queue[k - 1]
    BY <1>1, <1>3, <2>1, ConcatProperties, LenProperties
  <2>3. queue'[1] = j /\ \A k \in 1..Len(queue) : queue'[k + 1] = queue[k]
    BY <1>1, <2>1, <2>2
  <2>4. \A k \in DOMAIN queue' : k = 1 \/ (k - 1 \in DOMAIN queue /\ queue'[k] = queue[k - 1])
    BY <1>1, <2>2
  <2>0. /\ \A k \in DOMAIN queue : k + 1 \in DOMAIN queue' /\ queue'[k + 1] = queue[k]
        /\ 1 \in DOMAIN queue'
    BY <1>1, <2>2, <2>3
  <2>5. \A s : Queued(s)' <=> Queued(s) \/ s = j.sub
    <3>1. ASSUME NEW s, Queued(s) PROVE Queued(s)'
      BY <2>0, <3>1 DEF Queued
    <3>2. Queued(j.sub)'
      BY <2>0, <2>3 DEF Queued
    <3>3. ASSUME NEW s, Queued(s)' PROVE Queued(s) \/ s = j.sub
      <4>1. PICK k \in DOMAIN queue' : queue'[k].sub = s
        BY <3>3 DEF Queued
      <4> QED
        BY <2>3, <2>4, <4>1 DEF Queued
    <3> QED
      BY <3>1, <3>2, <3>3
  <2>6. ASSUME OneEntry, ~Queued(j.sub) PROVE OneEntry'
    <3>1. \A k \in DOMAIN queue' : k # 1 => queue'[k].sub # j.sub
      BY <2>4, <2>6 DEF Queued
    <3>2. ASSUME NEW a \in DOMAIN queue', NEW b \in DOMAIN queue', queue'[a].sub = queue'[b].sub
          PROVE  a = b
      <4>1. CASE a = 1 \/ b = 1
        BY <2>3, <3>1, <3>2, <4>1
      <4>2. CASE a # 1 /\ b # 1
        <5>1. a - 1 = b - 1
          BY <2>4, <2>6, <3>2, <4>2 DEF OneEntry
        <5>2. a \in Nat /\ b \in Nat
          BY <1>1, <2>2
        <5> QED
          BY <5>1, <5>2
      <4> QED
        BY <4>1, <4>2
    <3> QED
      BY <3>2 DEF OneEntry
  <2> QED
    BY <1>1, <2>2, <2>3, <2>4, <2>5, <2>6 DEF QueueNum
<1> QED
  BY <1>2, <1>3

LEMMA QueueShrinks ==
  ASSUME queue \in Seq(JobType), queue # <<>>, queue' = Tail(queue), NEW j, j = Head(queue)
  PROVE  /\ queue' \in Seq(JobType) /\ j \in JobType
         /\ Queued(j.sub)
         /\ \A s : Queued(s) => Queued(s)' \/ s = j.sub
         /\ \A s : Queued(s)' => Queued(s)
         /\ OneEntry => OneEntry' /\ ~Queued(j.sub)'
         /\ QueueNum => num[j.sub] = j.id
         /\ QueueNum /\ num' = num => QueueNum'
<1>1. /\ Len(queue) \in Nat /\ DOMAIN queue = 1..Len(queue) /\ Len(queue) # 0
      /\ j = queue[1]
  BY LenProperties, EmptySeq
<1>2. /\ queue' \in Seq(JobType) /\ DOMAIN queue' = 1..(Len(queue) - 1) /\ j \in JobType
      /\ \A k \in 1..(Len(queue) - 1) : queue'[k] = queue[k + 1]
  BY <1>1, HeadTailProperties, LenProperties
<1>3. \A k \in DOMAIN queue : k = 1 \/ (k - 1 \in DOMAIN queue' /\ queue'[k - 1] = queue[k])
  BY <1>1, <1>2
<1>4. \A k \in DOMAIN queue' : k + 1 \in DOMAIN queue /\ queue'[k] = queue[k + 1] /\ k \in Nat /\ k + 1 # 1
  BY <1>1, <1>2
<1>5. \A s : Queued(s) => Queued(s)' \/ s = j.sub
  BY <1>1, <1>3 DEF Queued
<1>6. \A s : Queued(s)' => Queued(s)
  BY <1>4 DEF Queued
<1>7. ASSUME OneEntry PROVE OneEntry' /\ ~Queued(j.sub)'
  <2>1. ~Queued(j.sub)'
    <3>1. ASSUME NEW k \in DOMAIN queue', queue'[k].sub = j.sub PROVE FALSE
      <4>1. k + 1 \in DOMAIN queue /\ queue[k + 1].sub = queue[1].sub /\ 1 \in DOMAIN queue
        BY <1>1, <1>4, <3>1
      <4> QED
        BY <1>4, <1>7, <4>1 DEF OneEntry
    <3> QED
      BY <3>1 DEF Queued
  <2>2. ASSUME NEW a \in DOMAIN queue', NEW b \in DOMAIN queue', queue'[a].sub = queue'[b].sub
        PROVE  a = b
    <3>1. a + 1 = b + 1
      BY <1>4, <1>7, <2>2 DEF OneEntry
    <3> QED
      BY <1>4, <3>1
  <2> QED
    BY <2>1, <2>2 DEF OneEntry
<1> QED
  BY <1>1, <1>2, <1>4, <1>5, <1>6, <1>7 DEF Queued, QueueNum

LEMMA QueueStill ==
  ASSUME queue' = queue
  PROVE  /\ \A s : Queued(s)' <=> Queued(s)
         /\ OneEntry' <=> OneEntry
         /\ num' = num => (QueueNum' <=> QueueNum)
  BY DEF Queued, OneEntry, QueueNum

-----------------------------------------------------------------------------
(* The types. *)
LEMMA FileClosed ==
  ASSUME TypeOK, NEW i \in Subs, inode' = [inode EXCEPT ![i].closed = TRUE]
  PROVE  /\ inode' \in [Subs -> [of : Subs \cup {None}, closed : BOOLEAN]]
         /\ inode'[i] = [of |-> inode[i].of, closed |-> TRUE]
         /\ \A j \in Subs : j # i => inode'[j] = inode[j]
<1>1. inode \in [Subs -> [of : Subs \cup {None}, closed : BOOLEAN]]
  BY DEF TypeOK
<1>2. PICK r : r = [inode[i] EXCEPT !.closed = TRUE]
  OBVIOUS
<1>3. r = [of |-> inode[i].of, closed |-> TRUE] /\ r \in [of : Subs \cup {None}, closed : BOOLEAN]
  BY <1>1, <1>2
<1>4. inode' = [inode EXCEPT ![i] = r]
  BY <1>1, <1>2
<1> QED
  BY <1>1, <1>3, <1>4

LEMMA MainTypes ==
  ASSUME IInv, MainStep \/ ScanFails
  PROVE  TypeOK'
<1> USE SpoolerAssumption DEF disk, mainVars, printerVars, clientVars, countVars, history
<1>0. TypeOK /\ Numbers \subseteq 0..MaxJob /\ MaxJob \in Nat /\ 0 \in 0..MaxJob /\ 1 \in 0..MaxJob
  BY DEF IInv, Numbers, SpoolerAssumption
<1>1. CASE Start
  BY <1>0, <1>1 DEF Start, TypeOK, SpoolerAssumption
<1>2. CASE ScanWake
  BY <1>0, <1>2 DEF ScanWake, Signalled, TypeOK
<1>3. CASE ScanPurge
  <2>1. data' \in [Numbers -> Subs \cup {None}] /\ main' = "scan" /\ cur' = 0
    BY <1>0, <1>3 DEF ScanPurge, TypeOK
  <2>2. UNCHANGED <<jobfile, inode, req, todo, nextjob, queue, reread, printerVars, clientVars,
                    countVars, history>>
    BY <1>3 DEF ScanPurge
  <2> QED
    BY <1>0, <2>1, <2>2 DEF TypeOK
<1>4. CASE ScanDone
  BY <1>0, <1>4 DEF ScanDone, TypeOK
<1>5. ASSUME NEW n \in Numbers, ScanJob(n) PROVE TypeOK'
  <2>1. Job(n, req[n]) \in JobType
    BY <1>5 DEF ScanJob, Job, JobType
  <2>2. queue \in Seq(JobType) /\ queue' = Append(queue, Job(n, req[n]))
    BY <1>0, <1>5 DEF ScanJob, TypeOK, JobType
  <2>3. queue' \in Seq(JobType)
    BY <2>1, <2>2, AppendProperties
  <2> QED
    BY <1>0, <1>5, <2>3, SMTT(30) DEF ScanJob, TypeOK, JobType
<1>6. ASSUME NEW n \in Numbers, ScanPartial(n) PROVE TypeOK'
  BY <1>0, <1>6 DEF ScanPartial, TypeOK
<1>7. ASSUME NEW n \in Numbers, ScanSkip(n) PROVE TypeOK'
  BY <1>0, <1>7, SMTT(30) DEF ScanSkip, SkipFrame, Fault, TypeOK
<1>8. ASSUME NEW n \in Numbers, ScanUnreadable(n) PROVE TypeOK'
  BY <1>0, <1>8, SMTT(30) DEF ScanUnreadable, Fault, TypeOK
<1>9. CASE ScanAbandon
  BY <1>0, <1>9, SMTT(30) DEF ScanAbandon, SkipFrame, Fault, TypeOK
<1> QED
  BY <1>1, <1>2, <1>3, <1>4, <1>5, <1>6, <1>7, <1>8, <1>9 DEF MainStep, ScanFails

LEMMA ClientTypes ==
  ASSUME IInv, NEW s \in Subs, ClientStep(s)
  PROVE  TypeOK'
<1> USE SpoolerAssumption DEF ClientFrame, mainVars, At
<1>0. /\ TypeOK /\ Numbers \subseteq 0..MaxJob /\ MaxJob \in Nat
      /\ pc[s] \notin {"new", "done"} => num[s] \in Numbers
      /\ pc[s] = "data" => file[s] \in Subs
      /\ main # "down" => nextjob \in Numbers
  BY SMTT(30) DEF IInv, Numbers, SpoolerAssumption, TypeOK, NumOK, SubNum, LifeOK
<1>1. CASE BadHeader(s)
  BY <1>0, <1>1 DEF BadHeader, Refused, Keep, TypeOK
<1>2. CASE GetNewJobno(s)
  BY <1>0, <1>2, SMTT(30) DEF GetNewJobno, TypeOK, SpoolerAssumption, Numbers
<1>3. CASE CreateData(s)
  <2>1. PICK i \in Subs : /\ data' = [data EXCEPT ![num[s]] = i]
                          /\ inode' = [inode EXCEPT ![i] = [of |-> s, closed |-> FALSE]]
                          /\ file' = [file EXCEPT ![s] = i]
    BY <1>0, <1>3 DEF CreateData, TypeOK
  <2> QED
    BY <1>0, <1>3, <2>1, SMTT(30) DEF CreateData, Keep, TypeOK
<1>4. CASE CreateDataFails(s)
  BY <1>0, <1>4 DEF CreateDataFails, Fault, Refused, Keep, TypeOK
<1>5. CASE CopyDataFails(s)
  BY <1>0, <1>5, SMTT(30) DEF CopyDataFails, Fault, Refused, Keep, TypeOK
<1>6. CASE EndOfData(s)
  <2>1. inode' \in [Subs -> [of : Subs \cup {None}, closed : BOOLEAN]]
    BY <1>0, <1>6, FileClosed DEF EndOfData
  <2>2. /\ req' = [req EXCEPT ![num[s]] = "part"] /\ num[s] \in Numbers
        /\ pc' = [pc EXCEPT ![s] = "writereq"]
        /\ UNCHANGED <<data, num, file, reply, faults>> /\ ClientFrame /\ Keep
    BY <1>0, <1>6 DEF EndOfData
  <2> QED
    BY <1>0, <2>1, <2>2 DEF Keep, TypeOK
<1>7. CASE CreateReqFails(s)
  <2>1. inode' \in [Subs -> [of : Subs \cup {None}, closed : BOOLEAN]]
    BY <1>0, <1>7, FileClosed DEF CreateReqFails
  <2>2. /\ reply' = [reply EXCEPT ![s] = "refused"] /\ faults' = faults + 1
        /\ pc' = [pc EXCEPT ![s] = "unlinkdata"]
        /\ UNCHANGED <<data, req, num, file>> /\ ClientFrame /\ Keep
    BY <1>7 DEF CreateReqFails, Fault, Refused
  <2> QED
    BY <1>0, <2>1, <2>2 DEF Keep, TypeOK
<1>8. CASE WriteReq(s)
  BY <1>0, <1>8 DEF WriteReq, Keep, TypeOK
<1>9. CASE WriteReqFails(s)
  BY <1>0, <1>9 DEF WriteReqFails, Fault, Refused, Keep, TypeOK
<1>10. CASE UndoReq(s)
  BY <1>0, <1>10 DEF UndoReq, Keep, TypeOK
<1>11. CASE UndoData(s)
  BY <1>0, <1>11 DEF UndoData, Keep, TypeOK
<1>12. CASE ReplyOk(s)
  BY <1>0, <1>12 DEF ReplyOk, Keep, TypeOK
<1>13. CASE AddJob(s)
  <2>1. Job(num[s], s) \in JobType
    BY <1>0, <1>13 DEF AddJob, Job, JobType
  <2>2. queue \in Seq(JobType) /\ queue' = Append(queue, Job(num[s], s))
    BY <1>0, <1>13 DEF AddJob, TypeOK, JobType
  <2>3. queue' \in Seq(JobType)
    BY <2>1, <2>2, AppendProperties
  <2> QED
    BY <1>0, <1>13, <2>3, SMTT(30) DEF AddJob, TypeOK, JobType
<1>14. CASE Signal(s)
  BY <1>0, <1>14 DEF Signal, Signalled, TypeOK
<1> QED
  BY <1>1, <1>2, <1>3, <1>4, <1>5, <1>6, <1>7, <1>8, <1>9, <1>10, <1>11, <1>12, <1>13, <1>14
  DEF ClientStep, Finish

(* The printer thread has a job and an open file when it uses them. *)
LEMMA PrinterHas ==
  ASSUME IInv
  PROVE  /\ prt \notin {"down", "get", "waiting"} => jp \in JobType /\ jp.sub \in Subs /\ jp.id \in Numbers
         /\ prt \in {"send", "status", "unlinkdata", "unlinkreq", "defer"} =>
              pfd \in Subs /\ inode[pfd].of \in Subs /\ num[pfd] = jp.id
         /\ jp = NoJob => jp.sub = None /\ jp.id = 0
         /\ NoJob \notin JobType
<1>1. TypeOK /\ LifeOK /\ JobNum
  BY DEF IInv, NumOK
<1>2. NoJob \notin JobType /\ NoJob.sub = None /\ NoJob.id = 0
  BY SpoolerAssumption DEF SpoolerAssumption, NoJob, Job, JobType, Numbers
<1>3. jp \in JobType \/ jp = NoJob
  BY <1>1 DEF TypeOK, JobType
<1>4. prt \notin {"down", "get", "waiting"} => jp \in JobType
  BY <1>1, <1>3 DEF LifeOK
<1>5. \A j \in JobType : j.sub \in Subs /\ j.id \in Numbers
  BY DEF JobType
<1>6. prt \in {"send", "status", "unlinkdata", "unlinkreq", "defer"} =>
        pfd \in Subs /\ inode[pfd].of \in Subs /\ num[pfd] = jp.id
  BY <1>1 DEF LifeOK, JobNum, TypeOK
<1> QED
  BY <1>2, <1>4, <1>5, <1>6

LEMMA PrinterTypes ==
  ASSUME IInv, PrinterStep \/ StatusOk \/ DeferJob
  PROVE  TypeOK'
<1> USE SpoolerAssumption DEF PrinterFrame, mainVars, clientVars, PrinterAt
<1>0. /\ TypeOK
      /\ prt \notin {"down", "get", "waiting"} => jp \in JobType /\ jp.sub \in Subs /\ jp.id \in Numbers
      /\ prt \in {"send", "status", "unlinkdata", "unlinkreq", "defer"} =>
              pfd \in Subs /\ inode[pfd].of \in Subs
  BY PrinterHas DEF IInv
<1>1. CASE WaitForJob
  BY <1>0, <1>1 DEF WaitForJob, TypeOK
<1>2. CASE PickUp
  <2>1. queue \in Seq(JobType) /\ queue # <<>> /\ queue' = Tail(queue) /\ jp' = Head(queue)
    BY <1>0, <1>2 DEF PickUp, TypeOK, JobType
  <2>2. queue' \in Seq(JobType) /\ jp' \in JobType
    BY <2>1, HeadTailProperties
  <2> QED
    BY <1>0, <1>2, <2>2 DEF PickUp, TypeOK, JobType
<1>3. CASE UpdateJobno
  <2>1. jobfile' \in 0..MaxJob /\ fresh' = FALSE /\ prt' = "config"
    BY <1>0, <1>3 DEF UpdateJobno, TypeOK, Numbers
  <2> QED
    BY <1>0, <1>3, <2>1 DEF UpdateJobno, TypeOK
<1>4. CASE CheckConfig
  BY <1>0, <1>4 DEF CheckConfig, TypeOK
<1>5. CASE InitPrinter
  BY <1>0, <1>5 DEF InitPrinter, TypeOK
<1>6. CASE OpenData
  BY <1>0, <1>6 DEF OpenData, TypeOK
<1>7. CASE CancelJob
  BY <1>0, <1>7, SMTT(30) DEF CancelJob, Fault, TypeOK
<1>8. CASE SendJob
  BY <1>0, <1>8 DEF SendJob, TypeOK
<1>9. CASE UnlinkData
  BY <1>0, <1>9 DEF UnlinkData, TypeOK
<1>10. CASE UnlinkReq
  BY <1>0, <1>10 DEF UnlinkReq, TypeOK
<1>11. CASE ReplaceJob
  <2>1. /\ jp \in JobType /\ queue \in Seq(JobType) /\ queue' = <<jp>> \o queue
    BY <1>0, <1>11 DEF ReplaceJob, TypeOK, JobType
  <2>2. queue' \in Seq(JobType)
    BY <2>1, QueueGrows
  <2> QED
    BY <1>0, <1>11, <2>2 DEF ReplaceJob, TypeOK, JobType
<1>12. CASE StatusOk
  BY <1>0, <1>12 DEF StatusOk, TypeOK
<1>13. CASE DeferJob
  BY <1>0, <1>13 DEF DeferJob, TypeOK
<1> QED
  BY <1>1, <1>2, <1>3, <1>4, <1>5, <1>6, <1>7, <1>8, <1>9, <1>10, <1>11, <1>12, <1>13
  DEF PrinterStep

(* SIGHUP, the end of the process, and no step. *)
LEMMA OtherTypes ==
  ASSUME IInv, Hangup \/ Stop \/ UNCHANGED vars
  PROVE  TypeOK'
<1> USE DEF disk, mainVars, printerVars, clientVars, countVars, history
<1>0. TypeOK /\ 0 \in 0..MaxJob
  BY SpoolerAssumption DEF IInv, SpoolerAssumption
<1>1. CASE Hangup
  BY <1>0, <1>1 DEF Hangup, TypeOK
<1>2. CASE Stop
  <2>1. lagged' \in BOOLEAN
    BY <1>2 DEF Stop
  <2>2. queue' \in Seq(JobType)
    BY <1>2, EmptySeq DEF Stop
  <2>3. pc' \in [Subs -> {"new", "creat", "data", "writereq", "unlinkreq",
                         "unlinkdata", "reply", "add", "signal", "done"}]
    BY <1>0, <1>2 DEF Stop
  <2>4. /\ nextjob' = 0 /\ main' = "down" /\ todo' = {} /\ cur' = 0 /\ reread' = FALSE
        /\ prt' = "down" /\ jp' = NoJob /\ pfd' = None /\ stale' = FALSE /\ stops' = stops + 1
        /\ file' = [s \in Subs |-> None]
        /\ UNCHANGED <<disk, num, reply, faults, printed, confirmed, dropped, unread, reused, fresh>>
    BY <1>2 DEF Stop
  <2>5. file' \in [Subs -> Subs \cup {None}] /\ stops' \in Nat
    BY <1>0, <2>4 DEF TypeOK
  <2> QED
    BY <1>0, <2>1, <2>2, <2>3, <2>4, <2>5 DEF TypeOK, JobType
<1>3. CASE UNCHANGED vars
  BY <1>0, <1>3 DEF vars, TypeOK
<1> QED
  BY <1>1, <1>2, <1>3

-----------------------------------------------------------------------------
(* The phases. *)
LEMMA MainLife ==
  ASSUME IInv, MainStep \/ ScanFails
  PROVE  LifeOK'
<1> USE SpoolerAssumption DEF disk, mainVars, printerVars, clientVars, countVars, history
<1>0. /\ TypeOK /\ LifeOK /\ jp \in JobType \cup {NoJob} /\ NoJob \notin JobType
      /\ prt \notin {"down", "get", "waiting"} => jp \in JobType
      /\ prt \in {"send", "status", "unlinkdata", "unlinkreq", "defer"} => pfd \in Subs
      /\ None \notin Subs /\ "part" \notin Subs /\ None # "part"
      /\ Numbers = 1..MaxJob /\ MaxJob \in Nat /\ MaxJob # 0
  BY PrinterHas DEF IInv, TypeOK, JobType, Numbers, SpoolerAssumption
<1>1. CASE Start
  BY <1>0, <1>1 DEF Start, TypeOK, LifeOK
<1>2. CASE ScanWake
  BY <1>0, <1>2 DEF ScanWake, Signalled, TypeOK, LifeOK
<1>3. CASE ScanPurge
  BY <1>0, <1>3 DEF ScanPurge, TypeOK, LifeOK
<1>4. CASE ScanDone
  BY <1>0, <1>4 DEF ScanDone, TypeOK, LifeOK
<1>5. ASSUME NEW n \in Numbers, ScanJob(n) PROVE LifeOK'
  BY <1>0, <1>5 DEF ScanJob, TypeOK, LifeOK
<1>6. ASSUME NEW n \in Numbers, ScanPartial(n) PROVE LifeOK'
  BY <1>0, <1>6 DEF ScanPartial, TypeOK, LifeOK
<1>7. ASSUME NEW n \in Numbers, ScanSkip(n) PROVE LifeOK'
  BY <1>0, <1>7 DEF ScanSkip, SkipFrame, Fault, TypeOK, LifeOK
<1>8. ASSUME NEW n \in Numbers, ScanUnreadable(n) PROVE LifeOK'
  BY <1>0, <1>8 DEF ScanUnreadable, Fault, TypeOK, LifeOK
<1>9. CASE ScanAbandon
  BY <1>0, <1>9 DEF ScanAbandon, SkipFrame, Fault, TypeOK, LifeOK
<1> QED
  BY <1>1, <1>2, <1>3, <1>4, <1>5, <1>6, <1>7, <1>8, <1>9 DEF MainStep, ScanFails

LEMMA ClientLife ==
  ASSUME IInv, NEW c \in Subs, ClientStep(c)
  PROVE  LifeOK'
<1> USE SpoolerAssumption DEF ClientFrame, Keep, At, mainVars
<1>0. /\ TypeOK /\ LifeOK /\ jp \in JobType \cup {NoJob} /\ NoJob \notin JobType
      /\ prt \notin {"down", "get", "waiting"} => jp \in JobType
      /\ prt \in {"send", "status", "unlinkdata", "unlinkreq", "defer"} => pfd \in Subs
      /\ None \notin Subs /\ "part" \notin Subs /\ None # "part"
      /\ Numbers = 1..MaxJob /\ MaxJob \in Nat /\ MaxJob # 0
  BY PrinterHas DEF IInv, TypeOK, JobType, Numbers, SpoolerAssumption
<1>1. CASE BadHeader(c)
  BY <1>0, <1>1 DEF BadHeader, Refused, TypeOK, LifeOK
<1>2. CASE GetNewJobno(c)
  BY <1>0, <1>2 DEF GetNewJobno, TypeOK, LifeOK
<1>3. CASE CreateData(c)
  BY <1>0, <1>3 DEF CreateData, TypeOK, LifeOK
<1>4. CASE CreateDataFails(c)
  BY <1>0, <1>4 DEF CreateDataFails, Refused, Fault, TypeOK, LifeOK
<1>5. CASE CopyDataFails(c)
  BY <1>0, <1>5 DEF CopyDataFails, Refused, Fault, TypeOK, LifeOK
<1>6. CASE EndOfData(c)
  BY <1>0, <1>6 DEF EndOfData, TypeOK, LifeOK
<1>7. CASE CreateReqFails(c)
  BY <1>0, <1>7 DEF CreateReqFails, Refused, Fault, TypeOK, LifeOK
<1>8. CASE WriteReq(c)
  BY <1>0, <1>8 DEF WriteReq, TypeOK, LifeOK
<1>9. CASE WriteReqFails(c)
  BY <1>0, <1>9 DEF WriteReqFails, Refused, Fault, TypeOK, LifeOK
<1>10. CASE UndoReq(c)
  BY <1>0, <1>10 DEF UndoReq, TypeOK, LifeOK
<1>11. CASE UndoData(c)
  BY <1>0, <1>11 DEF UndoData, TypeOK, LifeOK
<1>12. CASE ReplyOk(c)
  BY <1>0, <1>12 DEF ReplyOk, TypeOK, LifeOK
<1>13. CASE AddJob(c)
  BY <1>0, <1>13 DEF AddJob, TypeOK, LifeOK
<1>14. CASE Signal(c)
  BY <1>0, <1>14 DEF Signal, Signalled, TypeOK, LifeOK
<1> QED
  BY <1>1, <1>2, <1>3, <1>4, <1>5, <1>6, <1>7, <1>8, <1>9, <1>10, <1>11, <1>12, <1>13, <1>14
     DEF ClientStep, Finish

LEMMA PrinterLife ==
  ASSUME IInv, PrinterStep \/ StatusOk \/ DeferJob
  PROVE  LifeOK'
<1> USE SpoolerAssumption DEF PrinterFrame, PrinterAt, mainVars, clientVars
<1>0. /\ TypeOK /\ LifeOK /\ jp \in JobType \cup {NoJob} /\ NoJob \notin JobType
      /\ prt \notin {"down", "get", "waiting"} => jp \in JobType
      /\ prt \in {"send", "status", "unlinkdata", "unlinkreq", "defer"} => pfd \in Subs
      /\ None \notin Subs /\ "part" \notin Subs /\ None # "part"
      /\ Numbers = 1..MaxJob /\ MaxJob \in Nat /\ MaxJob # 0
  BY PrinterHas DEF IInv, TypeOK, JobType, Numbers, SpoolerAssumption
<1>1. CASE WaitForJob
  BY <1>0, <1>1 DEF WaitForJob, TypeOK, LifeOK
<1>2. CASE PickUp
  <2>1. queue \in Seq(JobType) /\ queue # <<>> /\ queue' = Tail(queue) /\ jp' = Head(queue)
    BY <1>0, <1>2 DEF PickUp, TypeOK, JobType
  <2>2. jp' # NoJob
    BY <1>0, <2>1, HeadTailProperties
  <2> QED
    BY <1>0, <1>2, <2>2 DEF PickUp, LifeOK
<1>3. CASE UpdateJobno
  BY <1>0, <1>3 DEF UpdateJobno, TypeOK, LifeOK
<1>4. CASE CheckConfig
  BY <1>0, <1>4 DEF CheckConfig, TypeOK, LifeOK
<1>5. CASE InitPrinter
  BY <1>0, <1>5 DEF InitPrinter, TypeOK, LifeOK
<1>6. CASE OpenData
  BY <1>0, <1>6 DEF OpenData, TypeOK, LifeOK
<1>7. CASE CancelJob
  BY <1>0, <1>7 DEF CancelJob, Fault, TypeOK, LifeOK
<1>8. CASE SendJob
  BY <1>0, <1>8 DEF SendJob, TypeOK, LifeOK
<1>9. CASE UnlinkData
  BY <1>0, <1>9 DEF UnlinkData, TypeOK, LifeOK
<1>10. CASE UnlinkReq
  BY <1>0, <1>10 DEF UnlinkReq, TypeOK, LifeOK
<1>11. CASE ReplaceJob
  BY <1>0, <1>11 DEF ReplaceJob, TypeOK, LifeOK
<1>12. CASE StatusOk
  BY <1>0, <1>12 DEF StatusOk, TypeOK, LifeOK
<1>13. CASE DeferJob
  BY <1>0, <1>13 DEF DeferJob, TypeOK, LifeOK
<1> QED
  BY <1>1, <1>2, <1>3, <1>4, <1>5, <1>6, <1>7, <1>8, <1>9, <1>10, <1>11, <1>12, <1>13 DEF
     PrinterStep

LEMMA OtherLife ==
  ASSUME IInv, Hangup \/ Stop \/ UNCHANGED vars
  PROVE  LifeOK'
<1> USE SpoolerAssumption DEF disk, mainVars, printerVars, clientVars, countVars, history
<1>0. /\ TypeOK /\ LifeOK /\ jp \in JobType \cup {NoJob} /\ NoJob \notin JobType
      /\ prt \notin {"down", "get", "waiting"} => jp \in JobType
      /\ prt \in {"send", "status", "unlinkdata", "unlinkreq", "defer"} => pfd \in Subs
      /\ None \notin Subs /\ "part" \notin Subs /\ None # "part"
      /\ Numbers = 1..MaxJob /\ MaxJob \in Nat /\ MaxJob # 0
  BY PrinterHas DEF IInv, TypeOK, JobType, Numbers, SpoolerAssumption
<1>1. CASE Hangup
  BY <1>0, <1>1 DEF Hangup, TypeOK, LifeOK
<1>2. CASE Stop
  BY <1>0, <1>2 DEF Stop, TypeOK, LifeOK
<1>3. CASE UNCHANGED vars
  BY <1>0, <1>3 DEF vars, TypeOK, LifeOK
<1> QED
  BY <1>1, <1>2, <1>3

-----------------------------------------------------------------------------
(* What the proofs below need all the time. *)
LEMMA Basics ==
  ASSUME IInv
  PROVE  /\ TypeOK /\ LifeOK /\ NumOK
         /\ jp \in JobType \cup {NoJob} /\ NoJob \notin JobType
         /\ jp = NoJob => jp.sub = None /\ jp.id = 0
         /\ prt \notin {"down", "get", "waiting"} =>
              jp \in JobType /\ jp.id \in Numbers /\ jp.sub \in Subs /\ num[jp.sub] = jp.id
         /\ prt \in {"send", "status", "unlinkdata", "unlinkreq", "defer"} =>
              pfd \in Subs /\ inode[pfd].of \in Subs /\ num[pfd] = jp.id
         /\ None \notin Subs /\ "part" \notin Subs /\ None # "part"
         /\ 0 \notin Numbers /\ Numbers \subseteq 0..MaxJob /\ MaxJob \in Nat
         /\ queue \in Seq(JobType)
         /\ \A s \in Subs : num[s] # 0 => num[s] \in Numbers
<1>1. TypeOK /\ LifeOK /\ NumOK
  BY DEF IInv
<1>2. jp \in JobType \cup {NoJob} /\ queue \in Seq(JobType)
  BY <1>1 DEF TypeOK, JobType
<1>3. /\ None \notin Subs /\ "part" \notin Subs /\ None # "part"
      /\ 0 \notin Numbers /\ Numbers \subseteq 0..MaxJob /\ MaxJob \in Nat
      /\ \A n \in 0..MaxJob : n # 0 => n \in Numbers
  BY SpoolerAssumption DEF SpoolerAssumption, Numbers
<1>4. \A s \in Subs : num[s] # 0 => num[s] \in Numbers
  BY <1>1, <1>3 DEF TypeOK
<1>5. prt \notin {"down", "get", "waiting"} => jp # NoJob
  BY <1>1 DEF LifeOK
<1>6. jp # NoJob => num[jp.sub] = jp.id
  BY <1>1 DEF NumOK, JobNum
<1> QED
  BY <1>1, <1>2, <1>3, <1>4, <1>5, <1>6, PrinterHas

(* What the longer steps of a client thread do. *)
LEMMA NumberEffect ==
  ASSUME IInv, NEW c \in Subs, GetNewJobno(c)
  PROVE  /\ main = "serve" /\ pc[c] = "new" /\ pc' = [pc EXCEPT ![c] = "creat"]
         /\ num[c] = 0 /\ nextjob \in Numbers /\ nextjob # 0 /\ num' = [num EXCEPT ![c] = nextjob]
         /\ \A t \in Subs : num[t] = nextjob => t # c /\ nextjob \in reused'
         /\ reused \subseteq reused'
         /\ UNCHANGED <<jobfile, data, inode, req, main, todo, cur, queue, prt, jp, pfd, file, reply,
                        stops, printed, confirmed, dropped, unread>>
<1>1. TypeOK /\ LifeOK /\ NumOK /\ 0 \notin Numbers
  BY Basics
<1>2. main = "serve" /\ pc[c] = "new" /\ num[c] = 0 /\ nextjob \in Numbers /\ nextjob # 0
  BY <1>1 DEF GetNewJobno, At, LifeOK, NumOK, SubNum
<1>3. /\ pc' = [pc EXCEPT ![c] = "creat"] /\ num' = [num EXCEPT ![c] = nextjob]
      /\ reused' = IF \E t \in Subs : num[t] = nextjob THEN reused \cup {nextjob} ELSE reused
      /\ UNCHANGED <<jobfile, data, inode, req, main, todo, cur, queue, prt, jp, pfd, file, reply,
                     stops, printed, confirmed, dropped, unread>>
  BY DEF GetNewJobno, At, ClientFrame, mainVars
<1> QED
  BY <1>2, <1>3

LEMMA CreateEffect ==
  ASSUME IInv, NEW c \in Subs, CreateData(c)
  PROVE  /\ pc[c] = "creat" /\ pc' = [pc EXCEPT ![c] = "data"] /\ num[c] \in Numbers
         /\ \E i \in Subs : /\ data' = [data EXCEPT ![num[c]] = i]
                            /\ inode' = [inode EXCEPT ![i] = [of |-> c, closed |-> FALSE]]
                            /\ file' = [file EXCEPT ![c] = i]
                            /\ num[i] = num[c]
         /\ UNCHANGED <<jobfile, req, main, todo, cur, nextjob, queue, prt, jp, pfd, num, reply, stops,
                        printed, confirmed, dropped, unread, reused>>
<1>1. /\ TypeOK /\ NumOK /\ \A s \in Subs : num[s] # 0 => num[s] \in Numbers
  BY Basics
<1>2. /\ pc[c] = "creat" /\ pc' = [pc EXCEPT ![c] = "data"]
      /\ UNCHANGED <<jobfile, req, main, todo, cur, nextjob, queue, prt, jp, pfd, num, reply, stops,
                     printed, confirmed, dropped, unread, reused>>
  BY DEF CreateData, At, ClientFrame, Keep, mainVars
<1>3. num[c] \in Numbers
  BY <1>1, <1>2 DEF NumOK, SubNum
<1>4. PICK i : i = IF data[num[c]] = None THEN c ELSE data[num[c]]
  OBVIOUS
<1>5. i \in Subs /\ num[i] = num[c]
  BY <1>1, <1>3, <1>4 DEF TypeOK, NumOK, FileNum
<1>6. /\ data' = [data EXCEPT ![num[c]] = i]
      /\ inode' = [inode EXCEPT ![i] = [of |-> c, closed |-> FALSE]]
      /\ file' = [file EXCEPT ![c] = i]
  BY <1>4 DEF CreateData
<1> QED
  BY <1>2, <1>3, <1>5, <1>6

LEMMA CloseEffect ==
  ASSUME IInv, NEW c \in Subs, EndOfData(c) \/ CreateReqFails(c)
  PROVE  /\ pc[c] = "data" /\ num[c] \in Numbers /\ file[c] \in Subs /\ num[file[c]] = num[c]
         /\ pc' = [pc EXCEPT ![c] = IF EndOfData(c) THEN "writereq" ELSE "unlinkdata"]
         /\ inode' \in [Subs -> [of : Subs \cup {None}, closed : BOOLEAN]]
         /\ inode'[file[c]] = [of |-> inode[file[c]].of, closed |-> TRUE]
         /\ \A i \in Subs : i # file[c] => inode'[i] = inode[i]
         /\ \A i \in Subs : inode'[i].of = inode[i].of
         /\ req' = IF EndOfData(c) THEN [req EXCEPT ![num[c]] = "part"] ELSE req
         /\ reply' = IF EndOfData(c) THEN reply ELSE [reply EXCEPT ![c] = "refused"]
         /\ UNCHANGED <<jobfile, data, main, todo, cur, nextjob, queue, prt, jp, pfd, num, file, stops,
                        printed, confirmed, dropped, unread, reused>>
<1>1. /\ TypeOK /\ NumOK /\ \A s \in Subs : num[s] # 0 => num[s] \in Numbers
  BY Basics
<1>2. /\ pc[c] = "data" /\ pc' = [pc EXCEPT ![c] = IF EndOfData(c) THEN "writereq" ELSE "unlinkdata"]
      /\ inode' = [inode EXCEPT ![file[c]].closed = TRUE]
      /\ req' = IF EndOfData(c) THEN [req EXCEPT ![num[c]] = "part"] ELSE req
      /\ reply' = IF EndOfData(c) THEN reply ELSE [reply EXCEPT ![c] = "refused"]
      /\ UNCHANGED <<jobfile, data, main, todo, cur, nextjob, queue, prt, jp, pfd, num, file, stops,
                     printed, confirmed, dropped, unread, reused>>
  <2>1. CASE EndOfData(c)
    BY <2>1 DEF EndOfData, At, ClientFrame, Keep, mainVars
  <2>2. CASE ~EndOfData(c)
    BY <2>2 DEF CreateReqFails, Refused, Fault, At, ClientFrame, Keep, mainVars
  <2> QED
    BY <2>1, <2>2
<1>3. num[c] \in Numbers /\ file[c] \in Subs /\ num[file[c]] = num[c]
  BY <1>1, <1>2 DEF TypeOK, NumOK, SubNum
<1>4. /\ inode' \in [Subs -> [of : Subs \cup {None}, closed : BOOLEAN]]
      /\ inode'[file[c]] = [of |-> inode[file[c]].of, closed |-> TRUE]
      /\ \A i \in Subs : i # file[c] => inode'[i] = inode[i]
  BY <1>1, <1>2, <1>3, FileClosed
<1>5. \A i \in Subs : inode'[i].of = inode[i].of
  BY <1>4
<1> QED
  BY <1>2, <1>3, <1>4, <1>5

(* The steps that move a job. *)
LEMMA PickEffect ==
  ASSUME IInv, PickUp
  PROVE  \E j \in JobType :
           /\ jp' = j /\ num[j.sub] = j.id /\ Queued(j.sub)
           /\ QueueNum' /\ OneEntry' /\ \A s : Queued(s)' <=> Queued(s) /\ s # j.sub
           /\ prt = "get" /\ prt' = "jobno" /\ jp = NoJob /\ pfd = None
           /\ UNCHANGED <<jobfile, data, inode, req, main, todo, cur, nextjob, pfd, pc, num, file, reply,
                          stops, printed, confirmed, dropped, unread, reused>>
<1>1. /\ LifeOK /\ NumOK /\ OneEntry /\ queue \in Seq(JobType)
  BY Basics DEF IInv
<1>2. PICK j : j = Head(queue)
  OBVIOUS
<1>3. /\ queue # <<>> /\ queue' = Tail(queue) /\ jp' = j /\ prt = "get" /\ prt' = "jobno"
      /\ UNCHANGED <<jobfile, data, inode, req, main, todo, cur, nextjob, pfd, pc, num, file, reply,
                     stops, printed, confirmed, dropped, unread, reused>>
  BY <1>2 DEF PickUp, PrinterAt, PrinterFrame, mainVars, clientVars
<1>4. jp = NoJob /\ pfd = None
  BY <1>1, <1>3 DEF LifeOK
<1>5. QueueNum
  BY <1>1 DEF NumOK
<1>6. /\ j \in JobType /\ num[j.sub] = j.id /\ Queued(j.sub)
      /\ QueueNum' /\ OneEntry' /\ ~Queued(j.sub)'
      /\ \A s : Queued(s) => Queued(s)' \/ s = j.sub
      /\ \A s : Queued(s)' => Queued(s)
  BY <1>1, <1>2, <1>3, <1>5, QueueShrinks
<1>7. \A s : Queued(s)' <=> Queued(s) /\ s # j.sub
  BY <1>6
<1> QED
  BY <1>3, <1>4, <1>6, <1>7

LEMMA PutEffect ==
  ASSUME IInv, NEW j \in JobType, num[j.sub] = j.id, num' = num, ~Queued(j.sub),
         queue' = Append(queue, j) \/ queue' = <<j>> \o queue
  PROVE  QueueNum' /\ OneEntry' /\ \A s : Queued(s)' <=> Queued(s) \/ s = j.sub
<1>1. queue \in Seq(JobType) /\ OneEntry /\ QueueNum
  BY Basics DEF IInv, NumOK
<1> QED
  BY <1>1, QueueGrows

LEMMA ScanEffect ==
  ASSUME IInv, NEW n \in Numbers, ScanJob(n)
  PROVE  /\ \E t \in Subs : /\ req[n] = t /\ num[t] = n /\ n \in todo /\ todo' = todo \ {n}
                            /\ ~Queued(t) /\ jp.sub # t /\ pc[t] \in {"signal", "done"}
                            /\ \A s : Queued(s)' <=> Queued(s) \/ s = t
         /\ main = "scan" /\ main' = "wake" /\ QueueNum' /\ OneEntry'
         /\ UNCHANGED <<jobfile, data, inode, req, cur, nextjob, prt, jp, pfd, pc, num, file, reply, stops,
                        printed, confirmed, dropped, unread, reused>>
<1>1. /\ LifeOK /\ NumOK /\ 0 \notin Numbers
  BY Basics
<1>2. PICK t : t = req[n]
  OBVIOUS
<1>3. /\ t \in Subs /\ n \in todo /\ todo' = todo \ {n} /\ main = "scan" /\ main' = "wake"
      /\ queue' = Append(queue, Job(n, t))
      /\ UNCHANGED <<jobfile, data, inode, req, cur, nextjob, prt, jp, pfd, pc, num, file, reply, stops,
                     printed, confirmed, dropped, unread, reused>>
  BY <1>2 DEF ScanJob, disk, printerVars, clientVars, countVars, history
<1>4. num[t] = n
  BY <1>1, <1>2, <1>3 DEF NumOK, FileNum
<1>5. ~Queued(t) /\ jp.sub # t
  BY <1>2, <1>3, <1>4 DEF IInv, OnceOK, ToFind
<1>6. pc[t] \in {"signal", "done"}
  BY <1>1, <1>3, <1>4 DEF LifeOK, NumOK, SubNum
<1>7. /\ Job(n, t) \in JobType /\ Job(n, t).sub = t /\ Job(n, t).id = n
  BY <1>3 DEF Job, JobType
<1>8. QueueNum' /\ OneEntry' /\ \A s : Queued(s)' <=> Queued(s) \/ s = t
  BY <1>3, <1>4, <1>5, <1>7, PutEffect
<1> QED
  BY <1>2, <1>3, <1>4, <1>5, <1>6, <1>8

LEMMA AddEffect ==
  ASSUME IInv, NEW c \in Subs, AddJob(c)
  PROVE  /\ pc[c] = "add" /\ pc' = [pc EXCEPT ![c] = "signal"] /\ num[c] \in Numbers
         /\ ~Queued(c) /\ jp.sub # c /\ main = "serve" /\ todo = {}
         /\ QueueNum' /\ OneEntry' /\ \A s : Queued(s)' <=> Queued(s) \/ s = c
         /\ UNCHANGED <<jobfile, data, inode, req, main, todo, cur, nextjob, prt, jp, pfd, num, file, reply,
                        stops, printed, confirmed, dropped, unread, reused>>
<1>1. /\ LifeOK /\ NumOK /\ \A s \in Subs : num[s] # 0 => num[s] \in Numbers
  BY Basics
<1>2. /\ pc[c] = "add" /\ pc' = [pc EXCEPT ![c] = "signal"]
      /\ queue' = Append(queue, Job(num[c], c))
      /\ UNCHANGED <<jobfile, data, inode, req, main, todo, cur, nextjob, prt, jp, pfd, num, file, reply,
                     stops, printed, confirmed, dropped, unread, reused>>
  BY DEF AddJob, At, ClientFrame, mainVars
<1>3. num[c] \in Numbers
  BY <1>1, <1>2 DEF NumOK, SubNum
<1>4. main = "serve" /\ todo = {}
  BY <1>1, <1>2 DEF LifeOK
<1>5. ~Queued(c) /\ jp.sub # c
  BY <1>2 DEF IInv, OnceOK
<1>6. Job(num[c], c) \in JobType /\ Job(num[c], c).sub = c /\ Job(num[c], c).id = num[c]
  BY <1>3 DEF Job, JobType
<1>7. QueueNum' /\ OneEntry' /\ \A s : Queued(s)' <=> Queued(s) \/ s = c
  BY <1>2, <1>5, <1>6, PutEffect
<1> QED
  BY <1>2, <1>3, <1>4, <1>5, <1>7

LEMMA ReplaceEffect ==
  ASSUME IInv, ReplaceJob
  PROVE  /\ jp \in JobType /\ num[jp.sub] = jp.id /\ ~Queued(jp.sub)
         /\ jp' = NoJob /\ pfd' = None /\ prt = "defer" /\ prt' = "get"
         /\ QueueNum' /\ OneEntry' /\ \A s : Queued(s)' <=> Queued(s) \/ s = jp.sub
         /\ UNCHANGED <<jobfile, data, inode, req, main, todo, cur, nextjob, pc, num, file, reply,
                        stops, printed, confirmed, dropped, unread, reused>>
<1>1. /\ jp' = NoJob /\ pfd' = None /\ prt = "defer" /\ prt' = "get" /\ queue' = <<jp>> \o queue
      /\ UNCHANGED <<jobfile, data, inode, req, main, todo, cur, nextjob, pc, num, file, reply,
                     stops, printed, confirmed, dropped, unread, reused>>
  BY DEF ReplaceJob, PrinterAt, PrinterFrame, mainVars, clientVars
<1>2. jp \in JobType /\ num[jp.sub] = jp.id /\ jp.sub \in Subs
  BY <1>1, Basics
<1>3. ~Queued(jp.sub)
  BY <1>2 DEF IInv, OnceOK
<1>4. QueueNum' /\ OneEntry' /\ \A s : Queued(s)' <=> Queued(s) \/ s = jp.sub
  BY <1>1, <1>2, <1>3, PutEffect
<1> QED
  BY <1>1, <1>2, <1>3, <1>4

-----------------------------------------------------------------------------
(* Whose number everything has. *)
LEMMA MainSubNums ==
  ASSUME IInv, MainStep \/ ScanFails, NEW s \in Subs
  PROVE  SubNum(s)'
<1> USE SpoolerAssumption DEF disk, mainVars, printerVars, clientVars, countVars, history
<1>0. /\ TypeOK /\ LifeOK /\ NumOK
      /\ jp \in JobType \cup {NoJob} /\ NoJob \notin JobType
      /\ jp = NoJob => jp.sub = None /\ jp.id = 0
      /\ prt \notin {"down", "get", "waiting"} =>
           jp \in JobType /\ jp.id \in Numbers /\ jp.sub \in Subs /\ num[jp.sub] = jp.id
      /\ prt \in {"send", "status", "unlinkdata", "unlinkreq", "defer"} =>
           pfd \in Subs /\ inode[pfd].of \in Subs /\ num[pfd] = jp.id
      /\ None \notin Subs /\ "part" \notin Subs /\ None # "part" /\ 0 \notin Numbers
      /\ \A v \in Subs : num[v] # 0 => num[v] \in Numbers
  BY Basics
<1>1. CASE Start
  BY <1>0, <1>1 DEF Start, TypeOK, NumOK, SubNum
<1>2. CASE ScanWake
  BY <1>0, <1>2 DEF ScanWake, Signalled, TypeOK, NumOK, SubNum
<1>3. CASE ScanPurge
  BY <1>0, <1>3 DEF ScanPurge, TypeOK, NumOK, SubNum
<1>4. CASE ScanDone
  BY <1>0, <1>4 DEF ScanDone, TypeOK, NumOK, SubNum
<1>5. ASSUME NEW n \in Numbers, ScanJob(n) PROVE SubNum(s)'
  BY <1>0, <1>5 DEF ScanJob, TypeOK, NumOK, SubNum
<1>6. ASSUME NEW n \in Numbers, ScanPartial(n) PROVE SubNum(s)'
  BY <1>0, <1>6 DEF ScanPartial, TypeOK, NumOK, SubNum
<1>7. ASSUME NEW n \in Numbers, ScanSkip(n) PROVE SubNum(s)'
  BY <1>0, <1>7 DEF ScanSkip, SkipFrame, Fault, TypeOK, NumOK, SubNum
<1>8. ASSUME NEW n \in Numbers, ScanUnreadable(n) PROVE SubNum(s)'
  BY <1>0, <1>8 DEF ScanUnreadable, Fault, TypeOK, NumOK, SubNum
<1>9. CASE ScanAbandon
  BY <1>0, <1>9 DEF ScanAbandon, SkipFrame, Fault, TypeOK, NumOK, SubNum
<1> QED
  BY <1>1, <1>2, <1>3, <1>4, <1>5, <1>6, <1>7, <1>8, <1>9 DEF MainStep, ScanFails

LEMMA ClientSubNums ==
  ASSUME IInv, NEW c \in Subs, ClientStep(c), NEW s \in Subs
  PROVE  SubNum(s)'
<1> USE SpoolerAssumption DEF ClientFrame, Keep, At, mainVars
<1>0. /\ TypeOK /\ LifeOK /\ NumOK
      /\ jp \in JobType \cup {NoJob} /\ NoJob \notin JobType
      /\ jp = NoJob => jp.sub = None /\ jp.id = 0
      /\ prt \notin {"down", "get", "waiting"} =>
           jp \in JobType /\ jp.id \in Numbers /\ jp.sub \in Subs /\ num[jp.sub] = jp.id
      /\ prt \in {"send", "status", "unlinkdata", "unlinkreq", "defer"} =>
           pfd \in Subs /\ inode[pfd].of \in Subs /\ num[pfd] = jp.id
      /\ None \notin Subs /\ "part" \notin Subs /\ None # "part" /\ 0 \notin Numbers
      /\ \A v \in Subs : num[v] # 0 => num[v] \in Numbers
  BY Basics
<1>1. CASE BadHeader(c)
  BY <1>0, <1>1 DEF BadHeader, Refused, TypeOK, NumOK, SubNum
<1>2. CASE GetNewJobno(c)
  <2>1. /\ main = "serve" /\ pc[c] = "new" /\ pc' = [pc EXCEPT ![c] = "creat"]
        /\ num[c] = 0 /\ nextjob \in Numbers /\ nextjob # 0 /\ num' = [num EXCEPT ![c] = nextjob]
        /\ \A t \in Subs : num[t] = nextjob => t # c /\ nextjob \in reused'
        /\ reused \subseteq reused'
        /\ UNCHANGED <<jobfile, data, inode, req, main, todo, cur, queue, prt, jp, pfd, file, reply,
                       stops, printed, confirmed, dropped, unread>>
    BY <1>2, NumberEffect
  <2>2. /\ pc'[c] = "creat" /\ num'[c] = nextjob
        /\ \A t \in Subs : t # c => pc'[t] = pc[t] /\ num'[t] = num[t]
    BY <1>0, <2>1 DEF TypeOK
  <2> QED
    BY <1>0, <2>1, <2>2 DEF TypeOK, NumOK, SubNum
<1>3. CASE CreateData(c)
  <2>1. PICK i \in Subs : /\ data' = [data EXCEPT ![num[c]] = i]
                          /\ inode' = [inode EXCEPT ![i] = [of |-> c, closed |-> FALSE]]
                          /\ file' = [file EXCEPT ![c] = i]
                          /\ num[i] = num[c]
    BY <1>3, CreateEffect
  <2>2. /\ pc[c] = "creat" /\ pc' = [pc EXCEPT ![c] = "data"] /\ num[c] \in Numbers
        /\ UNCHANGED <<jobfile, req, main, todo, cur, nextjob, queue, prt, jp, pfd, num, reply, stops,
                       printed, confirmed, dropped, unread, reused>>
    BY <1>3, CreateEffect
  <2>3. /\ data'[num[c]] = i /\ \A m \in Numbers : m # num[c] => data'[m] = data[m]
        /\ inode'[i] = [of |-> c, closed |-> FALSE] /\ \A t \in Subs : t # i => inode'[t] = inode[t]
        /\ file'[c] = i /\ pc'[c] = "data" /\ \A t \in Subs : t # c => file'[t] = file[t] /\ pc'[t] = pc[t]
    BY <1>0, <2>1, <2>2 DEF TypeOK
  <2> QED
    BY <1>0, <2>1, <2>2, <2>3 DEF TypeOK, NumOK, SubNum
<1>4. CASE CreateDataFails(c)
  BY <1>0, <1>4 DEF CreateDataFails, Refused, Fault, TypeOK, NumOK, SubNum
<1>5. CASE CopyDataFails(c)
  BY <1>0, <1>5 DEF CopyDataFails, Refused, Fault, TypeOK, NumOK, SubNum
<1>6. CASE EndOfData(c)
  <2>1. /\ pc[c] = "data" /\ num[c] \in Numbers /\ file[c] \in Subs /\ num[file[c]] = num[c]
        /\ inode' \in [Subs -> [of : Subs \cup {None}, closed : BOOLEAN]]
        /\ inode'[file[c]] = [of |-> inode[file[c]].of, closed |-> TRUE]
        /\ \A i \in Subs : i # file[c] => inode'[i] = inode[i]
        /\ \A i \in Subs : inode'[i].of = inode[i].of
        /\ UNCHANGED <<jobfile, data, main, todo, cur, nextjob, queue, prt, jp, pfd, num, file, stops,
                       printed, confirmed, dropped, unread, reused>>
    BY <1>6, CloseEffect
  <2>2. /\ pc' = [pc EXCEPT ![c] = "writereq"] /\ reply' = reply
        /\ req' = [req EXCEPT ![num[c]] = "part"]
    BY <1>6 DEF EndOfData
  <2>3. /\ pc'[c] = "writereq" /\ \A t \in Subs : t # c => pc'[t] = pc[t]
        /\ req'[num[c]] = "part" /\ \A m \in Numbers : m # num[c] => req'[m] = req[m]
    BY <1>0, <2>1, <2>2 DEF TypeOK
  <2> QED
    BY <1>0, <2>1, <2>2, <2>3 DEF TypeOK, NumOK, SubNum
<1>7. CASE CreateReqFails(c)
  <2>1. /\ pc[c] = "data" /\ num[c] \in Numbers /\ file[c] \in Subs /\ num[file[c]] = num[c]
        /\ inode' \in [Subs -> [of : Subs \cup {None}, closed : BOOLEAN]]
        /\ inode'[file[c]] = [of |-> inode[file[c]].of, closed |-> TRUE]
        /\ \A i \in Subs : i # file[c] => inode'[i] = inode[i]
        /\ \A i \in Subs : inode'[i].of = inode[i].of
        /\ UNCHANGED <<jobfile, data, main, todo, cur, nextjob, queue, prt, jp, pfd, num, file, stops,
                       printed, confirmed, dropped, unread, reused>>
    BY <1>7, CloseEffect
  <2>2. /\ pc' = [pc EXCEPT ![c] = "unlinkdata"] /\ reply' = [reply EXCEPT ![c] = "refused"]
        /\ req' = req
    BY <1>7 DEF CreateReqFails, Refused
  <2>3. /\ pc'[c] = "unlinkdata" /\ reply'[c] = "refused"
        /\ \A t \in Subs : t # c => pc'[t] = pc[t] /\ reply'[t] = reply[t]
    BY <1>0, <2>1, <2>2 DEF TypeOK
  <2> QED
    BY <1>0, <2>1, <2>2, <2>3 DEF TypeOK, NumOK, SubNum
<1>8. CASE WriteReq(c)
  BY <1>0, <1>8 DEF WriteReq, TypeOK, NumOK, SubNum
<1>9. CASE WriteReqFails(c)
  BY <1>0, <1>9 DEF WriteReqFails, Refused, Fault, TypeOK, NumOK, SubNum
<1>10. CASE UndoReq(c)
  BY <1>0, <1>10 DEF UndoReq, TypeOK, NumOK, SubNum
<1>11. CASE UndoData(c)
  BY <1>0, <1>11 DEF UndoData, TypeOK, NumOK, SubNum
<1>12. CASE ReplyOk(c)
  BY <1>0, <1>12 DEF ReplyOk, TypeOK, NumOK, SubNum
<1>13. CASE AddJob(c)
  BY <1>0, <1>13 DEF AddJob, TypeOK, NumOK, SubNum
<1>14. CASE Signal(c)
  BY <1>0, <1>14 DEF Signal, Signalled, TypeOK, NumOK, SubNum
<1> QED
  BY <1>1, <1>2, <1>3, <1>4, <1>5, <1>6, <1>7, <1>8, <1>9, <1>10, <1>11, <1>12, <1>13,
     <1>14 DEF ClientStep, Finish

LEMMA PrinterSubNums ==
  ASSUME IInv, PrinterStep \/ StatusOk \/ DeferJob, NEW s \in Subs
  PROVE  SubNum(s)'
<1> USE SpoolerAssumption DEF PrinterFrame, PrinterAt, mainVars, clientVars
<1>0. /\ TypeOK /\ LifeOK /\ NumOK
      /\ jp \in JobType \cup {NoJob} /\ NoJob \notin JobType
      /\ jp = NoJob => jp.sub = None /\ jp.id = 0
      /\ prt \notin {"down", "get", "waiting"} =>
           jp \in JobType /\ jp.id \in Numbers /\ jp.sub \in Subs /\ num[jp.sub] = jp.id
      /\ prt \in {"send", "status", "unlinkdata", "unlinkreq", "defer"} =>
           pfd \in Subs /\ inode[pfd].of \in Subs /\ num[pfd] = jp.id
      /\ None \notin Subs /\ "part" \notin Subs /\ None # "part" /\ 0 \notin Numbers
      /\ \A v \in Subs : num[v] # 0 => num[v] \in Numbers
  BY Basics
<1>1. CASE WaitForJob
  BY <1>0, <1>1 DEF WaitForJob, TypeOK, NumOK, SubNum
<1>2. CASE PickUp
  BY <1>0, <1>2 DEF PickUp, TypeOK, NumOK, SubNum
<1>3. CASE UpdateJobno
  BY <1>0, <1>3 DEF UpdateJobno, TypeOK, NumOK, SubNum
<1>4. CASE CheckConfig
  BY <1>0, <1>4 DEF CheckConfig, TypeOK, NumOK, SubNum
<1>5. CASE InitPrinter
  BY <1>0, <1>5 DEF InitPrinter, TypeOK, NumOK, SubNum
<1>6. CASE OpenData
  BY <1>0, <1>6 DEF OpenData, TypeOK, NumOK, SubNum
<1>7. CASE CancelJob
  BY <1>0, <1>7 DEF CancelJob, Fault, TypeOK, NumOK, SubNum
<1>8. CASE SendJob
  BY <1>0, <1>8 DEF SendJob, TypeOK, NumOK, SubNum
<1>9. CASE UnlinkData
  BY <1>0, <1>9 DEF UnlinkData, TypeOK, NumOK, SubNum
<1>10. CASE UnlinkReq
  BY <1>0, <1>10 DEF UnlinkReq, TypeOK, NumOK, SubNum
<1>11. CASE ReplaceJob
  BY <1>0, <1>11 DEF ReplaceJob, TypeOK, NumOK, SubNum
<1>12. CASE StatusOk
  BY <1>0, <1>12 DEF StatusOk, TypeOK, NumOK, SubNum
<1>13. CASE DeferJob
  BY <1>0, <1>13 DEF DeferJob, TypeOK, NumOK, SubNum
<1> QED
  BY <1>1, <1>2, <1>3, <1>4, <1>5, <1>6, <1>7, <1>8, <1>9, <1>10, <1>11, <1>12, <1>13 DEF
     PrinterStep

LEMMA OtherSubNums ==
  ASSUME IInv, Hangup \/ Stop \/ UNCHANGED vars, NEW s \in Subs
  PROVE  SubNum(s)'
<1> USE SpoolerAssumption DEF disk, mainVars, printerVars, clientVars, countVars, history
<1>0. /\ TypeOK /\ LifeOK /\ NumOK
      /\ jp \in JobType \cup {NoJob} /\ NoJob \notin JobType
      /\ jp = NoJob => jp.sub = None /\ jp.id = 0
      /\ prt \notin {"down", "get", "waiting"} =>
           jp \in JobType /\ jp.id \in Numbers /\ jp.sub \in Subs /\ num[jp.sub] = jp.id
      /\ prt \in {"send", "status", "unlinkdata", "unlinkreq", "defer"} =>
           pfd \in Subs /\ inode[pfd].of \in Subs /\ num[pfd] = jp.id
      /\ None \notin Subs /\ "part" \notin Subs /\ None # "part" /\ 0 \notin Numbers
      /\ \A v \in Subs : num[v] # 0 => num[v] \in Numbers
  BY Basics
<1>1. CASE Hangup
  BY <1>0, <1>1 DEF Hangup, TypeOK, NumOK, SubNum
<1>2. CASE Stop
  BY <1>0, <1>2 DEF Stop, TypeOK, NumOK, SubNum
<1>3. CASE UNCHANGED vars
  BY <1>0, <1>3 DEF vars, TypeOK, NumOK, SubNum
<1> QED
  BY <1>1, <1>2, <1>3
LEMMA MainFileNums ==
  ASSUME IInv, MainStep \/ ScanFails, NEW m \in Numbers
  PROVE  FileNum(m)'
<1> USE SpoolerAssumption DEF disk, mainVars, printerVars, clientVars, countVars, history
<1>0. /\ TypeOK /\ LifeOK /\ NumOK
      /\ jp \in JobType \cup {NoJob} /\ NoJob \notin JobType
      /\ jp = NoJob => jp.sub = None /\ jp.id = 0
      /\ prt \notin {"down", "get", "waiting"} =>
           jp \in JobType /\ jp.id \in Numbers /\ jp.sub \in Subs /\ num[jp.sub] = jp.id
      /\ prt \in {"send", "status", "unlinkdata", "unlinkreq", "defer"} =>
           pfd \in Subs /\ inode[pfd].of \in Subs /\ num[pfd] = jp.id
      /\ None \notin Subs /\ "part" \notin Subs /\ None # "part" /\ 0 \notin Numbers
      /\ \A s \in Subs : num[s] # 0 => num[s] \in Numbers
  BY Basics
<1>1. CASE Start
  BY <1>0, <1>1 DEF Start, TypeOK, NumOK, FileNum, SubNum
<1>2. CASE ScanWake
  BY <1>0, <1>2 DEF ScanWake, Signalled, TypeOK, NumOK, FileNum, SubNum
<1>3. CASE ScanPurge
  BY <1>0, <1>3 DEF ScanPurge, TypeOK, NumOK, FileNum, SubNum
<1>4. CASE ScanDone
  BY <1>0, <1>4 DEF ScanDone, TypeOK, NumOK, FileNum, SubNum
<1>5. ASSUME NEW n \in Numbers, ScanJob(n) PROVE FileNum(m)'
  BY <1>0, <1>5 DEF ScanJob, TypeOK, NumOK, FileNum, SubNum
<1>6. ASSUME NEW n \in Numbers, ScanPartial(n) PROVE FileNum(m)'
  BY <1>0, <1>6 DEF ScanPartial, TypeOK, NumOK, FileNum, SubNum
<1>7. ASSUME NEW n \in Numbers, ScanSkip(n) PROVE FileNum(m)'
  BY <1>0, <1>7 DEF ScanSkip, SkipFrame, Fault, TypeOK, NumOK, FileNum, SubNum
<1>8. ASSUME NEW n \in Numbers, ScanUnreadable(n) PROVE FileNum(m)'
  BY <1>0, <1>8 DEF ScanUnreadable, Fault, TypeOK, NumOK, FileNum, SubNum
<1>9. CASE ScanAbandon
  BY <1>0, <1>9 DEF ScanAbandon, SkipFrame, Fault, TypeOK, NumOK, FileNum, SubNum
<1> QED
  BY <1>1, <1>2, <1>3, <1>4, <1>5, <1>6, <1>7, <1>8, <1>9 DEF MainStep, ScanFails

LEMMA ClientFileNums ==
  ASSUME IInv, NEW c \in Subs, ClientStep(c), NEW m \in Numbers
  PROVE  FileNum(m)'
<1> USE SpoolerAssumption DEF ClientFrame, Keep, At, mainVars
<1>0. /\ TypeOK /\ LifeOK /\ NumOK
      /\ jp \in JobType \cup {NoJob} /\ NoJob \notin JobType
      /\ jp = NoJob => jp.sub = None /\ jp.id = 0
      /\ prt \notin {"down", "get", "waiting"} =>
           jp \in JobType /\ jp.id \in Numbers /\ jp.sub \in Subs /\ num[jp.sub] = jp.id
      /\ prt \in {"send", "status", "unlinkdata", "unlinkreq", "defer"} =>
           pfd \in Subs /\ inode[pfd].of \in Subs /\ num[pfd] = jp.id
      /\ None \notin Subs /\ "part" \notin Subs /\ None # "part" /\ 0 \notin Numbers
      /\ \A s \in Subs : num[s] # 0 => num[s] \in Numbers
  BY Basics
<1>1. CASE BadHeader(c)
  BY <1>0, <1>1 DEF BadHeader, Refused, TypeOK, NumOK, FileNum, SubNum
<1>2. CASE GetNewJobno(c)
  <2>1. /\ main = "serve" /\ pc[c] = "new" /\ pc' = [pc EXCEPT ![c] = "creat"]
        /\ num[c] = 0 /\ nextjob \in Numbers /\ nextjob # 0 /\ num' = [num EXCEPT ![c] = nextjob]
        /\ \A t \in Subs : num[t] = nextjob => t # c /\ nextjob \in reused'
        /\ reused \subseteq reused'
        /\ UNCHANGED <<jobfile, data, inode, req, main, todo, cur, queue, prt, jp, pfd, file, reply,
                       stops, printed, confirmed, dropped, unread>>
    BY <1>2, NumberEffect
  <2>2. /\ pc'[c] = "creat" /\ num'[c] = nextjob
        /\ \A t \in Subs : t # c => pc'[t] = pc[t] /\ num'[t] = num[t]
    BY <1>0, <2>1 DEF TypeOK
  <2> QED
    BY <1>0, <2>1, <2>2 DEF TypeOK, NumOK, FileNum, SubNum
<1>3. CASE CreateData(c)
  <2>1. PICK i \in Subs : /\ data' = [data EXCEPT ![num[c]] = i]
                          /\ inode' = [inode EXCEPT ![i] = [of |-> c, closed |-> FALSE]]
                          /\ file' = [file EXCEPT ![c] = i]
                          /\ num[i] = num[c]
    BY <1>3, CreateEffect
  <2>2. /\ pc[c] = "creat" /\ pc' = [pc EXCEPT ![c] = "data"] /\ num[c] \in Numbers
        /\ UNCHANGED <<jobfile, req, main, todo, cur, nextjob, queue, prt, jp, pfd, num, reply, stops,
                       printed, confirmed, dropped, unread, reused>>
    BY <1>3, CreateEffect
  <2>3. /\ data'[num[c]] = i /\ \A w \in Numbers : w # num[c] => data'[w] = data[w]
        /\ inode'[i] = [of |-> c, closed |-> FALSE] /\ \A t \in Subs : t # i => inode'[t] = inode[t]
        /\ file'[c] = i /\ pc'[c] = "data" /\ \A t \in Subs : t # c => file'[t] = file[t] /\ pc'[t] = pc[t]
    BY <1>0, <2>1, <2>2 DEF TypeOK
  <2> QED
    BY <1>0, <2>1, <2>2, <2>3 DEF TypeOK, NumOK, FileNum, SubNum
<1>4. CASE CreateDataFails(c)
  BY <1>0, <1>4 DEF CreateDataFails, Refused, Fault, TypeOK, NumOK, FileNum, SubNum
<1>5. CASE CopyDataFails(c)
  BY <1>0, <1>5 DEF CopyDataFails, Refused, Fault, TypeOK, NumOK, FileNum, SubNum
<1>6. CASE EndOfData(c)
  <2>1. /\ pc[c] = "data" /\ num[c] \in Numbers /\ file[c] \in Subs /\ num[file[c]] = num[c]
        /\ inode' \in [Subs -> [of : Subs \cup {None}, closed : BOOLEAN]]
        /\ inode'[file[c]] = [of |-> inode[file[c]].of, closed |-> TRUE]
        /\ \A i \in Subs : i # file[c] => inode'[i] = inode[i]
        /\ \A i \in Subs : inode'[i].of = inode[i].of
        /\ UNCHANGED <<jobfile, data, main, todo, cur, nextjob, queue, prt, jp, pfd, num, file, stops,
                       printed, confirmed, dropped, unread, reused>>
    BY <1>6, CloseEffect
  <2>2. /\ pc' = [pc EXCEPT ![c] = "writereq"] /\ reply' = reply
        /\ req' = [req EXCEPT ![num[c]] = "part"]
    BY <1>6 DEF EndOfData
  <2>3. /\ pc'[c] = "writereq" /\ \A t \in Subs : t # c => pc'[t] = pc[t]
        /\ req'[num[c]] = "part" /\ \A w \in Numbers : w # num[c] => req'[w] = req[w]
    BY <1>0, <2>1, <2>2 DEF TypeOK
  <2> QED
    BY <1>0, <2>1, <2>2, <2>3 DEF TypeOK, NumOK, FileNum, SubNum
<1>7. CASE CreateReqFails(c)
  <2>1. /\ pc[c] = "data" /\ num[c] \in Numbers /\ file[c] \in Subs /\ num[file[c]] = num[c]
        /\ inode' \in [Subs -> [of : Subs \cup {None}, closed : BOOLEAN]]
        /\ inode'[file[c]] = [of |-> inode[file[c]].of, closed |-> TRUE]
        /\ \A i \in Subs : i # file[c] => inode'[i] = inode[i]
        /\ \A i \in Subs : inode'[i].of = inode[i].of
        /\ UNCHANGED <<jobfile, data, main, todo, cur, nextjob, queue, prt, jp, pfd, num, file, stops,
                       printed, confirmed, dropped, unread, reused>>
    BY <1>7, CloseEffect
  <2>2. /\ pc' = [pc EXCEPT ![c] = "unlinkdata"] /\ reply' = [reply EXCEPT ![c] = "refused"]
        /\ req' = req
    BY <1>7 DEF CreateReqFails, Refused
  <2>3. /\ pc'[c] = "unlinkdata" /\ reply'[c] = "refused"
        /\ \A t \in Subs : t # c => pc'[t] = pc[t] /\ reply'[t] = reply[t]
    BY <1>0, <2>1, <2>2 DEF TypeOK
  <2> QED
    BY <1>0, <2>1, <2>2, <2>3 DEF TypeOK, NumOK, FileNum, SubNum
<1>8. CASE WriteReq(c)
  BY <1>0, <1>8 DEF WriteReq, TypeOK, NumOK, FileNum, SubNum
<1>9. CASE WriteReqFails(c)
  BY <1>0, <1>9 DEF WriteReqFails, Refused, Fault, TypeOK, NumOK, FileNum, SubNum
<1>10. CASE UndoReq(c)
  BY <1>0, <1>10 DEF UndoReq, TypeOK, NumOK, FileNum, SubNum
<1>11. CASE UndoData(c)
  BY <1>0, <1>11 DEF UndoData, TypeOK, NumOK, FileNum, SubNum
<1>12. CASE ReplyOk(c)
  BY <1>0, <1>12 DEF ReplyOk, TypeOK, NumOK, FileNum, SubNum
<1>13. CASE AddJob(c)
  BY <1>0, <1>13 DEF AddJob, TypeOK, NumOK, FileNum, SubNum
<1>14. CASE Signal(c)
  BY <1>0, <1>14 DEF Signal, Signalled, TypeOK, NumOK, FileNum, SubNum
<1> QED
  BY <1>1, <1>2, <1>3, <1>4, <1>5, <1>6, <1>7, <1>8, <1>9, <1>10, <1>11, <1>12, <1>13,
     <1>14 DEF ClientStep, Finish

LEMMA PrinterFileNums ==
  ASSUME IInv, PrinterStep \/ StatusOk \/ DeferJob, NEW m \in Numbers
  PROVE  FileNum(m)'
<1> USE SpoolerAssumption DEF PrinterFrame, PrinterAt, mainVars, clientVars
<1>0. /\ TypeOK /\ LifeOK /\ NumOK
      /\ jp \in JobType \cup {NoJob} /\ NoJob \notin JobType
      /\ jp = NoJob => jp.sub = None /\ jp.id = 0
      /\ prt \notin {"down", "get", "waiting"} =>
           jp \in JobType /\ jp.id \in Numbers /\ jp.sub \in Subs /\ num[jp.sub] = jp.id
      /\ prt \in {"send", "status", "unlinkdata", "unlinkreq", "defer"} =>
           pfd \in Subs /\ inode[pfd].of \in Subs /\ num[pfd] = jp.id
      /\ None \notin Subs /\ "part" \notin Subs /\ None # "part" /\ 0 \notin Numbers
      /\ \A s \in Subs : num[s] # 0 => num[s] \in Numbers
  BY Basics
<1>1. CASE WaitForJob
  BY <1>0, <1>1 DEF WaitForJob, TypeOK, NumOK, FileNum, SubNum
<1>2. CASE PickUp
  BY <1>0, <1>2 DEF PickUp, TypeOK, NumOK, FileNum, SubNum
<1>3. CASE UpdateJobno
  BY <1>0, <1>3 DEF UpdateJobno, TypeOK, NumOK, FileNum, SubNum
<1>4. CASE CheckConfig
  BY <1>0, <1>4 DEF CheckConfig, TypeOK, NumOK, FileNum, SubNum
<1>5. CASE InitPrinter
  BY <1>0, <1>5 DEF InitPrinter, TypeOK, NumOK, FileNum, SubNum
<1>6. CASE OpenData
  BY <1>0, <1>6 DEF OpenData, TypeOK, NumOK, FileNum, SubNum
<1>7. CASE CancelJob
  BY <1>0, <1>7 DEF CancelJob, Fault, TypeOK, NumOK, FileNum, SubNum
<1>8. CASE SendJob
  BY <1>0, <1>8 DEF SendJob, TypeOK, NumOK, FileNum, SubNum
<1>9. CASE UnlinkData
  BY <1>0, <1>9 DEF UnlinkData, TypeOK, NumOK, FileNum, SubNum
<1>10. CASE UnlinkReq
  BY <1>0, <1>10 DEF UnlinkReq, TypeOK, NumOK, FileNum, SubNum
<1>11. CASE ReplaceJob
  BY <1>0, <1>11 DEF ReplaceJob, TypeOK, NumOK, FileNum, SubNum
<1>12. CASE StatusOk
  BY <1>0, <1>12 DEF StatusOk, TypeOK, NumOK, FileNum, SubNum
<1>13. CASE DeferJob
  BY <1>0, <1>13 DEF DeferJob, TypeOK, NumOK, FileNum, SubNum
<1> QED
  BY <1>1, <1>2, <1>3, <1>4, <1>5, <1>6, <1>7, <1>8, <1>9, <1>10, <1>11, <1>12, <1>13 DEF
     PrinterStep

LEMMA OtherFileNums ==
  ASSUME IInv, Hangup \/ Stop \/ UNCHANGED vars, NEW m \in Numbers
  PROVE  FileNum(m)'
<1> USE SpoolerAssumption DEF disk, mainVars, printerVars, clientVars, countVars, history
<1>0. /\ TypeOK /\ LifeOK /\ NumOK
      /\ jp \in JobType \cup {NoJob} /\ NoJob \notin JobType
      /\ jp = NoJob => jp.sub = None /\ jp.id = 0
      /\ prt \notin {"down", "get", "waiting"} =>
           jp \in JobType /\ jp.id \in Numbers /\ jp.sub \in Subs /\ num[jp.sub] = jp.id
      /\ prt \in {"send", "status", "unlinkdata", "unlinkreq", "defer"} =>
           pfd \in Subs /\ inode[pfd].of \in Subs /\ num[pfd] = jp.id
      /\ None \notin Subs /\ "part" \notin Subs /\ None # "part" /\ 0 \notin Numbers
      /\ \A s \in Subs : num[s] # 0 => num[s] \in Numbers
  BY Basics
<1>1. CASE Hangup
  BY <1>0, <1>1 DEF Hangup, TypeOK, NumOK, FileNum, SubNum
<1>2. CASE Stop
  BY <1>0, <1>2 DEF Stop, TypeOK, NumOK, FileNum, SubNum
<1>3. CASE UNCHANGED vars
  BY <1>0, <1>3 DEF vars, TypeOK, NumOK, FileNum, SubNum
<1> QED
  BY <1>1, <1>2, <1>3
LEMMA MainOwners ==
  ASSUME IInv, MainStep \/ ScanFails
  PROVE  OneOwner'
<1> USE SpoolerAssumption DEF disk, mainVars, printerVars, clientVars, countVars, history
<1>0. /\ TypeOK /\ LifeOK /\ NumOK
      /\ jp \in JobType \cup {NoJob} /\ NoJob \notin JobType
      /\ jp = NoJob => jp.sub = None /\ jp.id = 0
      /\ prt \notin {"down", "get", "waiting"} =>
           jp \in JobType /\ jp.id \in Numbers /\ jp.sub \in Subs /\ num[jp.sub] = jp.id
      /\ prt \in {"send", "status", "unlinkdata", "unlinkreq", "defer"} =>
           pfd \in Subs /\ inode[pfd].of \in Subs /\ num[pfd] = jp.id
      /\ None \notin Subs /\ "part" \notin Subs /\ None # "part" /\ 0 \notin Numbers
      /\ \A s \in Subs : num[s] # 0 => num[s] \in Numbers
  BY Basics
<1>1. CASE Start
  BY <1>0, <1>1 DEF Start, NumOK, OneOwner
<1>2. CASE ScanWake
  BY <1>0, <1>2 DEF ScanWake, Signalled, NumOK, OneOwner
<1>3. CASE ScanPurge
  BY <1>0, <1>3 DEF ScanPurge, NumOK, OneOwner
<1>4. CASE ScanDone
  BY <1>0, <1>4 DEF ScanDone, NumOK, OneOwner
<1>5. ASSUME NEW n \in Numbers, ScanJob(n) PROVE OneOwner'
  BY <1>0, <1>5 DEF ScanJob, NumOK, OneOwner
<1>6. ASSUME NEW n \in Numbers, ScanPartial(n) PROVE OneOwner'
  BY <1>0, <1>6 DEF ScanPartial, NumOK, OneOwner
<1>7. ASSUME NEW n \in Numbers, ScanSkip(n) PROVE OneOwner'
  BY <1>0, <1>7 DEF ScanSkip, SkipFrame, Fault, NumOK, OneOwner
<1>8. ASSUME NEW n \in Numbers, ScanUnreadable(n) PROVE OneOwner'
  BY <1>0, <1>8 DEF ScanUnreadable, Fault, NumOK, OneOwner
<1>9. CASE ScanAbandon
  BY <1>0, <1>9 DEF ScanAbandon, SkipFrame, Fault, NumOK, OneOwner
<1> QED
  BY <1>1, <1>2, <1>3, <1>4, <1>5, <1>6, <1>7, <1>8, <1>9 DEF MainStep, ScanFails

LEMMA ClientOwners ==
  ASSUME IInv, NEW c \in Subs, ClientStep(c)
  PROVE  OneOwner'
<1> USE SpoolerAssumption DEF ClientFrame, Keep, At, mainVars
<1>0. /\ TypeOK /\ LifeOK /\ NumOK
      /\ jp \in JobType \cup {NoJob} /\ NoJob \notin JobType
      /\ jp = NoJob => jp.sub = None /\ jp.id = 0
      /\ prt \notin {"down", "get", "waiting"} =>
           jp \in JobType /\ jp.id \in Numbers /\ jp.sub \in Subs /\ num[jp.sub] = jp.id
      /\ prt \in {"send", "status", "unlinkdata", "unlinkreq", "defer"} =>
           pfd \in Subs /\ inode[pfd].of \in Subs /\ num[pfd] = jp.id
      /\ None \notin Subs /\ "part" \notin Subs /\ None # "part" /\ 0 \notin Numbers
      /\ \A s \in Subs : num[s] # 0 => num[s] \in Numbers
  BY Basics
<1>1. CASE BadHeader(c)
  BY <1>0, <1>1 DEF BadHeader, Refused, NumOK, OneOwner
<1>2. CASE GetNewJobno(c)
  <2>1. /\ main = "serve" /\ pc[c] = "new" /\ pc' = [pc EXCEPT ![c] = "creat"]
        /\ num[c] = 0 /\ nextjob \in Numbers /\ nextjob # 0 /\ num' = [num EXCEPT ![c] = nextjob]
        /\ \A t \in Subs : num[t] = nextjob => t # c /\ nextjob \in reused'
        /\ reused \subseteq reused'
        /\ UNCHANGED <<jobfile, data, inode, req, main, todo, cur, queue, prt, jp, pfd, file, reply,
                       stops, printed, confirmed, dropped, unread>>
    BY <1>2, NumberEffect
  <2>2. /\ pc'[c] = "creat" /\ num'[c] = nextjob
        /\ \A t \in Subs : t # c => pc'[t] = pc[t] /\ num'[t] = num[t]
    BY <1>0, <2>1 DEF TypeOK
  <2> QED
    BY <1>0, <2>1, <2>2 DEF TypeOK, NumOK, OneOwner
<1>3. CASE CreateData(c)
  <2>1. PICK i \in Subs : /\ data' = [data EXCEPT ![num[c]] = i]
                          /\ inode' = [inode EXCEPT ![i] = [of |-> c, closed |-> FALSE]]
                          /\ file' = [file EXCEPT ![c] = i]
                          /\ num[i] = num[c]
    BY <1>3, CreateEffect
  <2>2. /\ pc[c] = "creat" /\ pc' = [pc EXCEPT ![c] = "data"] /\ num[c] \in Numbers
        /\ UNCHANGED <<jobfile, req, main, todo, cur, nextjob, queue, prt, jp, pfd, num, reply, stops,
                       printed, confirmed, dropped, unread, reused>>
    BY <1>3, CreateEffect
  <2>3. /\ data'[num[c]] = i /\ \A m \in Numbers : m # num[c] => data'[m] = data[m]
        /\ inode'[i] = [of |-> c, closed |-> FALSE] /\ \A t \in Subs : t # i => inode'[t] = inode[t]
        /\ file'[c] = i /\ pc'[c] = "data" /\ \A t \in Subs : t # c => file'[t] = file[t] /\ pc'[t] = pc[t]
    BY <1>0, <2>1, <2>2 DEF TypeOK
  <2> QED
    BY <1>0, <2>1, <2>2, <2>3 DEF TypeOK, NumOK, OneOwner
<1>4. CASE CreateDataFails(c)
  BY <1>0, <1>4 DEF CreateDataFails, Refused, Fault, NumOK, OneOwner
<1>5. CASE CopyDataFails(c)
  BY <1>0, <1>5 DEF CopyDataFails, Refused, Fault, NumOK, OneOwner
<1>6. CASE EndOfData(c)
  <2>1. /\ pc[c] = "data" /\ num[c] \in Numbers /\ file[c] \in Subs /\ num[file[c]] = num[c]
        /\ inode' \in [Subs -> [of : Subs \cup {None}, closed : BOOLEAN]]
        /\ inode'[file[c]] = [of |-> inode[file[c]].of, closed |-> TRUE]
        /\ \A i \in Subs : i # file[c] => inode'[i] = inode[i]
        /\ \A i \in Subs : inode'[i].of = inode[i].of
        /\ UNCHANGED <<jobfile, data, main, todo, cur, nextjob, queue, prt, jp, pfd, num, file, stops,
                       printed, confirmed, dropped, unread, reused>>
    BY <1>6, CloseEffect
  <2>2. /\ pc' = [pc EXCEPT ![c] = "writereq"] /\ reply' = reply
        /\ req' = [req EXCEPT ![num[c]] = "part"]
    BY <1>6 DEF EndOfData
  <2>3. /\ pc'[c] = "writereq" /\ \A t \in Subs : t # c => pc'[t] = pc[t]
        /\ req'[num[c]] = "part" /\ \A m \in Numbers : m # num[c] => req'[m] = req[m]
    BY <1>0, <2>1, <2>2 DEF TypeOK
  <2> QED
    BY <1>0, <2>1, <2>2, <2>3 DEF TypeOK, NumOK, OneOwner
<1>7. CASE CreateReqFails(c)
  <2>1. /\ pc[c] = "data" /\ num[c] \in Numbers /\ file[c] \in Subs /\ num[file[c]] = num[c]
        /\ inode' \in [Subs -> [of : Subs \cup {None}, closed : BOOLEAN]]
        /\ inode'[file[c]] = [of |-> inode[file[c]].of, closed |-> TRUE]
        /\ \A i \in Subs : i # file[c] => inode'[i] = inode[i]
        /\ \A i \in Subs : inode'[i].of = inode[i].of
        /\ UNCHANGED <<jobfile, data, main, todo, cur, nextjob, queue, prt, jp, pfd, num, file, stops,
                       printed, confirmed, dropped, unread, reused>>
    BY <1>7, CloseEffect
  <2>2. /\ pc' = [pc EXCEPT ![c] = "unlinkdata"] /\ reply' = [reply EXCEPT ![c] = "refused"]
        /\ req' = req
    BY <1>7 DEF CreateReqFails, Refused
  <2>3. /\ pc'[c] = "unlinkdata" /\ reply'[c] = "refused"
        /\ \A t \in Subs : t # c => pc'[t] = pc[t] /\ reply'[t] = reply[t]
    BY <1>0, <2>1, <2>2 DEF TypeOK
  <2> QED
    BY <1>0, <2>1, <2>2, <2>3 DEF TypeOK, NumOK, OneOwner
<1>8. CASE WriteReq(c)
  BY <1>0, <1>8 DEF WriteReq, NumOK, OneOwner
<1>9. CASE WriteReqFails(c)
  BY <1>0, <1>9 DEF WriteReqFails, Refused, Fault, NumOK, OneOwner
<1>10. CASE UndoReq(c)
  BY <1>0, <1>10 DEF UndoReq, NumOK, OneOwner
<1>11. CASE UndoData(c)
  BY <1>0, <1>11 DEF UndoData, NumOK, OneOwner
<1>12. CASE ReplyOk(c)
  BY <1>0, <1>12 DEF ReplyOk, NumOK, OneOwner
<1>13. CASE AddJob(c)
  BY <1>0, <1>13 DEF AddJob, NumOK, OneOwner
<1>14. CASE Signal(c)
  BY <1>0, <1>14 DEF Signal, Signalled, NumOK, OneOwner
<1> QED
  BY <1>1, <1>2, <1>3, <1>4, <1>5, <1>6, <1>7, <1>8, <1>9, <1>10, <1>11, <1>12, <1>13,
     <1>14 DEF ClientStep, Finish

LEMMA PrinterOwners ==
  ASSUME IInv, PrinterStep \/ StatusOk \/ DeferJob
  PROVE  OneOwner'
<1> USE SpoolerAssumption DEF PrinterFrame, PrinterAt, mainVars, clientVars
<1>0. /\ TypeOK /\ LifeOK /\ NumOK
      /\ jp \in JobType \cup {NoJob} /\ NoJob \notin JobType
      /\ jp = NoJob => jp.sub = None /\ jp.id = 0
      /\ prt \notin {"down", "get", "waiting"} =>
           jp \in JobType /\ jp.id \in Numbers /\ jp.sub \in Subs /\ num[jp.sub] = jp.id
      /\ prt \in {"send", "status", "unlinkdata", "unlinkreq", "defer"} =>
           pfd \in Subs /\ inode[pfd].of \in Subs /\ num[pfd] = jp.id
      /\ None \notin Subs /\ "part" \notin Subs /\ None # "part" /\ 0 \notin Numbers
      /\ \A s \in Subs : num[s] # 0 => num[s] \in Numbers
  BY Basics
<1>1. CASE WaitForJob
  BY <1>0, <1>1 DEF WaitForJob, NumOK, OneOwner
<1>2. CASE PickUp
  BY <1>0, <1>2 DEF PickUp, NumOK, OneOwner
<1>3. CASE UpdateJobno
  BY <1>0, <1>3 DEF UpdateJobno, NumOK, OneOwner
<1>4. CASE CheckConfig
  BY <1>0, <1>4 DEF CheckConfig, NumOK, OneOwner
<1>5. CASE InitPrinter
  BY <1>0, <1>5 DEF InitPrinter, NumOK, OneOwner
<1>6. CASE OpenData
  BY <1>0, <1>6 DEF OpenData, NumOK, OneOwner
<1>7. CASE CancelJob
  BY <1>0, <1>7 DEF CancelJob, Fault, NumOK, OneOwner
<1>8. CASE SendJob
  BY <1>0, <1>8 DEF SendJob, NumOK, OneOwner
<1>9. CASE UnlinkData
  BY <1>0, <1>9 DEF UnlinkData, NumOK, OneOwner
<1>10. CASE UnlinkReq
  BY <1>0, <1>10 DEF UnlinkReq, NumOK, OneOwner
<1>11. CASE ReplaceJob
  BY <1>0, <1>11 DEF ReplaceJob, NumOK, OneOwner
<1>12. CASE StatusOk
  BY <1>0, <1>12 DEF StatusOk, NumOK, OneOwner
<1>13. CASE DeferJob
  BY <1>0, <1>13 DEF DeferJob, NumOK, OneOwner
<1> QED
  BY <1>1, <1>2, <1>3, <1>4, <1>5, <1>6, <1>7, <1>8, <1>9, <1>10, <1>11, <1>12, <1>13 DEF
     PrinterStep

LEMMA OtherOwners ==
  ASSUME IInv, Hangup \/ Stop \/ UNCHANGED vars
  PROVE  OneOwner'
<1> USE SpoolerAssumption DEF disk, mainVars, printerVars, clientVars, countVars, history
<1>0. /\ TypeOK /\ LifeOK /\ NumOK
      /\ jp \in JobType \cup {NoJob} /\ NoJob \notin JobType
      /\ jp = NoJob => jp.sub = None /\ jp.id = 0
      /\ prt \notin {"down", "get", "waiting"} =>
           jp \in JobType /\ jp.id \in Numbers /\ jp.sub \in Subs /\ num[jp.sub] = jp.id
      /\ prt \in {"send", "status", "unlinkdata", "unlinkreq", "defer"} =>
           pfd \in Subs /\ inode[pfd].of \in Subs /\ num[pfd] = jp.id
      /\ None \notin Subs /\ "part" \notin Subs /\ None # "part" /\ 0 \notin Numbers
      /\ \A s \in Subs : num[s] # 0 => num[s] \in Numbers
  BY Basics
<1>1. CASE Hangup
  BY <1>0, <1>1 DEF Hangup, NumOK, OneOwner
<1>2. CASE Stop
  BY <1>0, <1>2 DEF Stop, NumOK, OneOwner
<1>3. CASE UNCHANGED vars
  BY <1>0, <1>3 DEF vars, NumOK, OneOwner
<1> QED
  BY <1>1, <1>2, <1>3
LEMMA MainJobNums ==
  ASSUME IInv, MainStep \/ ScanFails
  PROVE  JobNum'
<1> USE SpoolerAssumption DEF disk, mainVars, printerVars, clientVars, countVars, history
<1>0. /\ TypeOK /\ LifeOK /\ NumOK
      /\ jp \in JobType \cup {NoJob} /\ NoJob \notin JobType
      /\ jp = NoJob => jp.sub = None /\ jp.id = 0
      /\ prt \notin {"down", "get", "waiting"} =>
           jp \in JobType /\ jp.id \in Numbers /\ jp.sub \in Subs /\ num[jp.sub] = jp.id
      /\ prt \in {"send", "status", "unlinkdata", "unlinkreq", "defer"} =>
           pfd \in Subs /\ inode[pfd].of \in Subs /\ num[pfd] = jp.id
      /\ None \notin Subs /\ "part" \notin Subs /\ None # "part" /\ 0 \notin Numbers
      /\ \A s \in Subs : num[s] # 0 => num[s] \in Numbers
  BY Basics
<1>1. CASE Start
  BY <1>0, <1>1 DEF Start, TypeOK, NumOK, JobNum
<1>2. CASE ScanWake
  BY <1>0, <1>2 DEF ScanWake, Signalled, TypeOK, NumOK, JobNum
<1>3. CASE ScanPurge
  BY <1>0, <1>3 DEF ScanPurge, TypeOK, NumOK, JobNum
<1>4. CASE ScanDone
  BY <1>0, <1>4 DEF ScanDone, TypeOK, NumOK, JobNum
<1>5. ASSUME NEW n \in Numbers, ScanJob(n) PROVE JobNum'
  <2>1. PICK t \in Subs :
           /\ req[n] = t /\ num[t] = n /\ n \in todo /\ todo' = todo \ {n}
           /\ ~Queued(t) /\ jp.sub # t /\ pc[t] \in {"signal", "done"}
           /\ \A s : Queued(s)' <=> Queued(s) \/ s = t
    BY <1>5, ScanEffect
  <2>2. /\ main = "scan" /\ main' = "wake" /\ QueueNum' /\ OneEntry'
        /\ UNCHANGED <<jobfile, data, inode, req, cur, nextjob, prt, jp, pfd, pc, num, file, reply, stops,
                       printed, confirmed, dropped, unread, reused>>
    BY <1>5, ScanEffect
  <2> QED
    BY <1>0, <2>1, <2>2 DEF NumOK, JobNum
<1>6. ASSUME NEW n \in Numbers, ScanPartial(n) PROVE JobNum'
  BY <1>0, <1>6 DEF ScanPartial, TypeOK, NumOK, JobNum
<1>7. ASSUME NEW n \in Numbers, ScanSkip(n) PROVE JobNum'
  BY <1>0, <1>7 DEF ScanSkip, SkipFrame, Fault, TypeOK, NumOK, JobNum
<1>8. ASSUME NEW n \in Numbers, ScanUnreadable(n) PROVE JobNum'
  BY <1>0, <1>8 DEF ScanUnreadable, Fault, TypeOK, NumOK, JobNum
<1>9. CASE ScanAbandon
  BY <1>0, <1>9 DEF ScanAbandon, SkipFrame, Fault, TypeOK, NumOK, JobNum
<1> QED
  BY <1>1, <1>2, <1>3, <1>4, <1>5, <1>6, <1>7, <1>8, <1>9 DEF MainStep, ScanFails

LEMMA ClientJobNums ==
  ASSUME IInv, NEW c \in Subs, ClientStep(c)
  PROVE  JobNum'
<1> USE SpoolerAssumption DEF ClientFrame, Keep, At, mainVars
<1>0. /\ TypeOK /\ LifeOK /\ NumOK
      /\ jp \in JobType \cup {NoJob} /\ NoJob \notin JobType
      /\ jp = NoJob => jp.sub = None /\ jp.id = 0
      /\ prt \notin {"down", "get", "waiting"} =>
           jp \in JobType /\ jp.id \in Numbers /\ jp.sub \in Subs /\ num[jp.sub] = jp.id
      /\ prt \in {"send", "status", "unlinkdata", "unlinkreq", "defer"} =>
           pfd \in Subs /\ inode[pfd].of \in Subs /\ num[pfd] = jp.id
      /\ None \notin Subs /\ "part" \notin Subs /\ None # "part" /\ 0 \notin Numbers
      /\ \A s \in Subs : num[s] # 0 => num[s] \in Numbers
  BY Basics
<1>1. CASE BadHeader(c)
  BY <1>0, <1>1 DEF BadHeader, Refused, TypeOK, NumOK, JobNum
<1>2. CASE GetNewJobno(c)
  <2>1. /\ main = "serve" /\ pc[c] = "new" /\ pc' = [pc EXCEPT ![c] = "creat"]
        /\ num[c] = 0 /\ nextjob \in Numbers /\ nextjob # 0 /\ num' = [num EXCEPT ![c] = nextjob]
        /\ \A t \in Subs : num[t] = nextjob => t # c /\ nextjob \in reused'
        /\ reused \subseteq reused'
        /\ UNCHANGED <<jobfile, data, inode, req, main, todo, cur, queue, prt, jp, pfd, file, reply,
                       stops, printed, confirmed, dropped, unread>>
    BY <1>2, NumberEffect
  <2>2. /\ pc'[c] = "creat" /\ num'[c] = nextjob
        /\ \A t \in Subs : t # c => pc'[t] = pc[t] /\ num'[t] = num[t]
    BY <1>0, <2>1 DEF TypeOK
  <2>3. jp # NoJob => jp.sub \in Subs /\ jp.sub # c
    BY <1>0, <2>1 DEF JobType, NumOK, JobNum
  <2>4. pfd # None => pfd \in Subs /\ pfd # c /\ inode[pfd].of # None
    BY <1>0, <2>1 DEF LifeOK, NumOK, JobNum
  <2> QED
    BY <1>0, <2>1, <2>2, <2>3, <2>4 DEF NumOK, JobNum
<1>3. CASE CreateData(c)
  <2>1. PICK i \in Subs : /\ data' = [data EXCEPT ![num[c]] = i]
                          /\ inode' = [inode EXCEPT ![i] = [of |-> c, closed |-> FALSE]]
                          /\ file' = [file EXCEPT ![c] = i]
                          /\ num[i] = num[c]
    BY <1>3, CreateEffect
  <2>2. /\ pc[c] = "creat" /\ pc' = [pc EXCEPT ![c] = "data"] /\ num[c] \in Numbers
        /\ UNCHANGED <<jobfile, req, main, todo, cur, nextjob, queue, prt, jp, pfd, num, reply, stops,
                       printed, confirmed, dropped, unread, reused>>
    BY <1>3, CreateEffect
  <2>3. /\ data'[num[c]] = i /\ \A m \in Numbers : m # num[c] => data'[m] = data[m]
        /\ inode'[i] = [of |-> c, closed |-> FALSE] /\ \A t \in Subs : t # i => inode'[t] = inode[t]
        /\ file'[c] = i /\ pc'[c] = "data" /\ \A t \in Subs : t # c => file'[t] = file[t] /\ pc'[t] = pc[t]
    BY <1>0, <2>1, <2>2 DEF TypeOK
  <2> QED
    BY <1>0, <2>1, <2>2, <2>3 DEF TypeOK, NumOK, JobNum
<1>4. CASE CreateDataFails(c)
  BY <1>0, <1>4 DEF CreateDataFails, Refused, Fault, TypeOK, NumOK, JobNum
<1>5. CASE CopyDataFails(c)
  BY <1>0, <1>5 DEF CopyDataFails, Refused, Fault, TypeOK, NumOK, JobNum
<1>6. CASE EndOfData(c)
  <2>1. /\ pc[c] = "data" /\ num[c] \in Numbers /\ file[c] \in Subs /\ num[file[c]] = num[c]
        /\ inode' \in [Subs -> [of : Subs \cup {None}, closed : BOOLEAN]]
        /\ inode'[file[c]] = [of |-> inode[file[c]].of, closed |-> TRUE]
        /\ \A i \in Subs : i # file[c] => inode'[i] = inode[i]
        /\ \A i \in Subs : inode'[i].of = inode[i].of
        /\ UNCHANGED <<jobfile, data, main, todo, cur, nextjob, queue, prt, jp, pfd, num, file, stops,
                       printed, confirmed, dropped, unread, reused>>
    BY <1>6, CloseEffect
  <2>2. /\ pc' = [pc EXCEPT ![c] = "writereq"] /\ reply' = reply
        /\ req' = [req EXCEPT ![num[c]] = "part"]
    BY <1>6 DEF EndOfData
  <2>3. /\ pc'[c] = "writereq" /\ \A t \in Subs : t # c => pc'[t] = pc[t]
        /\ req'[num[c]] = "part" /\ \A m \in Numbers : m # num[c] => req'[m] = req[m]
    BY <1>0, <2>1, <2>2 DEF TypeOK
  <2> QED
    BY <1>0, <2>1, <2>2, <2>3 DEF TypeOK, NumOK, JobNum
<1>7. CASE CreateReqFails(c)
  <2>1. /\ pc[c] = "data" /\ num[c] \in Numbers /\ file[c] \in Subs /\ num[file[c]] = num[c]
        /\ inode' \in [Subs -> [of : Subs \cup {None}, closed : BOOLEAN]]
        /\ inode'[file[c]] = [of |-> inode[file[c]].of, closed |-> TRUE]
        /\ \A i \in Subs : i # file[c] => inode'[i] = inode[i]
        /\ \A i \in Subs : inode'[i].of = inode[i].of
        /\ UNCHANGED <<jobfile, data, main, todo, cur, nextjob, queue, prt, jp, pfd, num, file, stops,
                       printed, confirmed, dropped, unread, reused>>
    BY <1>7, CloseEffect
  <2>2. /\ pc' = [pc EXCEPT ![c] = "unlinkdata"] /\ reply' = [reply EXCEPT ![c] = "refused"]
        /\ req' = req
    BY <1>7 DEF CreateReqFails, Refused
  <2>3. /\ pc'[c] = "unlinkdata" /\ reply'[c] = "refused"
        /\ \A t \in Subs : t # c => pc'[t] = pc[t] /\ reply'[t] = reply[t]
    BY <1>0, <2>1, <2>2 DEF TypeOK
  <2> QED
    BY <1>0, <2>1, <2>2, <2>3 DEF TypeOK, NumOK, JobNum
<1>8. CASE WriteReq(c)
  BY <1>0, <1>8 DEF WriteReq, TypeOK, NumOK, JobNum
<1>9. CASE WriteReqFails(c)
  BY <1>0, <1>9 DEF WriteReqFails, Refused, Fault, TypeOK, NumOK, JobNum
<1>10. CASE UndoReq(c)
  BY <1>0, <1>10 DEF UndoReq, TypeOK, NumOK, JobNum
<1>11. CASE UndoData(c)
  BY <1>0, <1>11 DEF UndoData, TypeOK, NumOK, JobNum
<1>12. CASE ReplyOk(c)
  BY <1>0, <1>12 DEF ReplyOk, TypeOK, NumOK, JobNum
<1>13. CASE AddJob(c)
  <2>1. /\ pc[c] = "add" /\ pc' = [pc EXCEPT ![c] = "signal"] /\ num[c] \in Numbers
        /\ ~Queued(c) /\ jp.sub # c /\ main = "serve" /\ todo = {}
        /\ QueueNum' /\ OneEntry' /\ \A s : Queued(s)' <=> Queued(s) \/ s = c
        /\ UNCHANGED <<jobfile, data, inode, req, main, todo, cur, nextjob, prt, jp, pfd, num, file, reply,
                       stops, printed, confirmed, dropped, unread, reused>>
    BY <1>13, AddEffect
  <2>2. pc'[c] = "signal" /\ \A t \in Subs : t # c => pc'[t] = pc[t]
    BY <1>0, <2>1 DEF TypeOK
  <2> QED
    BY <1>0, <2>1, <2>2 DEF NumOK, JobNum
<1>14. CASE Signal(c)
  BY <1>0, <1>14 DEF Signal, Signalled, TypeOK, NumOK, JobNum
<1> QED
  BY <1>1, <1>2, <1>3, <1>4, <1>5, <1>6, <1>7, <1>8, <1>9, <1>10, <1>11, <1>12, <1>13,
     <1>14 DEF ClientStep, Finish

LEMMA PrinterJobNums ==
  ASSUME IInv, PrinterStep \/ StatusOk \/ DeferJob
  PROVE  JobNum'
<1> USE SpoolerAssumption DEF PrinterFrame, PrinterAt, mainVars, clientVars
<1>0. /\ TypeOK /\ LifeOK /\ NumOK
      /\ jp \in JobType \cup {NoJob} /\ NoJob \notin JobType
      /\ jp = NoJob => jp.sub = None /\ jp.id = 0
      /\ prt \notin {"down", "get", "waiting"} =>
           jp \in JobType /\ jp.id \in Numbers /\ jp.sub \in Subs /\ num[jp.sub] = jp.id
      /\ prt \in {"send", "status", "unlinkdata", "unlinkreq", "defer"} =>
           pfd \in Subs /\ inode[pfd].of \in Subs /\ num[pfd] = jp.id
      /\ None \notin Subs /\ "part" \notin Subs /\ None # "part" /\ 0 \notin Numbers
      /\ \A s \in Subs : num[s] # 0 => num[s] \in Numbers
  BY Basics
<1>1. CASE WaitForJob
  BY <1>0, <1>1 DEF WaitForJob, TypeOK, NumOK, JobNum
<1>2. CASE PickUp
  <2>1. PICK j \in JobType :
           /\ jp' = j /\ num[j.sub] = j.id /\ Queued(j.sub)
           /\ QueueNum' /\ OneEntry' /\ \A s : Queued(s)' <=> Queued(s) /\ s # j.sub
           /\ prt = "get" /\ prt' = "jobno" /\ jp = NoJob /\ pfd = None
           /\ UNCHANGED <<jobfile, data, inode, req, main, todo, cur, nextjob, pfd, pc, num, file, reply,
                          stops, printed, confirmed, dropped, unread, reused>>
    BY <1>2, PickEffect
  <2> QED
    BY <1>0, <2>1 DEF NumOK, JobNum
<1>3. CASE UpdateJobno
  BY <1>0, <1>3 DEF UpdateJobno, TypeOK, NumOK, JobNum
<1>4. CASE CheckConfig
  BY <1>0, <1>4 DEF CheckConfig, TypeOK, NumOK, JobNum
<1>5. CASE InitPrinter
  BY <1>0, <1>5 DEF InitPrinter, TypeOK, NumOK, JobNum
<1>6. CASE OpenData
  BY <1>0, <1>6 DEF OpenData, TypeOK, NumOK, JobNum, FileNum
<1>7. CASE CancelJob
  BY <1>0, <1>7 DEF CancelJob, Fault, TypeOK, NumOK, JobNum, LifeOK
<1>8. CASE SendJob
  BY <1>0, <1>8 DEF SendJob, TypeOK, NumOK, JobNum
<1>9. CASE UnlinkData
  BY <1>0, <1>9 DEF UnlinkData, TypeOK, NumOK, JobNum
<1>10. CASE UnlinkReq
  BY <1>0, <1>10 DEF UnlinkReq, TypeOK, NumOK, JobNum
<1>11. CASE ReplaceJob
  <2>1. /\ jp \in JobType /\ num[jp.sub] = jp.id /\ ~Queued(jp.sub)
        /\ jp' = NoJob /\ pfd' = None /\ prt = "defer" /\ prt' = "get"
        /\ QueueNum' /\ OneEntry' /\ \A s : Queued(s)' <=> Queued(s) \/ s = jp.sub
        /\ UNCHANGED <<jobfile, data, inode, req, main, todo, cur, nextjob, pc, num, file, reply,
                       stops, printed, confirmed, dropped, unread, reused>>
    BY <1>11, ReplaceEffect
  <2> QED
    BY <1>0, <2>1 DEF NumOK, JobNum
<1>12. CASE StatusOk
  BY <1>0, <1>12 DEF StatusOk, TypeOK, NumOK, JobNum
<1>13. CASE DeferJob
  BY <1>0, <1>13 DEF DeferJob, TypeOK, NumOK, JobNum
<1> QED
  BY <1>1, <1>2, <1>3, <1>4, <1>5, <1>6, <1>7, <1>8, <1>9, <1>10, <1>11, <1>12, <1>13 DEF
     PrinterStep

LEMMA OtherJobNums ==
  ASSUME IInv, Hangup \/ Stop \/ UNCHANGED vars
  PROVE  JobNum'
<1> USE SpoolerAssumption DEF disk, mainVars, printerVars, clientVars, countVars, history
<1>0. /\ TypeOK /\ LifeOK /\ NumOK
      /\ jp \in JobType \cup {NoJob} /\ NoJob \notin JobType
      /\ jp = NoJob => jp.sub = None /\ jp.id = 0
      /\ prt \notin {"down", "get", "waiting"} =>
           jp \in JobType /\ jp.id \in Numbers /\ jp.sub \in Subs /\ num[jp.sub] = jp.id
      /\ prt \in {"send", "status", "unlinkdata", "unlinkreq", "defer"} =>
           pfd \in Subs /\ inode[pfd].of \in Subs /\ num[pfd] = jp.id
      /\ None \notin Subs /\ "part" \notin Subs /\ None # "part" /\ 0 \notin Numbers
      /\ \A s \in Subs : num[s] # 0 => num[s] \in Numbers
  BY Basics
<1>1. CASE Hangup
  BY <1>0, <1>1 DEF Hangup, TypeOK, NumOK, JobNum
<1>2. CASE Stop
  BY <1>0, <1>2 DEF Stop, TypeOK, NumOK, JobNum
<1>3. CASE UNCHANGED vars
  BY <1>0, <1>3 DEF vars, TypeOK, NumOK, JobNum
<1> QED
  BY <1>1, <1>2, <1>3
LEMMA MainQueueNums ==
  ASSUME IInv, MainStep \/ ScanFails
  PROVE  QueueNum'
<1> USE SpoolerAssumption DEF disk, mainVars, printerVars, clientVars, countVars, history
<1>0. /\ TypeOK /\ LifeOK /\ NumOK
      /\ jp \in JobType \cup {NoJob} /\ NoJob \notin JobType
      /\ jp = NoJob => jp.sub = None /\ jp.id = 0
      /\ prt \notin {"down", "get", "waiting"} =>
           jp \in JobType /\ jp.id \in Numbers /\ jp.sub \in Subs /\ num[jp.sub] = jp.id
      /\ prt \in {"send", "status", "unlinkdata", "unlinkreq", "defer"} =>
           pfd \in Subs /\ inode[pfd].of \in Subs /\ num[pfd] = jp.id
      /\ None \notin Subs /\ "part" \notin Subs /\ None # "part" /\ 0 \notin Numbers
      /\ \A s \in Subs : num[s] # 0 => num[s] \in Numbers
  BY Basics
<1>1. CASE Start
  BY <1>0, <1>1 DEF Start, NumOK, QueueNum
<1>2. CASE ScanWake
  BY <1>0, <1>2 DEF ScanWake, Signalled, NumOK, QueueNum
<1>3. CASE ScanPurge
  BY <1>0, <1>3 DEF ScanPurge, NumOK, QueueNum
<1>4. CASE ScanDone
  BY <1>0, <1>4 DEF ScanDone, NumOK, QueueNum
<1>5. ASSUME NEW n \in Numbers, ScanJob(n) PROVE QueueNum'
  <2>1. PICK t \in Subs :
           /\ req[n] = t /\ num[t] = n /\ n \in todo /\ todo' = todo \ {n}
           /\ ~Queued(t) /\ jp.sub # t /\ pc[t] \in {"signal", "done"}
           /\ \A s : Queued(s)' <=> Queued(s) \/ s = t
    BY <1>5, ScanEffect
  <2>2. /\ main = "scan" /\ main' = "wake" /\ QueueNum' /\ OneEntry'
        /\ UNCHANGED <<jobfile, data, inode, req, cur, nextjob, prt, jp, pfd, pc, num, file, reply, stops,
                       printed, confirmed, dropped, unread, reused>>
    BY <1>5, ScanEffect
  <2> QED
    BY <1>0, <2>1, <2>2 DEF NumOK
<1>6. ASSUME NEW n \in Numbers, ScanPartial(n) PROVE QueueNum'
  BY <1>0, <1>6 DEF ScanPartial, NumOK, QueueNum
<1>7. ASSUME NEW n \in Numbers, ScanSkip(n) PROVE QueueNum'
  BY <1>0, <1>7 DEF ScanSkip, SkipFrame, Fault, NumOK, QueueNum
<1>8. ASSUME NEW n \in Numbers, ScanUnreadable(n) PROVE QueueNum'
  BY <1>0, <1>8 DEF ScanUnreadable, Fault, NumOK, QueueNum
<1>9. CASE ScanAbandon
  BY <1>0, <1>9 DEF ScanAbandon, SkipFrame, Fault, NumOK, QueueNum
<1> QED
  BY <1>1, <1>2, <1>3, <1>4, <1>5, <1>6, <1>7, <1>8, <1>9 DEF MainStep, ScanFails

LEMMA ClientQueueNums ==
  ASSUME IInv, NEW c \in Subs, ClientStep(c)
  PROVE  QueueNum'
<1> USE SpoolerAssumption DEF ClientFrame, Keep, At, mainVars
<1>0. /\ TypeOK /\ LifeOK /\ NumOK
      /\ jp \in JobType \cup {NoJob} /\ NoJob \notin JobType
      /\ jp = NoJob => jp.sub = None /\ jp.id = 0
      /\ prt \notin {"down", "get", "waiting"} =>
           jp \in JobType /\ jp.id \in Numbers /\ jp.sub \in Subs /\ num[jp.sub] = jp.id
      /\ prt \in {"send", "status", "unlinkdata", "unlinkreq", "defer"} =>
           pfd \in Subs /\ inode[pfd].of \in Subs /\ num[pfd] = jp.id
      /\ None \notin Subs /\ "part" \notin Subs /\ None # "part" /\ 0 \notin Numbers
      /\ \A s \in Subs : num[s] # 0 => num[s] \in Numbers
  BY Basics
<1>1. CASE BadHeader(c)
  BY <1>0, <1>1 DEF BadHeader, Refused, NumOK, QueueNum
<1>2. CASE GetNewJobno(c)
  <2>1. /\ main = "serve" /\ pc[c] = "new" /\ pc' = [pc EXCEPT ![c] = "creat"]
        /\ num[c] = 0 /\ nextjob \in Numbers /\ nextjob # 0 /\ num' = [num EXCEPT ![c] = nextjob]
        /\ \A t \in Subs : num[t] = nextjob => t # c /\ nextjob \in reused'
        /\ reused \subseteq reused'
        /\ UNCHANGED <<jobfile, data, inode, req, main, todo, cur, queue, prt, jp, pfd, file, reply,
                       stops, printed, confirmed, dropped, unread>>
    BY <1>2, NumberEffect
  <2>2. /\ pc'[c] = "creat" /\ num'[c] = nextjob
        /\ \A t \in Subs : t # c => pc'[t] = pc[t] /\ num'[t] = num[t]
    BY <1>0, <2>1 DEF TypeOK
  <2>3. ASSUME NEW k \in DOMAIN queue PROVE num[queue[k].sub] = queue[k].id /\ queue[k] \in JobType
    BY <1>0, Basics, LenProperties DEF NumOK, QueueNum
  <2>4. \A k \in DOMAIN queue : queue[k].sub \in Subs /\ queue[k].sub # c
    BY <1>0, <2>1, <2>3 DEF JobType
  <2> QED
    BY <2>1, <2>2, <2>3, <2>4 DEF QueueNum
<1>3. CASE CreateData(c)
  <2>1. PICK i \in Subs : /\ data' = [data EXCEPT ![num[c]] = i]
                          /\ inode' = [inode EXCEPT ![i] = [of |-> c, closed |-> FALSE]]
                          /\ file' = [file EXCEPT ![c] = i]
                          /\ num[i] = num[c]
    BY <1>3, CreateEffect
  <2>2. /\ pc[c] = "creat" /\ pc' = [pc EXCEPT ![c] = "data"] /\ num[c] \in Numbers
        /\ UNCHANGED <<jobfile, req, main, todo, cur, nextjob, queue, prt, jp, pfd, num, reply, stops,
                       printed, confirmed, dropped, unread, reused>>
    BY <1>3, CreateEffect
  <2>3. /\ data'[num[c]] = i /\ \A m \in Numbers : m # num[c] => data'[m] = data[m]
        /\ inode'[i] = [of |-> c, closed |-> FALSE] /\ \A t \in Subs : t # i => inode'[t] = inode[t]
        /\ file'[c] = i /\ pc'[c] = "data" /\ \A t \in Subs : t # c => file'[t] = file[t] /\ pc'[t] = pc[t]
    BY <1>0, <2>1, <2>2 DEF TypeOK
  <2> QED
    BY <1>0, <2>1, <2>2, <2>3 DEF TypeOK, NumOK, QueueNum
<1>4. CASE CreateDataFails(c)
  BY <1>0, <1>4 DEF CreateDataFails, Refused, Fault, NumOK, QueueNum
<1>5. CASE CopyDataFails(c)
  BY <1>0, <1>5 DEF CopyDataFails, Refused, Fault, NumOK, QueueNum
<1>6. CASE EndOfData(c)
  <2>1. /\ pc[c] = "data" /\ num[c] \in Numbers /\ file[c] \in Subs /\ num[file[c]] = num[c]
        /\ inode' \in [Subs -> [of : Subs \cup {None}, closed : BOOLEAN]]
        /\ inode'[file[c]] = [of |-> inode[file[c]].of, closed |-> TRUE]
        /\ \A i \in Subs : i # file[c] => inode'[i] = inode[i]
        /\ \A i \in Subs : inode'[i].of = inode[i].of
        /\ UNCHANGED <<jobfile, data, main, todo, cur, nextjob, queue, prt, jp, pfd, num, file, stops,
                       printed, confirmed, dropped, unread, reused>>
    BY <1>6, CloseEffect
  <2>2. /\ pc' = [pc EXCEPT ![c] = "writereq"] /\ reply' = reply
        /\ req' = [req EXCEPT ![num[c]] = "part"]
    BY <1>6 DEF EndOfData
  <2>3. /\ pc'[c] = "writereq" /\ \A t \in Subs : t # c => pc'[t] = pc[t]
        /\ req'[num[c]] = "part" /\ \A m \in Numbers : m # num[c] => req'[m] = req[m]
    BY <1>0, <2>1, <2>2 DEF TypeOK
  <2> QED
    BY <1>0, <2>1, <2>2, <2>3 DEF TypeOK, NumOK, QueueNum
<1>7. CASE CreateReqFails(c)
  <2>1. /\ pc[c] = "data" /\ num[c] \in Numbers /\ file[c] \in Subs /\ num[file[c]] = num[c]
        /\ inode' \in [Subs -> [of : Subs \cup {None}, closed : BOOLEAN]]
        /\ inode'[file[c]] = [of |-> inode[file[c]].of, closed |-> TRUE]
        /\ \A i \in Subs : i # file[c] => inode'[i] = inode[i]
        /\ \A i \in Subs : inode'[i].of = inode[i].of
        /\ UNCHANGED <<jobfile, data, main, todo, cur, nextjob, queue, prt, jp, pfd, num, file, stops,
                       printed, confirmed, dropped, unread, reused>>
    BY <1>7, CloseEffect
  <2>2. /\ pc' = [pc EXCEPT ![c] = "unlinkdata"] /\ reply' = [reply EXCEPT ![c] = "refused"]
        /\ req' = req
    BY <1>7 DEF CreateReqFails, Refused
  <2>3. /\ pc'[c] = "unlinkdata" /\ reply'[c] = "refused"
        /\ \A t \in Subs : t # c => pc'[t] = pc[t] /\ reply'[t] = reply[t]
    BY <1>0, <2>1, <2>2 DEF TypeOK
  <2> QED
    BY <1>0, <2>1, <2>2, <2>3 DEF TypeOK, NumOK, QueueNum
<1>8. CASE WriteReq(c)
  BY <1>0, <1>8 DEF WriteReq, NumOK, QueueNum
<1>9. CASE WriteReqFails(c)
  BY <1>0, <1>9 DEF WriteReqFails, Refused, Fault, NumOK, QueueNum
<1>10. CASE UndoReq(c)
  BY <1>0, <1>10 DEF UndoReq, NumOK, QueueNum
<1>11. CASE UndoData(c)
  BY <1>0, <1>11 DEF UndoData, NumOK, QueueNum
<1>12. CASE ReplyOk(c)
  BY <1>0, <1>12 DEF ReplyOk, NumOK, QueueNum
<1>13. CASE AddJob(c)
  <2>1. /\ pc[c] = "add" /\ pc' = [pc EXCEPT ![c] = "signal"] /\ num[c] \in Numbers
        /\ ~Queued(c) /\ jp.sub # c /\ main = "serve" /\ todo = {}
        /\ QueueNum' /\ OneEntry' /\ \A s : Queued(s)' <=> Queued(s) \/ s = c
        /\ UNCHANGED <<jobfile, data, inode, req, main, todo, cur, nextjob, prt, jp, pfd, num, file, reply,
                       stops, printed, confirmed, dropped, unread, reused>>
    BY <1>13, AddEffect
  <2>2. pc'[c] = "signal" /\ \A t \in Subs : t # c => pc'[t] = pc[t]
    BY <1>0, <2>1 DEF TypeOK
  <2> QED
    BY <1>0, <2>1, <2>2 DEF NumOK
<1>14. CASE Signal(c)
  BY <1>0, <1>14 DEF Signal, Signalled, NumOK, QueueNum
<1> QED
  BY <1>1, <1>2, <1>3, <1>4, <1>5, <1>6, <1>7, <1>8, <1>9, <1>10, <1>11, <1>12, <1>13,
     <1>14 DEF ClientStep, Finish

LEMMA PrinterQueueNums ==
  ASSUME IInv, PrinterStep \/ StatusOk \/ DeferJob
  PROVE  QueueNum'
<1> USE SpoolerAssumption DEF PrinterFrame, PrinterAt, mainVars, clientVars
<1>0. /\ TypeOK /\ LifeOK /\ NumOK
      /\ jp \in JobType \cup {NoJob} /\ NoJob \notin JobType
      /\ jp = NoJob => jp.sub = None /\ jp.id = 0
      /\ prt \notin {"down", "get", "waiting"} =>
           jp \in JobType /\ jp.id \in Numbers /\ jp.sub \in Subs /\ num[jp.sub] = jp.id
      /\ prt \in {"send", "status", "unlinkdata", "unlinkreq", "defer"} =>
           pfd \in Subs /\ inode[pfd].of \in Subs /\ num[pfd] = jp.id
      /\ None \notin Subs /\ "part" \notin Subs /\ None # "part" /\ 0 \notin Numbers
      /\ \A s \in Subs : num[s] # 0 => num[s] \in Numbers
  BY Basics
<1>1. CASE WaitForJob
  BY <1>0, <1>1 DEF WaitForJob, NumOK, QueueNum
<1>2. CASE PickUp
  <2>1. PICK j \in JobType :
           /\ jp' = j /\ num[j.sub] = j.id /\ Queued(j.sub)
           /\ QueueNum' /\ OneEntry' /\ \A s : Queued(s)' <=> Queued(s) /\ s # j.sub
           /\ prt = "get" /\ prt' = "jobno" /\ jp = NoJob /\ pfd = None
           /\ UNCHANGED <<jobfile, data, inode, req, main, todo, cur, nextjob, pfd, pc, num, file, reply,
                          stops, printed, confirmed, dropped, unread, reused>>
    BY <1>2, PickEffect
  <2> QED
    BY <1>0, <2>1 DEF NumOK
<1>3. CASE UpdateJobno
  BY <1>0, <1>3 DEF UpdateJobno, NumOK, QueueNum
<1>4. CASE CheckConfig
  BY <1>0, <1>4 DEF CheckConfig, NumOK, QueueNum
<1>5. CASE InitPrinter
  BY <1>0, <1>5 DEF InitPrinter, NumOK, QueueNum
<1>6. CASE OpenData
  BY <1>0, <1>6 DEF OpenData, NumOK, QueueNum
<1>7. CASE CancelJob
  BY <1>0, <1>7 DEF CancelJob, Fault, NumOK, QueueNum
<1>8. CASE SendJob
  BY <1>0, <1>8 DEF SendJob, NumOK, QueueNum
<1>9. CASE UnlinkData
  BY <1>0, <1>9 DEF UnlinkData, NumOK, QueueNum
<1>10. CASE UnlinkReq
  BY <1>0, <1>10 DEF UnlinkReq, NumOK, QueueNum
<1>11. CASE ReplaceJob
  <2>1. /\ jp \in JobType /\ num[jp.sub] = jp.id /\ ~Queued(jp.sub)
        /\ jp' = NoJob /\ pfd' = None /\ prt = "defer" /\ prt' = "get"
        /\ QueueNum' /\ OneEntry' /\ \A s : Queued(s)' <=> Queued(s) \/ s = jp.sub
        /\ UNCHANGED <<jobfile, data, inode, req, main, todo, cur, nextjob, pc, num, file, reply,
                       stops, printed, confirmed, dropped, unread, reused>>
    BY <1>11, ReplaceEffect
  <2> QED
    BY <1>0, <2>1 DEF NumOK
<1>12. CASE StatusOk
  BY <1>0, <1>12 DEF StatusOk, NumOK, QueueNum
<1>13. CASE DeferJob
  BY <1>0, <1>13 DEF DeferJob, NumOK, QueueNum
<1> QED
  BY <1>1, <1>2, <1>3, <1>4, <1>5, <1>6, <1>7, <1>8, <1>9, <1>10, <1>11, <1>12, <1>13 DEF
     PrinterStep

LEMMA OtherQueueNums ==
  ASSUME IInv, Hangup \/ Stop \/ UNCHANGED vars
  PROVE  QueueNum'
<1> USE SpoolerAssumption DEF disk, mainVars, printerVars, clientVars, countVars, history
<1>0. /\ TypeOK /\ LifeOK /\ NumOK
      /\ jp \in JobType \cup {NoJob} /\ NoJob \notin JobType
      /\ jp = NoJob => jp.sub = None /\ jp.id = 0
      /\ prt \notin {"down", "get", "waiting"} =>
           jp \in JobType /\ jp.id \in Numbers /\ jp.sub \in Subs /\ num[jp.sub] = jp.id
      /\ prt \in {"send", "status", "unlinkdata", "unlinkreq", "defer"} =>
           pfd \in Subs /\ inode[pfd].of \in Subs /\ num[pfd] = jp.id
      /\ None \notin Subs /\ "part" \notin Subs /\ None # "part" /\ 0 \notin Numbers
      /\ \A s \in Subs : num[s] # 0 => num[s] \in Numbers
  BY Basics
<1>1. CASE Hangup
  BY <1>0, <1>1 DEF Hangup, NumOK, QueueNum
<1>2. CASE Stop
  BY <1>0, <1>2 DEF Stop, NumOK, QueueNum
<1>3. CASE UNCHANGED vars
  BY <1>0, <1>3 DEF vars, NumOK, QueueNum
<1> QED
  BY <1>1, <1>2, <1>3
LEMMA MainPrintedNums ==
  ASSUME IInv, MainStep \/ ScanFails
  PROVE  (\A p \in printed : num[p.of] # 0)'
<1> USE SpoolerAssumption DEF disk, mainVars, printerVars, clientVars, countVars, history
<1>0. /\ TypeOK /\ LifeOK /\ NumOK
      /\ jp \in JobType \cup {NoJob} /\ NoJob \notin JobType
      /\ jp = NoJob => jp.sub = None /\ jp.id = 0
      /\ prt \notin {"down", "get", "waiting"} =>
           jp \in JobType /\ jp.id \in Numbers /\ jp.sub \in Subs /\ num[jp.sub] = jp.id
      /\ prt \in {"send", "status", "unlinkdata", "unlinkreq", "defer"} =>
           pfd \in Subs /\ inode[pfd].of \in Subs /\ num[pfd] = jp.id
      /\ None \notin Subs /\ "part" \notin Subs /\ None # "part" /\ 0 \notin Numbers
      /\ \A s \in Subs : num[s] # 0 => num[s] \in Numbers
  BY Basics
<1>1. CASE Start
  BY <1>0, <1>1 DEF Start, TypeOK, NumOK
<1>2. CASE ScanWake
  BY <1>0, <1>2 DEF ScanWake, Signalled, TypeOK, NumOK
<1>3. CASE ScanPurge
  BY <1>0, <1>3 DEF ScanPurge, TypeOK, NumOK
<1>4. CASE ScanDone
  BY <1>0, <1>4 DEF ScanDone, TypeOK, NumOK
<1>5. ASSUME NEW n \in Numbers, ScanJob(n) PROVE (\A p \in printed : num[p.of] # 0)'
  BY <1>0, <1>5 DEF ScanJob, TypeOK, NumOK
<1>6. ASSUME NEW n \in Numbers, ScanPartial(n) PROVE (\A p \in printed : num[p.of] # 0)'
  BY <1>0, <1>6 DEF ScanPartial, TypeOK, NumOK
<1>7. ASSUME NEW n \in Numbers, ScanSkip(n) PROVE (\A p \in printed : num[p.of] # 0)'
  BY <1>0, <1>7 DEF ScanSkip, SkipFrame, Fault, TypeOK, NumOK
<1>8. ASSUME NEW n \in Numbers, ScanUnreadable(n) PROVE (\A p \in printed : num[p.of] # 0)'
  BY <1>0, <1>8 DEF ScanUnreadable, Fault, TypeOK, NumOK
<1>9. CASE ScanAbandon
  BY <1>0, <1>9 DEF ScanAbandon, SkipFrame, Fault, TypeOK, NumOK
<1> QED
  BY <1>1, <1>2, <1>3, <1>4, <1>5, <1>6, <1>7, <1>8, <1>9 DEF MainStep, ScanFails

LEMMA ClientPrintedNums ==
  ASSUME IInv, NEW c \in Subs, ClientStep(c)
  PROVE  (\A p \in printed : num[p.of] # 0)'
<1> USE SpoolerAssumption DEF ClientFrame, Keep, At, mainVars
<1>0. /\ TypeOK /\ LifeOK /\ NumOK
      /\ jp \in JobType \cup {NoJob} /\ NoJob \notin JobType
      /\ jp = NoJob => jp.sub = None /\ jp.id = 0
      /\ prt \notin {"down", "get", "waiting"} =>
           jp \in JobType /\ jp.id \in Numbers /\ jp.sub \in Subs /\ num[jp.sub] = jp.id
      /\ prt \in {"send", "status", "unlinkdata", "unlinkreq", "defer"} =>
           pfd \in Subs /\ inode[pfd].of \in Subs /\ num[pfd] = jp.id
      /\ None \notin Subs /\ "part" \notin Subs /\ None # "part" /\ 0 \notin Numbers
      /\ \A s \in Subs : num[s] # 0 => num[s] \in Numbers
  BY Basics
<1>1. CASE BadHeader(c)
  BY <1>0, <1>1 DEF BadHeader, Refused, TypeOK, NumOK
<1>2. CASE GetNewJobno(c)
  <2>1. /\ main = "serve" /\ pc[c] = "new" /\ pc' = [pc EXCEPT ![c] = "creat"]
        /\ num[c] = 0 /\ nextjob \in Numbers /\ nextjob # 0 /\ num' = [num EXCEPT ![c] = nextjob]
        /\ \A t \in Subs : num[t] = nextjob => t # c /\ nextjob \in reused'
        /\ reused \subseteq reused'
        /\ UNCHANGED <<jobfile, data, inode, req, main, todo, cur, queue, prt, jp, pfd, file, reply,
                       stops, printed, confirmed, dropped, unread>>
    BY <1>2, NumberEffect
  <2>2. /\ pc'[c] = "creat" /\ num'[c] = nextjob
        /\ \A t \in Subs : t # c => pc'[t] = pc[t] /\ num'[t] = num[t]
    BY <1>0, <2>1 DEF TypeOK
  <2> QED
    BY <1>0, <2>1, <2>2 DEF TypeOK, NumOK
<1>3. CASE CreateData(c)
  <2>1. PICK i \in Subs : /\ data' = [data EXCEPT ![num[c]] = i]
                          /\ inode' = [inode EXCEPT ![i] = [of |-> c, closed |-> FALSE]]
                          /\ file' = [file EXCEPT ![c] = i]
                          /\ num[i] = num[c]
    BY <1>3, CreateEffect
  <2>2. /\ pc[c] = "creat" /\ pc' = [pc EXCEPT ![c] = "data"] /\ num[c] \in Numbers
        /\ UNCHANGED <<jobfile, req, main, todo, cur, nextjob, queue, prt, jp, pfd, num, reply, stops,
                       printed, confirmed, dropped, unread, reused>>
    BY <1>3, CreateEffect
  <2>3. /\ data'[num[c]] = i /\ \A m \in Numbers : m # num[c] => data'[m] = data[m]
        /\ inode'[i] = [of |-> c, closed |-> FALSE] /\ \A t \in Subs : t # i => inode'[t] = inode[t]
        /\ file'[c] = i /\ pc'[c] = "data" /\ \A t \in Subs : t # c => file'[t] = file[t] /\ pc'[t] = pc[t]
    BY <1>0, <2>1, <2>2 DEF TypeOK
  <2> QED
    BY <1>0, <2>1, <2>2, <2>3 DEF TypeOK, NumOK
<1>4. CASE CreateDataFails(c)
  BY <1>0, <1>4 DEF CreateDataFails, Refused, Fault, TypeOK, NumOK
<1>5. CASE CopyDataFails(c)
  BY <1>0, <1>5 DEF CopyDataFails, Refused, Fault, TypeOK, NumOK
<1>6. CASE EndOfData(c)
  <2>1. /\ pc[c] = "data" /\ num[c] \in Numbers /\ file[c] \in Subs /\ num[file[c]] = num[c]
        /\ inode' \in [Subs -> [of : Subs \cup {None}, closed : BOOLEAN]]
        /\ inode'[file[c]] = [of |-> inode[file[c]].of, closed |-> TRUE]
        /\ \A i \in Subs : i # file[c] => inode'[i] = inode[i]
        /\ \A i \in Subs : inode'[i].of = inode[i].of
        /\ UNCHANGED <<jobfile, data, main, todo, cur, nextjob, queue, prt, jp, pfd, num, file, stops,
                       printed, confirmed, dropped, unread, reused>>
    BY <1>6, CloseEffect
  <2>2. /\ pc' = [pc EXCEPT ![c] = "writereq"] /\ reply' = reply
        /\ req' = [req EXCEPT ![num[c]] = "part"]
    BY <1>6 DEF EndOfData
  <2>3. /\ pc'[c] = "writereq" /\ \A t \in Subs : t # c => pc'[t] = pc[t]
        /\ req'[num[c]] = "part" /\ \A m \in Numbers : m # num[c] => req'[m] = req[m]
    BY <1>0, <2>1, <2>2 DEF TypeOK
  <2> QED
    BY <1>0, <2>1, <2>2, <2>3 DEF TypeOK, NumOK
<1>7. CASE CreateReqFails(c)
  <2>1. /\ pc[c] = "data" /\ num[c] \in Numbers /\ file[c] \in Subs /\ num[file[c]] = num[c]
        /\ inode' \in [Subs -> [of : Subs \cup {None}, closed : BOOLEAN]]
        /\ inode'[file[c]] = [of |-> inode[file[c]].of, closed |-> TRUE]
        /\ \A i \in Subs : i # file[c] => inode'[i] = inode[i]
        /\ \A i \in Subs : inode'[i].of = inode[i].of
        /\ UNCHANGED <<jobfile, data, main, todo, cur, nextjob, queue, prt, jp, pfd, num, file, stops,
                       printed, confirmed, dropped, unread, reused>>
    BY <1>7, CloseEffect
  <2>2. /\ pc' = [pc EXCEPT ![c] = "unlinkdata"] /\ reply' = [reply EXCEPT ![c] = "refused"]
        /\ req' = req
    BY <1>7 DEF CreateReqFails, Refused
  <2>3. /\ pc'[c] = "unlinkdata" /\ reply'[c] = "refused"
        /\ \A t \in Subs : t # c => pc'[t] = pc[t] /\ reply'[t] = reply[t]
    BY <1>0, <2>1, <2>2 DEF TypeOK
  <2> QED
    BY <1>0, <2>1, <2>2, <2>3 DEF TypeOK, NumOK
<1>8. CASE WriteReq(c)
  BY <1>0, <1>8 DEF WriteReq, TypeOK, NumOK
<1>9. CASE WriteReqFails(c)
  BY <1>0, <1>9 DEF WriteReqFails, Refused, Fault, TypeOK, NumOK
<1>10. CASE UndoReq(c)
  BY <1>0, <1>10 DEF UndoReq, TypeOK, NumOK
<1>11. CASE UndoData(c)
  BY <1>0, <1>11 DEF UndoData, TypeOK, NumOK
<1>12. CASE ReplyOk(c)
  BY <1>0, <1>12 DEF ReplyOk, TypeOK, NumOK
<1>13. CASE AddJob(c)
  BY <1>0, <1>13 DEF AddJob, TypeOK, NumOK
<1>14. CASE Signal(c)
  BY <1>0, <1>14 DEF Signal, Signalled, TypeOK, NumOK
<1> QED
  BY <1>1, <1>2, <1>3, <1>4, <1>5, <1>6, <1>7, <1>8, <1>9, <1>10, <1>11, <1>12, <1>13,
     <1>14 DEF ClientStep, Finish

LEMMA PrinterPrintedNums ==
  ASSUME IInv, PrinterStep \/ StatusOk \/ DeferJob
  PROVE  (\A p \in printed : num[p.of] # 0)'
<1> USE SpoolerAssumption DEF PrinterFrame, PrinterAt, mainVars, clientVars
<1>0. /\ TypeOK /\ LifeOK /\ NumOK
      /\ jp \in JobType \cup {NoJob} /\ NoJob \notin JobType
      /\ jp = NoJob => jp.sub = None /\ jp.id = 0
      /\ prt \notin {"down", "get", "waiting"} =>
           jp \in JobType /\ jp.id \in Numbers /\ jp.sub \in Subs /\ num[jp.sub] = jp.id
      /\ prt \in {"send", "status", "unlinkdata", "unlinkreq", "defer"} =>
           pfd \in Subs /\ inode[pfd].of \in Subs /\ num[pfd] = jp.id
      /\ None \notin Subs /\ "part" \notin Subs /\ None # "part" /\ 0 \notin Numbers
      /\ \A s \in Subs : num[s] # 0 => num[s] \in Numbers
  BY Basics
<1>1. CASE WaitForJob
  BY <1>0, <1>1 DEF WaitForJob, TypeOK, NumOK
<1>2. CASE PickUp
  BY <1>0, <1>2 DEF PickUp, TypeOK, NumOK
<1>3. CASE UpdateJobno
  BY <1>0, <1>3 DEF UpdateJobno, TypeOK, NumOK
<1>4. CASE CheckConfig
  BY <1>0, <1>4 DEF CheckConfig, TypeOK, NumOK
<1>5. CASE InitPrinter
  BY <1>0, <1>5 DEF InitPrinter, TypeOK, NumOK
<1>6. CASE OpenData
  BY <1>0, <1>6 DEF OpenData, TypeOK, NumOK
<1>7. CASE CancelJob
  BY <1>0, <1>7 DEF CancelJob, Fault, TypeOK, NumOK
<1>8. CASE SendJob
  <2>1. num[inode[pfd].of] # 0
    BY <1>0, <1>8 DEF SendJob, NumOK, SubNum
  <2> QED
    BY <1>0, <1>8, <2>1 DEF SendJob, NumOK
<1>9. CASE UnlinkData
  BY <1>0, <1>9 DEF UnlinkData, TypeOK, NumOK
<1>10. CASE UnlinkReq
  BY <1>0, <1>10 DEF UnlinkReq, TypeOK, NumOK
<1>11. CASE ReplaceJob
  BY <1>0, <1>11 DEF ReplaceJob, TypeOK, NumOK
<1>12. CASE StatusOk
  BY <1>0, <1>12 DEF StatusOk, TypeOK, NumOK
<1>13. CASE DeferJob
  BY <1>0, <1>13 DEF DeferJob, TypeOK, NumOK
<1> QED
  BY <1>1, <1>2, <1>3, <1>4, <1>5, <1>6, <1>7, <1>8, <1>9, <1>10, <1>11, <1>12, <1>13 DEF
     PrinterStep

LEMMA OtherPrintedNums ==
  ASSUME IInv, Hangup \/ Stop \/ UNCHANGED vars
  PROVE  (\A p \in printed : num[p.of] # 0)'
<1> USE SpoolerAssumption DEF disk, mainVars, printerVars, clientVars, countVars, history
<1>0. /\ TypeOK /\ LifeOK /\ NumOK
      /\ jp \in JobType \cup {NoJob} /\ NoJob \notin JobType
      /\ jp = NoJob => jp.sub = None /\ jp.id = 0
      /\ prt \notin {"down", "get", "waiting"} =>
           jp \in JobType /\ jp.id \in Numbers /\ jp.sub \in Subs /\ num[jp.sub] = jp.id
      /\ prt \in {"send", "status", "unlinkdata", "unlinkreq", "defer"} =>
           pfd \in Subs /\ inode[pfd].of \in Subs /\ num[pfd] = jp.id
      /\ None \notin Subs /\ "part" \notin Subs /\ None # "part" /\ 0 \notin Numbers
      /\ \A s \in Subs : num[s] # 0 => num[s] \in Numbers
  BY Basics
<1>1. CASE Hangup
  BY <1>0, <1>1 DEF Hangup, TypeOK, NumOK
<1>2. CASE Stop
  BY <1>0, <1>2 DEF Stop, TypeOK, NumOK
<1>3. CASE UNCHANGED vars
  BY <1>0, <1>3 DEF vars, TypeOK, NumOK
<1> QED
  BY <1>1, <1>2, <1>3

-----------------------------------------------------------------------------
(* A submission is in one place. *)
LEMMA MainOneEntries ==
  ASSUME IInv, MainStep \/ ScanFails
  PROVE  OneEntry'
<1> USE SpoolerAssumption DEF disk, mainVars, printerVars, clientVars, countVars, history
<1>0. /\ TypeOK /\ LifeOK /\ NumOK
      /\ jp \in JobType \cup {NoJob} /\ NoJob \notin JobType
      /\ jp = NoJob => jp.sub = None /\ jp.id = 0
      /\ prt \notin {"down", "get", "waiting"} =>
           jp \in JobType /\ jp.id \in Numbers /\ jp.sub \in Subs /\ num[jp.sub] = jp.id
      /\ prt \in {"send", "status", "unlinkdata", "unlinkreq", "defer"} =>
           pfd \in Subs /\ inode[pfd].of \in Subs /\ num[pfd] = jp.id
      /\ None \notin Subs /\ "part" \notin Subs /\ None # "part" /\ 0 \notin Numbers
      /\ \A s \in Subs : num[s] # 0 => num[s] \in Numbers
      /\ NoJob.sub = None /\ OneEntry /\ \A s \in Subs : OnceOK(s)
  BY Basics DEF IInv, NoJob, Job
<1>1. CASE Start
  BY <1>0, <1>1 DEF Start, OneEntry
<1>2. CASE ScanWake
  BY <1>0, <1>2 DEF ScanWake, Signalled, OneEntry
<1>3. CASE ScanPurge
  BY <1>0, <1>3 DEF ScanPurge, OneEntry
<1>4. CASE ScanDone
  BY <1>0, <1>4 DEF ScanDone, OneEntry
<1>5. ASSUME NEW n \in Numbers, ScanJob(n) PROVE OneEntry'
  <2>1. PICK t \in Subs :
           /\ req[n] = t /\ num[t] = n /\ n \in todo /\ todo' = todo \ {n}
           /\ ~Queued(t) /\ jp.sub # t /\ pc[t] \in {"signal", "done"}
           /\ \A s : Queued(s)' <=> Queued(s) \/ s = t
    BY <1>5, ScanEffect
  <2>2. /\ main = "scan" /\ main' = "wake" /\ QueueNum' /\ OneEntry'
        /\ UNCHANGED <<jobfile, data, inode, req, cur, nextjob, prt, jp, pfd, pc, num, file, reply, stops,
                       printed, confirmed, dropped, unread, reused>>
    BY <1>5, ScanEffect
  <2> QED
    BY <1>0, <2>1, <2>2 DEF OneEntry
<1>6. ASSUME NEW n \in Numbers, ScanPartial(n) PROVE OneEntry'
  BY <1>0, <1>6 DEF ScanPartial, OneEntry
<1>7. ASSUME NEW n \in Numbers, ScanSkip(n) PROVE OneEntry'
  BY <1>0, <1>7 DEF ScanSkip, SkipFrame, Fault, OneEntry
<1>8. ASSUME NEW n \in Numbers, ScanUnreadable(n) PROVE OneEntry'
  BY <1>0, <1>8 DEF ScanUnreadable, Fault, OneEntry
<1>9. CASE ScanAbandon
  BY <1>0, <1>9 DEF ScanAbandon, SkipFrame, Fault, OneEntry
<1> QED
  BY <1>1, <1>2, <1>3, <1>4, <1>5, <1>6, <1>7, <1>8, <1>9 DEF MainStep, ScanFails

LEMMA ClientOneEntries ==
  ASSUME IInv, NEW c \in Subs, ClientStep(c)
  PROVE  OneEntry'
<1> USE SpoolerAssumption DEF ClientFrame, Keep, At, mainVars
<1>0. /\ TypeOK /\ LifeOK /\ NumOK
      /\ jp \in JobType \cup {NoJob} /\ NoJob \notin JobType
      /\ jp = NoJob => jp.sub = None /\ jp.id = 0
      /\ prt \notin {"down", "get", "waiting"} =>
           jp \in JobType /\ jp.id \in Numbers /\ jp.sub \in Subs /\ num[jp.sub] = jp.id
      /\ prt \in {"send", "status", "unlinkdata", "unlinkreq", "defer"} =>
           pfd \in Subs /\ inode[pfd].of \in Subs /\ num[pfd] = jp.id
      /\ None \notin Subs /\ "part" \notin Subs /\ None # "part" /\ 0 \notin Numbers
      /\ \A s \in Subs : num[s] # 0 => num[s] \in Numbers
      /\ NoJob.sub = None /\ OneEntry /\ \A s \in Subs : OnceOK(s)
  BY Basics DEF IInv, NoJob, Job
<1>1. CASE BadHeader(c)
  BY <1>0, <1>1 DEF BadHeader, Refused, OneEntry
<1>2. CASE GetNewJobno(c)
  <2>1. /\ main = "serve" /\ pc[c] = "new" /\ pc' = [pc EXCEPT ![c] = "creat"]
        /\ num[c] = 0 /\ nextjob \in Numbers /\ nextjob # 0 /\ num' = [num EXCEPT ![c] = nextjob]
        /\ \A t \in Subs : num[t] = nextjob => t # c /\ nextjob \in reused'
        /\ reused \subseteq reused'
        /\ UNCHANGED <<jobfile, data, inode, req, main, todo, cur, queue, prt, jp, pfd, file, reply,
                       stops, printed, confirmed, dropped, unread>>
    BY <1>2, NumberEffect
  <2>2. /\ pc'[c] = "creat" /\ num'[c] = nextjob
        /\ \A t \in Subs : t # c => pc'[t] = pc[t] /\ num'[t] = num[t]
    BY <1>0, <2>1 DEF TypeOK
  <2> QED
    BY <1>0, <2>1, <2>2 DEF OneEntry
<1>3. CASE CreateData(c)
  <2>1. PICK i \in Subs : /\ data' = [data EXCEPT ![num[c]] = i]
                          /\ inode' = [inode EXCEPT ![i] = [of |-> c, closed |-> FALSE]]
                          /\ file' = [file EXCEPT ![c] = i]
                          /\ num[i] = num[c]
    BY <1>3, CreateEffect
  <2>2. /\ pc[c] = "creat" /\ pc' = [pc EXCEPT ![c] = "data"] /\ num[c] \in Numbers
        /\ UNCHANGED <<jobfile, req, main, todo, cur, nextjob, queue, prt, jp, pfd, num, reply, stops,
                       printed, confirmed, dropped, unread, reused>>
    BY <1>3, CreateEffect
  <2>3. /\ data'[num[c]] = i /\ \A m \in Numbers : m # num[c] => data'[m] = data[m]
        /\ inode'[i] = [of |-> c, closed |-> FALSE] /\ \A t \in Subs : t # i => inode'[t] = inode[t]
        /\ file'[c] = i /\ pc'[c] = "data" /\ \A t \in Subs : t # c => file'[t] = file[t] /\ pc'[t] = pc[t]
    BY <1>0, <2>1, <2>2 DEF TypeOK
  <2> QED
    BY <1>0, <2>1, <2>2, <2>3 DEF OneEntry
<1>4. CASE CreateDataFails(c)
  BY <1>0, <1>4 DEF CreateDataFails, Refused, Fault, OneEntry
<1>5. CASE CopyDataFails(c)
  BY <1>0, <1>5 DEF CopyDataFails, Refused, Fault, OneEntry
<1>6. CASE EndOfData(c)
  <2>1. /\ pc[c] = "data" /\ num[c] \in Numbers /\ file[c] \in Subs /\ num[file[c]] = num[c]
        /\ inode' \in [Subs -> [of : Subs \cup {None}, closed : BOOLEAN]]
        /\ inode'[file[c]] = [of |-> inode[file[c]].of, closed |-> TRUE]
        /\ \A i \in Subs : i # file[c] => inode'[i] = inode[i]
        /\ \A i \in Subs : inode'[i].of = inode[i].of
        /\ UNCHANGED <<jobfile, data, main, todo, cur, nextjob, queue, prt, jp, pfd, num, file, stops,
                       printed, confirmed, dropped, unread, reused>>
    BY <1>6, CloseEffect
  <2>2. /\ pc' = [pc EXCEPT ![c] = "writereq"] /\ reply' = reply
        /\ req' = [req EXCEPT ![num[c]] = "part"]
    BY <1>6 DEF EndOfData
  <2>3. /\ pc'[c] = "writereq" /\ \A t \in Subs : t # c => pc'[t] = pc[t]
        /\ req'[num[c]] = "part" /\ \A m \in Numbers : m # num[c] => req'[m] = req[m]
    BY <1>0, <2>1, <2>2 DEF TypeOK
  <2> QED
    BY <1>0, <2>1, <2>2, <2>3 DEF OneEntry
<1>7. CASE CreateReqFails(c)
  <2>1. /\ pc[c] = "data" /\ num[c] \in Numbers /\ file[c] \in Subs /\ num[file[c]] = num[c]
        /\ inode' \in [Subs -> [of : Subs \cup {None}, closed : BOOLEAN]]
        /\ inode'[file[c]] = [of |-> inode[file[c]].of, closed |-> TRUE]
        /\ \A i \in Subs : i # file[c] => inode'[i] = inode[i]
        /\ \A i \in Subs : inode'[i].of = inode[i].of
        /\ UNCHANGED <<jobfile, data, main, todo, cur, nextjob, queue, prt, jp, pfd, num, file, stops,
                       printed, confirmed, dropped, unread, reused>>
    BY <1>7, CloseEffect
  <2>2. /\ pc' = [pc EXCEPT ![c] = "unlinkdata"] /\ reply' = [reply EXCEPT ![c] = "refused"]
        /\ req' = req
    BY <1>7 DEF CreateReqFails, Refused
  <2>3. /\ pc'[c] = "unlinkdata" /\ reply'[c] = "refused"
        /\ \A t \in Subs : t # c => pc'[t] = pc[t] /\ reply'[t] = reply[t]
    BY <1>0, <2>1, <2>2 DEF TypeOK
  <2> QED
    BY <1>0, <2>1, <2>2, <2>3 DEF OneEntry
<1>8. CASE WriteReq(c)
  BY <1>0, <1>8 DEF WriteReq, OneEntry
<1>9. CASE WriteReqFails(c)
  BY <1>0, <1>9 DEF WriteReqFails, Refused, Fault, OneEntry
<1>10. CASE UndoReq(c)
  BY <1>0, <1>10 DEF UndoReq, OneEntry
<1>11. CASE UndoData(c)
  BY <1>0, <1>11 DEF UndoData, OneEntry
<1>12. CASE ReplyOk(c)
  BY <1>0, <1>12 DEF ReplyOk, OneEntry
<1>13. CASE AddJob(c)
  <2>1. /\ pc[c] = "add" /\ pc' = [pc EXCEPT ![c] = "signal"] /\ num[c] \in Numbers
        /\ ~Queued(c) /\ jp.sub # c /\ main = "serve" /\ todo = {}
        /\ QueueNum' /\ OneEntry' /\ \A s : Queued(s)' <=> Queued(s) \/ s = c
        /\ UNCHANGED <<jobfile, data, inode, req, main, todo, cur, nextjob, prt, jp, pfd, num, file, reply,
                       stops, printed, confirmed, dropped, unread, reused>>
    BY <1>13, AddEffect
  <2>2. pc'[c] = "signal" /\ \A t \in Subs : t # c => pc'[t] = pc[t]
    BY <1>0, <2>1 DEF TypeOK
  <2> QED
    BY <1>0, <2>1, <2>2 DEF OneEntry
<1>14. CASE Signal(c)
  BY <1>0, <1>14 DEF Signal, Signalled, OneEntry
<1> QED
  BY <1>1, <1>2, <1>3, <1>4, <1>5, <1>6, <1>7, <1>8, <1>9, <1>10, <1>11, <1>12, <1>13,
     <1>14 DEF ClientStep, Finish

LEMMA PrinterOneEntries ==
  ASSUME IInv, PrinterStep \/ StatusOk \/ DeferJob
  PROVE  OneEntry'
<1> USE SpoolerAssumption DEF PrinterFrame, PrinterAt, mainVars, clientVars
<1>0. /\ TypeOK /\ LifeOK /\ NumOK
      /\ jp \in JobType \cup {NoJob} /\ NoJob \notin JobType
      /\ jp = NoJob => jp.sub = None /\ jp.id = 0
      /\ prt \notin {"down", "get", "waiting"} =>
           jp \in JobType /\ jp.id \in Numbers /\ jp.sub \in Subs /\ num[jp.sub] = jp.id
      /\ prt \in {"send", "status", "unlinkdata", "unlinkreq", "defer"} =>
           pfd \in Subs /\ inode[pfd].of \in Subs /\ num[pfd] = jp.id
      /\ None \notin Subs /\ "part" \notin Subs /\ None # "part" /\ 0 \notin Numbers
      /\ \A s \in Subs : num[s] # 0 => num[s] \in Numbers
      /\ NoJob.sub = None /\ OneEntry /\ \A s \in Subs : OnceOK(s)
  BY Basics DEF IInv, NoJob, Job
<1>1. CASE WaitForJob
  BY <1>0, <1>1 DEF WaitForJob, OneEntry
<1>2. CASE PickUp
  <2>1. PICK j \in JobType :
           /\ jp' = j /\ num[j.sub] = j.id /\ Queued(j.sub)
           /\ QueueNum' /\ OneEntry' /\ \A s : Queued(s)' <=> Queued(s) /\ s # j.sub
           /\ prt = "get" /\ prt' = "jobno" /\ jp = NoJob /\ pfd = None
           /\ UNCHANGED <<jobfile, data, inode, req, main, todo, cur, nextjob, pfd, pc, num, file, reply,
                          stops, printed, confirmed, dropped, unread, reused>>
    BY <1>2, PickEffect
  <2> QED
    BY <1>0, <2>1 DEF OneEntry
<1>3. CASE UpdateJobno
  BY <1>0, <1>3 DEF UpdateJobno, OneEntry
<1>4. CASE CheckConfig
  BY <1>0, <1>4 DEF CheckConfig, OneEntry
<1>5. CASE InitPrinter
  BY <1>0, <1>5 DEF InitPrinter, OneEntry
<1>6. CASE OpenData
  BY <1>0, <1>6 DEF OpenData, OneEntry
<1>7. CASE CancelJob
  BY <1>0, <1>7 DEF CancelJob, Fault, OneEntry
<1>8. CASE SendJob
  BY <1>0, <1>8 DEF SendJob, OneEntry
<1>9. CASE UnlinkData
  BY <1>0, <1>9 DEF UnlinkData, OneEntry
<1>10. CASE UnlinkReq
  BY <1>0, <1>10 DEF UnlinkReq, OneEntry
<1>11. CASE ReplaceJob
  <2>1. /\ jp \in JobType /\ num[jp.sub] = jp.id /\ ~Queued(jp.sub)
        /\ jp' = NoJob /\ pfd' = None /\ prt = "defer" /\ prt' = "get"
        /\ QueueNum' /\ OneEntry' /\ \A s : Queued(s)' <=> Queued(s) \/ s = jp.sub
        /\ UNCHANGED <<jobfile, data, inode, req, main, todo, cur, nextjob, pc, num, file, reply,
                       stops, printed, confirmed, dropped, unread, reused>>
    BY <1>11, ReplaceEffect
  <2> QED
    BY <1>0, <2>1 DEF OneEntry
<1>12. CASE StatusOk
  BY <1>0, <1>12 DEF StatusOk, OneEntry
<1>13. CASE DeferJob
  BY <1>0, <1>13 DEF DeferJob, OneEntry
<1> QED
  BY <1>1, <1>2, <1>3, <1>4, <1>5, <1>6, <1>7, <1>8, <1>9, <1>10, <1>11, <1>12, <1>13 DEF
     PrinterStep

LEMMA OtherOneEntries ==
  ASSUME IInv, Hangup \/ Stop \/ UNCHANGED vars
  PROVE  OneEntry'
<1> USE SpoolerAssumption DEF disk, mainVars, printerVars, clientVars, countVars, history
<1>0. /\ TypeOK /\ LifeOK /\ NumOK
      /\ jp \in JobType \cup {NoJob} /\ NoJob \notin JobType
      /\ jp = NoJob => jp.sub = None /\ jp.id = 0
      /\ prt \notin {"down", "get", "waiting"} =>
           jp \in JobType /\ jp.id \in Numbers /\ jp.sub \in Subs /\ num[jp.sub] = jp.id
      /\ prt \in {"send", "status", "unlinkdata", "unlinkreq", "defer"} =>
           pfd \in Subs /\ inode[pfd].of \in Subs /\ num[pfd] = jp.id
      /\ None \notin Subs /\ "part" \notin Subs /\ None # "part" /\ 0 \notin Numbers
      /\ \A s \in Subs : num[s] # 0 => num[s] \in Numbers
      /\ NoJob.sub = None /\ OneEntry /\ \A s \in Subs : OnceOK(s)
  BY Basics DEF IInv, NoJob, Job
<1>1. CASE Hangup
  BY <1>0, <1>1 DEF Hangup, OneEntry
<1>2. CASE Stop
  BY <1>0, <1>2 DEF Stop, OneEntry
<1>3. CASE UNCHANGED vars
  BY <1>0, <1>3 DEF vars, OneEntry
<1> QED
  BY <1>1, <1>2, <1>3
LEMMA MainOnces ==
  ASSUME IInv, MainStep \/ ScanFails, NEW s \in Subs
  PROVE  OnceOK(s)'
<1> USE SpoolerAssumption DEF disk, mainVars, printerVars, clientVars, countVars, history
<1>0. /\ TypeOK /\ LifeOK /\ NumOK
      /\ jp \in JobType \cup {NoJob} /\ NoJob \notin JobType
      /\ jp = NoJob => jp.sub = None /\ jp.id = 0
      /\ prt \notin {"down", "get", "waiting"} =>
           jp \in JobType /\ jp.id \in Numbers /\ jp.sub \in Subs /\ num[jp.sub] = jp.id
      /\ prt \in {"send", "status", "unlinkdata", "unlinkreq", "defer"} =>
           pfd \in Subs /\ inode[pfd].of \in Subs /\ num[pfd] = jp.id
      /\ None \notin Subs /\ "part" \notin Subs /\ None # "part" /\ 0 \notin Numbers
      /\ \A v \in Subs : num[v] # 0 => num[v] \in Numbers
      /\ NoJob.sub = None /\ OneEntry /\ \A v \in Subs : OnceOK(v)
  BY Basics DEF IInv, NoJob, Job
<1>1. CASE Start
  BY <1>0, <1>1 DEF Start, TypeOK, LifeOK, NumOK, OnceOK, ToFind, Queued, SubNum
<1>2. CASE ScanWake
  BY <1>0, <1>2 DEF ScanWake, Signalled, TypeOK, LifeOK, NumOK, OnceOK, ToFind, Queued,
     SubNum
<1>3. CASE ScanPurge
  BY <1>0, <1>3 DEF ScanPurge, TypeOK, LifeOK, NumOK, OnceOK, ToFind, Queued, SubNum
<1>4. CASE ScanDone
  BY <1>0, <1>4 DEF ScanDone, TypeOK, LifeOK, NumOK, OnceOK, ToFind, Queued, SubNum
<1>5. ASSUME NEW n \in Numbers, ScanJob(n) PROVE OnceOK(s)'
  <2>1. PICK t \in Subs :
           /\ req[n] = t /\ num[t] = n /\ n \in todo /\ todo' = todo \ {n}
           /\ ~Queued(t) /\ jp.sub # t /\ pc[t] \in {"signal", "done"}
           /\ \A v : Queued(v)' <=> Queued(v) \/ v = t
    BY <1>5, ScanEffect
  <2>2. /\ main = "scan" /\ main' = "wake" /\ QueueNum' /\ OneEntry'
        /\ UNCHANGED <<jobfile, data, inode, req, cur, nextjob, prt, jp, pfd, pc, num, file, reply, stops,
                       printed, confirmed, dropped, unread, reused>>
    BY <1>5, ScanEffect
  <2> QED
    BY <1>0, <2>1, <2>2 DEF TypeOK, LifeOK, NumOK, OnceOK, ToFind
<1>6. ASSUME NEW n \in Numbers, ScanPartial(n) PROVE OnceOK(s)'
  BY <1>0, <1>6 DEF ScanPartial, TypeOK, LifeOK, NumOK, OnceOK, ToFind, Queued, SubNum
<1>7. ASSUME NEW n \in Numbers, ScanSkip(n) PROVE OnceOK(s)'
  BY <1>0, <1>7 DEF ScanSkip, SkipFrame, Fault, TypeOK, LifeOK, NumOK, OnceOK, ToFind, Queued, SubNum
<1>8. ASSUME NEW n \in Numbers, ScanUnreadable(n) PROVE OnceOK(s)'
  BY <1>0, <1>8 DEF ScanUnreadable, Fault, TypeOK, LifeOK, NumOK, OnceOK, ToFind, Queued, SubNum
<1>9. CASE ScanAbandon
  BY <1>0, <1>9 DEF ScanAbandon, SkipFrame, Fault, TypeOK, LifeOK, NumOK, OnceOK, ToFind, Queued, SubNum
<1> QED
  BY <1>1, <1>2, <1>3, <1>4, <1>5, <1>6, <1>7, <1>8, <1>9 DEF MainStep, ScanFails

LEMMA ClientOnces ==
  ASSUME IInv, NEW c \in Subs, ClientStep(c), NEW s \in Subs
  PROVE  OnceOK(s)'
<1> USE SpoolerAssumption DEF ClientFrame, Keep, At, mainVars
<1>0. /\ TypeOK /\ LifeOK /\ NumOK
      /\ jp \in JobType \cup {NoJob} /\ NoJob \notin JobType
      /\ jp = NoJob => jp.sub = None /\ jp.id = 0
      /\ prt \notin {"down", "get", "waiting"} =>
           jp \in JobType /\ jp.id \in Numbers /\ jp.sub \in Subs /\ num[jp.sub] = jp.id
      /\ prt \in {"send", "status", "unlinkdata", "unlinkreq", "defer"} =>
           pfd \in Subs /\ inode[pfd].of \in Subs /\ num[pfd] = jp.id
      /\ None \notin Subs /\ "part" \notin Subs /\ None # "part" /\ 0 \notin Numbers
      /\ \A v \in Subs : num[v] # 0 => num[v] \in Numbers
      /\ NoJob.sub = None /\ OneEntry /\ \A v \in Subs : OnceOK(v)
  BY Basics DEF IInv, NoJob, Job
<1>1. CASE BadHeader(c)
  BY <1>0, <1>1, SMTT(30) DEF BadHeader, Refused, TypeOK, LifeOK, NumOK, OnceOK, ToFind, Queued,
     SubNum
<1>2. CASE GetNewJobno(c)
  <2>1. /\ main = "serve" /\ pc[c] = "new" /\ pc' = [pc EXCEPT ![c] = "creat"]
        /\ num[c] = 0 /\ nextjob \in Numbers /\ nextjob # 0 /\ num' = [num EXCEPT ![c] = nextjob]
        /\ \A t \in Subs : num[t] = nextjob => t # c /\ nextjob \in reused'
        /\ reused \subseteq reused'
        /\ UNCHANGED <<jobfile, data, inode, req, main, todo, cur, queue, prt, jp, pfd, file, reply,
                       stops, printed, confirmed, dropped, unread>>
    BY <1>2, NumberEffect
  <2>2. /\ pc'[c] = "creat" /\ num'[c] = nextjob
        /\ \A t \in Subs : t # c => pc'[t] = pc[t] /\ num'[t] = num[t]
    BY <1>0, <2>1 DEF TypeOK
  <2> QED
    BY <1>0, <2>1, <2>2, SMTT(30) DEF TypeOK, LifeOK, NumOK, OnceOK, ToFind, Queued, SubNum
<1>3. CASE CreateData(c)
  <2>1. PICK i \in Subs : /\ data' = [data EXCEPT ![num[c]] = i]
                          /\ inode' = [inode EXCEPT ![i] = [of |-> c, closed |-> FALSE]]
                          /\ file' = [file EXCEPT ![c] = i]
                          /\ num[i] = num[c]
    BY <1>3, CreateEffect
  <2>2. /\ pc[c] = "creat" /\ pc' = [pc EXCEPT ![c] = "data"] /\ num[c] \in Numbers
        /\ UNCHANGED <<jobfile, req, main, todo, cur, nextjob, queue, prt, jp, pfd, num, reply, stops,
                       printed, confirmed, dropped, unread, reused>>
    BY <1>3, CreateEffect
  <2>3. /\ data'[num[c]] = i /\ \A m \in Numbers : m # num[c] => data'[m] = data[m]
        /\ inode'[i] = [of |-> c, closed |-> FALSE] /\ \A t \in Subs : t # i => inode'[t] = inode[t]
        /\ file'[c] = i /\ pc'[c] = "data" /\ \A t \in Subs : t # c => file'[t] = file[t] /\ pc'[t] = pc[t]
    BY <1>0, <2>1, <2>2 DEF TypeOK
  <2>4. todo = {}
    BY <1>0, <2>1, <2>2 DEF LifeOK
  <2>5. Queued(s)' <=> Queued(s)
    BY <2>1, <2>2 DEF Queued
  <2> QED
    BY <1>0, <2>1, <2>2, <2>3, <2>4, <2>5 DEF OnceOK, ToFind
<1>4. CASE CreateDataFails(c)
  BY <1>0, <1>4, SMTT(30) DEF CreateDataFails, Refused, Fault, TypeOK, LifeOK, NumOK, OnceOK,
     ToFind, Queued, SubNum
<1>5. CASE CopyDataFails(c)
  BY <1>0, <1>5, SMTT(30) DEF CopyDataFails, Refused, Fault, TypeOK, LifeOK, NumOK, OnceOK, ToFind,
     Queued, SubNum
<1>6. CASE EndOfData(c)
  <2>1. /\ pc[c] = "data" /\ num[c] \in Numbers /\ file[c] \in Subs /\ num[file[c]] = num[c]
        /\ inode' \in [Subs -> [of : Subs \cup {None}, closed : BOOLEAN]]
        /\ inode'[file[c]] = [of |-> inode[file[c]].of, closed |-> TRUE]
        /\ \A i \in Subs : i # file[c] => inode'[i] = inode[i]
        /\ \A i \in Subs : inode'[i].of = inode[i].of
        /\ UNCHANGED <<jobfile, data, main, todo, cur, nextjob, queue, prt, jp, pfd, num, file, stops,
                       printed, confirmed, dropped, unread, reused>>
    BY <1>6, CloseEffect
  <2>2. /\ pc' = [pc EXCEPT ![c] = "writereq"] /\ reply' = reply
        /\ req' = [req EXCEPT ![num[c]] = "part"]
    BY <1>6 DEF EndOfData
  <2>3. /\ pc'[c] = "writereq" /\ \A t \in Subs : t # c => pc'[t] = pc[t]
        /\ req'[num[c]] = "part" /\ \A m \in Numbers : m # num[c] => req'[m] = req[m]
    BY <1>0, <2>1, <2>2 DEF TypeOK
  <2>4. todo = {}
    BY <1>0, <2>1, <2>2 DEF LifeOK
  <2>5. Queued(s)' <=> Queued(s)
    BY <2>1, <2>2 DEF Queued
  <2> QED
    BY <1>0, <2>1, <2>2, <2>3, <2>4, <2>5 DEF OnceOK, ToFind
<1>7. CASE CreateReqFails(c)
  <2>1. /\ pc[c] = "data" /\ num[c] \in Numbers /\ file[c] \in Subs /\ num[file[c]] = num[c]
        /\ inode' \in [Subs -> [of : Subs \cup {None}, closed : BOOLEAN]]
        /\ inode'[file[c]] = [of |-> inode[file[c]].of, closed |-> TRUE]
        /\ \A i \in Subs : i # file[c] => inode'[i] = inode[i]
        /\ \A i \in Subs : inode'[i].of = inode[i].of
        /\ UNCHANGED <<jobfile, data, main, todo, cur, nextjob, queue, prt, jp, pfd, num, file, stops,
                       printed, confirmed, dropped, unread, reused>>
    BY <1>7, CloseEffect
  <2>2. /\ pc' = [pc EXCEPT ![c] = "unlinkdata"] /\ reply' = [reply EXCEPT ![c] = "refused"]
        /\ req' = req
    BY <1>7 DEF CreateReqFails, Refused
  <2>3. /\ pc'[c] = "unlinkdata" /\ reply'[c] = "refused"
        /\ \A t \in Subs : t # c => pc'[t] = pc[t] /\ reply'[t] = reply[t]
    BY <1>0, <2>1, <2>2 DEF TypeOK
  <2>4. todo = {}
    BY <1>0, <2>1, <2>2 DEF LifeOK
  <2>5. Queued(s)' <=> Queued(s)
    BY <2>1, <2>2 DEF Queued
  <2> QED
    BY <1>0, <2>1, <2>2, <2>3, <2>4, <2>5 DEF OnceOK, ToFind
<1>8. CASE WriteReq(c)
  BY <1>0, <1>8, SMTT(30) DEF WriteReq, TypeOK, LifeOK, NumOK, OnceOK, ToFind, Queued, SubNum
<1>9. CASE WriteReqFails(c)
  BY <1>0, <1>9, SMTT(30) DEF WriteReqFails, Refused, Fault, TypeOK, LifeOK, NumOK, OnceOK, ToFind,
     Queued, SubNum
<1>10. CASE UndoReq(c)
  BY <1>0, <1>10, SMTT(30) DEF UndoReq, TypeOK, LifeOK, NumOK, OnceOK, ToFind, Queued, SubNum
<1>11. CASE UndoData(c)
  BY <1>0, <1>11, SMTT(30) DEF UndoData, TypeOK, LifeOK, NumOK, OnceOK, ToFind, Queued, SubNum
<1>12. CASE ReplyOk(c)
  BY <1>0, <1>12, SMTT(30) DEF ReplyOk, TypeOK, LifeOK, NumOK, OnceOK, ToFind, Queued, SubNum
<1>13. CASE AddJob(c)
  <2>1. /\ pc[c] = "add" /\ pc' = [pc EXCEPT ![c] = "signal"] /\ num[c] \in Numbers
        /\ ~Queued(c) /\ jp.sub # c /\ main = "serve" /\ todo = {}
        /\ QueueNum' /\ OneEntry' /\ \A v : Queued(v)' <=> Queued(v) \/ v = c
        /\ UNCHANGED <<jobfile, data, inode, req, main, todo, cur, nextjob, prt, jp, pfd, num, file, reply,
                       stops, printed, confirmed, dropped, unread, reused>>
    BY <1>13, AddEffect
  <2>2. pc'[c] = "signal" /\ \A t \in Subs : t # c => pc'[t] = pc[t]
    BY <1>0, <2>1 DEF TypeOK
  <2> QED
    BY <1>0, <2>1, <2>2 DEF TypeOK, LifeOK, NumOK, OnceOK, ToFind
<1>14. CASE Signal(c)
  BY <1>0, <1>14 DEF Signal, Signalled, TypeOK, LifeOK, NumOK, OnceOK, ToFind, Queued,
     SubNum
<1> QED
  BY <1>1, <1>2, <1>3, <1>4, <1>5, <1>6, <1>7, <1>8, <1>9, <1>10, <1>11, <1>12, <1>13,
     <1>14 DEF ClientStep, Finish

LEMMA PrinterOnces ==
  ASSUME IInv, PrinterStep \/ StatusOk \/ DeferJob, NEW s \in Subs
  PROVE  OnceOK(s)'
<1> USE SpoolerAssumption DEF PrinterFrame, PrinterAt, mainVars, clientVars
<1>0. /\ TypeOK /\ LifeOK /\ NumOK
      /\ jp \in JobType \cup {NoJob} /\ NoJob \notin JobType
      /\ jp = NoJob => jp.sub = None /\ jp.id = 0
      /\ prt \notin {"down", "get", "waiting"} =>
           jp \in JobType /\ jp.id \in Numbers /\ jp.sub \in Subs /\ num[jp.sub] = jp.id
      /\ prt \in {"send", "status", "unlinkdata", "unlinkreq", "defer"} =>
           pfd \in Subs /\ inode[pfd].of \in Subs /\ num[pfd] = jp.id
      /\ None \notin Subs /\ "part" \notin Subs /\ None # "part" /\ 0 \notin Numbers
      /\ \A v \in Subs : num[v] # 0 => num[v] \in Numbers
      /\ NoJob.sub = None /\ OneEntry /\ \A v \in Subs : OnceOK(v)
  BY Basics DEF IInv, NoJob, Job
<1>1. CASE WaitForJob
  BY <1>0, <1>1 DEF WaitForJob, TypeOK, LifeOK, NumOK, OnceOK, ToFind, Queued, SubNum
<1>2. CASE PickUp
  <2>1. PICK j \in JobType :
           /\ jp' = j /\ num[j.sub] = j.id /\ Queued(j.sub)
           /\ QueueNum' /\ OneEntry' /\ \A v : Queued(v)' <=> Queued(v) /\ v # j.sub
           /\ prt = "get" /\ prt' = "jobno" /\ jp = NoJob /\ pfd = None
           /\ UNCHANGED <<jobfile, data, inode, req, main, todo, cur, nextjob, pfd, pc, num, file, reply,
                          stops, printed, confirmed, dropped, unread, reused>>
    BY <1>2, PickEffect
  <2> QED
    BY <1>0, <2>1 DEF TypeOK, LifeOK, NumOK, OnceOK, ToFind
<1>3. CASE UpdateJobno
  BY <1>0, <1>3 DEF UpdateJobno, TypeOK, LifeOK, NumOK, OnceOK, ToFind, Queued, SubNum
<1>4. CASE CheckConfig
  BY <1>0, <1>4 DEF CheckConfig, TypeOK, LifeOK, NumOK, OnceOK, ToFind, Queued, SubNum
<1>5. CASE InitPrinter
  BY <1>0, <1>5 DEF InitPrinter, TypeOK, LifeOK, NumOK, OnceOK, ToFind, Queued, SubNum
<1>6. CASE OpenData
  BY <1>0, <1>6 DEF OpenData, TypeOK, LifeOK, NumOK, OnceOK, ToFind, Queued, SubNum
<1>7. CASE CancelJob
  BY <1>0, <1>7 DEF CancelJob, Fault, TypeOK, LifeOK, NumOK, OnceOK, ToFind, Queued,
     SubNum
<1>8. CASE SendJob
  BY <1>0, <1>8 DEF SendJob, TypeOK, LifeOK, NumOK, OnceOK, ToFind, Queued, SubNum
<1>9. CASE UnlinkData
  BY <1>0, <1>9 DEF UnlinkData, TypeOK, LifeOK, NumOK, OnceOK, ToFind, Queued, SubNum
<1>10. CASE UnlinkReq
  BY <1>0, <1>10, SMTT(30) DEF UnlinkReq, TypeOK, LifeOK, NumOK, OnceOK, ToFind, Queued, SubNum
<1>11. CASE ReplaceJob
  <2>1. /\ jp \in JobType /\ num[jp.sub] = jp.id /\ ~Queued(jp.sub)
        /\ jp' = NoJob /\ pfd' = None /\ prt = "defer" /\ prt' = "get"
        /\ QueueNum' /\ OneEntry' /\ \A v : Queued(v)' <=> Queued(v) \/ v = jp.sub
        /\ UNCHANGED <<jobfile, data, inode, req, main, todo, cur, nextjob, pc, num, file, reply,
                       stops, printed, confirmed, dropped, unread, reused>>
    BY <1>11, ReplaceEffect
  <2> QED
    BY <1>0, <2>1 DEF TypeOK, LifeOK, NumOK, OnceOK, ToFind
<1>12. CASE StatusOk
  BY <1>0, <1>12 DEF StatusOk, TypeOK, LifeOK, NumOK, OnceOK, ToFind, Queued, SubNum
<1>13. CASE DeferJob
  BY <1>0, <1>13, SMTT(30) DEF DeferJob, TypeOK, LifeOK, NumOK, OnceOK, ToFind, Queued, SubNum
<1> QED
  BY <1>1, <1>2, <1>3, <1>4, <1>5, <1>6, <1>7, <1>8, <1>9, <1>10, <1>11, <1>12, <1>13 DEF
     PrinterStep

LEMMA OtherOnces ==
  ASSUME IInv, Hangup \/ Stop \/ UNCHANGED vars, NEW s \in Subs
  PROVE  OnceOK(s)'
<1> USE SpoolerAssumption DEF disk, mainVars, printerVars, clientVars, countVars, history
<1>0. /\ TypeOK /\ LifeOK /\ NumOK
      /\ jp \in JobType \cup {NoJob} /\ NoJob \notin JobType
      /\ jp = NoJob => jp.sub = None /\ jp.id = 0
      /\ prt \notin {"down", "get", "waiting"} =>
           jp \in JobType /\ jp.id \in Numbers /\ jp.sub \in Subs /\ num[jp.sub] = jp.id
      /\ prt \in {"send", "status", "unlinkdata", "unlinkreq", "defer"} =>
           pfd \in Subs /\ inode[pfd].of \in Subs /\ num[pfd] = jp.id
      /\ None \notin Subs /\ "part" \notin Subs /\ None # "part" /\ 0 \notin Numbers
      /\ \A v \in Subs : num[v] # 0 => num[v] \in Numbers
      /\ NoJob.sub = None /\ OneEntry /\ \A v \in Subs : OnceOK(v)
  BY Basics DEF IInv, NoJob, Job
<1>1. CASE Hangup
  BY <1>0, <1>1 DEF Hangup, TypeOK, LifeOK, NumOK, OnceOK, ToFind, Queued, SubNum
<1>2. CASE Stop
  BY <1>0, <1>2 DEF Stop, TypeOK, LifeOK, NumOK, OnceOK, ToFind, Queued, SubNum
<1>3. CASE UNCHANGED vars
  BY <1>0, <1>3 DEF vars, TypeOK, LifeOK, NumOK, OnceOK, ToFind, Queued, SubNum
<1> QED
  BY <1>1, <1>2, <1>3

-----------------------------------------------------------------------------
(* How often a submission was confirmed. *)
LEMMA MainConfirmations ==
  ASSUME IInv, MainStep \/ ScanFails, NEW s \in Subs
  PROVE  ConfirmedOK(s)'
<1> USE SpoolerAssumption DEF disk, mainVars, printerVars, clientVars, countVars, history
<1>0. /\ TypeOK /\ LifeOK /\ NumOK
      /\ jp \in JobType \cup {NoJob} /\ NoJob \notin JobType
      /\ jp = NoJob => jp.sub = None /\ jp.id = 0
      /\ prt \notin {"down", "get", "waiting"} =>
           jp \in JobType /\ jp.id \in Numbers /\ jp.sub \in Subs /\ num[jp.sub] = jp.id
      /\ prt \in {"send", "status", "unlinkdata", "unlinkreq", "defer"} =>
           pfd \in Subs /\ inode[pfd].of \in Subs /\ num[pfd] = jp.id
      /\ None \notin Subs /\ "part" \notin Subs /\ None # "part" /\ 0 \notin Numbers
      /\ \A v \in Subs : num[v] # 0 => num[v] \in Numbers
      /\ NoJob.sub = None /\ DoneOK /\ \A v \in Subs : OnceOK(v) /\ ConfirmedOK(v)
      /\ stops \in Nat /\ \A v \in Subs : confirmed[v] \in Nat
  BY Basics DEF IInv, NoJob, Job, TypeOK
<1>1. CASE Start
  BY <1>0, <1>1 DEF Start, TypeOK, LifeOK, ConfirmedOK, Open, ToFind, Queued
<1>2. CASE ScanWake
  BY <1>0, <1>2 DEF ScanWake, Signalled, TypeOK, LifeOK, ConfirmedOK, Open, ToFind, Queued
<1>3. CASE ScanPurge
  BY <1>0, <1>3 DEF ScanPurge, TypeOK, LifeOK, ConfirmedOK, Open, ToFind, Queued
<1>4. CASE ScanDone
  BY <1>0, <1>4 DEF ScanDone, TypeOK, LifeOK, ConfirmedOK, Open, ToFind, Queued
<1>5. ASSUME NEW n \in Numbers, ScanJob(n) PROVE ConfirmedOK(s)'
  <2>1. PICK t \in Subs :
           /\ req[n] = t /\ num[t] = n /\ n \in todo /\ todo' = todo \ {n}
           /\ ~Queued(t) /\ jp.sub # t /\ pc[t] \in {"signal", "done"}
           /\ \A v : Queued(v)' <=> Queued(v) \/ v = t
    BY <1>5, ScanEffect
  <2>2. /\ main = "scan" /\ main' = "wake" /\ QueueNum' /\ OneEntry'
        /\ UNCHANGED <<jobfile, data, inode, req, cur, nextjob, prt, jp, pfd, pc, num, file, reply, stops,
                       printed, confirmed, dropped, unread, reused>>
    BY <1>5, ScanEffect
  <2> QED
    BY <1>0, <2>1, <2>2 DEF TypeOK, LifeOK, ConfirmedOK, Open, ToFind
<1>6. ASSUME NEW n \in Numbers, ScanPartial(n) PROVE ConfirmedOK(s)'
  BY <1>0, <1>6 DEF ScanPartial, TypeOK, LifeOK, ConfirmedOK, Open, ToFind, Queued
<1>7. ASSUME NEW n \in Numbers, ScanSkip(n) PROVE ConfirmedOK(s)'
  BY <1>0, <1>7 DEF ScanSkip, SkipFrame, Fault, TypeOK, LifeOK, ConfirmedOK, Open, ToFind, Queued
<1>8. ASSUME NEW n \in Numbers, ScanUnreadable(n) PROVE ConfirmedOK(s)'
  BY <1>0, <1>8 DEF ScanUnreadable, Fault, TypeOK, LifeOK, ConfirmedOK, Open, ToFind, Queued
<1>9. CASE ScanAbandon
  BY <1>0, <1>9 DEF ScanAbandon, SkipFrame, Fault, TypeOK, LifeOK, ConfirmedOK, Open, ToFind, Queued
<1> QED
  BY <1>1, <1>2, <1>3, <1>4, <1>5, <1>6, <1>7, <1>8, <1>9 DEF MainStep, ScanFails

LEMMA ClientConfirmations ==
  ASSUME IInv, NEW c \in Subs, ClientStep(c), NEW s \in Subs
  PROVE  ConfirmedOK(s)'
<1> USE SpoolerAssumption DEF ClientFrame, Keep, At, mainVars
<1>0. /\ TypeOK /\ LifeOK /\ NumOK
      /\ jp \in JobType \cup {NoJob} /\ NoJob \notin JobType
      /\ jp = NoJob => jp.sub = None /\ jp.id = 0
      /\ prt \notin {"down", "get", "waiting"} =>
           jp \in JobType /\ jp.id \in Numbers /\ jp.sub \in Subs /\ num[jp.sub] = jp.id
      /\ prt \in {"send", "status", "unlinkdata", "unlinkreq", "defer"} =>
           pfd \in Subs /\ inode[pfd].of \in Subs /\ num[pfd] = jp.id
      /\ None \notin Subs /\ "part" \notin Subs /\ None # "part" /\ 0 \notin Numbers
      /\ \A v \in Subs : num[v] # 0 => num[v] \in Numbers
      /\ NoJob.sub = None /\ DoneOK /\ \A v \in Subs : OnceOK(v) /\ ConfirmedOK(v)
      /\ stops \in Nat /\ \A v \in Subs : confirmed[v] \in Nat
  BY Basics DEF IInv, NoJob, Job, TypeOK
<1>1. CASE BadHeader(c)
  BY <1>0, <1>1 DEF BadHeader, Refused, TypeOK, LifeOK, ConfirmedOK, Open, ToFind, Queued
<1>2. CASE GetNewJobno(c)
  <2>1. /\ main = "serve" /\ pc[c] = "new" /\ pc' = [pc EXCEPT ![c] = "creat"]
        /\ num[c] = 0 /\ nextjob \in Numbers /\ nextjob # 0 /\ num' = [num EXCEPT ![c] = nextjob]
        /\ \A t \in Subs : num[t] = nextjob => t # c /\ nextjob \in reused'
        /\ reused \subseteq reused'
        /\ UNCHANGED <<jobfile, data, inode, req, main, todo, cur, queue, prt, jp, pfd, file, reply,
                       stops, printed, confirmed, dropped, unread>>
    BY <1>2, NumberEffect
  <2>2. /\ pc'[c] = "creat" /\ num'[c] = nextjob
        /\ \A t \in Subs : t # c => pc'[t] = pc[t] /\ num'[t] = num[t]
    BY <1>0, <2>1 DEF TypeOK
  <2> QED
    BY <1>0, <2>1, <2>2 DEF TypeOK, LifeOK, ConfirmedOK, Open, ToFind, Queued
<1>3. CASE CreateData(c)
  <2>1. PICK i \in Subs : /\ data' = [data EXCEPT ![num[c]] = i]
                          /\ inode' = [inode EXCEPT ![i] = [of |-> c, closed |-> FALSE]]
                          /\ file' = [file EXCEPT ![c] = i]
                          /\ num[i] = num[c]
    BY <1>3, CreateEffect
  <2>2. /\ pc[c] = "creat" /\ pc' = [pc EXCEPT ![c] = "data"] /\ num[c] \in Numbers
        /\ UNCHANGED <<jobfile, req, main, todo, cur, nextjob, queue, prt, jp, pfd, num, reply, stops,
                       printed, confirmed, dropped, unread, reused>>
    BY <1>3, CreateEffect
  <2>3. /\ data'[num[c]] = i /\ \A m \in Numbers : m # num[c] => data'[m] = data[m]
        /\ inode'[i] = [of |-> c, closed |-> FALSE] /\ \A t \in Subs : t # i => inode'[t] = inode[t]
        /\ file'[c] = i /\ pc'[c] = "data" /\ \A t \in Subs : t # c => file'[t] = file[t] /\ pc'[t] = pc[t]
    BY <1>0, <2>1, <2>2 DEF TypeOK
  <2>4. todo = {}
    BY <1>0, <2>1, <2>2 DEF LifeOK
  <2>5. Queued(s)' <=> Queued(s)
    BY <2>1, <2>2 DEF Queued
  <2> QED
    BY <1>0, <2>1, <2>2, <2>3, <2>4, <2>5 DEF ConfirmedOK, Open, ToFind
<1>4. CASE CreateDataFails(c)
  BY <1>0, <1>4 DEF CreateDataFails, Refused, Fault, TypeOK, LifeOK, ConfirmedOK, Open,
     ToFind, Queued
<1>5. CASE CopyDataFails(c)
  BY <1>0, <1>5 DEF CopyDataFails, Refused, Fault, TypeOK, LifeOK, ConfirmedOK, Open,
     ToFind, Queued
<1>6. CASE EndOfData(c)
  <2>1. /\ pc[c] = "data" /\ num[c] \in Numbers /\ file[c] \in Subs /\ num[file[c]] = num[c]
        /\ inode' \in [Subs -> [of : Subs \cup {None}, closed : BOOLEAN]]
        /\ inode'[file[c]] = [of |-> inode[file[c]].of, closed |-> TRUE]
        /\ \A i \in Subs : i # file[c] => inode'[i] = inode[i]
        /\ \A i \in Subs : inode'[i].of = inode[i].of
        /\ UNCHANGED <<jobfile, data, main, todo, cur, nextjob, queue, prt, jp, pfd, num, file, stops,
                       printed, confirmed, dropped, unread, reused>>
    BY <1>6, CloseEffect
  <2>2. /\ pc' = [pc EXCEPT ![c] = "writereq"] /\ reply' = reply
        /\ req' = [req EXCEPT ![num[c]] = "part"]
    BY <1>6 DEF EndOfData
  <2>3. /\ pc'[c] = "writereq" /\ \A t \in Subs : t # c => pc'[t] = pc[t]
        /\ req'[num[c]] = "part" /\ \A m \in Numbers : m # num[c] => req'[m] = req[m]
    BY <1>0, <2>1, <2>2 DEF TypeOK
  <2>4. todo = {}
    BY <1>0, <2>1, <2>2 DEF LifeOK
  <2>5. Queued(s)' <=> Queued(s)
    BY <2>1, <2>2 DEF Queued
  <2> QED
    BY <1>0, <2>1, <2>2, <2>3, <2>4, <2>5 DEF ConfirmedOK, Open, ToFind
<1>7. CASE CreateReqFails(c)
  <2>1. /\ pc[c] = "data" /\ num[c] \in Numbers /\ file[c] \in Subs /\ num[file[c]] = num[c]
        /\ inode' \in [Subs -> [of : Subs \cup {None}, closed : BOOLEAN]]
        /\ inode'[file[c]] = [of |-> inode[file[c]].of, closed |-> TRUE]
        /\ \A i \in Subs : i # file[c] => inode'[i] = inode[i]
        /\ \A i \in Subs : inode'[i].of = inode[i].of
        /\ UNCHANGED <<jobfile, data, main, todo, cur, nextjob, queue, prt, jp, pfd, num, file, stops,
                       printed, confirmed, dropped, unread, reused>>
    BY <1>7, CloseEffect
  <2>2. /\ pc' = [pc EXCEPT ![c] = "unlinkdata"] /\ reply' = [reply EXCEPT ![c] = "refused"]
        /\ req' = req
    BY <1>7 DEF CreateReqFails, Refused
  <2>3. /\ pc'[c] = "unlinkdata" /\ reply'[c] = "refused"
        /\ \A t \in Subs : t # c => pc'[t] = pc[t] /\ reply'[t] = reply[t]
    BY <1>0, <2>1, <2>2 DEF TypeOK
  <2>4. todo = {}
    BY <1>0, <2>1, <2>2 DEF LifeOK
  <2>5. Queued(s)' <=> Queued(s)
    BY <2>1, <2>2 DEF Queued
  <2> QED
    BY <1>0, <2>1, <2>2, <2>3, <2>4, <2>5 DEF ConfirmedOK, Open, ToFind
<1>8. CASE WriteReq(c)
  BY <1>0, <1>8 DEF WriteReq, TypeOK, LifeOK, ConfirmedOK, Open, ToFind, Queued
<1>9. CASE WriteReqFails(c)
  BY <1>0, <1>9 DEF WriteReqFails, Refused, Fault, TypeOK, LifeOK, ConfirmedOK, Open,
     ToFind, Queued
<1>10. CASE UndoReq(c)
  BY <1>0, <1>10 DEF UndoReq, TypeOK, LifeOK, ConfirmedOK, Open, ToFind, Queued
<1>11. CASE UndoData(c)
  BY <1>0, <1>11 DEF UndoData, TypeOK, LifeOK, ConfirmedOK, Open, ToFind, Queued
<1>12. CASE ReplyOk(c)
  BY <1>0, <1>12 DEF ReplyOk, TypeOK, LifeOK, ConfirmedOK, Open, ToFind, Queued
<1>13. CASE AddJob(c)
  <2>1. /\ pc[c] = "add" /\ pc' = [pc EXCEPT ![c] = "signal"] /\ num[c] \in Numbers
        /\ ~Queued(c) /\ jp.sub # c /\ main = "serve" /\ todo = {}
        /\ QueueNum' /\ OneEntry' /\ \A v : Queued(v)' <=> Queued(v) \/ v = c
        /\ UNCHANGED <<jobfile, data, inode, req, main, todo, cur, nextjob, prt, jp, pfd, num, file, reply,
                       stops, printed, confirmed, dropped, unread, reused>>
    BY <1>13, AddEffect
  <2>2. pc'[c] = "signal" /\ \A t \in Subs : t # c => pc'[t] = pc[t]
    BY <1>0, <2>1 DEF TypeOK
  <2> QED
    BY <1>0, <2>1, <2>2 DEF TypeOK, LifeOK, ConfirmedOK, Open, ToFind
<1>14. CASE Signal(c)
  BY <1>0, <1>14 DEF Signal, Signalled, TypeOK, LifeOK, ConfirmedOK, Open, ToFind, Queued
<1> QED
  BY <1>1, <1>2, <1>3, <1>4, <1>5, <1>6, <1>7, <1>8, <1>9, <1>10, <1>11, <1>12, <1>13,
     <1>14 DEF ClientStep, Finish

LEMMA PrinterConfirmations ==
  ASSUME IInv, PrinterStep \/ StatusOk \/ DeferJob, NEW s \in Subs
  PROVE  ConfirmedOK(s)'
<1> USE SpoolerAssumption DEF PrinterFrame, PrinterAt, mainVars, clientVars
<1>0. /\ TypeOK /\ LifeOK /\ NumOK
      /\ jp \in JobType \cup {NoJob} /\ NoJob \notin JobType
      /\ jp = NoJob => jp.sub = None /\ jp.id = 0
      /\ prt \notin {"down", "get", "waiting"} =>
           jp \in JobType /\ jp.id \in Numbers /\ jp.sub \in Subs /\ num[jp.sub] = jp.id
      /\ prt \in {"send", "status", "unlinkdata", "unlinkreq", "defer"} =>
           pfd \in Subs /\ inode[pfd].of \in Subs /\ num[pfd] = jp.id
      /\ None \notin Subs /\ "part" \notin Subs /\ None # "part" /\ 0 \notin Numbers
      /\ \A v \in Subs : num[v] # 0 => num[v] \in Numbers
      /\ NoJob.sub = None /\ DoneOK /\ \A v \in Subs : OnceOK(v) /\ ConfirmedOK(v)
      /\ stops \in Nat /\ \A v \in Subs : confirmed[v] \in Nat
  BY Basics DEF IInv, NoJob, Job, TypeOK
<1>1. CASE WaitForJob
  BY <1>0, <1>1 DEF WaitForJob, TypeOK, LifeOK, ConfirmedOK, Open, ToFind, Queued
<1>2. CASE PickUp
  <2>1. PICK j \in JobType :
           /\ jp' = j /\ num[j.sub] = j.id /\ Queued(j.sub)
           /\ QueueNum' /\ OneEntry' /\ \A v : Queued(v)' <=> Queued(v) /\ v # j.sub
           /\ prt = "get" /\ prt' = "jobno" /\ jp = NoJob /\ pfd = None
           /\ UNCHANGED <<jobfile, data, inode, req, main, todo, cur, nextjob, pfd, pc, num, file, reply,
                          stops, printed, confirmed, dropped, unread, reused>>
    BY <1>2, PickEffect
  <2> QED
    BY <1>0, <2>1 DEF TypeOK, LifeOK, ConfirmedOK, Open, ToFind
<1>3. CASE UpdateJobno
  BY <1>0, <1>3 DEF UpdateJobno, TypeOK, LifeOK, ConfirmedOK, Open, ToFind, Queued
<1>4. CASE CheckConfig
  BY <1>0, <1>4 DEF CheckConfig, TypeOK, LifeOK, ConfirmedOK, Open, ToFind, Queued
<1>5. CASE InitPrinter
  BY <1>0, <1>5 DEF InitPrinter, TypeOK, LifeOK, ConfirmedOK, Open, ToFind, Queued
<1>6. CASE OpenData
  BY <1>0, <1>6 DEF OpenData, TypeOK, LifeOK, ConfirmedOK, Open, ToFind, Queued
<1>7. CASE CancelJob
  BY <1>0, <1>7 DEF CancelJob, Fault, TypeOK, LifeOK, ConfirmedOK, Open, ToFind, Queued
<1>8. CASE SendJob
  BY <1>0, <1>8 DEF SendJob, TypeOK, LifeOK, ConfirmedOK, Open, ToFind, Queued
<1>9. CASE UnlinkData
  BY <1>0, <1>9 DEF UnlinkData, TypeOK, LifeOK, ConfirmedOK, Open, ToFind, Queued
<1>10. CASE UnlinkReq
  BY <1>0, <1>10 DEF UnlinkReq, TypeOK, LifeOK, ConfirmedOK, Open, ToFind, Queued
<1>11. CASE ReplaceJob
  <2>1. /\ jp \in JobType /\ num[jp.sub] = jp.id /\ ~Queued(jp.sub)
        /\ jp' = NoJob /\ pfd' = None /\ prt = "defer" /\ prt' = "get"
        /\ QueueNum' /\ OneEntry' /\ \A v : Queued(v)' <=> Queued(v) \/ v = jp.sub
        /\ UNCHANGED <<jobfile, data, inode, req, main, todo, cur, nextjob, pc, num, file, reply,
                       stops, printed, confirmed, dropped, unread, reused>>
    BY <1>11, ReplaceEffect
  <2> QED
    BY <1>0, <2>1 DEF TypeOK, LifeOK, ConfirmedOK, Open, ToFind
<1>12. CASE StatusOk
  <2>1. /\ prt = "status" /\ prt' = "unlinkdata" /\ jp.sub \in Subs
        /\ confirmed' = [confirmed EXCEPT ![jp.sub] = confirmed[jp.sub] + 1]
        /\ UNCHANGED <<req, main, todo, queue, jp, pc, num, stops>>
    BY <1>0, <1>12 DEF StatusOk
  <2>2. confirmed'[jp.sub] = confirmed[jp.sub] + 1 /\ \A t \in Subs : t # jp.sub => confirmed'[t] = confirmed[t]
    BY <1>0, <2>1 DEF TypeOK
  <2>3. Queued(s)' <=> Queued(s)
    BY <2>1 DEF Queued
  <2>4. main # "down"
    BY <1>0, <2>1 DEF LifeOK
  <2>5. CASE s = jp.sub
    <3>1. ~Open(s)'
      BY <1>0, <2>1, <2>3, <2>4, <2>5 DEF Open, OnceOK, ToFind
    <3>2. Open(s)
      BY <2>1, <2>5 DEF Open
    <3>3. confirmed[s] <= stops
      BY <1>0, <3>2 DEF ConfirmedOK
    <3>4. confirmed'[s] <= stops' + 1
      BY <1>0, <2>1, <2>2, <2>5, <3>3
    <3> QED
      BY <3>1, <3>4 DEF ConfirmedOK
  <2>6. CASE s # jp.sub
    BY <1>0, <2>1, <2>2, <2>3, <2>6 DEF ConfirmedOK, Open, ToFind
  <2> QED
    BY <2>5, <2>6
<1>13. CASE DeferJob
  BY <1>0, <1>13 DEF DeferJob, TypeOK, LifeOK, ConfirmedOK, Open, ToFind, Queued
<1> QED
  BY <1>1, <1>2, <1>3, <1>4, <1>5, <1>6, <1>7, <1>8, <1>9, <1>10, <1>11, <1>12, <1>13 DEF
     PrinterStep

LEMMA OtherConfirmations ==
  ASSUME IInv, Hangup \/ Stop \/ UNCHANGED vars, NEW s \in Subs
  PROVE  ConfirmedOK(s)'
<1> USE SpoolerAssumption DEF disk, mainVars, printerVars, clientVars, countVars, history
<1>0. /\ TypeOK /\ LifeOK /\ NumOK
      /\ jp \in JobType \cup {NoJob} /\ NoJob \notin JobType
      /\ jp = NoJob => jp.sub = None /\ jp.id = 0
      /\ prt \notin {"down", "get", "waiting"} =>
           jp \in JobType /\ jp.id \in Numbers /\ jp.sub \in Subs /\ num[jp.sub] = jp.id
      /\ prt \in {"send", "status", "unlinkdata", "unlinkreq", "defer"} =>
           pfd \in Subs /\ inode[pfd].of \in Subs /\ num[pfd] = jp.id
      /\ None \notin Subs /\ "part" \notin Subs /\ None # "part" /\ 0 \notin Numbers
      /\ \A v \in Subs : num[v] # 0 => num[v] \in Numbers
      /\ NoJob.sub = None /\ DoneOK /\ \A v \in Subs : OnceOK(v) /\ ConfirmedOK(v)
      /\ stops \in Nat /\ \A v \in Subs : confirmed[v] \in Nat
  BY Basics DEF IInv, NoJob, Job, TypeOK
<1>1. CASE Hangup
  BY <1>0, <1>1 DEF Hangup, TypeOK, LifeOK, ConfirmedOK, Open, ToFind, Queued
<1>2. CASE Stop
  BY <1>0, <1>2 DEF Stop, TypeOK, LifeOK, ConfirmedOK, Open, ToFind, Queued
<1>3. CASE UNCHANGED vars
  BY <1>0, <1>3 DEF vars, TypeOK, LifeOK, ConfirmedOK, Open, ToFind, Queued
<1> QED
  BY <1>1, <1>2, <1>3
LEMMA MainDones ==
  ASSUME IInv, MainStep \/ ScanFails
  PROVE  DoneOK'
<1> USE SpoolerAssumption DEF disk, mainVars, printerVars, clientVars, countVars, history
<1>0. /\ TypeOK /\ LifeOK /\ NumOK
      /\ jp \in JobType \cup {NoJob} /\ NoJob \notin JobType
      /\ jp = NoJob => jp.sub = None /\ jp.id = 0
      /\ prt \notin {"down", "get", "waiting"} =>
           jp \in JobType /\ jp.id \in Numbers /\ jp.sub \in Subs /\ num[jp.sub] = jp.id
      /\ prt \in {"send", "status", "unlinkdata", "unlinkreq", "defer"} =>
           pfd \in Subs /\ inode[pfd].of \in Subs /\ num[pfd] = jp.id
      /\ None \notin Subs /\ "part" \notin Subs /\ None # "part" /\ 0 \notin Numbers
      /\ \A s \in Subs : num[s] # 0 => num[s] \in Numbers
      /\ NoJob.sub = None /\ DoneOK /\ \A s \in Subs : OnceOK(s) /\ ConfirmedOK(s)
      /\ stops \in Nat /\ \A s \in Subs : confirmed[s] \in Nat
  BY Basics DEF IInv, NoJob, Job, TypeOK
<1>1. CASE Start
  BY <1>0, <1>1 DEF Start, TypeOK, LifeOK, DoneOK
<1>2. CASE ScanWake
  BY <1>0, <1>2 DEF ScanWake, Signalled, TypeOK, LifeOK, DoneOK
<1>3. CASE ScanPurge
  BY <1>0, <1>3 DEF ScanPurge, TypeOK, LifeOK, DoneOK
<1>4. CASE ScanDone
  BY <1>0, <1>4 DEF ScanDone, TypeOK, LifeOK, DoneOK
<1>5. ASSUME NEW n \in Numbers, ScanJob(n) PROVE DoneOK'
  <2>1. PICK t \in Subs :
           /\ req[n] = t /\ num[t] = n /\ n \in todo /\ todo' = todo \ {n}
           /\ ~Queued(t) /\ jp.sub # t /\ pc[t] \in {"signal", "done"}
           /\ \A s : Queued(s)' <=> Queued(s) \/ s = t
    BY <1>5, ScanEffect
  <2>2. /\ main = "scan" /\ main' = "wake" /\ QueueNum' /\ OneEntry'
        /\ UNCHANGED <<jobfile, data, inode, req, cur, nextjob, prt, jp, pfd, pc, num, file, reply, stops,
                       printed, confirmed, dropped, unread, reused>>
    BY <1>5, ScanEffect
  <2> QED
    BY <1>0, <2>1, <2>2 DEF TypeOK, LifeOK, DoneOK
<1>6. ASSUME NEW n \in Numbers, ScanPartial(n) PROVE DoneOK'
  BY <1>0, <1>6 DEF ScanPartial, TypeOK, LifeOK, DoneOK
<1>7. ASSUME NEW n \in Numbers, ScanSkip(n) PROVE DoneOK'
  BY <1>0, <1>7 DEF ScanSkip, SkipFrame, Fault, TypeOK, LifeOK, DoneOK
<1>8. ASSUME NEW n \in Numbers, ScanUnreadable(n) PROVE DoneOK'
  BY <1>0, <1>8 DEF ScanUnreadable, Fault, TypeOK, LifeOK, DoneOK
<1>9. CASE ScanAbandon
  BY <1>0, <1>9 DEF ScanAbandon, SkipFrame, Fault, TypeOK, LifeOK, DoneOK
<1> QED
  BY <1>1, <1>2, <1>3, <1>4, <1>5, <1>6, <1>7, <1>8, <1>9 DEF MainStep, ScanFails

LEMMA ClientDones ==
  ASSUME IInv, NEW c \in Subs, ClientStep(c)
  PROVE  DoneOK'
<1> USE SpoolerAssumption DEF ClientFrame, Keep, At, mainVars
<1>0. /\ TypeOK /\ LifeOK /\ NumOK
      /\ jp \in JobType \cup {NoJob} /\ NoJob \notin JobType
      /\ jp = NoJob => jp.sub = None /\ jp.id = 0
      /\ prt \notin {"down", "get", "waiting"} =>
           jp \in JobType /\ jp.id \in Numbers /\ jp.sub \in Subs /\ num[jp.sub] = jp.id
      /\ prt \in {"send", "status", "unlinkdata", "unlinkreq", "defer"} =>
           pfd \in Subs /\ inode[pfd].of \in Subs /\ num[pfd] = jp.id
      /\ None \notin Subs /\ "part" \notin Subs /\ None # "part" /\ 0 \notin Numbers
      /\ \A s \in Subs : num[s] # 0 => num[s] \in Numbers
      /\ NoJob.sub = None /\ DoneOK /\ \A s \in Subs : OnceOK(s) /\ ConfirmedOK(s)
      /\ stops \in Nat /\ \A s \in Subs : confirmed[s] \in Nat
  BY Basics DEF IInv, NoJob, Job, TypeOK
<1>1. CASE BadHeader(c)
  BY <1>0, <1>1 DEF BadHeader, Refused, TypeOK, LifeOK, DoneOK
<1>2. CASE GetNewJobno(c)
  <2>1. /\ main = "serve" /\ pc[c] = "new" /\ pc' = [pc EXCEPT ![c] = "creat"]
        /\ num[c] = 0 /\ nextjob \in Numbers /\ nextjob # 0 /\ num' = [num EXCEPT ![c] = nextjob]
        /\ \A t \in Subs : num[t] = nextjob => t # c /\ nextjob \in reused'
        /\ reused \subseteq reused'
        /\ UNCHANGED <<jobfile, data, inode, req, main, todo, cur, queue, prt, jp, pfd, file, reply,
                       stops, printed, confirmed, dropped, unread>>
    BY <1>2, NumberEffect
  <2>2. /\ pc'[c] = "creat" /\ num'[c] = nextjob
        /\ \A t \in Subs : t # c => pc'[t] = pc[t] /\ num'[t] = num[t]
    BY <1>0, <2>1 DEF TypeOK
  <2> QED
    BY <1>0, <2>1, <2>2 DEF TypeOK, LifeOK, DoneOK
<1>3. CASE CreateData(c)
  <2>1. PICK i \in Subs : /\ data' = [data EXCEPT ![num[c]] = i]
                          /\ inode' = [inode EXCEPT ![i] = [of |-> c, closed |-> FALSE]]
                          /\ file' = [file EXCEPT ![c] = i]
                          /\ num[i] = num[c]
    BY <1>3, CreateEffect
  <2>2. /\ pc[c] = "creat" /\ pc' = [pc EXCEPT ![c] = "data"] /\ num[c] \in Numbers
        /\ UNCHANGED <<jobfile, req, main, todo, cur, nextjob, queue, prt, jp, pfd, num, reply, stops,
                       printed, confirmed, dropped, unread, reused>>
    BY <1>3, CreateEffect
  <2>3. /\ data'[num[c]] = i /\ \A m \in Numbers : m # num[c] => data'[m] = data[m]
        /\ inode'[i] = [of |-> c, closed |-> FALSE] /\ \A t \in Subs : t # i => inode'[t] = inode[t]
        /\ file'[c] = i /\ pc'[c] = "data" /\ \A t \in Subs : t # c => file'[t] = file[t] /\ pc'[t] = pc[t]
    BY <1>0, <2>1, <2>2 DEF TypeOK
  <2> QED
    BY <1>0, <2>1, <2>2, <2>3 DEF TypeOK, LifeOK, DoneOK
<1>4. CASE CreateDataFails(c)
  BY <1>0, <1>4 DEF CreateDataFails, Refused, Fault, TypeOK, LifeOK, DoneOK
<1>5. CASE CopyDataFails(c)
  BY <1>0, <1>5 DEF CopyDataFails, Refused, Fault, TypeOK, LifeOK, DoneOK
<1>6. CASE EndOfData(c)
  <2>1. /\ pc[c] = "data" /\ num[c] \in Numbers /\ file[c] \in Subs /\ num[file[c]] = num[c]
        /\ inode' \in [Subs -> [of : Subs \cup {None}, closed : BOOLEAN]]
        /\ inode'[file[c]] = [of |-> inode[file[c]].of, closed |-> TRUE]
        /\ \A i \in Subs : i # file[c] => inode'[i] = inode[i]
        /\ \A i \in Subs : inode'[i].of = inode[i].of
        /\ UNCHANGED <<jobfile, data, main, todo, cur, nextjob, queue, prt, jp, pfd, num, file, stops,
                       printed, confirmed, dropped, unread, reused>>
    BY <1>6, CloseEffect
  <2>2. /\ pc' = [pc EXCEPT ![c] = "writereq"] /\ reply' = reply
        /\ req' = [req EXCEPT ![num[c]] = "part"]
    BY <1>6 DEF EndOfData
  <2>3. /\ pc'[c] = "writereq" /\ \A t \in Subs : t # c => pc'[t] = pc[t]
        /\ req'[num[c]] = "part" /\ \A m \in Numbers : m # num[c] => req'[m] = req[m]
    BY <1>0, <2>1, <2>2 DEF TypeOK
  <2> QED
    BY <1>0, <2>1, <2>2, <2>3 DEF TypeOK, LifeOK, DoneOK
<1>7. CASE CreateReqFails(c)
  <2>1. /\ pc[c] = "data" /\ num[c] \in Numbers /\ file[c] \in Subs /\ num[file[c]] = num[c]
        /\ inode' \in [Subs -> [of : Subs \cup {None}, closed : BOOLEAN]]
        /\ inode'[file[c]] = [of |-> inode[file[c]].of, closed |-> TRUE]
        /\ \A i \in Subs : i # file[c] => inode'[i] = inode[i]
        /\ \A i \in Subs : inode'[i].of = inode[i].of
        /\ UNCHANGED <<jobfile, data, main, todo, cur, nextjob, queue, prt, jp, pfd, num, file, stops,
                       printed, confirmed, dropped, unread, reused>>
    BY <1>7, CloseEffect
  <2>2. /\ pc' = [pc EXCEPT ![c] = "unlinkdata"] /\ reply' = [reply EXCEPT ![c] = "refused"]
        /\ req' = req
    BY <1>7 DEF CreateReqFails, Refused
  <2>3. /\ pc'[c] = "unlinkdata" /\ reply'[c] = "refused"
        /\ \A t \in Subs : t # c => pc'[t] = pc[t] /\ reply'[t] = reply[t]
    BY <1>0, <2>1, <2>2 DEF TypeOK
  <2> QED
    BY <1>0, <2>1, <2>2, <2>3 DEF TypeOK, LifeOK, DoneOK
<1>8. CASE WriteReq(c)
  BY <1>0, <1>8 DEF WriteReq, TypeOK, LifeOK, DoneOK
<1>9. CASE WriteReqFails(c)
  BY <1>0, <1>9 DEF WriteReqFails, Refused, Fault, TypeOK, LifeOK, DoneOK
<1>10. CASE UndoReq(c)
  BY <1>0, <1>10 DEF UndoReq, TypeOK, LifeOK, DoneOK
<1>11. CASE UndoData(c)
  BY <1>0, <1>11 DEF UndoData, TypeOK, LifeOK, DoneOK
<1>12. CASE ReplyOk(c)
  BY <1>0, <1>12 DEF ReplyOk, TypeOK, LifeOK, DoneOK
<1>13. CASE AddJob(c)
  <2>1. /\ pc[c] = "add" /\ pc' = [pc EXCEPT ![c] = "signal"] /\ num[c] \in Numbers
        /\ ~Queued(c) /\ jp.sub # c /\ main = "serve" /\ todo = {}
        /\ QueueNum' /\ OneEntry' /\ \A s : Queued(s)' <=> Queued(s) \/ s = c
        /\ UNCHANGED <<jobfile, data, inode, req, main, todo, cur, nextjob, prt, jp, pfd, num, file, reply,
                       stops, printed, confirmed, dropped, unread, reused>>
    BY <1>13, AddEffect
  <2>2. pc'[c] = "signal" /\ \A t \in Subs : t # c => pc'[t] = pc[t]
    BY <1>0, <2>1 DEF TypeOK
  <2> QED
    BY <1>0, <2>1, <2>2 DEF TypeOK, LifeOK, DoneOK
<1>14. CASE Signal(c)
  BY <1>0, <1>14 DEF Signal, Signalled, TypeOK, LifeOK, DoneOK
<1> QED
  BY <1>1, <1>2, <1>3, <1>4, <1>5, <1>6, <1>7, <1>8, <1>9, <1>10, <1>11, <1>12, <1>13,
     <1>14 DEF ClientStep, Finish

LEMMA PrinterDones ==
  ASSUME IInv, PrinterStep \/ StatusOk \/ DeferJob
  PROVE  DoneOK'
<1> USE SpoolerAssumption DEF PrinterFrame, PrinterAt, mainVars, clientVars
<1>0. /\ TypeOK /\ LifeOK /\ NumOK
      /\ jp \in JobType \cup {NoJob} /\ NoJob \notin JobType
      /\ jp = NoJob => jp.sub = None /\ jp.id = 0
      /\ prt \notin {"down", "get", "waiting"} =>
           jp \in JobType /\ jp.id \in Numbers /\ jp.sub \in Subs /\ num[jp.sub] = jp.id
      /\ prt \in {"send", "status", "unlinkdata", "unlinkreq", "defer"} =>
           pfd \in Subs /\ inode[pfd].of \in Subs /\ num[pfd] = jp.id
      /\ None \notin Subs /\ "part" \notin Subs /\ None # "part" /\ 0 \notin Numbers
      /\ \A s \in Subs : num[s] # 0 => num[s] \in Numbers
      /\ NoJob.sub = None /\ DoneOK /\ \A s \in Subs : OnceOK(s) /\ ConfirmedOK(s)
      /\ stops \in Nat /\ \A s \in Subs : confirmed[s] \in Nat
  BY Basics DEF IInv, NoJob, Job, TypeOK
<1>1. CASE WaitForJob
  BY <1>0, <1>1 DEF WaitForJob, TypeOK, LifeOK, DoneOK
<1>2. CASE PickUp
  <2>1. PICK j \in JobType :
           /\ jp' = j /\ num[j.sub] = j.id /\ Queued(j.sub)
           /\ QueueNum' /\ OneEntry' /\ \A s : Queued(s)' <=> Queued(s) /\ s # j.sub
           /\ prt = "get" /\ prt' = "jobno" /\ jp = NoJob /\ pfd = None
           /\ UNCHANGED <<jobfile, data, inode, req, main, todo, cur, nextjob, pfd, pc, num, file, reply,
                          stops, printed, confirmed, dropped, unread, reused>>
    BY <1>2, PickEffect
  <2> QED
    BY <1>0, <2>1 DEF TypeOK, LifeOK, DoneOK
<1>3. CASE UpdateJobno
  BY <1>0, <1>3 DEF UpdateJobno, TypeOK, LifeOK, DoneOK
<1>4. CASE CheckConfig
  BY <1>0, <1>4 DEF CheckConfig, TypeOK, LifeOK, DoneOK
<1>5. CASE InitPrinter
  BY <1>0, <1>5 DEF InitPrinter, TypeOK, LifeOK, DoneOK
<1>6. CASE OpenData
  BY <1>0, <1>6 DEF OpenData, TypeOK, LifeOK, DoneOK
<1>7. CASE CancelJob
  BY <1>0, <1>7 DEF CancelJob, Fault, TypeOK, LifeOK, DoneOK
<1>8. CASE SendJob
  BY <1>0, <1>8 DEF SendJob, TypeOK, LifeOK, DoneOK
<1>9. CASE UnlinkData
  BY <1>0, <1>9 DEF UnlinkData, TypeOK, LifeOK, DoneOK
<1>10. CASE UnlinkReq
  BY <1>0, <1>10 DEF UnlinkReq, TypeOK, LifeOK, DoneOK
<1>11. CASE ReplaceJob
  <2>1. /\ jp \in JobType /\ num[jp.sub] = jp.id /\ ~Queued(jp.sub)
        /\ jp' = NoJob /\ pfd' = None /\ prt = "defer" /\ prt' = "get"
        /\ QueueNum' /\ OneEntry' /\ \A s : Queued(s)' <=> Queued(s) \/ s = jp.sub
        /\ UNCHANGED <<jobfile, data, inode, req, main, todo, cur, nextjob, pc, num, file, reply,
                       stops, printed, confirmed, dropped, unread, reused>>
    BY <1>11, ReplaceEffect
  <2> QED
    BY <1>0, <2>1 DEF TypeOK, LifeOK, DoneOK
<1>12. CASE StatusOk
  <2>1. /\ prt = "status" /\ jp.sub \in Subs /\ confirmed[jp.sub] \in Nat
        /\ confirmed' = [confirmed EXCEPT ![jp.sub] = confirmed[jp.sub] + 1] /\ jp' = jp
    BY <1>0, <1>12 DEF StatusOk
  <2>2. confirmed'[jp.sub] = confirmed[jp.sub] + 1
    BY <1>0, <2>1 DEF TypeOK
  <2> QED
    BY <2>1, <2>2 DEF DoneOK
<1>13. CASE DeferJob
  BY <1>0, <1>13 DEF DeferJob, TypeOK, LifeOK, DoneOK
<1> QED
  BY <1>1, <1>2, <1>3, <1>4, <1>5, <1>6, <1>7, <1>8, <1>9, <1>10, <1>11, <1>12, <1>13 DEF
     PrinterStep

LEMMA OtherDones ==
  ASSUME IInv, Hangup \/ Stop \/ UNCHANGED vars
  PROVE  DoneOK'
<1> USE SpoolerAssumption DEF disk, mainVars, printerVars, clientVars, countVars, history
<1>0. /\ TypeOK /\ LifeOK /\ NumOK
      /\ jp \in JobType \cup {NoJob} /\ NoJob \notin JobType
      /\ jp = NoJob => jp.sub = None /\ jp.id = 0
      /\ prt \notin {"down", "get", "waiting"} =>
           jp \in JobType /\ jp.id \in Numbers /\ jp.sub \in Subs /\ num[jp.sub] = jp.id
      /\ prt \in {"send", "status", "unlinkdata", "unlinkreq", "defer"} =>
           pfd \in Subs /\ inode[pfd].of \in Subs /\ num[pfd] = jp.id
      /\ None \notin Subs /\ "part" \notin Subs /\ None # "part" /\ 0 \notin Numbers
      /\ \A s \in Subs : num[s] # 0 => num[s] \in Numbers
      /\ NoJob.sub = None /\ DoneOK /\ \A s \in Subs : OnceOK(s) /\ ConfirmedOK(s)
      /\ stops \in Nat /\ \A s \in Subs : confirmed[s] \in Nat
  BY Basics DEF IInv, NoJob, Job, TypeOK
<1>1. CASE Hangup
  BY <1>0, <1>1 DEF Hangup, TypeOK, LifeOK, DoneOK
<1>2. CASE Stop
  BY <1>0, <1>2 DEF Stop, TypeOK, LifeOK, DoneOK
<1>3. CASE UNCHANGED vars
  BY <1>0, <1>3 DEF vars, TypeOK, LifeOK, DoneOK
<1> QED
  BY <1>1, <1>2, <1>3

-----------------------------------------------------------------------------
(* A submission whose number nobody else was given: what carries its       *)
(* number is its own.                                                      *)
LEMMA OwnFacts ==
  ASSUME IInv, NEW s \in Subs, Own(s)
  PROVE  /\ num[s] \in Numbers /\ pc[s] # "new"
         /\ \A t \in Subs : num[t] = num[s] => t = s
         /\ data[num[s]] \in {None, s}
         /\ req[num[s]] \in {None, "part", s}
         /\ \A n \in Numbers : data[n] = s \/ req[n] = s => n = num[s]
         /\ inode[s].of \in {None, s}
         /\ \A t \in Subs : inode[t].of = s => t = s
         /\ \A t \in Subs : file[t] = s => t = s
         /\ jp # NoJob /\ jp.id = num[s] => jp.sub = s
         /\ jp.sub = s => jp.id = num[s] /\ jp # NoJob
         /\ pfd # None /\ jp.sub # s => inode[pfd].of # s /\ pfd # s
         /\ pfd # None /\ jp.sub = s => pfd = s
         /\ FilesOK(s) /\ PlaceOK(s) /\ OnceOK(s)
<1>1. /\ TypeOK /\ LifeOK /\ NumOK /\ None \notin Subs /\ "part" \notin Subs
      /\ \A t \in Subs : num[t] # 0 => num[t] \in Numbers
  BY Basics
<1>2. num[s] \in Numbers /\ pc[s] # "new"
  BY <1>1 DEF Own, NumOK, SubNum
<1>3. \A t \in Subs : num[t] = num[s] => t = s
  BY <1>1 DEF Own, NumOK, OneOwner
<1>4. data[num[s]] \in {None, s} /\ req[num[s]] \in {None, "part", s}
  BY <1>1, <1>2, <1>3 DEF TypeOK, NumOK, FileNum
<1>5. \A n \in Numbers : data[n] = s \/ req[n] = s => n = num[s]
  BY <1>1 DEF NumOK, FileNum
<1>6. inode[s].of \in {None, s} /\ \A t \in Subs : (inode[t].of = s => t = s) /\ (file[t] = s => t = s)
  BY <1>1, <1>3 DEF TypeOK, NumOK, SubNum
<1>7. /\ jp # NoJob /\ jp.id = num[s] => jp.sub = s
      /\ jp.sub = s => jp.id = num[s] /\ jp # NoJob
  BY <1>1, <1>3, Basics DEF NumOK, JobNum, JobType
<1>8. /\ pfd # None /\ jp.sub # s => inode[pfd].of # s /\ pfd # s
      /\ pfd # None /\ jp.sub = s => pfd = s
  <2>1. pfd # None => /\ pfd \in Subs /\ num[pfd] = jp.id /\ jp # NoJob
                      /\ inode[pfd].of \in Subs /\ num[inode[pfd].of] = jp.id
    BY <1>1, Basics DEF LifeOK, NumOK, SubNum
  <2> QED
    BY <1>3, <1>7, <2>1
<1>9. FilesOK(s) /\ PlaceOK(s) /\ OnceOK(s)
  BY DEF IInv
<1> QED
  BY <1>2, <1>3, <1>4, <1>5, <1>6, <1>7, <1>8, <1>9

(* A submission becomes the owner of a number only when it gets it. *)
LEMMA OwnBefore ==
  ASSUME IInv, [Next]_vars, NEW s \in Subs, Own(s)'
  PROVE  Own(s) \/ GetNewJobno(s)
<1>1. CASE MainStep \/ ScanFails
  <2>1. UNCHANGED <<num, reused>>
    BY <1>1 DEF MainStep, Start, ScanWake, ScanPurge, ScanDone, ScanJob, ScanPartial, ScanFails,
       ScanSkip, ScanAbandon, ScanUnreadable, SkipFrame, clientVars, history
  <2> QED
    BY <2>1 DEF Own
<1>2. CASE PrinterStep \/ StatusOk \/ DeferJob
  <2>1. UNCHANGED <<num, reused>>
    BY <1>2 DEF PrinterStep, WaitForJob, PickUp, UpdateJobno, CheckConfig, InitPrinter, OpenData, CancelJob,
       SendJob, UnlinkData, UnlinkReq, ReplaceJob, StatusOk, DeferJob, PrinterFrame, clientVars
  <2> QED
    BY <2>1 DEF Own
<1>3. ASSUME NEW c \in Subs, ClientStep(c) PROVE Own(s) \/ GetNewJobno(s)
  <2>1. CASE GetNewJobno(c)
    <3>1. num' = [num EXCEPT ![c] = nextjob] /\ reused \subseteq reused' /\ num \in [Subs -> 0..MaxJob]
      BY <2>1, NumberEffect, Basics DEF TypeOK
    <3> QED
      BY <2>1, <3>1 DEF Own
  <2>2. CASE ~GetNewJobno(c)
    <3>1. UNCHANGED <<num, reused>>
      BY <1>3, <2>2 DEF ClientStep, Finish, BadHeader, CreateData, CreateDataFails, CopyDataFails, EndOfData,
         CreateReqFails, WriteReq, WriteReqFails, UndoReq, UndoData, ReplyOk, AddJob, Signal, Keep
    <3> QED
      BY <3>1 DEF Own
  <2> QED
    BY <2>1, <2>2
<1>4. CASE Hangup \/ Stop \/ UNCHANGED vars
  <2>1. UNCHANGED <<num, reused>>
    BY <1>4 DEF Hangup, Stop, vars, clientVars, history
  <2> QED
    BY <2>1 DEF Own
<1> QED
  BY <1>1, <1>2, <1>3, <1>4 DEF Next

(* The number is new, so nothing on disk or in the queue carries it. *)
LEMMA NewNumber ==
  ASSUME IInv, NEW s \in Subs, GetNewJobno(s), Own(s)'
  PROVE  FilesOK(s)' /\ PlaceOK(s)'
<1>1. /\ TypeOK /\ LifeOK /\ NumOK /\ None \notin Subs /\ "part" \notin Subs /\ OnceOK(s)
  BY Basics DEF IInv
<1>2. /\ pc[s] = "new" /\ pc' = [pc EXCEPT ![s] = "creat"]
      /\ num[s] = 0 /\ nextjob \in Numbers /\ num' = [num EXCEPT ![s] = nextjob]
      /\ \A t \in Subs : num[t] = nextjob => nextjob \in reused'
      /\ UNCHANGED <<jobfile, data, inode, req, main, todo, cur, queue, prt, jp, pfd, file, reply,
                     stops, printed, confirmed, dropped, unread>>
  BY NumberEffect
<1>3. pc'[s] = "creat" /\ num'[s] = nextjob /\ reply[s] = "none"
  BY <1>1, <1>2 DEF TypeOK, NumOK, SubNum
<1>4. \A t \in Subs : num[t] # nextjob
  BY <1>2, <1>3 DEF Own
<1>5. req[nextjob] # s
  BY <1>1, <1>2, <1>4 DEF NumOK, FileNum
<1>6. ~Queued(s)' /\ jp.sub # s
  BY <1>1, <1>2 DEF OnceOK, Queued
<1>7. \A p \in printed : p.of # s
  BY <1>1, <1>2 DEF NumOK
<1> QED
  BY <1>2, <1>3, <1>5, <1>6, <1>7 DEF FilesOK, PlaceOK

-----------------------------------------------------------------------------
(* The files of such a submission, and where it is. *)
LEMMA MainFiles ==
  ASSUME IInv, MainStep \/ ScanFails, NEW s \in Subs, Own(s)
  PROVE  FilesOK(s)'
<1> USE SpoolerAssumption DEF disk, mainVars, printerVars, clientVars, countVars, history
<1>0. /\ TypeOK /\ LifeOK /\ DoneOK
      /\ num[s] \in Numbers /\ pc[s] # "new"
      /\ \A t \in Subs : num[t] = num[s] => t = s
      /\ data[num[s]] \in {None, s}
      /\ req[num[s]] \in {None, "part", s}
      /\ inode[s].of \in {None, s}
      /\ \A t \in Subs : file[t] = s => t = s
      /\ jp # NoJob /\ jp.id = num[s] => jp.sub = s
      /\ jp.sub = s => jp.id = num[s] /\ jp # NoJob
      /\ pfd # None /\ jp.sub # s => inode[pfd].of # s /\ pfd # s
      /\ pfd # None /\ jp.sub = s => pfd = s
      /\ FilesOK(s) /\ PlaceOK(s) /\ OnceOK(s)
      /\ NoJob.sub = None /\ None \notin Subs /\ "part" \notin Subs /\ None # "part" /\ 0 \notin Numbers
  BY Basics, OwnFacts DEF IInv, NoJob, Job
<1>1. CASE Start
  BY <1>0, <1>1 DEF Start, TypeOK, FilesOK, Queued, Whole
<1>2. CASE ScanWake
  BY <1>0, <1>2 DEF ScanWake, Signalled, TypeOK, FilesOK, Queued, Whole
<1>3. CASE ScanPurge
  <2>1. /\ data' = [data EXCEPT ![cur] = None]
        /\ UNCHANGED <<inode, req, pc, num, reply, queue, jp, confirmed, printed, unread>>
    BY <1>3 DEF ScanPurge
  <2>2. main = "purge" /\ cur \in Numbers /\ req[cur] = None /\ pc[s] = "done"
    BY <1>0, <1>3 DEF ScanPurge, LifeOK
  <2>3. data'[num[s]] = data[num[s]] \/ req[num[s]] # s
    BY <1>0, <2>1, <2>2 DEF TypeOK
  <2>4. Queued(s)' <=> Queued(s)
    BY <2>1 DEF Queued
  <2> QED
    BY <1>0, <2>1, <2>2, <2>3, <2>4 DEF FilesOK, Whole
<1>4. CASE ScanDone
  BY <1>0, <1>4 DEF ScanDone, TypeOK, FilesOK, Queued, Whole
<1>5. ASSUME NEW n \in Numbers, ScanJob(n) PROVE FilesOK(s)'
  <2>1. PICK t \in Subs :
           /\ req[n] = t /\ num[t] = n /\ n \in todo /\ todo' = todo \ {n}
           /\ ~Queued(t) /\ jp.sub # t /\ pc[t] \in {"signal", "done"}
           /\ \A v : Queued(v)' <=> Queued(v) \/ v = t
    BY <1>5, ScanEffect
  <2>2. /\ main = "scan" /\ main' = "wake" /\ QueueNum' /\ OneEntry'
        /\ UNCHANGED <<jobfile, data, inode, req, cur, nextjob, prt, jp, pfd, pc, num, file, reply, stops,
                       printed, confirmed, dropped, unread, reused>>
    BY <1>5, ScanEffect
  <2> QED
    BY <1>0, <2>1, <2>2 DEF TypeOK, FilesOK, Whole
<1>6. ASSUME NEW n \in Numbers, ScanPartial(n) PROVE FilesOK(s)'
  BY <1>0, <1>6 DEF ScanPartial, TypeOK, FilesOK, Queued, Whole
<1>7. ASSUME NEW n \in Numbers, ScanSkip(n) PROVE FilesOK(s)'
  BY <1>0, <1>7 DEF ScanSkip, SkipFrame, Fault, TypeOK, FilesOK, Queued, Whole
<1>8. ASSUME NEW n \in Numbers, ScanUnreadable(n) PROVE FilesOK(s)'
  <2>1. /\ main = "scan" /\ req[n] \in Subs /\ req' = [req EXCEPT ![n] = None]
        /\ unread' = unread \cup {req[n]}
        /\ UNCHANGED <<data, inode, pc, num, reply, queue, jp, confirmed, printed>>
    BY <1>8 DEF ScanUnreadable
  <2>2. pc[s] = "done" /\ (Queued(s)' <=> Queued(s))
    BY <1>0, <2>1 DEF LifeOK, Queued
  <2>3. \/ req'[num[s]] = req[num[s]] /\ (s \notin unread' => s \notin unread)
        \/ req'[num[s]] = None /\ s \in unread'
    BY <1>0, <2>1 DEF TypeOK
  <2> QED
    BY <1>0, <2>1, <2>2, <2>3 DEF FilesOK, Whole
<1>9. CASE ScanAbandon
  BY <1>0, <1>9 DEF ScanAbandon, SkipFrame, Fault, TypeOK, FilesOK, Queued, Whole
<1> QED
  BY <1>1, <1>2, <1>3, <1>4, <1>5, <1>6, <1>7, <1>8, <1>9 DEF MainStep, ScanFails

LEMMA ClientFiles ==
  ASSUME IInv, NEW c \in Subs, ClientStep(c), NEW s \in Subs, Own(s)
  PROVE  FilesOK(s)'
<1> USE SpoolerAssumption DEF ClientFrame, Keep, At, mainVars
<1>0. /\ TypeOK /\ LifeOK /\ DoneOK
      /\ num[s] \in Numbers /\ pc[s] # "new"
      /\ \A t \in Subs : num[t] = num[s] => t = s
      /\ data[num[s]] \in {None, s}
      /\ req[num[s]] \in {None, "part", s}
      /\ inode[s].of \in {None, s}
      /\ \A t \in Subs : file[t] = s => t = s
      /\ jp # NoJob /\ jp.id = num[s] => jp.sub = s
      /\ jp.sub = s => jp.id = num[s] /\ jp # NoJob
      /\ pfd # None /\ jp.sub # s => inode[pfd].of # s /\ pfd # s
      /\ pfd # None /\ jp.sub = s => pfd = s
      /\ FilesOK(s) /\ PlaceOK(s) /\ OnceOK(s)
      /\ NoJob.sub = None /\ None \notin Subs /\ "part" \notin Subs /\ None # "part" /\ 0 \notin Numbers
  BY Basics, OwnFacts DEF IInv, NoJob, Job
<1>1. CASE BadHeader(c)
  BY <1>0, <1>1, SMTT(30) DEF BadHeader, Refused, TypeOK, FilesOK, Queued, Whole
<1>2. CASE GetNewJobno(c)
  <2>1. /\ main = "serve" /\ pc[c] = "new" /\ pc' = [pc EXCEPT ![c] = "creat"]
        /\ num[c] = 0 /\ nextjob \in Numbers /\ nextjob # 0 /\ num' = [num EXCEPT ![c] = nextjob]
        /\ \A t \in Subs : num[t] = nextjob => t # c /\ nextjob \in reused'
        /\ reused \subseteq reused'
        /\ UNCHANGED <<jobfile, data, inode, req, main, todo, cur, queue, prt, jp, pfd, file, reply,
                       stops, printed, confirmed, dropped, unread>>
    BY <1>2, NumberEffect
  <2>2. /\ pc'[c] = "creat" /\ num'[c] = nextjob
        /\ \A t \in Subs : t # c => pc'[t] = pc[t] /\ num'[t] = num[t]
    BY <1>0, <2>1 DEF TypeOK
  <2> QED
    BY <1>0, <2>1, <2>2 DEF TypeOK, FilesOK, Queued, Whole
<1>3. CASE CreateData(c)
  <2>1. PICK i \in Subs : /\ data' = [data EXCEPT ![num[c]] = i]
                          /\ inode' = [inode EXCEPT ![i] = [of |-> c, closed |-> FALSE]]
                          /\ file' = [file EXCEPT ![c] = i]
                          /\ num[i] = num[c]
    BY <1>3, CreateEffect
  <2>2. /\ pc[c] = "creat" /\ pc' = [pc EXCEPT ![c] = "data"] /\ num[c] \in Numbers
        /\ UNCHANGED <<jobfile, req, main, todo, cur, nextjob, queue, prt, jp, pfd, num, reply, stops,
                       printed, confirmed, dropped, unread, reused>>
    BY <1>3, CreateEffect
  <2>3. /\ data'[num[c]] = i /\ \A m \in Numbers : m # num[c] => data'[m] = data[m]
        /\ inode'[i] = [of |-> c, closed |-> FALSE] /\ \A t \in Subs : t # i => inode'[t] = inode[t]
        /\ file'[c] = i /\ pc'[c] = "data" /\ \A t \in Subs : t # c => file'[t] = file[t] /\ pc'[t] = pc[t]
    BY <1>0, <2>1, <2>2 DEF TypeOK
  <2>4. Queued(s)' <=> Queued(s)
    BY <2>2 DEF Queued
  <2>5. CASE s = c
    <3>1. i = s
      BY <1>0, <2>1, <2>5
    <3>2. reply[s] = "none" /\ req[num[s]] # s /\ ~Queued(s) /\ jp.sub # s /\ \A p \in printed : p.of # s
      BY <1>0, <2>2, <2>5 DEF FilesOK, OnceOK
    <3> QED
      BY <1>0, <2>2, <2>3, <2>4, <2>5, <3>1, <3>2 DEF FilesOK
  <2>6. CASE s # c
    <3>1. i # s /\ num[c] # num[s]
      BY <1>0, <2>1, <2>6
    <3>2. inode'[s] = inode[s] /\ data'[num[s]] = data[num[s]] /\ pc'[s] = pc[s]
      BY <1>0, <2>3, <2>6, <3>1
    <3> QED
      BY <1>0, <2>2, <2>4, <3>2 DEF FilesOK, Whole
  <2> QED
    BY <2>5, <2>6
<1>4. CASE CreateDataFails(c)
  <2>1. /\ pc[c] = "creat" /\ pc' = [pc EXCEPT ![c] = "done"] /\ reply' = [reply EXCEPT ![c] = "refused"]
        /\ UNCHANGED <<data, inode, req, num, queue, jp, confirmed, printed, unread>>
    BY <1>4 DEF CreateDataFails, Refused
  <2>2. /\ pc'[c] = "done" /\ reply'[c] = "refused"
        /\ \A t \in Subs : t # c => pc'[t] = pc[t] /\ reply'[t] = reply[t]
    BY <1>0, <2>1 DEF TypeOK
  <2>3. Queued(s)' <=> Queued(s)
    BY <2>1 DEF Queued
  <2>4. CASE s = c
    BY <1>0, <2>1, <2>2, <2>3, <2>4 DEF FilesOK, OnceOK, Whole
  <2>5. CASE s # c
    BY <1>0, <2>1, <2>2, <2>3, <2>5 DEF FilesOK, Whole
  <2> QED
    BY <2>4, <2>5
<1>5. CASE CopyDataFails(c)
  <2>1. /\ pc[c] = "data" /\ pc' = [pc EXCEPT ![c] = "unlinkdata"] /\ reply' = [reply EXCEPT ![c] = "refused"]
        /\ UNCHANGED <<data, inode, req, num, queue, jp, confirmed, printed, unread>>
    BY <1>5 DEF CopyDataFails, Refused
  <2>2. /\ pc'[c] = "unlinkdata" /\ reply'[c] = "refused"
        /\ \A t \in Subs : t # c => pc'[t] = pc[t] /\ reply'[t] = reply[t]
    BY <1>0, <2>1 DEF TypeOK
  <2>3. Queued(s)' <=> Queued(s)
    BY <2>1 DEF Queued
  <2>4. CASE s = c
    BY <1>0, <2>1, <2>2, <2>3, <2>4 DEF FilesOK, OnceOK, Whole
  <2>5. CASE s # c
    BY <1>0, <2>1, <2>2, <2>3, <2>5 DEF FilesOK, Whole
  <2> QED
    BY <2>4, <2>5
<1>6. CASE EndOfData(c)
  <2>1. /\ pc[c] = "data" /\ num[c] \in Numbers /\ file[c] \in Subs /\ num[file[c]] = num[c]
        /\ inode' \in [Subs -> [of : Subs \cup {None}, closed : BOOLEAN]]
        /\ inode'[file[c]] = [of |-> inode[file[c]].of, closed |-> TRUE]
        /\ \A i \in Subs : i # file[c] => inode'[i] = inode[i]
        /\ \A i \in Subs : inode'[i].of = inode[i].of
        /\ UNCHANGED <<jobfile, data, main, todo, cur, nextjob, queue, prt, jp, pfd, num, file, stops,
                       printed, confirmed, dropped, unread, reused>>
    BY <1>6, CloseEffect
  <2>2. /\ pc' = [pc EXCEPT ![c] = "writereq"] /\ reply' = reply
        /\ req' = [req EXCEPT ![num[c]] = "part"]
    BY <1>6 DEF EndOfData
  <2>3. /\ pc'[c] = "writereq" /\ \A t \in Subs : t # c => pc'[t] = pc[t]
        /\ req'[num[c]] = "part" /\ \A m \in Numbers : m # num[c] => req'[m] = req[m]
    BY <1>0, <2>1, <2>2 DEF TypeOK
  <2>4. Queued(s)' <=> Queued(s)
    BY <2>1 DEF Queued
  <2>5. CASE s = c
    <3>1. file[c] = s
      BY <1>0, <2>1, <2>5
    <3>2. reply[s] = "none" /\ req[num[s]] # s /\ ~Queued(s) /\ jp.sub # s /\ \A p \in printed : p.of # s
      BY <1>0, <2>1, <2>5 DEF FilesOK, OnceOK
    <3>3. data[num[s]] = s /\ inode'[s] = [of |-> s, closed |-> TRUE]
      BY <1>0, <2>1, <2>5, <3>1 DEF FilesOK
    <3>4. req'[num[s]] # s
      BY <1>0, <2>2, <2>3, <2>5, <3>2
    <3> QED
      BY <1>0, <2>1, <2>2, <2>3, <2>4, <2>5, <3>2, <3>3, <3>4 DEF FilesOK, Whole
  <2>6. CASE s # c
    <3>1. file[c] # s /\ num[c] # num[s]
      BY <1>0, <2>1, <2>6
    <3>2. inode'[s] = inode[s] /\ pc'[s] = pc[s]
      BY <2>1, <2>3, <2>6, <3>1
    <3>3. req'[num[s]] = req[num[s]] /\ reply'[s] = reply[s]
      BY <1>0, <2>1, <2>2, <2>3, <2>6, <3>1
    <3> QED
      BY <1>0, <2>1, <2>4, <3>2, <3>3 DEF FilesOK, Whole
  <2> QED
    BY <2>5, <2>6
<1>7. CASE CreateReqFails(c)
  <2>1. /\ pc[c] = "data" /\ num[c] \in Numbers /\ file[c] \in Subs /\ num[file[c]] = num[c]
        /\ inode' \in [Subs -> [of : Subs \cup {None}, closed : BOOLEAN]]
        /\ inode'[file[c]] = [of |-> inode[file[c]].of, closed |-> TRUE]
        /\ \A i \in Subs : i # file[c] => inode'[i] = inode[i]
        /\ \A i \in Subs : inode'[i].of = inode[i].of
        /\ UNCHANGED <<jobfile, data, main, todo, cur, nextjob, queue, prt, jp, pfd, num, file, stops,
                       printed, confirmed, dropped, unread, reused>>
    BY <1>7, CloseEffect
  <2>2. /\ pc' = [pc EXCEPT ![c] = "unlinkdata"] /\ reply' = [reply EXCEPT ![c] = "refused"]
        /\ req' = req
    BY <1>7 DEF CreateReqFails, Refused
  <2>3. /\ pc'[c] = "unlinkdata" /\ reply'[c] = "refused"
        /\ \A t \in Subs : t # c => pc'[t] = pc[t] /\ reply'[t] = reply[t]
    BY <1>0, <2>1, <2>2 DEF TypeOK
  <2>4. Queued(s)' <=> Queued(s)
    BY <2>1 DEF Queued
  <2>5. CASE s = c
    <3>1. file[c] = s
      BY <1>0, <2>1, <2>5
    <3>2. reply[s] = "none" /\ req[num[s]] # s /\ ~Queued(s) /\ jp.sub # s /\ \A p \in printed : p.of # s
      BY <1>0, <2>1, <2>5 DEF FilesOK, OnceOK
    <3>3. data[num[s]] = s /\ inode'[s] = [of |-> s, closed |-> TRUE]
      BY <1>0, <2>1, <2>5, <3>1 DEF FilesOK
    <3>4. req'[num[s]] # s
      BY <1>0, <2>2, <2>3, <2>5, <3>2
    <3> QED
      BY <1>0, <2>1, <2>2, <2>3, <2>4, <2>5, <3>2, <3>3, <3>4 DEF FilesOK, Whole
  <2>6. CASE s # c
    <3>1. file[c] # s /\ num[c] # num[s]
      BY <1>0, <2>1, <2>6
    <3>2. inode'[s] = inode[s] /\ pc'[s] = pc[s]
      BY <2>1, <2>3, <2>6, <3>1
    <3>3. req'[num[s]] = req[num[s]] /\ reply'[s] = reply[s]
      BY <1>0, <2>1, <2>2, <2>3, <2>6, <3>1
    <3> QED
      BY <1>0, <2>1, <2>4, <3>2, <3>3 DEF FilesOK, Whole
  <2> QED
    BY <2>5, <2>6
<1>8. CASE WriteReq(c)
  BY <1>0, <1>8 DEF WriteReq, TypeOK, FilesOK, Queued, Whole
<1>9. CASE WriteReqFails(c)
  <2>1. /\ pc[c] = "writereq" /\ pc' = [pc EXCEPT ![c] = "unlinkreq"] /\ reply' = [reply EXCEPT ![c] = "refused"]
        /\ UNCHANGED <<data, inode, req, num, queue, jp, confirmed, printed, unread>>
    BY <1>9 DEF WriteReqFails, Refused
  <2>2. /\ pc'[c] = "unlinkreq" /\ reply'[c] = "refused"
        /\ \A t \in Subs : t # c => pc'[t] = pc[t] /\ reply'[t] = reply[t]
    BY <1>0, <2>1 DEF TypeOK
  <2>3. Queued(s)' <=> Queued(s)
    BY <2>1 DEF Queued
  <2>4. CASE s = c
    BY <1>0, <2>1, <2>2, <2>3, <2>4 DEF FilesOK, OnceOK, Whole
  <2>5. CASE s # c
    BY <1>0, <2>1, <2>2, <2>3, <2>5 DEF FilesOK, Whole
  <2> QED
    BY <2>4, <2>5
<1>10. CASE UndoReq(c)
  BY <1>0, <1>10 DEF UndoReq, TypeOK, FilesOK, Queued, Whole
<1>11. CASE UndoData(c)
  BY <1>0, <1>11 DEF UndoData, TypeOK, FilesOK, Queued, Whole
<1>12. CASE ReplyOk(c)
  BY <1>0, <1>12, SMTT(30) DEF ReplyOk, TypeOK, FilesOK, Queued, Whole
<1>13. CASE AddJob(c)
  <2>1. /\ pc[c] = "add" /\ pc' = [pc EXCEPT ![c] = "signal"] /\ num[c] \in Numbers
        /\ ~Queued(c) /\ jp.sub # c /\ main = "serve" /\ todo = {}
        /\ QueueNum' /\ OneEntry' /\ \A v : Queued(v)' <=> Queued(v) \/ v = c
        /\ UNCHANGED <<jobfile, data, inode, req, main, todo, cur, nextjob, prt, jp, pfd, num, file, reply,
                       stops, printed, confirmed, dropped, unread, reused>>
    BY <1>13, AddEffect
  <2>2. pc'[c] = "signal" /\ \A t \in Subs : t # c => pc'[t] = pc[t]
    BY <1>0, <2>1 DEF TypeOK
  <2> QED
    BY <1>0, <2>1, <2>2 DEF TypeOK, FilesOK, Whole
<1>14. CASE Signal(c)
  BY <1>0, <1>14 DEF Signal, Signalled, TypeOK, FilesOK, Queued, Whole
<1> QED
  BY <1>1, <1>2, <1>3, <1>4, <1>5, <1>6, <1>7, <1>8, <1>9, <1>10, <1>11, <1>12, <1>13,
     <1>14 DEF ClientStep, Finish

LEMMA PrinterFiles ==
  ASSUME IInv, PrinterStep \/ StatusOk \/ DeferJob, NEW s \in Subs, Own(s)
  PROVE  FilesOK(s)'
<1> USE SpoolerAssumption DEF PrinterFrame, PrinterAt, mainVars, clientVars
<1>0. /\ TypeOK /\ LifeOK /\ DoneOK
      /\ num[s] \in Numbers /\ pc[s] # "new"
      /\ \A t \in Subs : num[t] = num[s] => t = s
      /\ data[num[s]] \in {None, s}
      /\ req[num[s]] \in {None, "part", s}
      /\ inode[s].of \in {None, s}
      /\ \A t \in Subs : file[t] = s => t = s
      /\ jp # NoJob /\ jp.id = num[s] => jp.sub = s
      /\ jp.sub = s => jp.id = num[s] /\ jp # NoJob
      /\ pfd # None /\ jp.sub # s => inode[pfd].of # s /\ pfd # s
      /\ pfd # None /\ jp.sub = s => pfd = s
      /\ FilesOK(s) /\ PlaceOK(s) /\ OnceOK(s)
      /\ NoJob.sub = None /\ None \notin Subs /\ "part" \notin Subs /\ None # "part" /\ 0 \notin Numbers
  BY Basics, OwnFacts DEF IInv, NoJob, Job
<1>1. CASE WaitForJob
  BY <1>0, <1>1 DEF WaitForJob, TypeOK, FilesOK, Queued, Whole
<1>2. CASE PickUp
  <2>1. PICK j \in JobType :
           /\ jp' = j /\ num[j.sub] = j.id /\ Queued(j.sub)
           /\ QueueNum' /\ OneEntry' /\ \A v : Queued(v)' <=> Queued(v) /\ v # j.sub
           /\ prt = "get" /\ prt' = "jobno" /\ jp = NoJob /\ pfd = None
           /\ UNCHANGED <<jobfile, data, inode, req, main, todo, cur, nextjob, pfd, pc, num, file, reply,
                          stops, printed, confirmed, dropped, unread, reused>>
    BY <1>2, PickEffect
  <2> QED
    BY <1>0, <2>1 DEF TypeOK, FilesOK, Whole
<1>3. CASE UpdateJobno
  BY <1>0, <1>3 DEF UpdateJobno, TypeOK, FilesOK, Queued, Whole
<1>4. CASE CheckConfig
  BY <1>0, <1>4 DEF CheckConfig, TypeOK, FilesOK, Queued, Whole
<1>5. CASE InitPrinter
  BY <1>0, <1>5 DEF InitPrinter, TypeOK, FilesOK, Queued, Whole
<1>6. CASE OpenData
  BY <1>0, <1>6 DEF OpenData, TypeOK, FilesOK, Queued, Whole
<1>7. CASE CancelJob
  BY <1>0, <1>7 DEF CancelJob, Fault, TypeOK, FilesOK, Queued, Whole
<1>8. CASE SendJob
  <2>1. /\ prt = "send" /\ printed' = printed \cup {inode[pfd]}
        /\ UNCHANGED <<data, inode, req, pc, num, reply, queue, jp, confirmed, unread>>
    BY <1>8 DEF SendJob
  <2>2. Queued(s)' <=> Queued(s)
    BY <2>1 DEF Queued
  <2>3. inode[pfd].of = s => inode[pfd].closed /\ reply[s] # "refused" /\ pc[s] \in {"signal", "done"}
    BY <1>0, <2>1 DEF FilesOK, OnceOK, Whole, LifeOK
  <2>4. (\A p \in printed : p.of = s => p.closed /\ reply[s] # "refused" /\ pc[s] \in {"signal", "done"})'
    BY <1>0, <2>1, <2>3 DEF FilesOK
  <2> QED
    BY <1>0, <2>1, <2>2, <2>4 DEF FilesOK, Whole
<1>9. CASE UnlinkData
  <2>1. /\ prt = "unlinkdata" /\ data' = [data EXCEPT ![jp.id] = None]
        /\ UNCHANGED <<inode, req, pc, num, reply, queue, jp, confirmed, printed, unread>>
    BY <1>9 DEF UnlinkData
  <2>2. Queued(s)' <=> Queued(s)
    BY <2>1 DEF Queued
  <2>3. data'[num[s]] = data[num[s]] \/ jp.sub = s
    BY <1>0, <2>1 DEF TypeOK, LifeOK
  <2>4. jp.sub = s => confirmed[s] > 0 /\ confirmed[s] # 0 /\ pc[s] \in {"signal", "done"}
    BY <1>0, <2>1 DEF TypeOK, DoneOK, OnceOK
  <2> QED
    BY <1>0, <2>1, <2>2, <2>3, <2>4 DEF FilesOK, Whole
<1>10. CASE UnlinkReq
  <2>1. /\ prt = "unlinkreq" /\ req' = [req EXCEPT ![jp.id] = None] /\ jp' = NoJob
        /\ UNCHANGED <<data, inode, pc, num, reply, queue, confirmed, printed, unread>>
    BY <1>10 DEF UnlinkReq
  <2>2. Queued(s)' <=> Queued(s)
    BY <2>1 DEF Queued
  <2>3. req'[num[s]] = req[num[s]] \/ (jp.sub = s /\ req'[num[s]] = None)
    BY <1>0, <2>1 DEF TypeOK, LifeOK
  <2>4. jp.sub = s => confirmed[s] # 0 /\ pc[s] \in {"signal", "done"}
    BY <1>0, <2>1 DEF TypeOK, DoneOK, OnceOK
  <2> QED
    BY <1>0, <2>1, <2>2, <2>3, <2>4 DEF FilesOK, Whole
<1>11. CASE ReplaceJob
  <2>1. /\ jp \in JobType /\ num[jp.sub] = jp.id /\ ~Queued(jp.sub)
        /\ jp' = NoJob /\ pfd' = None /\ prt = "defer" /\ prt' = "get"
        /\ QueueNum' /\ OneEntry' /\ \A v : Queued(v)' <=> Queued(v) \/ v = jp.sub
        /\ UNCHANGED <<jobfile, data, inode, req, main, todo, cur, nextjob, pc, num, file, reply,
                       stops, printed, confirmed, dropped, unread, reused>>
    BY <1>11, ReplaceEffect
  <2> QED
    BY <1>0, <2>1 DEF TypeOK, FilesOK, Whole
<1>12. CASE StatusOk
  BY <1>0, <1>12 DEF StatusOk, TypeOK, FilesOK, Queued, Whole
<1>13. CASE DeferJob
  BY <1>0, <1>13 DEF DeferJob, TypeOK, FilesOK, Queued, Whole
<1> QED
  BY <1>1, <1>2, <1>3, <1>4, <1>5, <1>6, <1>7, <1>8, <1>9, <1>10, <1>11, <1>12, <1>13 DEF
     PrinterStep

LEMMA OtherFiles ==
  ASSUME IInv, Hangup \/ Stop \/ UNCHANGED vars, NEW s \in Subs, Own(s)
  PROVE  FilesOK(s)'
<1> USE SpoolerAssumption DEF disk, mainVars, printerVars, clientVars, countVars, history
<1>0. /\ TypeOK /\ LifeOK /\ DoneOK
      /\ num[s] \in Numbers /\ pc[s] # "new"
      /\ \A t \in Subs : num[t] = num[s] => t = s
      /\ data[num[s]] \in {None, s}
      /\ req[num[s]] \in {None, "part", s}
      /\ inode[s].of \in {None, s}
      /\ \A t \in Subs : file[t] = s => t = s
      /\ jp # NoJob /\ jp.id = num[s] => jp.sub = s
      /\ jp.sub = s => jp.id = num[s] /\ jp # NoJob
      /\ pfd # None /\ jp.sub # s => inode[pfd].of # s /\ pfd # s
      /\ pfd # None /\ jp.sub = s => pfd = s
      /\ FilesOK(s) /\ PlaceOK(s) /\ OnceOK(s)
      /\ NoJob.sub = None /\ None \notin Subs /\ "part" \notin Subs /\ None # "part" /\ 0 \notin Numbers
  BY Basics, OwnFacts DEF IInv, NoJob, Job
<1>1. CASE Hangup
  BY <1>0, <1>1 DEF Hangup, TypeOK, FilesOK, Queued, Whole
<1>2. CASE Stop
  BY <1>0, <1>2 DEF Stop, TypeOK, FilesOK, Queued, Whole
<1>3. CASE UNCHANGED vars
  BY <1>0, <1>3 DEF vars, TypeOK, FilesOK, Queued, Whole
<1> QED
  BY <1>1, <1>2, <1>3

LEMMA MainPlaces ==
  ASSUME IInv, MainStep \/ ScanFails, NEW s \in Subs, Own(s)
  PROVE  PlaceOK(s)'
<1> USE SpoolerAssumption DEF disk, mainVars, printerVars, clientVars, countVars, history
<1>0. /\ TypeOK /\ LifeOK /\ DoneOK
      /\ num[s] \in Numbers /\ pc[s] # "new"
      /\ \A t \in Subs : num[t] = num[s] => t = s
      /\ data[num[s]] \in {None, s}
      /\ req[num[s]] \in {None, "part", s}
      /\ inode[s].of \in {None, s}
      /\ \A t \in Subs : file[t] = s => t = s
      /\ jp # NoJob /\ jp.id = num[s] => jp.sub = s
      /\ jp.sub = s => jp.id = num[s] /\ jp # NoJob
      /\ pfd # None /\ jp.sub # s => inode[pfd].of # s /\ pfd # s
      /\ pfd # None /\ jp.sub = s => pfd = s
      /\ FilesOK(s) /\ PlaceOK(s) /\ OnceOK(s)
      /\ NoJob.sub = None /\ None \notin Subs /\ "part" \notin Subs /\ None # "part" /\ 0 \notin Numbers
  BY Basics, OwnFacts DEF IInv, NoJob, Job
<1>1. CASE Start
  BY <1>0, <1>1 DEF Start, TypeOK, PlaceOK, Queued, FilesOK
<1>2. CASE ScanWake
  BY <1>0, <1>2 DEF ScanWake, Signalled, TypeOK, PlaceOK, Queued
<1>3. CASE ScanPurge
  BY <1>0, <1>3 DEF ScanPurge, TypeOK, PlaceOK, Queued
<1>4. CASE ScanDone
  BY <1>0, <1>4 DEF ScanDone, TypeOK, PlaceOK, Queued
<1>5. ASSUME NEW n \in Numbers, ScanJob(n) PROVE PlaceOK(s)'
  <2>1. PICK t \in Subs :
           /\ req[n] = t /\ num[t] = n /\ n \in todo /\ todo' = todo \ {n}
           /\ ~Queued(t) /\ jp.sub # t /\ pc[t] \in {"signal", "done"}
           /\ \A v : Queued(v)' <=> Queued(v) \/ v = t
    BY <1>5, ScanEffect
  <2>2. /\ main = "scan" /\ main' = "wake" /\ QueueNum' /\ OneEntry'
        /\ UNCHANGED <<jobfile, data, inode, req, cur, nextjob, prt, jp, pfd, pc, num, file, reply, stops,
                       printed, confirmed, dropped, unread, reused>>
    BY <1>5, ScanEffect
  <2> QED
    BY <1>0, <2>1, <2>2 DEF TypeOK, PlaceOK
<1>6. ASSUME NEW n \in Numbers, ScanPartial(n) PROVE PlaceOK(s)'
  BY <1>0, <1>6 DEF ScanPartial, TypeOK, PlaceOK, Queued, FilesOK
<1>7. ASSUME NEW n \in Numbers, ScanSkip(n) PROVE PlaceOK(s)'
  BY <1>0, <1>7 DEF ScanSkip, SkipFrame, Fault, TypeOK, PlaceOK, Queued, FilesOK
<1>8. ASSUME NEW n \in Numbers, ScanUnreadable(n) PROVE PlaceOK(s)'
  BY <1>0, <1>8 DEF ScanUnreadable, Fault, TypeOK, PlaceOK, Queued, FilesOK
<1>9. CASE ScanAbandon
  BY <1>0, <1>9 DEF ScanAbandon, SkipFrame, Fault, TypeOK, PlaceOK, Queued, FilesOK
<1> QED
  BY <1>1, <1>2, <1>3, <1>4, <1>5, <1>6, <1>7, <1>8, <1>9 DEF MainStep, ScanFails

LEMMA ClientPlaces ==
  ASSUME IInv, NEW c \in Subs, ClientStep(c), NEW s \in Subs, Own(s)
  PROVE  PlaceOK(s)'
<1> USE SpoolerAssumption DEF ClientFrame, Keep, At, mainVars
<1>0. /\ TypeOK /\ LifeOK /\ DoneOK
      /\ num[s] \in Numbers /\ pc[s] # "new"
      /\ \A t \in Subs : num[t] = num[s] => t = s
      /\ data[num[s]] \in {None, s}
      /\ req[num[s]] \in {None, "part", s}
      /\ inode[s].of \in {None, s}
      /\ \A t \in Subs : file[t] = s => t = s
      /\ jp # NoJob /\ jp.id = num[s] => jp.sub = s
      /\ jp.sub = s => jp.id = num[s] /\ jp # NoJob
      /\ pfd # None /\ jp.sub # s => inode[pfd].of # s /\ pfd # s
      /\ pfd # None /\ jp.sub = s => pfd = s
      /\ FilesOK(s) /\ PlaceOK(s) /\ OnceOK(s)
      /\ NoJob.sub = None /\ None \notin Subs /\ "part" \notin Subs /\ None # "part" /\ 0 \notin Numbers
  BY Basics, OwnFacts DEF IInv, NoJob, Job
<1>1. CASE BadHeader(c)
  BY <1>0, <1>1 DEF BadHeader, Refused, TypeOK, PlaceOK, Queued
<1>2. CASE GetNewJobno(c)
  <2>1. /\ main = "serve" /\ pc[c] = "new" /\ pc' = [pc EXCEPT ![c] = "creat"]
        /\ num[c] = 0 /\ nextjob \in Numbers /\ nextjob # 0 /\ num' = [num EXCEPT ![c] = nextjob]
        /\ \A t \in Subs : num[t] = nextjob => t # c /\ nextjob \in reused'
        /\ reused \subseteq reused'
        /\ UNCHANGED <<jobfile, data, inode, req, main, todo, cur, queue, prt, jp, pfd, file, reply,
                       stops, printed, confirmed, dropped, unread>>
    BY <1>2, NumberEffect
  <2>2. /\ pc'[c] = "creat" /\ num'[c] = nextjob
        /\ \A t \in Subs : t # c => pc'[t] = pc[t] /\ num'[t] = num[t]
    BY <1>0, <2>1 DEF TypeOK
  <2> QED
    BY <1>0, <2>1, <2>2 DEF TypeOK, PlaceOK, Queued
<1>3. CASE CreateData(c)
  <2>1. PICK i \in Subs : /\ data' = [data EXCEPT ![num[c]] = i]
                          /\ inode' = [inode EXCEPT ![i] = [of |-> c, closed |-> FALSE]]
                          /\ file' = [file EXCEPT ![c] = i]
                          /\ num[i] = num[c]
    BY <1>3, CreateEffect
  <2>2. /\ pc[c] = "creat" /\ pc' = [pc EXCEPT ![c] = "data"] /\ num[c] \in Numbers
        /\ UNCHANGED <<jobfile, req, main, todo, cur, nextjob, queue, prt, jp, pfd, num, reply, stops,
                       printed, confirmed, dropped, unread, reused>>
    BY <1>3, CreateEffect
  <2>3. /\ data'[num[c]] = i /\ \A m \in Numbers : m # num[c] => data'[m] = data[m]
        /\ inode'[i] = [of |-> c, closed |-> FALSE] /\ \A t \in Subs : t # i => inode'[t] = inode[t]
        /\ file'[c] = i /\ pc'[c] = "data" /\ \A t \in Subs : t # c => file'[t] = file[t] /\ pc'[t] = pc[t]
    BY <1>0, <2>1, <2>2 DEF TypeOK
  <2> QED
    BY <1>0, <2>1, <2>2, <2>3 DEF TypeOK, PlaceOK, Queued
<1>4. CASE CreateDataFails(c)
  BY <1>0, <1>4 DEF CreateDataFails, Refused, Fault, TypeOK, PlaceOK, Queued
<1>5. CASE CopyDataFails(c)
  BY <1>0, <1>5 DEF CopyDataFails, Refused, Fault, TypeOK, PlaceOK, Queued
<1>6. CASE EndOfData(c)
  <2>1. /\ pc[c] = "data" /\ num[c] \in Numbers /\ file[c] \in Subs /\ num[file[c]] = num[c]
        /\ inode' \in [Subs -> [of : Subs \cup {None}, closed : BOOLEAN]]
        /\ inode'[file[c]] = [of |-> inode[file[c]].of, closed |-> TRUE]
        /\ \A i \in Subs : i # file[c] => inode'[i] = inode[i]
        /\ \A i \in Subs : inode'[i].of = inode[i].of
        /\ UNCHANGED <<jobfile, data, main, todo, cur, nextjob, queue, prt, jp, pfd, num, file, stops,
                       printed, confirmed, dropped, unread, reused>>
    BY <1>6, CloseEffect
  <2>2. /\ pc' = [pc EXCEPT ![c] = "writereq"] /\ reply' = reply
        /\ req' = [req EXCEPT ![num[c]] = "part"]
    BY <1>6 DEF EndOfData
  <2>3. /\ pc'[c] = "writereq" /\ \A t \in Subs : t # c => pc'[t] = pc[t]
        /\ req'[num[c]] = "part" /\ \A m \in Numbers : m # num[c] => req'[m] = req[m]
    BY <1>0, <2>1, <2>2 DEF TypeOK
  <2> QED
    BY <1>0, <2>1, <2>2, <2>3 DEF TypeOK, PlaceOK, Queued
<1>7. CASE CreateReqFails(c)
  <2>1. /\ pc[c] = "data" /\ num[c] \in Numbers /\ file[c] \in Subs /\ num[file[c]] = num[c]
        /\ inode' \in [Subs -> [of : Subs \cup {None}, closed : BOOLEAN]]
        /\ inode'[file[c]] = [of |-> inode[file[c]].of, closed |-> TRUE]
        /\ \A i \in Subs : i # file[c] => inode'[i] = inode[i]
        /\ \A i \in Subs : inode'[i].of = inode[i].of
        /\ UNCHANGED <<jobfile, data, main, todo, cur, nextjob, queue, prt, jp, pfd, num, file, stops,
                       printed, confirmed, dropped, unread, reused>>
    BY <1>7, CloseEffect
  <2>2. /\ pc' = [pc EXCEPT ![c] = "unlinkdata"] /\ reply' = [reply EXCEPT ![c] = "refused"]
        /\ req' = req
    BY <1>7 DEF CreateReqFails, Refused
  <2>3. /\ pc'[c] = "unlinkdata" /\ reply'[c] = "refused"
        /\ \A t \in Subs : t # c => pc'[t] = pc[t] /\ reply'[t] = reply[t]
    BY <1>0, <2>1, <2>2 DEF TypeOK
  <2> QED
    BY <1>0, <2>1, <2>2, <2>3 DEF TypeOK, PlaceOK, Queued
<1>8. CASE WriteReq(c)
  BY <1>0, <1>8 DEF WriteReq, TypeOK, PlaceOK, Queued
<1>9. CASE WriteReqFails(c)
  BY <1>0, <1>9 DEF WriteReqFails, Refused, Fault, TypeOK, PlaceOK, Queued
<1>10. CASE UndoReq(c)
  BY <1>0, <1>10 DEF UndoReq, TypeOK, PlaceOK, Queued
<1>11. CASE UndoData(c)
  BY <1>0, <1>11 DEF UndoData, TypeOK, PlaceOK, Queued
<1>12. CASE ReplyOk(c)
  BY <1>0, <1>12 DEF ReplyOk, TypeOK, PlaceOK, Queued
<1>13. CASE AddJob(c)
  <2>1. /\ pc[c] = "add" /\ pc' = [pc EXCEPT ![c] = "signal"] /\ num[c] \in Numbers
        /\ ~Queued(c) /\ jp.sub # c /\ main = "serve" /\ todo = {}
        /\ QueueNum' /\ OneEntry' /\ \A v : Queued(v)' <=> Queued(v) \/ v = c
        /\ UNCHANGED <<jobfile, data, inode, req, main, todo, cur, nextjob, prt, jp, pfd, num, file, reply,
                       stops, printed, confirmed, dropped, unread, reused>>
    BY <1>13, AddEffect
  <2>2. pc'[c] = "signal" /\ \A t \in Subs : t # c => pc'[t] = pc[t]
    BY <1>0, <2>1 DEF TypeOK
  <2> QED
    BY <1>0, <2>1, <2>2 DEF TypeOK, PlaceOK
<1>14. CASE Signal(c)
  BY <1>0, <1>14 DEF Signal, Signalled, TypeOK, PlaceOK, Queued
<1> QED
  BY <1>1, <1>2, <1>3, <1>4, <1>5, <1>6, <1>7, <1>8, <1>9, <1>10, <1>11, <1>12, <1>13,
     <1>14 DEF ClientStep, Finish

LEMMA PrinterPlaces ==
  ASSUME IInv, PrinterStep \/ StatusOk \/ DeferJob, NEW s \in Subs, Own(s)
  PROVE  PlaceOK(s)'
<1> USE SpoolerAssumption DEF PrinterFrame, PrinterAt, mainVars, clientVars
<1>0. /\ TypeOK /\ LifeOK /\ DoneOK
      /\ num[s] \in Numbers /\ pc[s] # "new"
      /\ \A t \in Subs : num[t] = num[s] => t = s
      /\ data[num[s]] \in {None, s}
      /\ req[num[s]] \in {None, "part", s}
      /\ inode[s].of \in {None, s}
      /\ \A t \in Subs : file[t] = s => t = s
      /\ jp # NoJob /\ jp.id = num[s] => jp.sub = s
      /\ jp.sub = s => jp.id = num[s] /\ jp # NoJob
      /\ pfd # None /\ jp.sub # s => inode[pfd].of # s /\ pfd # s
      /\ pfd # None /\ jp.sub = s => pfd = s
      /\ FilesOK(s) /\ PlaceOK(s) /\ OnceOK(s)
      /\ NoJob.sub = None /\ None \notin Subs /\ "part" \notin Subs /\ None # "part" /\ 0 \notin Numbers
  BY Basics, OwnFacts DEF IInv, NoJob, Job
<1>1. CASE WaitForJob
  BY <1>0, <1>1 DEF WaitForJob, TypeOK, PlaceOK, Queued
<1>2. CASE PickUp
  <2>1. PICK j \in JobType :
           /\ jp' = j /\ num[j.sub] = j.id /\ Queued(j.sub)
           /\ QueueNum' /\ OneEntry' /\ \A v : Queued(v)' <=> Queued(v) /\ v # j.sub
           /\ prt = "get" /\ prt' = "jobno" /\ jp = NoJob /\ pfd = None
           /\ UNCHANGED <<jobfile, data, inode, req, main, todo, cur, nextjob, pfd, pc, num, file, reply,
                          stops, printed, confirmed, dropped, unread, reused>>
    BY <1>2, PickEffect
  <2> QED
    BY <1>0, <2>1 DEF TypeOK, PlaceOK
<1>3. CASE UpdateJobno
  BY <1>0, <1>3 DEF UpdateJobno, TypeOK, PlaceOK, Queued
<1>4. CASE CheckConfig
  BY <1>0, <1>4 DEF CheckConfig, TypeOK, PlaceOK, Queued
<1>5. CASE InitPrinter
  BY <1>0, <1>5 DEF InitPrinter, TypeOK, PlaceOK, Queued
<1>6. CASE OpenData
  BY <1>0, <1>6 DEF OpenData, TypeOK, PlaceOK, Queued
<1>7. CASE CancelJob
  BY <1>0, <1>7 DEF CancelJob, Fault, TypeOK, PlaceOK, Queued, LifeOK, DoneOK
<1>8. CASE SendJob
  BY <1>0, <1>8 DEF SendJob, TypeOK, PlaceOK, Queued
<1>9. CASE UnlinkData
  BY <1>0, <1>9 DEF UnlinkData, TypeOK, PlaceOK, Queued
<1>10. CASE UnlinkReq
  BY <1>0, <1>10 DEF UnlinkReq, TypeOK, PlaceOK, Queued, LifeOK, DoneOK
<1>11. CASE ReplaceJob
  <2>1. /\ jp \in JobType /\ num[jp.sub] = jp.id /\ ~Queued(jp.sub)
        /\ jp' = NoJob /\ pfd' = None /\ prt = "defer" /\ prt' = "get"
        /\ QueueNum' /\ OneEntry' /\ \A v : Queued(v)' <=> Queued(v) \/ v = jp.sub
        /\ UNCHANGED <<jobfile, data, inode, req, main, todo, cur, nextjob, pc, num, file, reply,
                       stops, printed, confirmed, dropped, unread, reused>>
    BY <1>11, ReplaceEffect
  <2> QED
    BY <1>0, <2>1 DEF TypeOK, PlaceOK
<1>12. CASE StatusOk
  BY <1>0, <1>12 DEF StatusOk, TypeOK, PlaceOK, Queued
<1>13. CASE DeferJob
  BY <1>0, <1>13 DEF DeferJob, TypeOK, PlaceOK, Queued
<1> QED
  BY <1>1, <1>2, <1>3, <1>4, <1>5, <1>6, <1>7, <1>8, <1>9, <1>10, <1>11, <1>12, <1>13 DEF
     PrinterStep

LEMMA OtherPlaces ==
  ASSUME IInv, Hangup \/ Stop \/ UNCHANGED vars, NEW s \in Subs, Own(s)
  PROVE  PlaceOK(s)'
<1> USE SpoolerAssumption DEF disk, mainVars, printerVars, clientVars, countVars, history
<1>0. /\ TypeOK /\ LifeOK /\ DoneOK
      /\ num[s] \in Numbers /\ pc[s] # "new"
      /\ \A t \in Subs : num[t] = num[s] => t = s
      /\ data[num[s]] \in {None, s}
      /\ req[num[s]] \in {None, "part", s}
      /\ inode[s].of \in {None, s}
      /\ \A t \in Subs : file[t] = s => t = s
      /\ jp # NoJob /\ jp.id = num[s] => jp.sub = s
      /\ jp.sub = s => jp.id = num[s] /\ jp # NoJob
      /\ pfd # None /\ jp.sub # s => inode[pfd].of # s /\ pfd # s
      /\ pfd # None /\ jp.sub = s => pfd = s
      /\ FilesOK(s) /\ PlaceOK(s) /\ OnceOK(s)
      /\ NoJob.sub = None /\ None \notin Subs /\ "part" \notin Subs /\ None # "part" /\ 0 \notin Numbers
  BY Basics, OwnFacts DEF IInv, NoJob, Job
<1>1. CASE Hangup
  BY <1>0, <1>1 DEF Hangup, TypeOK, PlaceOK, Queued
<1>2. CASE Stop
  BY <1>0, <1>2 DEF Stop, TypeOK, PlaceOK, Queued
<1>3. CASE UNCHANGED vars
  BY <1>0, <1>3 DEF vars, TypeOK, PlaceOK, Queued
<1> QED
  BY <1>1, <1>2, <1>3

-----------------------------------------------------------------------------
LEMMA Inductive ==
  ASSUME IInv, [Next]_vars
  PROVE  IInv'
<1>1. CASE MainStep \/ ScanFails
  <2>1. TypeOK' /\ LifeOK' /\ OneEntry' /\ DoneOK'
    BY <1>1, MainTypes, MainLife, MainOneEntries, MainDones
  <2>2. NumOK'
    BY <1>1, MainSubNums, MainFileNums, MainOwners, MainQueueNums, MainJobNums, MainPrintedNums DEF NumOK
  <2>3. \A s \in Subs : (OnceOK(s) /\ ConfirmedOK(s))'
    BY <1>1, MainOnces, MainConfirmations
  <2>4. ASSUME NEW s \in Subs, Own(s)' PROVE FilesOK(s)' /\ PlaceOK(s)'
    BY <1>1, <2>4, OwnBefore, NewNumber, MainFiles, MainPlaces
  <2> QED
    BY <2>1, <2>2, <2>3, <2>4 DEF IInv
<1>2. CASE PrinterStep \/ StatusOk \/ DeferJob
  <2>1. TypeOK' /\ LifeOK' /\ OneEntry' /\ DoneOK'
    BY <1>2, PrinterTypes, PrinterLife, PrinterOneEntries, PrinterDones
  <2>2. NumOK'
    BY <1>2, PrinterSubNums, PrinterFileNums, PrinterOwners, PrinterQueueNums, PrinterJobNums,
       PrinterPrintedNums DEF NumOK
  <2>3. \A s \in Subs : (OnceOK(s) /\ ConfirmedOK(s))'
    BY <1>2, PrinterOnces, PrinterConfirmations
  <2>4. ASSUME NEW s \in Subs, Own(s)' PROVE FilesOK(s)' /\ PlaceOK(s)'
    BY <1>2, <2>4, OwnBefore, NewNumber, PrinterFiles, PrinterPlaces
  <2> QED
    BY <2>1, <2>2, <2>3, <2>4 DEF IInv
<1>3. ASSUME NEW c \in Subs, ClientStep(c) PROVE IInv'
  <2>1. TypeOK' /\ LifeOK' /\ OneEntry' /\ DoneOK'
    BY <1>3, ClientTypes, ClientLife, ClientOneEntries, ClientDones
  <2>2. NumOK'
    BY <1>3, ClientSubNums, ClientFileNums, ClientOwners, ClientQueueNums, ClientJobNums,
       ClientPrintedNums DEF NumOK
  <2>3. \A s \in Subs : (OnceOK(s) /\ ConfirmedOK(s))'
    BY <1>3, ClientOnces, ClientConfirmations
  <2>4. ASSUME NEW s \in Subs, Own(s)' PROVE FilesOK(s)' /\ PlaceOK(s)'
    BY <1>3, <2>4, OwnBefore, NewNumber, ClientFiles, ClientPlaces
  <2> QED
    BY <2>1, <2>2, <2>3, <2>4 DEF IInv
<1>4. CASE Hangup \/ Stop \/ UNCHANGED vars
  <2>1. TypeOK' /\ LifeOK' /\ OneEntry' /\ DoneOK'
    BY <1>4, OtherTypes, OtherLife, OtherOneEntries, OtherDones
  <2>2. NumOK'
    BY <1>4, OtherSubNums, OtherFileNums, OtherOwners, OtherQueueNums, OtherJobNums,
       OtherPrintedNums DEF NumOK
  <2>3. \A s \in Subs : (OnceOK(s) /\ ConfirmedOK(s))'
    BY <1>4, OtherOnces, OtherConfirmations
  <2>4. ASSUME NEW s \in Subs, Own(s)' PROVE FilesOK(s)' /\ PlaceOK(s)'
    BY <1>4, <2>4, OwnBefore, NewNumber, OtherFiles, OtherPlaces
  <2> QED
    BY <2>1, <2>2, <2>3, <2>4 DEF IInv
<1> QED
  BY <1>1, <1>2, <1>3, <1>4 DEF Next

(* The inductive invariant holds of the spooler, whichever way its threads *)
(* interleave and wherever the daemon stops and is started again.          *)
THEOREM Invariant == Spec => []IInv
<1>1. ASSUME Init PROVE IInv
  <2>1. TypeOK
    <3>1. 0 \in 0..MaxJob /\ 0 \in Nat
      BY SpoolerAssumption DEF SpoolerAssumption
    <3>2. queue \in Seq([id : Numbers, sub : Subs]) /\ jp \in [id : Numbers, sub : Subs] \cup {NoJob}
      BY <1>1 DEF Init
    <3>3. inode \in [Subs -> [of : Subs \cup {None}, closed : BOOLEAN]]
      BY <1>1 DEF Init
    <3>4. confirmed \in [Subs -> Nat] /\ num \in [Subs -> 0..MaxJob]
      BY <1>1, <3>1 DEF Init
    <3> QED
      BY <1>1, <3>1, <3>2, <3>3, <3>4 DEF Init, TypeOK
  <2>2. NumOK
    BY <1>1, SpoolerAssumption
    DEF SpoolerAssumption, Init, NumOK, SubNum, FileNum, OneOwner, QueueNum, JobNum, NoJob, Job
  <2>3. \A s \in Subs : OnceOK(s) /\ ConfirmedOK(s) /\ ~Own(s)
    <3>1. NoJob.sub = None /\ None \notin Subs
      BY SpoolerAssumption DEF SpoolerAssumption, NoJob, Job
    <3> QED
      BY <1>1, <3>1 DEF Init, OnceOK, ConfirmedOK, Queued, ToFind, Own
  <2>4. LifeOK /\ OneEntry /\ DoneOK
    BY <1>1 DEF Init, LifeOK, OneEntry, DoneOK
  <2> QED
    BY <2>1, <2>2, <2>3, <2>4 DEF IInv
<1>2. IInv /\ [Next]_vars => IInv'
  BY Inductive
<1> QED
  BY <1>1, <1>2, PTL DEF Spec

(* A job the print command was told of, and whose number nobody else got,  *)
(* is on disk and complete until the printer has confirmed it: the files   *)
(* are written before the reply and removed after printer_status returns   *)
(* 1, and build_qonstart removes no complete request but one that it       *)
(* cannot read.                                                            *)
THEOREM Acknowledged == Spec => []AckedOnDisk
<1>1. ASSUME IInv PROVE AckedOnDisk
  <2>1. ASSUME NEW s \in Subs, Waiting(s)
        PROVE  /\ req[num[s]] = s
               /\ data[num[s]] # None /\ inode[data[num[s]]] = [of |-> s, closed |-> TRUE]
    <3>1. Own(s)
      BY <1>1, <2>1 DEF IInv, NumOK, SubNum, Own, Waiting
    <3>2. FilesOK(s) /\ None \notin Subs
      BY <1>1, <3>1, Basics DEF IInv
    <3> QED
      BY <2>1, <3>2 DEF FilesOK, Waiting, Whole
  <2> QED
    BY <2>1 DEF AckedOnDisk
<1> QED
  BY <1>1, Invariant, PTL

(* The variables keep their types; while the daemon serves, such a job is  *)
(* in the queue once, with printer_thread or with its client_thread, and   *)
(* never in two of these places.                                           *)
THEOREM Held == Spec => []HeldOnce
<1>1. ASSUME IInv PROVE HeldOnce
  <2>1. TypeOK
    BY <1>1, Basics
  <2>2. ASSUME main = "serve", NEW s \in Subs, Waiting(s), s \notin dropped
        PROVE  Cardinality(Holders(s)) = 1
    <3>1. Own(s)
      BY <1>1, <2>2 DEF IInv, NumOK, SubNum, Own, Waiting
    <3>2. PlaceOK(s) /\ OnceOK(s) /\ LifeOK /\ OneEntry
      BY <1>1, <3>1 DEF IInv
    <3>3. Queued(s) \/ jp.sub = s \/ pc[s] = "add"
      BY <2>2, <3>2 DEF PlaceOK, LifeOK, Waiting
    <3>4. \E h : Holders(s) = {h}
      <4>1. CASE Queued(s)
        <5>1. jp.sub # s /\ pc[s] # "add"
          BY <3>2, <4>1 DEF OnceOK
        <5>2. PICK k \in DOMAIN queue : queue[k].sub = s
          BY <4>1 DEF Queued
        <5>3. {j \in DOMAIN queue : queue[j].sub = s} = {k}
          BY <3>2, <5>2 DEF OneEntry
        <5> QED
          BY <5>1, <5>3 DEF Holders
      <4>2. CASE ~Queued(s)
        <5>1. {j \in DOMAIN queue : queue[j].sub = s} = {}
          BY <4>2 DEF Queued
        <5>2. CASE jp.sub = s
          <6>1. pc[s] # "add"
            BY <3>2, <5>2 DEF OnceOK
          <6>2. Holders(s) = {0}
            BY <5>1, <5>2, <6>1 DEF Holders
          <6> QED
            BY <6>2
        <5>3. CASE jp.sub # s
          <6>1. Holders(s) = {-1}
            BY <3>3, <4>2, <5>1, <5>3 DEF Holders
          <6> QED
            BY <6>1
        <5> QED
          BY <5>2, <5>3
      <4> QED
        BY <4>1, <4>2
    <3> QED
      BY <3>4, FS_Singleton
  <2> QED
    BY <2>1, <2>2 DEF HeldOnce
<1> QED
  BY <1>1, Invariant, PTL

(* What the printer gets is the file as the client thread left it, never   *)
(* one still being written, though build_qonstart rebuilds the queue from  *)
(* what a stopped daemon left on disk.                                     *)
THEOREM Finished == Spec => []PrintsFinishedFiles
<1>1. ASSUME IInv PROVE PrintsFinishedFiles
  <2>1. ASSUME NEW p \in printed, num[p.of] \notin reused PROVE p.closed
    <3>1. p.of \in Subs /\ Own(p.of)
      BY <1>1, <2>1, Basics DEF TypeOK, NumOK, Own
    <3> QED
      BY <1>1, <3>1 DEF IInv, FilesOK
  <2> QED
    BY <2>1 DEF PrintsFinishedFiles
<1> QED
  BY <1>1, Invariant, PTL

(* A submission that was told of an error is not printed, not even after a *)
(* restart found what was left of it.                                      *)
THEOREM NotPrinted == Spec => []RefusedNotPrinted
<1>1. ASSUME IInv PROVE RefusedNotPrinted
  <2>1. ASSUME NEW p \in printed, num[p.of] \notin reused PROVE reply[p.of] # "refused"
    <3>1. p.of \in Subs /\ Own(p.of)
      BY <1>1, <2>1, Basics DEF TypeOK, NumOK, Own
    <3> QED
      BY <1>1, <3>1 DEF IInv, FilesOK
  <2> QED
    BY <2>1 DEF RefusedNotPrinted
<1> QED
  BY <1>1, Invariant, PTL

(* A job is confirmed no more often than there were lives of the daemon:   *)
(* only a stop between printer_status and the removal of the files sends   *)
(* it again.                                                               *)
THEOREM Confirmed == Spec => []ConfirmedOncePerLife
<1>1. IInv => ConfirmedOncePerLife
  BY DEF IInv, ConfirmedOK, ConfirmedOncePerLife
<1> QED
  BY <1>1, Invariant, PTL

-----------------------------------------------------------------------------
(* The numbers.  While the daemon has never stopped with numbers that the  *)
(* job file did not know of, they have been given out one after the other  *)
(* (until the last submission has one, after which the counter may wrap).  *)
Given == {s \in Subs : num[s] # 0}
FileNumber == IF jobfile = 0 THEN 1 ELSE jobfile
NextNumber == IF main = "down" THEN FileNumber ELSE nextjob

CountInv ==
  ~lagged =>
    /\ reused = {}
    /\ \A s \in Subs : num[s] <= Cardinality(Given)
    /\ Given # Subs =>
         /\ NextNumber = Cardinality(Given) + 1
         /\ jobfile <= NextNumber
         /\ main # "down" /\ ~fresh => nextjob = FileNumber

LEMMA CountStill ==
  ASSUME CountInv, UNCHANGED <<jobfile, nextjob, num, reused, fresh, lagged>>,
         main = "down" <=> main' = "down"
  PROVE  CountInv'
<1>1. Given' = Given /\ FileNumber' = FileNumber /\ NextNumber' = NextNumber
  BY DEF Given, FileNumber, NextNumber
<1> QED
  BY <1>1 DEF CountInv

(* As long as there are no more submissions than numbers, the next number  *)
(* is new.                                                                 *)
LEMMA NumberCounted ==
  ASSUME IInv, CountInv, Cardinality(Subs) <= MaxJob, NEW c \in Subs, GetNewJobno(c)
  PROVE  CountInv'
<1>1. /\ main = "serve" /\ num[c] = 0 /\ nextjob \in Numbers /\ nextjob # 0
      /\ num' = [num EXCEPT ![c] = nextjob] /\ UNCHANGED <<jobfile, main>>
  BY NumberEffect
<1>2. /\ nextjob' = IF nextjob = MaxJob THEN 1 ELSE nextjob + 1
      /\ reused' = IF \E t \in Subs : num[t] = nextjob THEN reused \cup {nextjob} ELSE reused
      /\ fresh' = TRUE /\ lagged' = lagged
  BY DEF GetNewJobno, ClientFrame
<1>3. num \in [Subs -> 0..MaxJob] /\ MaxJob \in Nat
  BY Basics DEF TypeOK
<1>4. SUFFICES ASSUME ~lagged
               PROVE  /\ reused' = {}
                      /\ \A s \in Subs : num'[s] <= Cardinality(Given')
                      /\ Given' # Subs => nextjob' = Cardinality(Given') + 1 /\ jobfile <= nextjob'
  BY <1>1, <1>2 DEF CountInv, NextNumber
<1>5. /\ IsFiniteSet(Given) /\ Cardinality(Given) \in Nat /\ Cardinality(Subs) \in Nat
      /\ Given # Subs /\ Given \subseteq Subs /\ IsFiniteSet(Subs)
  BY <1>1, SpoolerAssumption, FS_Subset, FS_CardinalityType DEF Given, SpoolerAssumption
<1>6. Cardinality(Given) < Cardinality(Subs)
  BY <1>5, FS_Subset
<1>7. nextjob = Cardinality(Given) + 1 /\ jobfile <= nextjob /\ jobfile \in Nat
  BY <1>1, <1>4, <1>5, Basics DEF CountInv, NextNumber, TypeOK
<1>8. \A t \in Subs : num[t] \in Nat /\ num[t] <= Cardinality(Given) /\ num[t] # nextjob
  BY <1>3, <1>4, <1>5, <1>7 DEF CountInv
<1>9. Given' = Given \cup {c} /\ c \notin Given
  BY <1>1, <1>3 DEF Given
<1>10. Cardinality(Given') = Cardinality(Given) + 1
  BY <1>5, <1>9, FS_AddElement
<1>11. \A s \in Subs : num'[s] <= Cardinality(Given')
  <2>1. \A s \in Subs : num'[s] = IF s = c THEN nextjob ELSE num[s]
    BY <1>1, <1>3
  <2> QED
    BY <1>5, <1>7, <1>8, <1>10, <2>1
<1>12. reused' = {}
  BY <1>2, <1>4, <1>8 DEF CountInv
<1>13. ASSUME Given' # Subs PROVE nextjob' = Cardinality(Given') + 1 /\ jobfile <= nextjob'
  <2>1. PICK G : G = Given \cup {c} /\ G = Given' /\ G \in SUBSET Subs
    BY <1>5, <1>9
  <2>2. Cardinality(G) < Cardinality(Subs)
    <3>1. G # Subs /\ IsFiniteSet(G)
      BY <1>5, <1>13, <2>1, FS_Subset
    <3>2. Cardinality(G) <= Cardinality(Subs) /\ Cardinality(G) # Cardinality(Subs)
      BY <1>5, <2>1, <3>1, FS_Subset
    <3> QED
      BY <1>5, <3>1, <3>2, FS_CardinalityType
  <2> QED
    <3>1. nextjob = Cardinality(Given') /\ nextjob \in Nat
      BY <1>5, <1>7, <1>10
    <3>2. Cardinality(G) = Cardinality(Given')
      BY <2>1
    <3>3. nextjob < MaxJob
      BY <1>3, <1>5, <2>2, <3>1, <3>2
    <3>4. nextjob' = nextjob + 1
      BY <1>2, <1>3, <3>1, <3>3
    <3> QED
      BY <1>7, <3>1, <3>4
<1> QED
  BY <1>11, <1>12, <1>13

LEMMA CountInductive ==
  ASSUME IInv, CountInv, Cardinality(Subs) <= MaxJob, [Next]_vars
  PROVE  CountInv'
<1>0. TypeOK /\ LifeOK /\ 0 \notin Numbers
  BY Basics
<1>1. CASE Start
  <2>1. /\ main = "down" /\ main' = "scan" /\ nextjob' = FileNumber
        /\ UNCHANGED <<jobfile, num, reused, fresh, lagged>>
    BY <1>1 DEF Start, FileNumber, disk, clientVars, history
  <2>2. Given' = Given /\ FileNumber' = FileNumber /\ NextNumber' = NextNumber
    BY <2>1 DEF Given, FileNumber, NextNumber
  <2> QED
    BY <2>1, <2>2 DEF CountInv
<1>2. CASE UpdateJobno
  <2>1. /\ nextjob >= jobfile => jobfile' = nextjob
        /\ fresh' = FALSE /\ prt = "jobno"
        /\ UNCHANGED <<main, nextjob, num, reused, lagged>>
    BY <1>2 DEF UpdateJobno, PrinterAt, PrinterFrame, mainVars, clientVars
  <2>2. main # "down" /\ nextjob # 0 /\ nextjob \in Nat /\ jobfile \in Nat
    BY <1>0, <2>1 DEF LifeOK, TypeOK
  <2>3. Given' = Given /\ NextNumber = nextjob /\ NextNumber' = nextjob
    BY <2>1, <2>2 DEF Given, NextNumber
  <2>4. ASSUME ~lagged, Given # Subs PROVE jobfile' = nextjob /\ FileNumber' = nextjob
    <3>1. nextjob >= jobfile
      BY <2>2, <2>3, <2>4 DEF CountInv
    <3> QED
      BY <2>1, <2>2, <3>1 DEF FileNumber
  <2> QED
    BY <2>1, <2>2, <2>3, <2>4 DEF CountInv
<1>3. CASE Stop
  <2>1. /\ main # "down" /\ main' = "down" /\ lagged' = (lagged \/ fresh)
        /\ UNCHANGED <<jobfile, num, reused, fresh>>
    BY <1>3 DEF Stop, disk
  <2>2. Given' = Given /\ FileNumber' = FileNumber
    BY <2>1 DEF Given, FileNumber
  <2>3. ~lagged' => ~lagged /\ (Given # Subs => NextNumber' = NextNumber)
    BY <2>1, <2>2 DEF NextNumber, CountInv
  <2> QED
    BY <2>1, <2>2, <2>3 DEF CountInv
<1>4. ASSUME NEW c \in Subs, ClientStep(c) PROVE CountInv'
  <2>1. CASE GetNewJobno(c)
    BY <2>1, NumberCounted
  <2>2. CASE ~GetNewJobno(c)
    <3>1. UNCHANGED <<jobfile, main, nextjob, num, reused, fresh, lagged>>
      BY <1>4, <2>2 DEF ClientStep, Finish, BadHeader, CreateData, CreateDataFails, CopyDataFails, EndOfData,
         CreateReqFails, WriteReq, WriteReqFails, UndoReq, UndoData, ReplyOk, AddJob, Signal, Keep,
         ClientFrame, mainVars
    <3> QED
      BY <3>1, CountStill
  <2> QED
    BY <2>1, <2>2
<1>5. CASE (MainStep /\ ~Start) \/ ScanFails
  <2>1. /\ UNCHANGED <<jobfile, nextjob, num, reused, fresh, lagged>>
        /\ main # "down" /\ main' # "down"
    BY <1>5 DEF MainStep, ScanWake, ScanPurge, ScanDone, ScanJob, ScanPartial, ScanFails,
       ScanSkip, ScanAbandon, ScanUnreadable, SkipFrame, disk, clientVars, history
  <2> QED
    BY <2>1, CountStill
<1>6. CASE (PrinterStep /\ ~UpdateJobno) \/ StatusOk \/ DeferJob
  <2>1. UNCHANGED <<jobfile, main, nextjob, num, reused, fresh, lagged>>
    BY <1>6 DEF PrinterStep, WaitForJob, PickUp, CheckConfig, InitPrinter, OpenData, CancelJob,
       SendJob, UnlinkData, UnlinkReq, ReplaceJob, StatusOk, DeferJob, PrinterFrame, clientVars, mainVars
  <2> QED
    BY <2>1, CountStill
<1>7. CASE Hangup \/ UNCHANGED vars
  <2>1. UNCHANGED <<jobfile, main, nextjob, num, reused, fresh, lagged>>
    BY <1>7 DEF Hangup, vars, disk, mainVars, clientVars, history
  <2> QED
    BY <2>1, CountStill
<1> QED
  BY <1>1, <1>2, <1>3, <1>4, <1>5, <1>6, <1>7 DEF Next, MainStep, PrinterStep

(* Up to the wrap-around of get_newjobno, a number is handed out twice     *)
(* only after a stop at a time when numbers had been handed out since      *)
(* update_jobno last wrote the job file.                                   *)
THEOREM NumbersReused ==
  ASSUME Cardinality(Subs) <= MaxJob
  PROVE  Spec => []ReuseNeedsLag
<1>1. ASSUME Init PROVE CountInv
  <2>1. Given = {} /\ NextNumber = 1 /\ reused = {} /\ main = "down" /\ \A s \in Subs : num[s] = 0
    BY <1>1 DEF Init, Given, NextNumber, FileNumber
  <2>2. Cardinality(Given) = 0 /\ jobfile = 0
    BY <1>1, <2>1, FS_EmptySet DEF Init
  <2> QED
    BY <2>1, <2>2 DEF CountInv
<1>2. IInv /\ CountInv /\ [Next]_vars => CountInv'
  BY CountInductive
<1>3. CountInv => ReuseNeedsLag
  BY DEF CountInv, ReuseNeedsLag
<1> QED
  BY <1>1, <1>2, <1>3, Invariant, PTL DEF Spec
====
