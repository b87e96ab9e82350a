------------------------------- MODULE Spooler -------------------------------
(***************************************************************************)
(* The print spooler of linux/apue.3e.exs/apue3/apue.3e/printer: the       *)
(* daemon printd.c and, as far as the daemon sees them, the print command  *)
(* (print.c), the printer and the administrator.                           *)
(*                                                                         *)
(* Threads: main (rebuilds the queue from the spool directory, then starts *)
(* a thread per connection), one client thread per submission, the printer *)
(* thread and the signal thread.  The job counter, the data file and the   *)
(* control file of each job are on disk and outlive the daemon, which may  *)
(* stop between any two steps (SIGTERM, exit or a crash; the machine stays *)
(* up, so the files are as the daemon left them).  What a thread does      *)
(* under joblock or configlock is one step.  A job file is named by its    *)
(* number; an open file is its inode, named after the submission that      *)
(* created it.  The bytes of a request are the submission they belong to.  *)
(***************************************************************************)
EXTENDS Integers, Sequences, FiniteSets, SequencesExt

CONSTANTS
  Subs,        \* submissions: runs of the print command
  MaxJob,      \* the largest job number (2^31 - 1 in the code)
  MaxStops,    \* how often the daemon stops (bound)
  MaxFaults,   \* how many file operations fail (bound)
  None

ASSUME SpoolerAssumption ==
  /\ IsFiniteSet(Subs) /\ None \notin Subs /\ "part" \notin Subs /\ None # "part"
  /\ MaxJob \in Nat \ {0}
  /\ MaxStops \in Nat /\ MaxFaults \in Nat

Numbers == 1..MaxJob
Job(n, s) == [id |-> n, sub |-> s]
NoJob == Job(0, None)

VARIABLES
  jobfile,     \* number in the job file, 0 if the file is empty
  data,        \* data directory: number -> inode or None
  inode,       \* what the data files hold: whose data, and whether it is all written
  req,         \* control directory: number -> None, "part" or the submission
  main,        \* main: down, scan, purge, wake, serve
  todo,        \* directory entries build_qonstart has not seen
  cur,         \* the entry build_qonstart works on
  nextjob, queue, reread,
  stale,       \* `printer' is older than what the last SIGHUP was about
  pc,          \* where the client thread of each submission is
  num,         \* jobid of the client thread, 0 before it has one
  file,        \* inode the client thread has open
  prt,         \* where the printer thread is
  jp,          \* its job
  pfd,         \* inode it has open
  reply,       \* what the print command was told: none, ok, refused
  faults, stops,
  (* history *)
  printed,     \* what the printer has received: contents of data files
  confirmed,   \* how often the printer's success was read, by submission
  dropped,     \* submissions whose queue entry a failed open or opendir has removed
  unread,      \* submissions whose request a failed read has removed from the disk
  reused,      \* job numbers handed out twice
  fresh,       \* a number was handed out since the job file was written
  lagged       \* the daemon has stopped while fresh was TRUE

disk == <<jobfile, data, inode, req>>
mainVars == <<main, todo, cur>>
printerVars == <<prt, jp, pfd, stale>>
clientVars == <<pc, num, file, reply>>
countVars == <<faults, stops>>
history == <<printed, confirmed, dropped, unread, reused, fresh, lagged>>
vars == <<disk, mainVars, nextjob, queue, reread, printerVars, clientVars, countVars, history>>

Init ==
  /\ jobfile = 0
  /\ data = [n \in Numbers |-> None]
  /\ inode = [s \in Subs |-> [of |-> None, closed |-> FALSE]]
  /\ req = [n \in Numbers |-> None]
  /\ main = "down" /\ todo = {} /\ cur = 0
  /\ nextjob = 0 /\ queue = <<>> /\ reread = FALSE
  /\ stale = FALSE /\ prt = "down" /\ jp = NoJob /\ pfd = None
  /\ pc = [s \in Subs |-> "new"]
  /\ num = [s \in Subs |-> 0]
  /\ file = [s \in Subs |-> None]
  /\ reply = [s \in Subs |-> "none"]
  /\ faults = 0 /\ stops = 0
  /\ printed = {}
  /\ confirmed = [s \in Subs |-> 0]
  /\ dropped = {} /\ unread = {} /\ reused = {} /\ fresh = FALSE /\ lagged = FALSE

(* A system call fails that normally does not (no space, no descriptor). *)
Fault == faults < MaxFaults /\ faults' = faults + 1

-----------------------------------------------------------------------------
(* main *)

(* init_request and init_printer; the printer and signal threads start.    *)
(* The record lock on the job file keeps a second daemon out.  (If the     *)
(* configuration cannot be read the daemon is down again.)                 *)
Start ==
  /\ main = "down"
  /\ nextjob' = IF jobfile = 0 THEN 1 ELSE jobfile
  /\ stale' = FALSE
  /\ main' = "scan"
  /\ todo' = {n \in Numbers : req[n] # None}
  /\ prt' = "get"
  /\ UNCHANGED <<disk, cur, queue, reread, jp, pfd, clientVars, countVars, history>>

(* build_qonstart: a complete request is queued (add_job). *)
ScanJob(n) ==
  /\ main = "scan"
  /\ n \in todo
  /\ req[n] \in Subs
  /\ queue' = Append(queue, Job(n, req[n]))
  /\ main' = "wake"
  /\ todo' = todo \ {n}
  /\ UNCHANGED <<disk, cur, nextjob, reread, printerVars, clientVars, countVars, history>>

(* add_job: pthread_cond_signal, after the unlock. *)
Signalled == prt' = IF prt = "waiting" THEN "get" ELSE prt

ScanWake ==
  /\ main = "wake"
  /\ Signalled
  /\ main' = "scan"
  /\ UNCHANGED <<disk, todo, cur, nextjob, queue, reread, jp, pfd, stale, clientVars, countVars, history>>

(* Mutant: a request that was cut short is queued all the same. *)
ScanPartial_Queued(n) ==
  /\ main = "scan"
  /\ n \in todo
  /\ req[n] = "part"
  /\ data[n] # None
  /\ queue' = Append(queue, Job(n, inode[data[n]].of))
  /\ main' = "wake"
  /\ todo' = todo \ {n}
  /\ UNCHANGED <<disk, cur, nextjob, reread, printerVars, clientVars, countVars, history>>

(* build_qonstart: a request that was cut short is removed, control file   *)
(* first.                                                                  *)
ScanPartial(n) ==
  /\ main = "scan"
  /\ n \in todo
  /\ req[n] = "part"
  /\ req' = [req EXCEPT ![n] = None]
  /\ main' = "purge"
  /\ cur' = n
  /\ todo' = todo \ {n}
  /\ UNCHANGED <<jobfile, data, inode, nextjob, queue, reread, printerVars, clientVars, countVars,
                 history>>

ScanPurge ==
  /\ main = "purge"
  /\ data' = [data EXCEPT ![cur] = None]
  /\ main' = "scan"
  /\ cur' = 0
  /\ UNCHANGED <<jobfile, inode, req, todo, nextjob, queue, reread, printerVars, clientVars, countVars, history>>

(* build_qonstart: the read of a complete request fails, and it is removed *)
(* like one that was cut short.                                            *)
ScanUnreadable(n) ==
  /\ main = "scan"
  /\ n \in todo
  /\ req[n] \in Subs
  /\ Fault
  /\ req' = [req EXCEPT ![n] = None]
  /\ main' = "purge"
  /\ cur' = n
  /\ todo' = todo \ {n}
  /\ unread' = unread \cup {req[n]}
  /\ UNCHANGED <<jobfile, data, inode, nextjob, queue, reread, printerVars, clientVars, stops, printed, confirmed, dropped, reused, fresh, lagged>>

SkipFrame == UNCHANGED <<disk, main, cur, nextjob, queue, reread, printerVars, clientVars, stops, printed, confirmed, unread, reused, fresh, lagged>>

(* build_qonstart: a control file that cannot be opened is passed over. *)
ScanSkip(n) ==
  /\ main = "scan"
  /\ n \in todo
  /\ Fault
  /\ todo' = todo \ {n}
  /\ dropped' = dropped \cup ({req[n]} \cap Subs)
  /\ SkipFrame

(* build_qonstart: opendir fails, or readdir does (NULL, as at the end):   *)
(* what has not been seen is not queued in this life of the daemon.        *)
ScanAbandon ==
  /\ main = "scan"
  /\ todo # {}
  /\ Fault
  /\ todo' = {}
  /\ dropped' = dropped \cup ({req[n] : n \in todo} \cap Subs)
  /\ SkipFrame

ScanDone ==
  /\ main = "scan"
  /\ todo = {}
  /\ main' = "serve"
  /\ UNCHANGED <<disk, todo, cur, nextjob, queue, reread, printerVars, clientVars, countVars, history>>

-----------------------------------------------------------------------------
(* client_thread *)

At(s, from, to) == pc[s] = from /\ pc' = [pc EXCEPT ![s] = to]
ClientFrame == UNCHANGED <<jobfile, mainVars, reread, jp, pfd, stale, stops, printed, confirmed, dropped,
                           unread, lagged>>
(* The counter and the queue, what the thread knows, and what it has told. *)
Keep == UNCHANGED <<nextjob, queue, prt, reused, fresh>>

(* An error is reported to the print command. *)
Refused(s) == reply' = [reply EXCEPT ![s] = "refused"]

(* The print command connects (submit_file) and main starts a thread; the  *)
(* header does not arrive whole in time.                                   *)
BadHeader(s) ==
  /\ main = "serve"
  /\ At(s, "new", "done")
  /\ Refused(s)
  /\ ClientFrame /\ Keep /\ UNCHANGED <<data, inode, req, num, file, faults>>

(* The same, and the header arrives; get_newjobno. *)
GetNewJobno(s) ==
  /\ main = "serve"
  /\ At(s, "new", "creat")
  /\ num' = [num EXCEPT ![s] = nextjob]
  /\ nextjob' = IF nextjob = MaxJob THEN 1 ELSE nextjob + 1
  /\ reused' = IF \E t \in Subs : num[t] = nextjob THEN reused \cup {nextjob} ELSE reused
  /\ fresh' = TRUE
  /\ ClientFrame /\ UNCHANGED <<data, inode, req, queue, prt, file, reply, faults>>

(* Mutant: the control file is written first. *)
CreateData_AfterReq(s) ==
  /\ At(s, "creat", "data")
  /\ LET n == num[s]
         i == IF data[n] = None THEN s ELSE data[n]
     IN  /\ data' = [data EXCEPT ![n] = i]
         /\ req' = [req EXCEPT ![n] = s]
         /\ inode' = [inode EXCEPT ![i] = [of |-> s, closed |-> FALSE]]
         /\ file' = [file EXCEPT ![s] = i]
  /\ ClientFrame /\ Keep /\ UNCHANGED <<num, reply, faults>>

(* creat of the data file: a new file, or the one of that name emptied. *)
CreateData(s) ==
  /\ At(s, "creat", "data")
  /\ LET n == num[s]
         i == IF data[n] = None THEN s ELSE data[n]
     IN  /\ data' = [data EXCEPT ![n] = i]
         /\ inode' = [inode EXCEPT ![i] = [of |-> s, closed |-> FALSE]]
         /\ file' = [file EXCEPT ![s] = i]
  /\ ClientFrame /\ Keep /\ UNCHANGED <<req, num, reply, faults>>

CreateDataFails(s) ==
  /\ At(s, "creat", "done")
  /\ Fault
  /\ Refused(s)
  /\ ClientFrame /\ Keep /\ UNCHANGED <<data, inode, req, num, file>>

(* The copy loop: a write fails. *)
CopyDataFails(s) ==
  /\ At(s, "data", "unlinkdata")
  /\ Fault
  /\ Refused(s)
  /\ ClientFrame /\ Keep /\ UNCHANGED <<data, inode, req, num, file>>

(* The copy loop ends when tread returns 0 or -1: the print command has    *)
(* gone, or nothing has come for 20 seconds.  What has been written is the *)
(* file; the size in the header is not looked at.  The control file is     *)
(* created.                                                                *)
EndOfData(s) ==
  /\ At(s, "data", "writereq")
  /\ inode' = [inode EXCEPT ![file[s]].closed = TRUE]
  /\ req' = [req EXCEPT ![num[s]] = "part"]
  /\ ClientFrame /\ Keep /\ UNCHANGED <<data, num, file, reply, faults>>

CreateReqFails(s) ==
  /\ At(s, "data", "unlinkdata")
  /\ Fault
  /\ inode' = [inode EXCEPT ![file[s]].closed = TRUE]
  /\ Refused(s)
  /\ ClientFrame /\ Keep /\ UNCHANGED <<data, req, num, file>>

WriteReq(s) ==
  /\ At(s, "writereq", "reply")
  /\ req' = [req EXCEPT ![num[s]] = s]
  /\ ClientFrame /\ Keep /\ UNCHANGED <<data, inode, num, file, reply, faults>>

WriteReqFails(s) ==
  /\ At(s, "writereq", "unlinkreq")
  /\ Fault
  /\ Refused(s)
  /\ ClientFrame /\ Keep /\ UNCHANGED <<data, inode, req, num, file>>

UndoReq(s) ==
  /\ At(s, "unlinkreq", "unlinkdata")
  /\ req' = [req EXCEPT ![num[s]] = None]
  /\ ClientFrame /\ Keep /\ UNCHANGED <<data, inode, num, file, reply, faults>>

UndoData(s) ==
  /\ At(s, "unlinkdata", "done")
  /\ data' = [data EXCEPT ![num[s]] = None]
  /\ ClientFrame /\ Keep /\ UNCHANGED <<inode, req, num, file, reply, faults>>

(* The print command is told the number, before the job is queued. *)
ReplyOk(s) ==
  /\ At(s, "reply", "add")
  /\ reply' = [reply EXCEPT ![s] = "ok"]
  /\ ClientFrame /\ Keep /\ UNCHANGED <<data, inode, req, num, file, faults>>

(* add_job: append under joblock, then signal. *)
AddJob(s) ==
  /\ At(s, "add", "signal")
  /\ queue' = Append(queue, Job(num[s], s))
  /\ ClientFrame
  /\ UNCHANGED <<data, inode, req, nextjob, prt, num, file, reply, faults, reused, fresh>>

(* Mutant: the printer thread is not woken. *)
Signal_Lost(s) ==
  /\ At(s, "signal", "done")
  /\ ClientFrame
  /\ UNCHANGED <<data, inode, req, nextjob, queue, prt, num, file, reply, faults, reused, fresh>>

Signal(s) ==
  /\ At(s, "signal", "done")
  /\ Signalled
  /\ ClientFrame
  /\ UNCHANGED <<data, inode, req, nextjob, queue, num, file, reply, faults, reused, fresh>>

-----------------------------------------------------------------------------
(* printer_thread *)

PrinterAt(from, to) == prt = from /\ prt' = to
PrinterFrame == UNCHANGED <<inode, mainVars, nextjob, clientVars, stops, unread, reused, lagged>>

(* The queue is empty: pthread_cond_wait. *)
WaitForJob ==
  /\ PrinterAt("get", "waiting")
  /\ queue = <<>>
  /\ PrinterFrame
  /\ UNCHANGED <<jobfile, data, req, queue, reread, jp, pfd, stale, faults, printed, confirmed, dropped, fresh>>

(* remove_job of the head. *)
PickUp ==
  /\ PrinterAt("get", "jobno")
  /\ queue # <<>>
  /\ jp' = Head(queue)
  /\ queue' = Tail(queue)
  /\ PrinterFrame
  /\ UNCHANGED <<jobfile, data, req, reread, pfd, stale, faults, printed, confirmed, dropped, fresh>>

(* Mutant: the number of the job that was picked up is saved. *)
UpdateJobno_Current ==
  /\ PrinterAt("jobno", "config")
  /\ jobfile' = jp.id
  /\ fresh' = FALSE
  /\ PrinterFrame
  /\ UNCHANGED <<data, req, queue, reread, jp, pfd, stale, faults, printed, confirmed, dropped>>

(* The number is written over the one in the file, which is not truncated: *)
(* when the counter has wrapped around, digits of the old number stay and  *)
(* the two make another number (which one is left open; one outside        *)
(* Numbers, which atol would cut to an int, is left out).                  *)
UpdateJobno ==
  /\ PrinterAt("jobno", "config")
  /\ jobfile' \in IF nextjob >= jobfile THEN {nextjob} ELSE Numbers
  /\ fresh' = FALSE
  /\ PrinterFrame
  /\ UNCHANGED <<data, req, queue, reread, jp, pfd, stale, faults, printed, confirmed, dropped>>

(* Mutant: the flag is cleared whether or not it leads to a re-read. *)
CheckConfig_Ignored ==
  /\ PrinterAt("config", "open")
  /\ reread' = FALSE
  /\ PrinterFrame
  /\ UNCHANGED <<jobfile, data, req, queue, jp, pfd, stale, faults, printed, confirmed, dropped, fresh>>

(* reread is tested and cleared under configlock ... *)
CheckConfig ==
  /\ PrinterAt("config", IF reread THEN "init" ELSE "open")
  /\ reread' = FALSE
  /\ PrinterFrame
  /\ UNCHANGED <<jobfile, data, req, queue, jp, pfd, stale, faults, printed, confirmed, dropped, fresh>>

(* ... and init_printer reads the configuration after the unlock. *)
InitPrinter ==
  /\ PrinterAt("init", "open")
  /\ stale' = FALSE
  /\ PrinterFrame
  /\ UNCHANGED <<jobfile, data, req, queue, reread, jp, pfd, faults, printed, confirmed, dropped, fresh>>

OpenData ==
  /\ PrinterAt("open", "send")
  /\ data[jp.id] # None
  /\ pfd' = data[jp.id]
  /\ PrinterFrame
  /\ UNCHANGED <<jobfile, data, req, queue, reread, jp, stale, faults, printed, confirmed, dropped, fresh>>

(* The data file cannot be opened or examined: the job is cancelled, its   *)
(* control file stays.                                                     *)
CancelJob ==
  /\ PrinterAt("open", "get")
  /\ \/ data[jp.id] = None /\ UNCHANGED faults
     \/ data[jp.id] # None /\ Fault
  /\ dropped' = dropped \cup {jp.sub}
  /\ jp' = NoJob
  /\ PrinterFrame
  /\ UNCHANGED <<jobfile, data, req, queue, reread, pfd, stale, printed, confirmed, fresh>>

(* Mutant: the data file is removed as soon as it has been sent. *)
SendJob_Unlinks ==
  /\ PrinterAt("send", "status")
  /\ printed' = printed \cup {inode[pfd]}
  /\ data' = [data EXCEPT ![jp.id] = None]
  /\ PrinterFrame
  /\ UNCHANGED <<jobfile, req, queue, reread, jp, pfd, stale, faults, confirmed, dropped, fresh>>

(* The printer is reached and gets the headers and the file. *)
SendJob ==
  /\ PrinterAt("send", "status")
  /\ printed' = printed \cup {inode[pfd]}
  /\ PrinterFrame
  /\ UNCHANGED <<jobfile, data, req, queue, reread, jp, pfd, stale, faults, confirmed, dropped, fresh>>

(* Mutant: jp is not set to NULL, and the job is put back. *)
StatusOk_Requeued ==
  /\ PrinterAt("status", "defer")
  /\ confirmed' = [confirmed EXCEPT ![jp.sub] = @ + 1]
  /\ PrinterFrame
  /\ UNCHANGED <<jobfile, data, req, queue, reread, jp, pfd, stale, faults, printed, dropped, fresh>>

(* printer_status returns 1. *)
StatusOk ==
  /\ PrinterAt("status", "unlinkdata")
  /\ confirmed' = [confirmed EXCEPT ![jp.sub] = @ + 1]
  /\ PrinterFrame
  /\ UNCHANGED <<jobfile, data, req, queue, reread, jp, pfd, stale, faults, printed, dropped, fresh>>

UnlinkData ==
  /\ PrinterAt("unlinkdata", "unlinkreq")
  /\ data' = [data EXCEPT ![jp.id] = None]
  /\ PrinterFrame
  /\ UNCHANGED <<jobfile, req, queue, reread, jp, pfd, stale, faults, printed, confirmed, dropped, fresh>>

UnlinkReq ==
  /\ PrinterAt("unlinkreq", "get")
  /\ req' = [req EXCEPT ![jp.id] = None]
  /\ jp' = NoJob
  /\ pfd' = None
  /\ PrinterFrame
  /\ UNCHANGED <<jobfile, data, queue, reread, stale, faults, printed, confirmed, dropped, fresh>>

(* The printer cannot be reached, the transfer fails, or printer_status    *)
(* returns 0: an error, an answer about another job, or no answer in time  *)
(* (though the printer may have printed).                                  *)
DeferJob ==
  /\ prt \in {"send", "status"}
  /\ prt' = "defer"
  /\ PrinterFrame
  /\ UNCHANGED <<jobfile, data, req, queue, reread, jp, pfd, stale, faults, printed, confirmed, dropped, fresh>>

(* Mutant: a deferred job is forgotten. *)
ReplaceJob_Lost ==
  /\ PrinterAt("defer", "get")
  /\ jp' = NoJob
  /\ pfd' = None
  /\ PrinterFrame
  /\ UNCHANGED <<jobfile, data, req, queue, reread, stale, faults, printed, confirmed, dropped, fresh>>

(* replace_job puts the job back at the head; the thread sleeps a minute.  *)
ReplaceJob ==
  /\ PrinterAt("defer", "get")
  /\ queue' = <<jp>> \o queue
  /\ jp' = NoJob
  /\ pfd' = None
  /\ PrinterFrame
  /\ UNCHANGED <<jobfile, data, req, reread, stale, faults, printed, confirmed, dropped, fresh>>

-----------------------------------------------------------------------------
(* The administrator, signal_thread and the end of the process *)

(* The configuration is edited and the daemon sent SIGHUP, which sigwait   *)
(* takes: reread is set under configlock.                                  *)
Hangup ==
  /\ main # "down"
  /\ reread' = TRUE
  /\ stale' = TRUE
  /\ UNCHANGED <<disk, mainVars, nextjob, queue, prt, jp, pfd, clientVars, countVars, history>>

(* The process ends: SIGTERM, exit(1) in init_printer, or a crash.  All    *)
(* threads end where they are, and what is not on disk is lost.            *)
Stop ==
  /\ main # "down"
  /\ stops < MaxStops
  /\ stops' = stops + 1
  /\ main' = "down" /\ todo' = {} /\ cur' = 0
  /\ nextjob' = 0 /\ queue' = <<>> /\ reread' = FALSE
  /\ prt' = "down" /\ jp' = NoJob /\ pfd' = None /\ stale' = FALSE
  /\ pc' = [s \in Subs |-> IF pc[s] = "new" THEN "new" ELSE "done"]
  /\ file' = [s \in Subs |-> None]
  /\ lagged' = (lagged \/ fresh)
  /\ UNCHANGED <<disk, num, reply, faults, printed, confirmed, dropped, unread, reused, fresh>>

-----------------------------------------------------------------------------
MainStep ==
  \/ Start \/ ScanWake \/ ScanPurge \/ ScanDone
  \/ \E n \in Numbers : ScanJob(n) \/ ScanPartial(n)

ScanFails == ScanAbandon \/ \E n \in Numbers : ScanSkip(n) \/ ScanUnreadable(n)

PrinterStep ==
  \/ WaitForJob \/ PickUp \/ UpdateJobno \/ CheckConfig \/ InitPrinter \/ OpenData \/ CancelJob
  \/ SendJob \/ UnlinkData \/ UnlinkReq \/ ReplaceJob

(* The rest of a submission that has been told its number. *)
Finish(s) == AddJob(s) \/ Signal(s)

ClientStep(s) ==
  \/ BadHeader(s) \/ GetNewJobno(s) \/ CreateData(s) \/ CreateDataFails(s)
  \/ CopyDataFails(s) \/ EndOfData(s) \/ CreateReqFails(s)
  \/ WriteReq(s) \/ WriteReqFails(s) \/ UndoReq(s) \/ UndoData(s) \/ ReplyOk(s) \/ Finish(s)

Next ==
  \/ MainStep
  \/ PrinterStep \/ StatusOk \/ DeferJob
  \/ ScanFails
  \/ \E s \in Subs : ClientStep(s)
  \/ Hangup \/ Stop

Spec == Init /\ [][Next]_vars

(* The threads run when they can and someone restarts the daemon.  Of the  *)
(* printer: a job that is tried again and again is received and confirmed  *)
(* in the end.  Clients and the administrator need not do anything.        *)
Fairness ==
  /\ WF_vars(MainStep)
  /\ WF_vars(PrinterStep)
  /\ \A s \in Subs : WF_vars(Finish(s))
  /\ SF_vars(SendJob) /\ SF_vars(StatusOk)

FairSpec == Spec /\ Fairness

-----------------------------------------------------------------------------
TypeOK ==
  /\ jobfile \in 0..MaxJob /\ nextjob \in 0..MaxJob
  /\ data \in [Numbers -> Subs \cup {None}]
  /\ inode \in [Subs -> [of : Subs \cup {None}, closed : BOOLEAN]]
  /\ req \in [Numbers -> Subs \cup {None, "part"}]
  /\ main \in {"down", "scan", "purge", "wake", "serve"}
  /\ todo \subseteq Numbers /\ cur \in 0..MaxJob
  /\ queue \in Seq([id : Numbers, sub : Subs])
  /\ reread \in BOOLEAN /\ stale \in BOOLEAN
  /\ prt \in {"down", "get", "waiting", "jobno", "config", "init", "open", "send", "status",
              "unlinkdata", "unlinkreq", "defer"}
  /\ jp \in [id : Numbers, sub : Subs] \cup {NoJob} /\ pfd \in Subs \cup {None}
  /\ pc \in [Subs -> {"new", "creat", "data", "writereq", "unlinkreq",
                      "unlinkdata", "reply", "add", "signal", "done"}]
  /\ num \in [Subs -> 0..MaxJob] /\ file \in [Subs -> Subs \cup {None}]
  /\ reply \in [Subs -> {"none", "ok", "refused"}]
  /\ faults \in Nat /\ stops \in Nat
  /\ printed \subseteq [of : Subs, closed : BOOLEAN]
  /\ confirmed \in [Subs -> Nat] /\ dropped \subseteq Subs /\ unread \subseteq Subs /\ reused \subseteq Numbers
  /\ fresh \in BOOLEAN /\ lagged \in BOOLEAN

(* Told of, not confirmed, and neither was the number handed out again nor *)
(* the request removed because it could not be read.                       *)
Waiting(s) == reply[s] = "ok" /\ confirmed[s] = 0 /\ num[s] \notin reused /\ s \notin unread

(* A job the print command was told of, and whose number nobody else got,  *)
(* is on disk, complete, until the printer has confirmed it, whenever the  *)
(* daemon stops and whichever file operations fail, but one: a restart     *)
(* that cannot read the request removes the job (build_qonstart).          *)
AckedOnDisk ==
  \A s \in Subs : Waiting(s) =>
    /\ req[num[s]] = s
    /\ data[num[s]] # None /\ inode[data[num[s]]] = [of |-> s, closed |-> TRUE]

Holders(s) ==
  {k \in DOMAIN queue : queue[k].sub = s} \cup (IF jp.sub = s THEN {0} ELSE {})
    \cup (IF pc[s] = "add" THEN {-1} ELSE {})

(* The variables keep their types; while the daemon serves, such a job is  *)
(* in one place: in the queue, once, with the printer thread, or with its  *)
(* client thread (unless an open or opendir that failed has dropped it).   *)
HeldOnce ==
  /\ TypeOK
  /\ main = "serve" => \A s \in Subs : Waiting(s) /\ s \notin dropped => Cardinality(Holders(s)) = 1

(* What the printer gets is the file as the client thread left it, never   *)
(* one still being written, though the queue is rebuilt from the disk.     *)
PrintsFinishedFiles ==
  \A p \in printed : num[p.of] \notin reused => p.closed

(* A submission that was told of an error is not printed, not even after a *)
(* restart found what was left of it.                                      *)
RefusedNotPrinted ==
  \A p \in printed : num[p.of] \notin reused => reply[p.of] # "refused"

(* A job is confirmed no more often than the daemon has had lives, though  *)
(* a restart may find a confirmed job still on disk.                       *)
ConfirmedOncePerLife == \A s \in Subs : confirmed[s] <= stops + 1

(* A number is handed out twice only after a stop at a time when numbers   *)
(* had been handed out since the last job was picked up.                   *)
ReuseNeedsLag == reused # {} => lagged

(* The configuration the last SIGHUP was about is in use, or the printer   *)
(* thread is going to read it.                                             *)
HangupNotLost == stale => reread \/ prt = "init"

(* A job the print command was told of is confirmed in the end, unless its *)
(* number was handed out again, a failed open or opendir has dropped it,   *)
(* or a restart could not read its request and removed it.                 *)
AckedIsPrinted ==
  \A s \in Subs :
    reply[s] = "ok" ~> confirmed[s] > 0 \/ num[s] \in reused \/ s \in dropped \/ s \in unread
=============================================================================
