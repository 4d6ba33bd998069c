------------------------------ MODULE Recorder ------------------------------
(***************************************************************************)
(* The tick recorder (resources/recorder.py) for one symbol: it takes the   *)
(* ticks of its broker session, appends each new one to the file of its     *)
(* day, flushes once a second, and when the day changes closes the file and *)
(* compresses it in a thread.  Symbols share nothing but the process.       *)
(*                                                                          *)
(* A tick is its trade_id.  A file is the sequence of its lines.  Three     *)
(* kinds of thread: paho's (Deliver), the main one (Flush) and those that   *)
(* compress.  The lock makes the first two take turns; a compressing thread *)
(* takes no lock.                                                           *)
(***************************************************************************)
EXTENDS Naturals, Sequences, FiniteSets, Functions

CONSTANTS
    MaxId,          \* bound: ticks published
    MaxDay,         \* bound: days they span
    DayOf,          \* DayOf[i]: UTC date of tick i's trade_ts
    Inflight,       \* ticks the broker hands over ahead of their acknowledgement
    Threads,        \* compressing threads there can be at once
    MaxLinkLosses,  \* bound: the connection to the broker breaks
    MaxDeaths,      \* bound: the process is killed (no handler for SIGTERM) or interrupted
    MaxDiskFaults   \* bound: opening, writing, closing or compressing a file raises OSError

None == 0
Ids  == 1 .. MaxId
Days == 1 .. MaxDay

ASSUME RecorderAssumption ==
    /\ MaxId \in Nat /\ MaxDay \in Nat /\ Inflight \in Nat
    /\ DayOf \in [Ids -> Days]
    /\ \A i, j \in Ids : i <= j => DayOf[i] <= DayOf[j]
    /\ MaxLinkLosses \in Nat /\ MaxDeaths \in Nat
    /\ MaxDiskFaults \in Nat

VARIABLES
    published,  \* ticks 1 .. published were published
    acked,      \* ticks 1 .. acked are acknowledged
    handed,     \* ticks up to this one were handed over on this connection
    linkUp,     \* the session has a connection
    up,         \* the process runs
    mark,       \* last_trade_id
    file,       \* open_files: the day whose file it holds, and whether that is closed
    unflushed,  \* lines in the buffer of the open file
    plain,      \* plain[d]: the lines of <d>.ndjson; none if there is no such file
    gz,         \* gz[d]: the lines of <d>.ndjson.gz, none if there is no such file, or Partial
    torn,       \* days whose .ndjson ends within a line
    thread,     \* the compressing threads
    lost,       \* ticks that died with the process or could not be written
    begun,      \* days whose file some thread was started for
    again,      \* days whose file a second one was started for
    faults      \* how often each fault has happened

sessionVars == <<published, acked, handed, linkUp>>
procVars == <<up, mark, file, unflushed>>
diskVars == <<plain, gz, torn>>
threadVars == <<thread, begun, again>>
vars == <<sessionVars, procVars, diskVars, threadVars, lost, faults>>

NoFile  == [day |-> None, closed |-> FALSE]
Idle    == [day |-> None, stage |-> "idle", lines |-> <<>>]
Partial == <<None>>     \* a truncated or incomplete .gz: no line of it can be relied on

Stages == {"idle", "started", "copying", "copied"}
FaultKinds == {"link", "death", "open", "write", "gzip"}

TypeOK ==
    /\ published \in 0 .. MaxId /\ acked \in 0 .. handed /\ handed \in 0 .. published
    /\ linkUp \in BOOLEAN /\ up \in BOOLEAN /\ (linkUp => up)
    /\ mark \in Ids \cup {None}
    /\ file \in [day : Days \cup {None}, closed : BOOLEAN]
    /\ unflushed \in Seq(Ids) /\ (unflushed # <<>> => file.day # None /\ ~file.closed)
    /\ plain \in [Days -> Seq(Ids)]
    /\ gz \in [Days -> Seq(Ids) \cup {Partial}]
    /\ thread \in [Threads -> [day : Days \cup {None}, stage : Stages, lines : Seq(Ids)]]
    /\ \A t \in Threads : thread[t].stage = "idle" <=> thread[t].day = None
    /\ lost \subseteq Ids /\ torn \subseteq Days /\ again \subseteq begun /\ begun \subseteq Days
    /\ faults \in [FaultKinds -> Nat]

(* The recorder has been installed: its session exists.                     *)
Init ==
    /\ published = 0 /\ acked = 0 /\ handed = 0 /\ linkUp = FALSE
    /\ up = TRUE /\ mark = None /\ file = NoFile /\ unflushed = <<>>
    /\ plain = [d \in Days |-> <<>>] /\ gz = [d \in Days |-> <<>>]
    /\ thread = [t \in Threads |-> Idle]
    /\ lost = {} /\ torn = {} /\ begun = {} /\ again = {}
    /\ faults = [f \in FaultKinds |-> 0]

Counted(f) == faults' = [faults EXCEPT ![f] = @ + 1]
Fault(f, max) == faults[f] < max /\ Counted(f)
DiskFault(f) == faults["open"] + faults["write"] + faults["gzip"] < MaxDiskFaults /\ Counted(f)

-----------------------------------------------------------------------------
(* The broker session: in order, acknowledged in order, and everything not  *)
(* acknowledged is handed over again on the next connection.                *)

Publish ==
    /\ published < MaxId
    /\ published' = published + 1
    /\ UNCHANGED <<acked, handed, linkUp, procVars, diskVars, threadVars, lost, faults>>

Connect ==
    /\ up /\ ~linkUp
    /\ linkUp' = TRUE
    /\ UNCHANGED <<published, acked, handed, procVars, diskVars, threadVars, lost, faults>>

Ack ==
    /\ linkUp /\ acked < handed
    /\ acked' = acked + 1
    /\ UNCHANGED <<published, handed, linkUp, procVars, diskVars, threadVars, lost, faults>>

LinkLoss ==
    /\ linkUp
    /\ Fault("link", MaxLinkLosses)
    /\ linkUp' = FALSE /\ handed' = acked
    /\ UNCHANGED <<published, acked, procVars, diskVars, threadVars, lost>>

-----------------------------------------------------------------------------
(* on_message: a tick at or below the mark is a duplicate; for another, the *)
(* mark moves first, then the line is written.                              *)

MutantDuplicateBelow(i) == i < mark
Duplicate(i) == i <= mark

(* _file_for finds the day's handle.  In a file that ends within a line the *)
(* new one is glued to the rest of that, and cannot be read either.         *)
Glued(i) == DayOf[i] \in torn

LinesOf(i) == IF Glued(i) THEN <<>> ELSE <<i>>
LostIfGlued(i) == lost' = (IF Glued(i) THEN lost \cup {i} ELSE lost) /\ torn' = torn \ {DayOf[i]}

AppendLine(i) ==
    /\ file = [day |-> DayOf[i], closed |-> FALSE]
    /\ unflushed' = unflushed \o LinesOf(i)
    /\ LostIfGlued(i)
    /\ UNCHANGED <<file, plain, threadVars, faults>>

(* The first k lines of the buffer reach the file; a write that stops there *)
(* may leave a part of the next.                                            *)
Flushed(k) ==
    IF file.day = None THEN plain
    ELSE [plain EXCEPT ![file.day] = @ \o SubSeq(unflushed, 1, k)]
BufferedFrom(k) == Range(SubSeq(unflushed, k + 1, Len(unflushed)))
TornOrNot == torn' \in {torn, torn \cup ({file.day} \ {None})}

(* The write raises: on_message gives the tick up, and the process goes on. *)
(* A write passes the buffer on when that is full, so earlier lines can go  *)
(* with it: the first k are written, those up to n kept in the buffer.      *)
WriteFails(i) ==
    /\ file = [day |-> DayOf[i], closed |-> FALSE]
    /\ DiskFault("write")
    /\ \E k \in 0 .. Len(unflushed) : \E n \in k .. Len(unflushed) :
        /\ plain' = Flushed(k)
        /\ unflushed' = SubSeq(unflushed, k + 1, n)
        /\ lost' = lost \cup {i} \cup BufferedFrom(n)
        /\ IF n = k THEN TornOrNot ELSE UNCHANGED torn
    /\ UNCHANGED <<file, threadVars>>

(* It finds another day's: that one is closed, which flushes it, and a      *)
(* thread is started for it, also when it was closed before.                *)
MutantClosedUnflushed == plain
Closed == Flushed(Len(unflushed))

ThreadFor(d) ==
    /\ \E t \in Threads :
        /\ thread[t] = Idle
        /\ thread' = [thread EXCEPT ![t] = [day |-> d, stage |-> "started", lines |-> <<>>]]
    /\ begun' = begun \cup {d}
    /\ again' = again \cup ({d} \cap begun)

MutantThreadNever == UNCHANGED threadVars
MutantThreadAlways == ThreadFor(file.day)
ThreadStarted == IF file.day = None THEN UNCHANGED threadVars ELSE ThreadFor(file.day)

Rollover(i) ==
    /\ file.day # DayOf[i]
    /\ plain' = Closed /\ ThreadStarted
    /\ file' = [day |-> DayOf[i], closed |-> FALSE]
    /\ unflushed' = LinesOf(i)
    /\ LostIfGlued(i)
    /\ UNCHANGED faults

(* Closing the old file raises: what it could not flush is gone, it is      *)
(* closed all the same, and no thread is started until the next tick.       *)
CloseFails(i) ==
    /\ file.day \notin {None, DayOf[i]} /\ ~file.closed
    /\ DiskFault("write")
    /\ \E k \in 0 .. Len(unflushed) :
        plain' = Flushed(k) /\ lost' = lost \cup {i} \cup BufferedFrom(k)
    /\ TornOrNot
    /\ file' = [file EXCEPT !.closed = TRUE] /\ unflushed' = <<>>
    /\ UNCHANGED threadVars

(* The new file cannot be opened: the tick is given up, and open_files      *)
(* keeps the closed handle.                                                 *)
OpenFails(i) ==
    /\ file.day # DayOf[i]
    /\ DiskFault("open")
    /\ plain' = Closed /\ ThreadStarted
    /\ file' = IF file.day = None THEN NoFile ELSE [file EXCEPT !.closed = TRUE]
    /\ unflushed' = <<>>
    /\ lost' = lost \cup {i}
    /\ UNCHANGED torn

Deliver ==
    /\ linkUp /\ handed < published /\ handed < acked + Inflight
    /\ handed' = handed + 1
    /\ IF Duplicate(handed')
       THEN UNCHANGED <<procVars, plain, torn, threadVars, lost, faults>>
       ELSE /\ mark' = handed'
            /\ \/ AppendLine(handed') \/ WriteFails(handed')
               \/ Rollover(handed') \/ CloseFails(handed') \/ OpenFails(handed')
            /\ UNCHANGED up
    /\ UNCHANGED <<published, acked, linkUp, gz>>

-----------------------------------------------------------------------------
(* flush: once a second, and whenever the buffer is full.                   *)
MutantFlushDue == Len(unflushed) > 1
FlushDue == unflushed # <<>>

Flush ==
    /\ up /\ FlushDue
    /\ plain' = Closed
    /\ unflushed' = <<>>
    /\ UNCHANGED <<sessionVars, up, mark, file, gz, torn, threadVars, lost, faults>>

(* The process ends.  Its threads are daemons: they end where they are.     *)
Die ==
    /\ up' = FALSE /\ mark' = None /\ file' = NoFile /\ unflushed' = <<>>
    /\ thread' = [t \in Threads |-> Idle]
    /\ linkUp' = FALSE /\ handed' = acked
    /\ UNCHANGED <<published, acked, gz, begun, again>>

(* It is killed, in the middle of a flush or not, or its flush meets a full *)
(* disk: OSError ends main.                                                 *)
Crash ==
    /\ up
    /\ Fault("death", MaxDeaths)
    /\ Die
    /\ \E k \in 0 .. Len(unflushed) :
        plain' = Flushed(k) /\ lost' = lost \cup BufferedFrom(k)
    /\ TornOrNot

(* SIGINT: the loop ends with a flush.                                      *)
Stop ==
    /\ up /\ ~file.closed
    /\ Fault("death", MaxDeaths)
    /\ Die
    /\ plain' = Closed
    /\ UNCHANGED <<torn, lost>>

(* flush meets the closed handle that CloseFails or OpenFails left:         *)
(* ValueError ends main.                                                    *)
FlushRaises ==
    /\ up /\ file.closed
    /\ Die
    /\ Counted("death")
    /\ UNCHANGED <<plain, torn, lost>>

Restart ==
    /\ ~up
    /\ up' = TRUE
    /\ UNCHANGED <<sessionVars, mark, file, unflushed, diskVars, threadVars, lost, faults>>

-----------------------------------------------------------------------------
(* gzip_file, in a thread of its own: open both files, which truncates the  *)
(* .gz; copy; remove the plain one.                                         *)

Stage(t, stage) == thread[t].stage = stage
Ends(t) == thread' = [thread EXCEPT ![t] = Idle]

CompressOpen(t) ==
    /\ Stage(t, "started") /\ plain[thread[t].day] # <<>>
    /\ gz' = [gz EXCEPT ![thread[t].day] = Partial]
    /\ thread' = [thread EXCEPT ![t].stage = "copying", ![t].lines = plain[thread[t].day]]
    /\ UNCHANGED <<sessionVars, procVars, plain, torn, begun, again, lost, faults>>

(* A thread before it has compressed and removed the file already.          *)
CompressNotFound(t) ==
    /\ Stage(t, "started") /\ plain[thread[t].day] = <<>>
    /\ Ends(t)
    /\ UNCHANGED <<sessionVars, procVars, diskVars, begun, again, lost, faults>>

(* Another thread that has truncated the same file may have cut this one's  *)
(* output.                                                                  *)
Copied(t) ==
    IF \E u \in Threads \ {t} : Stage(u, "copying") /\ thread[u].day = thread[t].day
    THEN {thread[t].lines, Partial} ELSE {thread[t].lines}

CompressCopy(t) ==
    /\ Stage(t, "copying")
    /\ \E lines \in Copied(t) : gz' = [gz EXCEPT ![thread[t].day] = lines]
    /\ thread' = [thread EXCEPT ![t].stage = "copied"]
    /\ UNCHANGED <<sessionVars, procVars, plain, torn, begun, again, lost, faults>>

MutantUnlinkable(t) == Stage(t, "copying") \/ Stage(t, "copied")
Unlinkable(t) == Stage(t, "copied")

CompressUnlink(t) ==
    /\ Unlinkable(t)
    /\ plain' = [plain EXCEPT ![thread[t].day] = <<>>]
    /\ torn' = torn \ {thread[t].day}
    /\ Ends(t)
    /\ UNCHANGED <<sessionVars, procVars, gz, begun, again, lost, faults>>

(* OSError in any of them: logged, the plain file is left as it is.         *)
CompressFails(t) ==
    /\ thread[t] # Idle
    /\ DiskFault("gzip")
    /\ Ends(t)
    /\ UNCHANGED <<sessionVars, procVars, diskVars, begun, again, lost>>

Compress(t) == CompressOpen(t) \/ CompressNotFound(t) \/ CompressCopy(t) \/ CompressUnlink(t)

Next ==
    \/ Publish \/ Connect \/ Deliver \/ Ack \/ LinkLoss
    \/ Flush \/ FlushRaises \/ Crash \/ Stop \/ Restart
    \/ \E t \in Threads : Compress(t) \/ CompressFails(t)

Spec == Init /\ [][Next]_vars

-----------------------------------------------------------------------------
(* What can be read back of a day's ticks, from either kind of file.        *)
Written(d) == Range(plain[d]) \cup (IF gz[d] = Partial THEN {} ELSE Range(gz[d]))

(* No tick is acknowledged before it is in a file of its day, in the buffer *)
(* or counted as lost: mark, rollover, flush, compression, restarts, and    *)
(* writes, closes and opens that raise drop none unseen.  Excepted are days *)
(* whose file was compressed twice, which happens after an open that failed *)
(* (two threads on one file) and when a restart is handed a tick of a day   *)
(* already closed: the second .gz replaces the first.                       *)
AckedIsAccounted ==
    \A i \in 1 .. acked :
        DayOf[i] \notin again => i \in Written(DayOf[i]) \cup Range(unflushed) \cup lost

(* What was flushed stays readable, through compression, failures of the    *)
(* disk and restarts, for the same days.                                    *)
FlushedKept == [][\A d \in Days \ again' : Written(d) \subseteq Written(d)']_vars

(* While the process lives, redelivery writes no tick twice and none out of *)
(* order: the lines of a file ascend.                                       *)
LinesAscend ==
    faults["death"] = 0 =>
        \A d \in Days :
            LET lines == plain[d] \o (IF file.day = d THEN unflushed ELSE <<>>)
            IN  \A j, k \in DOMAIN lines : j < k => lines[j] < lines[k]

(* Every tick published is eventually written to the file of its day, or    *)
(* lost in a death or by an open, a write or a close that raised.           *)
EventuallyWritten ==
    <>[](\A i \in 1 .. published :
            DayOf[i] \notin again => i \in Written(DayOf[i]) \cup lost)

(* The file of a day that is over ends up compressed, unless the process    *)
(* died or the compression failed: no one compresses it later.              *)
EventuallyCompressed ==
    <>[](\/ faults["death"] + faults["gzip"] > 0
         \/ \A d \in Days : d < file.day => plain[d] = <<>>)

(* The threads run, paho reconnects, the broker delivers, systemd restarts. *)
FairSpec ==
    /\ Spec
    /\ WF_vars(Connect) /\ WF_vars(Deliver) /\ WF_vars(Ack)
    /\ WF_vars(Flush) /\ WF_vars(FlushRaises) /\ WF_vars(Restart)
    /\ \A t \in Threads : WF_vars(Compress(t))
=============================================================================
