-------------------------------- MODULE Tail --------------------------------
(***************************************************************************)
(* The agent's event collectors: one tailer goroutine per running          *)
(* container, kept by a loop that lists containers, and the subprocesses   *)
(* that follow the journal and fail2ban's log.  Each appends to a buffer   *)
(* that the tick drains.                                                   *)
(*                                                                         *)
(* What a container writes to a stream is fixed (Text) and it writes a     *)
(* line at a time; frames cut it anywhere.  A line is named by the stream  *)
(* and the position where it ends.  The container log driver may be        *)
(* journald, so the journal carries container lines too.                   *)
(***************************************************************************)
EXTENDS Integers, Sequences

CONSTANTS
  Containers, Streams, Text, NL,
  Messages, Priorities,  \* of journal entries of units
  Routine,      \* lines of routine health checks
  Severity,     \* the level of lines in a known log format
  MaxMessage,   \* maxEventMessage
  MaxSeconds, MaxTailers, MaxFaults, MaxTicks, MaxEntries  \* bounds

NoContainer == "none"

ASSUME TailAssumption ==
  /\ Text \in [Containers -> [Streams -> Seq(STRING)]]
  /\ Messages \subseteq Seq(STRING)
  /\ Containers \cap {NoContainer, "journald", "fail2ban"} = {}
  /\ \A n \in {MaxMessage, MaxTailers, MaxFaults, MaxEntries} : n \in Nat
  /\ MaxSeconds \in Nat \ {0} /\ MaxTicks \in Nat \ {0}

VARIABLES
  second, running,
  wrote, before,   \* characters written so far, and before this second
  listing,         \* the list reconcile works on
  listedAt,        \* the second of the last reconcile
  tailers,         \* the keys of DockerLogs.tailers; an entry is of the newest tailer
  tail,            \* the tailer goroutines that were started for each container
  failed,          \* DockerLogs.failed
  dockerBuf,
  exited, procBuf, \* the journal's and fail2ban's subprocess
  entries,         \* entries of units and of fail2ban so far
  tick,            \* where the tick stands
  batch, sent,     \* events of this tick; of the ticks before
  faults

clockVars == <<second, running, wrote, before>>
dockerVars == <<listing, listedAt, tailers, tail, failed, dockerBuf>>
procVars == <<exited, procBuf, entries>>
tickVars == <<tick, batch, sent>>
tailVars == <<clockVars, dockerVars, procVars, tickVars, faults>>

NoList == {NoContainer}
Followers == {"journald", "fail2ban"}
Nothing == [s \in Streams |-> <<>>]
Beginning == [s \in Streams |-> 0]

\* Containers that run already start before anything is observed.
TailInit ==
  /\ second = 1 /\ running = {}
  /\ wrote = [c \in Containers |-> Beginning] /\ before = wrote
  /\ listing = NoList /\ listedAt = 0 /\ tailers = {}
  /\ tail = [c \in Containers |-> <<>>]
  /\ failed = FALSE /\ dockerBuf = <<>>
  /\ exited = {} /\ procBuf = [p \in Followers |-> <<>>] /\ entries = 0
  /\ tick = [n |-> 1, at |-> "journald"] /\ batch = <<>> /\ sent = <<>>
  /\ faults = 0

-----------------------------------------------------------------------------
(* Containers, and the clock *)

Ends(c, s) == {i \in DOMAIN Text[c][s] : Text[c][s][i] = NL}

\* What stands between the line end before e and e.
LineStart(text, e) ==
  CHOOSE b \in 0..e - 1 : (b = 0 \/ text[b] = NL) /\ \A i \in b + 1..e - 1 : text[i] # NL
LineAt(text, e) == SubSeq(text, LineStart(text, e) + 1, e - 1)

ContainerRuns(c) ==
  /\ running' = IF c \in running THEN running \ {c} ELSE running \cup {c}
  /\ UNCHANGED <<second, wrote, before, dockerVars, procVars, tickVars, faults>>

\* A goroutine told to stop has ended long before the next reconcile.
Second ==
  /\ second < MaxSeconds
  /\ \A c \in Containers : \A n \in DOMAIN tail[c] : tail[c][n].cancelled => tail[c][n].pc = "ended"
  /\ second' = second + 1 /\ before' = wrote
  /\ UNCHANGED <<running, wrote, dockerVars, procVars, tickVars, faults>>

-----------------------------------------------------------------------------
(* The subprocesses *)

\* An Event; ts is 0 when the collector leaves it to the tick.
Event(from, stream, end, text, level, ts) ==
  [from |-> from, stream |-> stream, end |-> end, text |-> text, level |-> level, ts |-> ts]

IsRoutineHealthCheck(text) == text \in Routine

\* truncateMessage
Truncated(text) == SubSeq(text, 1, IF Len(text) <= MaxMessage THEN Len(text) ELSE MaxMessage)

\* journaldLevel
JournaldLevel(priority) ==
  CASE priority <= 3 -> "error" [] priority = 4 -> "warn" [] OTHER -> "info"

\* Journald.readLoop leaves container lines to DockerLogs.
ForwardsEntry(message, container) == ~IsRoutineHealthCheck(message) /\ container = NoContainer

\* The reader of p appends, until the subprocess has exited.
Appended(p, event) == [procBuf EXCEPT ![p] = IF p \in exited THEN @ ELSE Append(@, event)]

\* A container writes a line; its driver hands it to the journal as well.
WritesLine(c, s) ==
  \E e \in Ends(c, s) :
    LET message == LineAt(Text[c][s], e) IN
    /\ c \in running /\ e > wrote[c][s]
    /\ \A i \in Ends(c, s) : i > wrote[c][s] => e <= i
    /\ wrote' = [wrote EXCEPT ![c][s] = e]
    /\ procBuf' = IF ForwardsEntry(message, c)
         THEN Appended("journald", Event(c, s, e, Truncated(message), "info", second)) ELSE procBuf
    /\ UNCHANGED <<second, running, before, dockerVars, exited, entries, tickVars, faults>>

\* A unit writes to the journal; entries differ in their time and priority.
JournalEntry(message, priority) ==
  /\ entries < MaxEntries
  /\ entries' = entries + 1
  /\ procBuf' = IF ForwardsEntry(message, NoContainer)
       THEN Appended("journald", Event("journald", "journald", entries', Truncated(message), JournaldLevel(priority), entries'))
       ELSE procBuf
  /\ UNCHANGED <<clockVars, dockerVars, exited, tickVars, faults>>

\* fail2ban logs a ban or an unban.
BanEntry(action) ==
  /\ entries < MaxEntries
  /\ entries' = entries + 1
  /\ procBuf' = Appended("fail2ban",
       Event("fail2ban", "fail2ban", entries', <<action>>, IF action = "Unban" THEN "info" ELSE "warn", 0))
  /\ UNCHANGED <<clockVars, dockerVars, exited, tickVars, faults>>

\* setFailed: for good.
Exits(p) ==
  /\ p \notin exited /\ faults < MaxFaults
  /\ exited' = exited \cup {p} /\ faults' = faults + 1
  /\ UNCHANGED <<clockVars, dockerVars, procBuf, entries, tickVars>>

JournalctlExits == Exits("journald")
TailExits == Exits("fail2ban")

-----------------------------------------------------------------------------
(* DockerLogs.reconcile, every 15 seconds *)

Lists ==
  /\ listing = NoList /\ listedAt < second
  /\ listing' = running
  /\ UNCHANGED <<clockVars, listedAt, tailers, tail, failed, dockerBuf, procVars, tickVars, faults>>

ListFails ==
  /\ listing = NoList /\ listedAt < second /\ faults < MaxFaults
  /\ listedAt' = second /\ failed' = TRUE /\ faults' = faults + 1
  /\ UNCHANGED <<clockVars, listing, tailers, tail, dockerBuf, procVars, tickVars>>

\* A container with an entry, whatever became of its tailer, gets no other.
StartsFor == listing \ tailers

Fresh ==
  [pc |-> "starts", cancelled |-> FALSE, start |-> Beginning, at |-> Beginning, pending |-> Nothing]

\* tcancel of the entry of c
Cancelled(c) == [tail[c] EXCEPT ![Len(tail[c])].cancelled = TRUE]

Reconcile ==
  /\ listing # NoList /\ \A c \in StartsFor : Len(tail[c]) < MaxTailers
  /\ failed' = FALSE
  /\ tail' = [c \in Containers |-> IF c \in StartsFor THEN Append(tail[c], Fresh)
                                    ELSE IF c \in tailers \ listing THEN Cancelled(c) ELSE tail[c]]
  /\ tailers' = (tailers \cap listing) \cup StartsFor
  /\ listing' = NoList /\ listedAt' = second
  /\ UNCHANGED <<clockVars, dockerBuf, procVars, tickVars, faults>>

-----------------------------------------------------------------------------
(* The n-th tailer of container c *)

Now(c, n, record) ==
  /\ tail' = [tail EXCEPT ![c][n] = record]
  /\ UNCHANGED <<clockVars, listing, listedAt, tailers, failed, procVars, tickVars>>

(* A bug's form: a tailer reads the whole log. *)
SinceEver(c) == Beginning

\* since is a whole second: lines of this one are read from its start.
Since(c) == before[c]

TailOpens(c, n) ==
  /\ tail[c][n].pc = "starts" /\ ~tail[c][n].cancelled
  /\ Now(c, n, [tail[c][n] EXCEPT !.pc = "reads", !.start = Since(c), !.at = Since(c)])
  /\ UNCHANGED <<dockerBuf, faults>>

\* The lines of the last frame are handled: only unfinished ones are pending.
FrameDone(t) == \A s \in Streams : \A i \in DOMAIN t.pending[s] : t.pending[s][i] # NL

\* The request or the stream fails, the container stopped, or the tailer was told to stop.
TailEnds(c, n) ==
  LET t == tail[c][n]
      over == t.cancelled \/ (c \notin running /\ (t.pc = "starts" \/ t.at = wrote[c]))
  IN
  /\ t.pc # "ended" /\ FrameDone(t)
  /\ over \/ faults < MaxFaults
  /\ faults' = IF over THEN faults ELSE faults + 1
  /\ Now(c, n, [t EXCEPT !.pc = "ended"])
  /\ UNCHANGED dockerBuf

(* A bug's form: the rest of whichever stream has one. *)
PendingOfAny(t, s) ==
  IF \E o \in Streams : t.pending[o] # <<>> THEN t.pending[CHOOSE o \in Streams : t.pending[o] # <<>>] ELSE <<>>

\* The rest of the last frame of the stream.
Pending(t, s) == t.pending[s]

\* demuxDockerLogStream: one frame of k characters, still to be split.
ReadsFrame(c, n, s, k) ==
  LET t == tail[c][n] IN
  /\ t.pc = "reads" /\ FrameDone(t)
  /\ t.at[s] + k <= wrote[c][s]
  /\ Now(c, n, [t EXCEPT !.at[s] = @ + k,
       !.pending[s] = Pending(t, s) \o SubSeq(Text[c][s], t.at[s] + 1, t.at[s] + k)])
  /\ UNCHANGED <<dockerBuf, faults>>

\* dockerLogLevel
LogLevel(text, s) ==
  IF text \in DOMAIN Severity THEN Severity[text] ELSE IF s = "stderr" THEN "warn" ELSE "info"

\* emit
Emitted(c, s, end, line) ==
  IF IsRoutineHealthCheck(line) THEN dockerBuf
  ELSE Append(dockerBuf, Event(c, s, end, Truncated(line), LogLevel(line, s), 0))

\* The next line of the frame, i characters with its end.
TakesLine(c, n, s) ==
  LET t == tail[c][n] IN
  \E i \in DOMAIN t.pending[s] :
    LET line == SubSeq(t.pending[s], 1, i - 1) IN
    /\ t.pc = "reads" /\ t.pending[s][i] = NL /\ \A j \in 1..i - 1 : t.pending[s][j] # NL
    /\ dockerBuf' = IF line = <<>> THEN dockerBuf
                    ELSE Emitted(c, s, t.at[s] - Len(t.pending[s]) + i, line)
    /\ Now(c, n, [t EXCEPT !.pending[s] = SubSeq(@, i + 1, Len(@))])
    /\ UNCHANGED faults

-----------------------------------------------------------------------------
(* The tick: the three collectors in turn, then the batch *)

CollectProc(p, next) ==
  /\ tick.at = p
  /\ tick' = [tick EXCEPT !.at = next]
  /\ batch' = IF p \in exited THEN batch ELSE batch \o procBuf[p]
  /\ procBuf' = IF p \in exited THEN procBuf ELSE [procBuf EXCEPT ![p] = <<>>]
  /\ UNCHANGED <<clockVars, dockerVars, exited, entries, sent, faults>>

CollectJournald == CollectProc("journald", "fail2ban")
CollectFail2ban == CollectProc("fail2ban", "docker")

(* A bug's form: emptied although nothing is returned. *)
KeptEmptied == <<>>

\* What DockerLogs.Collect leaves in the buffer: all of it while the daemon does not answer.
KeptBuffer == IF failed THEN dockerBuf ELSE <<>>

CollectDocker ==
  /\ tick.at = "docker"
  /\ tick' = [tick EXCEPT !.at = "build"]
  /\ batch' = IF failed THEN batch ELSE batch \o dockerBuf
  /\ dockerBuf' = KeptBuffer
  /\ UNCHANGED <<clockVars, listing, listedAt, tailers, tail, failed, procVars, sent, faults>>

(* A bug's form: an event's own time is ignored. *)
StampTick(event) == <<"tick", tick.n>>

\* Stamps are told apart as <<"tick", n>> and <<"own", ts>>.
EventStamp(event) == IF event.ts = 0 THEN <<"tick", tick.n>> ELSE <<"own", event.ts>>

\* BuildBatchWithDocuments; what becomes of the batch is Delivery's.
Build ==
  /\ tick.at = "build" /\ tick.n < MaxTicks
  /\ tick' = [n |-> tick.n + 1, at |-> "journald"]
  /\ sent' = sent \o [i \in DOMAIN batch |-> [event |-> batch[i], stamp |-> EventStamp(batch[i])]]
  /\ batch' = <<>>
  /\ UNCHANGED <<clockVars, dockerVars, procVars, faults>>

TailNext ==
  \/ Second \/ Lists \/ ListFails \/ Reconcile \/ CollectDocker \/ Build
  \/ CollectJournald \/ CollectFail2ban \/ JournalctlExits \/ TailExits
  \/ \E c \in Containers : ContainerRuns(c) \/ \E s \in Streams : WritesLine(c, s)
  \/ \E m \in Messages, n \in Priorities : JournalEntry(m, n)
  \/ \E action \in {"Ban", "Unban"} : BanEntry(action)
  \/ \E c \in Containers : \E n \in DOMAIN tail[c] :
       \/ TailOpens(c, n) \/ TailEnds(c, n)
       \/ \E s \in Streams : TakesLine(c, n, s) \/ \E k \in DOMAIN Text[c][s] : ReadsFrame(c, n, s, k)

TailSpec == TailInit /\ [][TailNext]_tailVars

-----------------------------------------------------------------------------
\* The events of container lines and of others that have been collected, in order.
Collected == [i \in DOMAIN sent |-> sent[i].event] \o batch \o dockerBuf

(* Positions are within what was written, buffers hold events of their     *)
(* sources, and every tailer entry names a goroutine that was started.     *)
TailTypeOK ==
  /\ second \in 1..MaxSeconds /\ running \subseteq Containers /\ listedAt \in 0..second
  /\ listing = NoList \/ listing \subseteq Containers
  /\ \A c \in Containers, s \in Streams : before[c][s] <= wrote[c][s] /\ wrote[c][s] <= Len(Text[c][s])
  /\ tailers \subseteq {c \in Containers : tail[c] # <<>>} /\ failed \in BOOLEAN /\ exited \subseteq Followers
  /\ \A c \in Containers :
       /\ Len(tail[c]) <= MaxTailers
       /\ \A n \in DOMAIN tail[c] :
            /\ tail[c][n].pc \in {"starts", "reads", "ended"} /\ tail[c][n].cancelled \in BOOLEAN
            /\ \A s \in Streams : tail[c][n].at[s] <= wrote[c][s]
  /\ \A i \in DOMAIN dockerBuf : dockerBuf[i].from \in Containers
  /\ entries \in 0..MaxEntries /\ faults \in 0..MaxFaults
  /\ tick.n \in 1..MaxTicks /\ tick.at \in Followers \cup {"docker", "build"}

(* A line a container wrote is forwarded at most once, and the lines of a  *)
(* stream in the order in which they were written: across tailers of the   *)
(* same container (the second a tailer starts in is read from its start),  *)
(* across frames, and although the journal has the line as well.           *)
EachLineOnce ==
  \A i, j \in DOMAIN Collected :
    LET x == Collected[i]
        y == Collected[j]
    IN i < j /\ x.from \in Containers /\ y.from = x.from /\ y.stream = x.stream => x.end < y.end

(* A forwarded line is a line its container wrote to that stream, whole    *)
(* but for the cap on its length, with the level of the line and stream,   *)
(* and no routine health check, however frames cut the two streams. With   *)
(* it, every variable has its type.                                        *)
LinesWhole ==
  /\ TailTypeOK
  /\ \A i \in DOMAIN dockerBuf :
       LET e == dockerBuf[i]
           line == LineAt(Text[e.from][e.stream], e.end)
       IN /\ e.end \in Ends(e.from, e.stream) /\ line \notin Routine
          /\ e.text = Truncated(line) /\ e.level = LogLevel(line, e.stream)

(* Whatever a tailer has read is forwarded, in the buffer, or still to be  *)
(* taken from its frame, unless it is empty or a routine health check:     *)
(* neither a daemon that stops answering nor a drain while lines arrive    *)
(* loses one.                                                              *)
NothingForgotten ==
  \A c \in Containers, s \in Streams : \A n \in DOMAIN tail[c] :
    LET t == tail[c][n] IN
    \A e \in Ends(c, s) : t.start[s] < e /\ e <= t.at[s] =>
      \/ LineAt(Text[c][s], e) \in Routine \cup {<<>>}
      \/ e > t.at[s] - Len(t.pending[s]) /\ t.pending[s][e - t.at[s] + Len(t.pending[s])] = NL
      \/ \E i \in DOMAIN Collected :
           Collected[i].from = c /\ Collected[i].stream = s /\ Collected[i].end = e

(* Journal entries of different times never share an event identity on     *)
(* the server (time, level, message), although one tick sends them all.    *)
KeptApart ==
  \A i, j \in DOMAIN sent :
    i # j /\ sent[i].event.from = "journald" /\ sent[j].event.from = "journald"
      => <<sent[i].stamp, sent[i].event.level, sent[i].event.text>> # <<sent[j].stamp, sent[j].event.level, sent[j].event.text>>

=============================================================================
