----------------------------- MODULE TailProofs -----------------------------
(***************************************************************************)
(* The safety properties of Tail for any containers, texts, messages and   *)
(* bounds.  TailInv follows a line from the text of its container through  *)
(* the tailer that holds its beginning, the collector's buffer and the     *)
(* batch to what is sent: what a tailer holds is what the text has after   *)
(* the last line it took (Reads), what is collected of a stream lies       *)
(* before that place (Bounds) and everything behind it is collected        *)
(* (Behind).                                                               *)
(***************************************************************************)
EXTENDS Tail, TLAPS



(* What the collectors hold: events of containers, journald and fail2ban. *)
Events ==
  [from : Containers \cup Followers, stream : Streams \cup Followers, end : Nat,
   text : Seq(STRING) \cup {<<"Ban">>, <<"Unban">>},
   level : {"error", "warn", "info"} \cup {Severity[m] : m \in DOMAIN Severity}, ts : Nat]

SentEvent == [event : Events, stamp : {"tick", "own"} \X Nat]

Tailer ==
  [pc : {"starts", "reads", "ended"}, cancelled : BOOLEAN, start : [Streams -> Nat],
   at : [Streams -> Nat], pending : [Streams -> Seq(STRING)]]

\* The clock, the containers and the tailers.
TailerTypes ==
  /\ second \in 1..MaxSeconds /\ running \subseteq Containers
  /\ wrote \in [Containers -> [Streams -> Nat]] /\ before \in [Containers -> [Streams -> Nat]]
  /\ listing = NoList \/ listing \subseteq Containers
  /\ listedAt \in 0..second /\ (listing # NoList => listedAt < second)
  /\ tailers \subseteq Containers /\ tail \in [Containers -> Seq(Tailer)]
  /\ \A c \in Containers : Len(tail[c]) <= MaxTailers
  /\ failed \in BOOLEAN /\ faults \in 0..MaxFaults

\* The buffers and the tick.
BufferTypes ==
  /\ dockerBuf \in Seq(Events) /\ batch \in Seq(Events)
  /\ sent \in Seq(SentEvent)
  /\ procBuf \in [Followers -> Seq(Events)]
  /\ exited \subseteq Followers /\ entries \in 0..MaxEntries
  /\ tick \in [n : 1..MaxTicks, at : Followers \cup {"docker", "build"}]

LineEnd(c, s, b) == b = 0 \/ Text[c][s][b] = NL

\* A container has written whole lines.
Written ==
  \A c \in Containers, s \in Streams :
    /\ before[c][s] <= wrote[c][s] /\ wrote[c][s] <= Len(Text[c][s])
    /\ LineEnd(c, s, wrote[c][s]) /\ LineEnd(c, s, before[c][s])

\* How far a tailer has split what it read.
Base(t, s) == t.at[s] - Len(t.pending[s])

\* The rest p is what the text has after base.
Copy(p, text, base) == \A j \in 1..Len(p) : p[j] = text[base + j]

\* A tailer has read up to at, of w written, and holds what follows a line end.
ReadOK(c, s, t, w) ==
  /\ t.start[s] <= Base(t, s) /\ t.at[s] <= w /\ LineEnd(c, s, Base(t, s))
  /\ Copy(t.pending[s], Text[c][s], Base(t, s))
  /\ t.pc = "starts" => t.pending[s] = <<>> /\ t.at[s] = 0 /\ t.start[s] = 0

Reads == \A c \in Containers, s \in Streams : \A n \in DOMAIN tail[c] : ReadOK(c, s, tail[c][n], wrote[c][s])

\* Of a container's tailers only the newest may run, and a cancelled one not
\* beyond its second.
OneTailer ==
  \A c \in Containers :
    /\ c \in tailers => tail[c] # <<>>
    /\ \A n \in DOMAIN tail[c] :
         /\ n # Len(tail[c]) => tail[c][n].cancelled /\ tail[c][n].pc = "ended"
         /\ c \notin tailers => tail[c][n].cancelled
         /\ tail[c][n].cancelled /\ listedAt < second => tail[c][n].pc = "ended"

Seen ==
  {sent[i].event : i \in DOMAIN sent} \cup {batch[i] : i \in DOMAIN batch}
    \cup {dockerBuf[i] : i \in DOMAIN dockerBuf}

\* What is collected of a stream lies before what its newest tailer will split.
BoundOK(s, end, t, b) ==
  /\ t.pc = "reads" => end <= Base(t, s)
  /\ t.pc = "starts" => end <= b

Bounds ==
  \A x \in Seen : x.from \in Containers =>
    /\ x.stream \in Streams /\ x.end <= wrote[x.from][x.stream]
    /\ \A n \in DOMAIN tail[x.from] : BoundOK(x.stream, x.end, tail[x.from][n], before[x.from][x.stream])
    /\ x.from \notin tailers /\ listedAt < second => x.end <= before[x.from][x.stream]

\* The times of journal entries.
Numbered ==
  /\ \A x \in Seen : x.from = "journald" => x.ts \in 1..entries
  /\ \A i \in DOMAIN procBuf["journald"] : procBuf["journald"][i].ts \in 1..entries

\* An order that holds between lines of one stream and between journal entries.
Follows(x, y) ==
  /\ x.from \in Containers /\ y.from = x.from /\ y.stream = x.stream => x.end < y.end
  /\ x.from = "journald" /\ y.from = "journald" => x.ts < y.ts

InOrder(q) == \A i, j \in DOMAIN q : i < j => Follows(q[i], q[j])
Precedes(q, r) == \A i \in DOMAIN q, j \in DOMAIN r : Follows(q[i], r[j])

SentEvents == [i \in DOMAIN sent |-> sent[i].event]

Sources ==
  /\ \A i \in DOMAIN dockerBuf : dockerBuf[i].from \in Containers
  /\ \A p \in Followers : \A i \in DOMAIN procBuf[p] : procBuf[p][i].from = p

Pipeline ==
  /\ InOrder(SentEvents) /\ InOrder(batch) /\ InOrder(dockerBuf)
  /\ Precedes(SentEvents, batch) /\ Precedes(SentEvents, dockerBuf) /\ Precedes(batch, dockerBuf)
  /\ \A p \in Followers :
       InOrder(procBuf[p]) /\ Precedes(SentEvents, procBuf[p]) /\ Precedes(batch, procBuf[p])

\* The stamp of a journal entry is its own time.
Stamped ==
  \A i \in DOMAIN sent : sent[i].event.from = "journald" => sent[i].stamp = <<"own", sent[i].event.ts>>

WholeLine(e) ==
  LET line == LineAt(Text[e.from][e.stream], e.end)
  IN /\ e.end \in Ends(e.from, e.stream) /\ line \notin Routine
     /\ e.text = Truncated(line) /\ e.level = LogLevel(line, e.stream)

Whole == \A i \in DOMAIN dockerBuf : WholeLine(dockerBuf[i])

\* What is behind a tailer is collected.
Taken(S, c, s, e) == \E x \in S : x.from = c /\ x.stream = s /\ x.end = e

Behind ==
  \A c \in Containers, s \in Streams : \A n \in DOMAIN tail[c] : \A e \in Ends(c, s) :
    tail[c][n].start[s] < e /\ e <= Base(tail[c][n], s) =>
      LineAt(Text[c][s], e) \in Routine \cup {<<>>} \/ Taken(Seen, c, s, e)

TailInv ==
  /\ TailerTypes /\ BufferTypes /\ Written /\ Reads /\ OneTailer
  /\ Sources /\ Bounds /\ Numbered /\ Pipeline /\ Stamped /\ Whole /\ Behind

-----------------------------------------------------------------------------
(* A sequence is its length and its elements. *)
LEMMA SameSequence ==
  ASSUME NEW S, NEW s \in Seq(S), NEW t \in Seq(S), Len(s) = Len(t), \A i \in 1..Len(s) : s[i] = t[i]
  PROVE  s = t
OBVIOUS

(* What a concatenation holds. *)
LEMMA ConcatContents ==
  ASSUME NEW S, NEW s \in Seq(S), NEW t \in Seq(S)
  PROVE  /\ s \o t \in Seq(S) /\ Len(s \o t) = Len(s) + Len(t)
         /\ \A i \in 1..(Len(s) + Len(t)) : (s \o t)[i] = IF i <= Len(s) THEN s[i] ELSE t[i - Len(s)]
OBVIOUS

(* Two positions of a sequence, one before the other. *)
LEMMA Positions ==
  ASSUME NEW S, NEW s \in Seq(S), NEW i \in DOMAIN s, NEW j \in DOMAIN s, i # j
  PROVE  i < j \/ j < i
OBVIOUS

(* Two times, one before the other. *)
LEMMA Apart ==
  ASSUME NEW x \in Nat, NEW y \in Nat, x < y \/ y < x
  PROVE  x # y /\ <<"own", x>> # <<"own", y>>
OBVIOUS

(* Sequences of events. *)

\* Two parts in order, the first before the second, are in order together.
LEMMA ConcatInOrder ==
  ASSUME NEW S, NEW q \in Seq(S), NEW r \in Seq(S), InOrder(q), InOrder(r), Precedes(q, r)
  PROVE  InOrder(q \o r)
<1> DEFINE z == q \o r
<1>1. /\ z \in Seq(S) /\ Len(q) \in Nat /\ Len(r) \in Nat /\ Len(z) = Len(q) + Len(r) /\ DOMAIN z = 1..Len(z)
      /\ DOMAIN q = 1..Len(q) /\ DOMAIN r = 1..Len(r)
      /\ \A i \in 1..Len(z) : z[i] = IF i <= Len(q) THEN q[i] ELSE r[i - Len(q)]
  OBVIOUS
<1> HIDE DEF z
<1> SUFFICES ASSUME NEW i \in DOMAIN z, NEW j \in DOMAIN z, i < j
             PROVE  Follows(z[i], z[j])
  BY Zenon DEF InOrder, z
<1>2. CASE j <= Len(q)
  <2>1. i \in DOMAIN q /\ j \in DOMAIN q /\ z[i] = q[i] /\ z[j] = q[j]
    BY <1>1, <1>2
  <2> QED
    BY Zenon, <2>1 DEF InOrder
<1>3. CASE i <= Len(q) /\ j > Len(q)
  <2>1. i \in DOMAIN q /\ j - Len(q) \in DOMAIN r /\ z[i] = q[i] /\ z[j] = r[j - Len(q)]
    BY <1>1, <1>3
  <2> QED
    BY Zenon, <2>1 DEF Precedes
<1>4. CASE i > Len(q)
  <2>1. /\ i - Len(q) \in DOMAIN r /\ j - Len(q) \in DOMAIN r /\ i - Len(q) < j - Len(q)
        /\ z[i] = r[i - Len(q)] /\ z[j] = r[j - Len(q)]
    BY <1>1, <1>4
  <2> QED
    BY Zenon, <2>1 DEF InOrder
<1> QED
  BY <1>1, <1>2, <1>3, <1>4

Elements(q) == {q[i] : i \in DOMAIN q}

\* Every element of two parts together is one of a part.
LEMMA ConcatElements ==
  ASSUME NEW S, NEW q \in Seq(S), NEW r \in Seq(S)
  PROVE  /\ q \o r \in Seq(S)
         /\ Elements(q \o r) = Elements(q) \cup Elements(r)
<1> DEFINE z == q \o r
<1>1. /\ z \in Seq(S) /\ Len(q) \in Nat /\ Len(r) \in Nat /\ Len(z) = Len(q) + Len(r) /\ DOMAIN z = 1..Len(z)
      /\ DOMAIN q = 1..Len(q) /\ DOMAIN r = 1..Len(r)
      /\ \A i \in 1..Len(z) : z[i] = IF i <= Len(q) THEN q[i] ELSE r[i - Len(q)]
  OBVIOUS
<1> HIDE DEF z
<1>2. ASSUME NEW i \in DOMAIN z
      PROVE  z[i] \in {q[j] : j \in DOMAIN q} \cup {r[j] : j \in DOMAIN r}
  <2>1. CASE i <= Len(q)
    BY <1>1, <2>1
  <2>2. CASE i > Len(q)
    <3>1. i - Len(q) \in DOMAIN r /\ z[i] = r[i - Len(q)]
      BY <1>1, <2>2
    <3> QED
      BY Zenon, <3>1
  <2> QED
    BY <1>1, <2>1, <2>2
<1>3. ASSUME NEW j \in DOMAIN q
      PROVE  j \in DOMAIN z /\ z[j] = q[j]
  BY <1>1
<1>4. ASSUME NEW j \in DOMAIN r
      PROVE  j + Len(q) \in DOMAIN z /\ z[j + Len(q)] = r[j]
  BY <1>1
<1>5. ASSUME NEW x \in {q[j] : j \in DOMAIN q} \cup {r[j] : j \in DOMAIN r}
      PROVE  x \in {z[i] : i \in DOMAIN z}
  BY Zenon, <1>3, <1>4
<1>6. {z[i] : i \in DOMAIN z} = {q[j] : j \in DOMAIN q} \cup {r[j] : j \in DOMAIN r}
  BY Zenon, <1>2, <1>5
<1> QED
  BY Zenon, <1>1, <1>6 DEF z, Elements

\* One more element.
LEMMA AppendElements ==
  ASSUME NEW S, NEW q \in Seq(S), NEW x \in S
  PROVE  /\ Append(q, x) \in Seq(S)
         /\ Elements(Append(q, x)) = Elements(q) \cup {x}
<1> DEFINE z == Append(q, x)
<1>1. /\ z \in Seq(S) /\ Len(q) \in Nat /\ Len(z) = Len(q) + 1 /\ DOMAIN z = 1..Len(z) /\ DOMAIN q = 1..Len(q)
      /\ \A i \in 1..Len(z) : z[i] = IF i <= Len(q) THEN q[i] ELSE x
  OBVIOUS
<1> HIDE DEF z
<1>2. /\ \A i \in DOMAIN z : z[i] = x \/ (i \in DOMAIN q /\ z[i] = q[i])
      /\ \A i \in DOMAIN q : i \in DOMAIN z /\ z[i] = q[i]
      /\ Len(q) + 1 \in DOMAIN z /\ z[Len(q) + 1] = x
  BY <1>1
<1>3. {z[i] : i \in DOMAIN z} = {q[i] : i \in DOMAIN q} \cup {x}
  BY Zenon, <1>2
<1> QED
  BY Zenon, <1>1, <1>3 DEF z, Elements

\* What comes after every element of a sequence in order may be appended.
LEMMA AppendInOrder ==
  ASSUME NEW S, NEW q \in Seq(S), NEW x \in S, InOrder(q), \A i \in DOMAIN q : Follows(q[i], x)
  PROVE  InOrder(Append(q, x))
<1> DEFINE z == Append(q, x)
<1>1. /\ Len(q) \in Nat /\ DOMAIN z = 1..Len(q) + 1 /\ DOMAIN q = 1..Len(q)
      /\ \A i \in 1..Len(q) : z[i] = q[i]
      /\ z[Len(q) + 1] = x
  OBVIOUS
<1> HIDE DEF z
<1> SUFFICES ASSUME NEW i \in DOMAIN z, NEW j \in DOMAIN z, i < j
             PROVE  Follows(z[i], z[j])
  BY Zenon DEF InOrder, z
<1>2. i \in DOMAIN q /\ z[i] = q[i]
  BY <1>1
<1>3. CASE j = Len(q) + 1
  BY Zenon, <1>1, <1>2, <1>3
<1>4. CASE j # Len(q) + 1
  <2>1. j \in DOMAIN q /\ z[j] = q[j]
    BY <1>1, <1>4
  <2> QED
    BY Zenon, <1>2, <2>1 DEF InOrder
<1> QED
  BY Zenon, <1>3, <1>4

-----------------------------------------------------------------------------
(* Types of parts. *)

LEMMA SeenTyped ==
  ASSUME BufferTypes
  PROVE  /\ Seen \subseteq Events
         /\ \A x \in Seen : x.end \in Nat /\ x.ts \in Nat
<1>1. /\ \A i \in DOMAIN sent : sent[i].event \in Events
      /\ \A i \in DOMAIN batch : batch[i] \in Events
      /\ \A i \in DOMAIN dockerBuf : dockerBuf[i] \in Events
  <2>1. /\ \A i \in DOMAIN sent : sent[i] \in SentEvent
        /\ \A i \in DOMAIN batch : batch[i] \in Events
        /\ \A i \in DOMAIN dockerBuf : dockerBuf[i] \in Events
    BY DEF BufferTypes
  <2>2. \A x \in SentEvent : x.event \in Events
    BY Zenon DEF SentEvent
  <2> QED
    BY Zenon, <2>1, <2>2
<1>2. Seen \subseteq Events
  BY Zenon, <1>1 DEF Seen
<1>3. \A x \in Events : x.end \in Nat /\ x.ts \in Nat
  BY Zenon DEF Events
<1> QED
  BY Zenon, <1>2, <1>3

LEMMA TailerFields ==
  ASSUME NEW t \in Tailer
  PROVE  /\ t.pc \in {"starts", "reads", "ended"} /\ t.cancelled \in BOOLEAN
         /\ \A s \in Streams :
              /\ t.start[s] \in Nat /\ t.at[s] \in Nat /\ t.pending[s] \in Seq(STRING)
              /\ Len(t.pending[s]) \in Nat /\ Base(t, s) \in Int
<1>1. /\ t.pc \in {"starts", "reads", "ended"} /\ t.cancelled \in BOOLEAN
      /\ t.start \in [Streams -> Nat] /\ t.at \in [Streams -> Nat] /\ t.pending \in [Streams -> Seq(STRING)]
  BY Zenon DEF Tailer
<1>2. \A q \in Seq(STRING) : Len(q) \in Nat
  OBVIOUS
<1>3. \A s \in Streams : t.start[s] \in Nat /\ t.at[s] \in Nat /\ t.pending[s] \in Seq(STRING) /\ Len(t.pending[s]) \in Nat
  BY Zenon, <1>1, <1>2
<1> QED
  BY <1>1, <1>3 DEF Base

LEMMA TailerTyped ==
  ASSUME TailerTypes, NEW c \in Containers
  PROVE  /\ tail[c] \in Seq(Tailer) /\ Len(tail[c]) \in Nat /\ DOMAIN tail[c] = 1..Len(tail[c])
         /\ \A n \in DOMAIN tail[c] : tail[c][n] \in Tailer
         /\ \A s \in Streams : wrote[c][s] \in Nat /\ before[c][s] \in Nat
<1>1. /\ tail[c] \in Seq(Tailer)
      /\ \A s \in Streams : wrote[c][s] \in Nat /\ before[c][s] \in Nat
  BY Zenon DEF TailerTypes
<1>2. /\ Len(tail[c]) \in Nat /\ DOMAIN tail[c] = 1..Len(tail[c])
      /\ \A n \in DOMAIN tail[c] : tail[c][n] \in Tailer
  BY <1>1
<1> QED
  BY Zenon, <1>1, <1>2

-----------------------------------------------------------------------------
(* What a step leaves alone. *)

\* Nothing happens to the buffers.
LEMMA BuffersRest ==
  ASSUME BufferTypes, Sources, Numbered, Pipeline, Stamped, Whole,
         UNCHANGED <<dockerBuf, procBuf, entries, tickVars>>, exited' \subseteq Followers
  PROVE  BufferTypes' /\ Sources' /\ Numbered' /\ Pipeline' /\ Stamped' /\ Whole' /\ Seen' = Seen
<1>1. /\ dockerBuf' = dockerBuf /\ procBuf' = procBuf /\ entries' = entries
      /\ tick' = tick /\ batch' = batch /\ sent' = sent
  BY Zenon DEF tickVars
<1>2. Seen' = Seen /\ SentEvents' = SentEvents
  BY Zenon, <1>1 DEF Seen, SentEvents
<1>3. BufferTypes'
  BY Zenon, <1>1 DEF BufferTypes
<1>4. Sources' /\ Numbered' /\ Stamped'
  BY Zenon, <1>1, <1>2 DEF Sources, Numbered, Stamped
<1>5. Pipeline'
  BY Zenon, <1>1, <1>2 DEF Pipeline
<1>6. Whole'
  BY Zenon, <1>1 DEF Whole, WholeLine
<1> QED
  BY Zenon, <1>2, <1>3, <1>4, <1>5, <1>6

\* Nothing happens to the tailers, and no container's line is collected.
LEMMA TailersRest ==
  ASSUME TailerTypes, Written, Reads, OneTailer, Bounds, Behind,
         UNCHANGED <<second, wrote, before, tailers, tail>>, listedAt' \in {listedAt, second},
         Seen \subseteq Seen', \A x \in Seen' : x \in Seen \/ x.from \notin Containers
  PROVE  Written' /\ Reads' /\ OneTailer' /\ Bounds' /\ Behind'
<1>1. /\ second' = second /\ wrote' = wrote /\ before' = before /\ tailers' = tailers /\ tail' = tail
      /\ listedAt' < second' => listedAt < second
  BY DEF TailerTypes
<1>2. Written' /\ Reads'
  <2>1. Written'
    BY Zenon, <1>1 DEF Written, LineEnd
  <2>2. Reads'
    BY Zenon, <1>1 DEF Reads
  <2> QED
    BY Zenon, <2>1, <2>2
<1>3. OneTailer'
  BY Zenon, <1>1 DEF OneTailer
<1>5. Bounds'
  BY Zenon, <1>1 DEF Bounds
<1>6. \A c, s, e : Taken(Seen, c, s, e) => Taken(Seen', c, s, e)
  BY Zenon DEF Taken
<1>7. Behind'
  BY Zenon, <1>1, <1>6 DEF Behind
<1> QED
  BY Zenon, <1>2, <1>3, <1>5, <1>7

\* A step of the clock, the list or a subprocess.
LEMMA ListKeeps ==
  ASSUME TailInv,
         \/ \E c \in Containers : ContainerRuns(c)
         \/ Lists \/ ListFails \/ JournalctlExits \/ TailExits \/ UNCHANGED tailVars
  PROVE  TailInv'
<1>1. /\ UNCHANGED <<second, wrote, before, tailers, tail, dockerBuf, procBuf, entries, tickVars>>
      /\ listedAt' \in {listedAt, second}
  BY Zenon DEF ContainerRuns, Lists, ListFails, JournalctlExits, TailExits, Exits, tailVars, clockVars, dockerVars, procVars, tickVars
<1>2. exited' \subseteq Followers
  BY Zenon DEF TailInv, BufferTypes, Followers, ContainerRuns, Lists, ListFails, JournalctlExits, TailExits, Exits, tailVars, procVars
<1>3. TailerTypes'
  <2>1. MaxFaults \in Nat
    BY Zenon, TailAssumption
  <2>2. faults \in 0..MaxFaults /\ (faults' = faults \/ (faults < MaxFaults /\ faults' = faults + 1))
    BY Zenon DEF TailInv, TailerTypes, ContainerRuns, Lists, ListFails, JournalctlExits, TailExits, Exits, tailVars
  <2>3. faults' \in 0..MaxFaults
    BY <2>1, <2>2
  <2>4. running' \subseteq Containers /\ failed' \in BOOLEAN
    BY Zenon DEF TailInv, TailerTypes, ContainerRuns, Lists, ListFails, JournalctlExits, TailExits, Exits, tailVars, clockVars, dockerVars
  <2>5. /\ listing' = NoList \/ listing' \subseteq Containers
        /\ listing' # NoList => listedAt' < second
        /\ listedAt' \in 0..second
    BY DEF TailInv, TailerTypes, ContainerRuns, Lists, ListFails, JournalctlExits, TailExits, Exits, tailVars, clockVars, dockerVars
  <2> QED
    BY Zenon, <1>1, <2>3, <2>4, <2>5 DEF TailInv, TailerTypes
<1> QED
  BY Zenon, <1>1, <1>2, <1>3, BuffersRest, TailersRest DEF TailInv


\* A second passes: what is collected of a container was written before it.
LEMMA SecondKeeps ==
  ASSUME TailInv, Second
  PROVE  TailInv'
<1>1. /\ UNCHANGED <<wrote, listing, listedAt, tailers, tail, failed, faults, running>>
      /\ second' = second + 1 /\ before' = wrote
      /\ UNCHANGED <<dockerBuf, procBuf, entries, tickVars>> /\ exited' \subseteq Followers
  BY Zenon DEF Second, dockerVars, procVars, TailInv, BufferTypes
<1>2. MaxSeconds \in Nat
  BY Zenon, TailAssumption
<1>3. TailerTypes'
  <2>1. second' \in 1..MaxSeconds /\ listedAt \in 0..second' /\ listedAt < second'
    BY <1>1, <1>2 DEF TailInv, TailerTypes, Second
  <2> QED
    BY Zenon, <1>1, <2>1 DEF TailInv, TailerTypes
<1>4. Written'
  <2>1. ASSUME NEW c \in Containers, NEW s \in Streams
        PROVE  wrote[c][s] \in Nat
    BY Zenon DEF TailInv, TailerTypes
  <2> QED
    BY <1>1, <2>1 DEF TailInv, Written, LineEnd
<1>5. Reads'
  BY Zenon, <1>1 DEF TailInv, Reads
<1>6. OneTailer'
  BY Zenon, <1>1 DEF TailInv, OneTailer, Second
<1>7. BufferTypes' /\ Sources' /\ Numbered' /\ Pipeline' /\ Stamped' /\ Whole' /\ Seen' = Seen
  BY Zenon, <1>1, BuffersRest DEF TailInv
<1>8. Bounds'
  BY Zenon, <1>1, <1>7 DEF TailInv, Bounds, BoundOK
<1>9. Behind'
  BY Zenon, <1>1, <1>7 DEF TailInv, Behind
<1> QED
  BY Zenon, <1>3, <1>4, <1>5, <1>6, <1>7, <1>8, <1>9 DEF TailInv

\* A container writes a line; the journal's copy of it is left out.
LEMMA WritesKeeps ==
  ASSUME TailInv, NEW c \in Containers, NEW s \in Streams, WritesLine(c, s)
  PROVE  TailInv'
<1>1. PICK e \in Ends(c, s) :
        /\ e > wrote[c][s] /\ wrote' = [wrote EXCEPT ![c][s] = e]
        /\ UNCHANGED <<second, running, before, dockerVars, exited, entries, tickVars, faults>>
        /\ procBuf' = IF ForwardsEntry(LineAt(Text[c][s], e), c)
             THEN Appended("journald", Event(c, s, e, Truncated(LineAt(Text[c][s], e)), "info", second)) ELSE procBuf
  BY Zenon DEF WritesLine
<1>2. procBuf' = procBuf
  <2>1. c # NoContainer
    BY Zenon, TailAssumption
  <2> QED
    BY Zenon, <1>1, <2>1 DEF ForwardsEntry
<1>3. /\ UNCHANGED <<second, running, before, listing, listedAt, tailers, tail, failed, faults>>
      /\ UNCHANGED <<dockerBuf, procBuf, entries, tickVars>> /\ exited' \subseteq Followers
  BY Zenon, <1>1, <1>2 DEF dockerVars, TailInv, BufferTypes
<1>4. /\ wrote \in [Containers -> [Streams -> Nat]]
      /\ e \in Nat /\ e <= Len(Text[c][s]) /\ Text[c][s][e] = NL
  <2>1. Text[c][s] \in Seq(STRING)
    BY Zenon, TailAssumption
  <2> QED
    BY <2>1 DEF Ends, TailInv, TailerTypes
<1>5. /\ wrote' \in [Containers -> [Streams -> Nat]]
      /\ wrote'[c][s] = e
      /\ \A d \in Containers, o \in Streams : d # c \/ o # s => wrote'[d][o] = wrote[d][o]
  BY Zenon, <1>1, <1>4
<1>6. \A d \in Containers, o \in Streams : wrote[d][o] <= wrote'[d][o]
  BY <1>1, <1>4, <1>5
<1>7. TailerTypes'
  BY Zenon, <1>3, <1>5 DEF TailInv, TailerTypes
<1>8. Written'
  <2> SUFFICES ASSUME NEW d \in Containers, NEW o \in Streams
               PROVE  /\ before[d][o] <= wrote'[d][o] /\ wrote'[d][o] <= Len(Text[d][o])
                      /\ LineEnd(d, o, wrote'[d][o]) /\ LineEnd(d, o, before[d][o])
    BY Zenon, <1>3 DEF Written, LineEnd
  <2>1. /\ before[d][o] \in Nat /\ wrote[d][o] \in Nat /\ before[d][o] <= wrote[d][o] /\ wrote[d][o] <= Len(Text[d][o])
        /\ LineEnd(d, o, wrote[d][o]) /\ LineEnd(d, o, before[d][o])
    BY Zenon DEF TailInv, TailerTypes, Written
  <2>2. CASE d = c /\ o = s
    <3>1. before[d][o] <= e
      BY <1>1, <1>4, <2>1, <2>2
    <3> QED
      BY Zenon, <1>4, <1>5, <2>1, <2>2, <3>1 DEF LineEnd
  <2>3. CASE d # c \/ o # s
    BY Zenon, <1>5, <2>1, <2>3
  <2> QED
    BY Zenon, <2>2, <2>3
<1>9. Reads'
  <2> SUFFICES ASSUME NEW d \in Containers, NEW o \in Streams, NEW n \in DOMAIN tail[d]
               PROVE  ReadOK(d, o, tail[d][n], wrote'[d][o])
    BY Zenon, <1>3 DEF Reads
  <2>1. ReadOK(d, o, tail[d][n], wrote[d][o]) /\ tail[d][n].at[o] \in Nat /\ wrote[d][o] \in Nat /\ wrote'[d][o] \in Nat
    <3>1. tail[d][n] \in Tailer
      BY Zenon, TailerTyped DEF TailInv
    <3>2. tail[d][n].at[o] \in Nat
      BY Zenon, <3>1, TailerFields
    <3> QED
      BY Zenon, <1>4, <1>5, <3>2 DEF TailInv, Reads
  <2>2. tail[d][n].at[o] <= wrote'[d][o]
    BY <1>6, <2>1 DEF ReadOK
  <2> QED
    BY Zenon, <2>1, <2>2 DEF ReadOK
<1>10. OneTailer'
  BY Zenon, <1>3 DEF TailInv, OneTailer
<1>11. BufferTypes' /\ Sources' /\ Numbered' /\ Pipeline' /\ Stamped' /\ Whole' /\ Seen' = Seen
  BY Zenon, <1>3, BuffersRest DEF TailInv
<1>12. Bounds'
  <2>1. ASSUME NEW x \in Seen, x.from \in Containers, x.stream \in Streams, x.end <= wrote[x.from][x.stream]
        PROVE  x.end <= wrote'[x.from][x.stream]
    <3>1. x.end \in Nat
      BY Zenon, SeenTyped DEF TailInv
    <3>2. wrote[x.from][x.stream] \in Nat /\ wrote'[x.from][x.stream] \in Nat
      BY Zenon, <1>4, <1>5, <2>1
    <3> QED
      BY <1>6, <2>1, <3>1, <3>2
  <2> QED
    BY Zenon, <1>3, <1>11, <2>1 DEF TailInv, Bounds
<1>13. Behind'
  BY Zenon, <1>3, <1>11 DEF TailInv, Behind
<1> QED
  BY Zenon, <1>7, <1>8, <1>9, <1>10, <1>11, <1>12, <1>13 DEF TailInv


-----------------------------------------------------------------------------
(* The tailers. *)

\* What Now writes.
LEMMA NowTail ==
  ASSUME TailerTypes, NEW c \in Containers, NEW n \in DOMAIN tail[c], NEW r \in Tailer, Now(c, n, r)
  PROVE  /\ tail' \in [Containers -> Seq(Tailer)] /\ tail'[c][n] = r
         /\ \A d \in Containers : Len(tail'[d]) = Len(tail[d]) /\ DOMAIN tail'[d] = DOMAIN tail[d]
         /\ \A d \in Containers : \A m \in DOMAIN tail[d] : d # c \/ m # n => tail'[d][m] = tail[d][m]
<1>1. /\ tail \in [Containers -> Seq(Tailer)]
      /\ tail' = [tail EXCEPT ![c] = [tail[c] EXCEPT ![n] = r]]
  BY Zenon DEF TailerTypes, Now
<1>2. /\ tail[c] \in Seq(Tailer) /\ Len(tail[c]) \in Nat /\ DOMAIN tail[c] = 1..Len(tail[c])
  BY Zenon, TailerTyped
<1> DEFINE q == [tail[c] EXCEPT ![n] = r]
<1>3. /\ q \in Seq(Tailer) /\ Len(q) = Len(tail[c]) /\ DOMAIN q = DOMAIN tail[c] /\ q[n] = r
      /\ \A m \in DOMAIN tail[c] : m # n => q[m] = tail[c][m]
  BY <1>2
<1>4. tail'[c] = q /\ \A d \in Containers : d # c => tail'[d] = tail[d]
  BY Zenon, <1>1
<1>5. tail' \in [Containers -> Seq(Tailer)]
  BY Zenon, <1>1, <1>3
<1> HIDE DEF q
<1> QED
  BY Zenon, <1>3, <1>4, <1>5

\* One tailer goes on.
LEMMA OneReads ==
  ASSUME TailInv, NEW c \in Containers, NEW n \in DOMAIN tail[c], NEW r \in Tailer, Now(c, n, r),
         faults' \in 0..MaxFaults, r.cancelled = tail[c][n].cancelled,
         tail[c][n].pc = "ended" => r.pc = "ended", \A s \in Streams : ReadOK(c, s, r, wrote[c][s])
  PROVE  TailerTypes' /\ Written' /\ Reads' /\ OneTailer'
<1>1. /\ UNCHANGED <<second, running, wrote, before, listing, listedAt, tailers, failed>>
  BY Zenon DEF Now, clockVars
<1>2. /\ tail' \in [Containers -> Seq(Tailer)] /\ tail'[c][n] = r
      /\ \A d \in Containers : Len(tail'[d]) = Len(tail[d]) /\ DOMAIN tail'[d] = DOMAIN tail[d]
      /\ \A d \in Containers : \A m \in DOMAIN tail[d] : d # c \/ m # n => tail'[d][m] = tail[d][m]
  BY Zenon, NowTail DEF TailInv
<1>3. TailerTypes'
  BY Zenon, <1>1, <1>2 DEF TailInv, TailerTypes
<1>4. Written'
  BY Zenon, <1>1 DEF TailInv, Written
<1>5. Reads'
  BY Zenon, <1>1, <1>2 DEF TailInv, Reads
<1>6. OneTailer'
  <2> SUFFICES ASSUME NEW d \in Containers
               PROVE  /\ d \in tailers => tail'[d] # <<>>
                      /\ \A m \in DOMAIN tail[d] :
                           /\ m # Len(tail[d]) => tail'[d][m].cancelled /\ tail'[d][m].pc = "ended"
                           /\ d \notin tailers => tail'[d][m].cancelled
                           /\ tail'[d][m].cancelled /\ listedAt < second => tail'[d][m].pc = "ended"
    BY Zenon, <1>1, <1>2 DEF OneTailer
  <2>1. d \in tailers => tail'[d] # <<>>
    <3>1. d \in tailers => tail[d] # <<>>
      BY Zenon DEF TailInv, OneTailer
    <3>2. tail[d] \in Seq(Tailer) /\ tail'[d] \in Seq(Tailer) /\ Len(tail'[d]) = Len(tail[d])
      BY Zenon, <1>2, TailerTyped DEF TailInv
    <3> QED
      BY <3>1, <3>2
  <2>2. ASSUME NEW m \in DOMAIN tail[d]
        PROVE  /\ m # Len(tail[d]) => tail'[d][m].cancelled /\ tail'[d][m].pc = "ended"
               /\ d \notin tailers => tail'[d][m].cancelled
               /\ tail'[d][m].cancelled /\ listedAt < second => tail'[d][m].pc = "ended"
    <3>1. /\ m # Len(tail[d]) => tail[d][m].cancelled /\ tail[d][m].pc = "ended"
          /\ d \notin tailers => tail[d][m].cancelled
          /\ tail[d][m].cancelled /\ listedAt < second => tail[d][m].pc = "ended"
      BY Zenon DEF TailInv, OneTailer
    <3>2. /\ tail'[d][m].cancelled = tail[d][m].cancelled
          /\ tail[d][m].pc = "ended" => tail'[d][m].pc = "ended"
      BY Zenon, <1>2
    <3> QED
      BY Zenon, <3>1, <3>2
  <2> QED
    BY Zenon, <2>1, <2>2
<1> QED
  BY Zenon, <1>3, <1>4, <1>5, <1>6

\* A running tailer is alone, and a container whose tailers are cancelled has none.
LEMMA Alone ==
  ASSUME TailInv, NEW c \in Containers, NEW n \in DOMAIN tail[c], tail[c][n].pc # "ended"
  PROVE  /\ \A m \in DOMAIN tail[c] : m # n => tail[c][m].pc = "ended"
         /\ ~(c \notin tailers /\ listedAt < second)
BY Zenon DEF TailInv, OneTailer

BehindOK(S, c, t) ==
  \A s \in Streams : \A e \in Ends(c, s) :
    t.start[s] < e /\ e <= Base(t, s) => LineAt(Text[c][s], e) \in Routine \cup {<<>>} \/ Taken(S, c, s, e)

\* One tailer goes on, and what it adds to the buffer lies before the rest.
LEMMA OneSees ==
  ASSUME TailInv, NEW c \in Containers, NEW n \in DOMAIN tail[c], NEW r \in Tailer, Now(c, n, r),
         Seen \subseteq Seen', tail[c][n].pc # "ended",
         \A x \in Seen : x.from = c /\ x.stream \in Streams => BoundOK(x.stream, x.end, r, before[c][x.stream]),
         \A x \in Seen' \ Seen :
           /\ x.from = c /\ x.stream \in Streams /\ x.end <= wrote[c][x.stream]
           /\ BoundOK(x.stream, x.end, r, before[c][x.stream]),
         BehindOK(Seen', c, r)
  PROVE  Bounds' /\ Behind'
<1>1. UNCHANGED <<second, wrote, before, listedAt, tailers>>
  BY Zenon DEF Now, clockVars
<1>2. /\ tail'[c][n] = r
      /\ \A d \in Containers : DOMAIN tail'[d] = DOMAIN tail[d]
      /\ \A d \in Containers : \A m \in DOMAIN tail[d] : d # c \/ m # n => tail'[d][m] = tail[d][m]
  BY NowTail DEF TailInv
<1>3. /\ \A m \in DOMAIN tail[c] : m # n => tail[c][m].pc = "ended"
      /\ ~(c \notin tailers /\ listedAt < second)
  BY Zenon, Alone
<1>4. Bounds'
  <2> SUFFICES ASSUME NEW x \in Seen', x.from \in Containers
               PROVE  /\ x.stream \in Streams /\ x.end <= wrote[x.from][x.stream]
                      /\ \A m \in DOMAIN tail[x.from] : BoundOK(x.stream, x.end, tail'[x.from][m], before[x.from][x.stream])
                      /\ x.from \notin tailers /\ listedAt < second => x.end <= before[x.from][x.stream]
    BY Zenon, <1>1, <1>2 DEF Bounds
  <2>1. CASE x \in Seen
    BY Zenon, <1>2, <2>1 DEF TailInv, Bounds
  <2>2. CASE x \notin Seen
    <3>1. ASSUME NEW m \in DOMAIN tail[c]
          PROVE  BoundOK(x.stream, x.end, tail'[c][m], before[c][x.stream])
      <4>1. CASE m = n
        BY Zenon, <1>2, <2>2, <4>1
      <4>2. CASE m # n
        <5>1. tail'[c][m].pc = "ended"
          BY Zenon, <1>2, <1>3, <4>2
        <5> QED
          BY Zenon, <5>1 DEF BoundOK
      <4> QED
        BY Zenon, <4>1, <4>2
    <3> QED
      BY Zenon, <1>3, <2>2, <3>1
  <2> QED
    BY Zenon, <2>1, <2>2
<1>5. Behind'
  <2>1. \A d, s, e : Taken(Seen, d, s, e) => Taken(Seen', d, s, e)
    BY Zenon DEF Taken
  <2>2. Behind' = \A d \in Containers, s \in Streams : \A m \in DOMAIN tail'[d] : \A e \in Ends(d, s) :
          tail'[d][m].start[s] < e /\ e <= Base(tail'[d][m], s) =>
            LineAt(Text[d][s], e) \in Routine \cup {<<>>} \/ Taken(Seen', d, s, e)
    BY Zenon DEF Behind
  <2>3. ASSUME NEW d \in Containers, NEW s \in Streams, NEW m \in DOMAIN tail[d], NEW e \in Ends(d, s),
               tail'[d][m].start[s] < e, e <= Base(tail'[d][m], s)
        PROVE  LineAt(Text[d][s], e) \in Routine \cup {<<>>} \/ Taken(Seen', d, s, e)
    <3>1. CASE d = c /\ m = n
      BY Zenon, <1>2, <2>3, <3>1 DEF BehindOK
    <3>2. CASE d # c \/ m # n
      <4>1. tail'[d][m] = tail[d][m]
        BY Zenon, <1>2, <3>2
      <4> QED
        BY Zenon, <2>1, <2>3, <4>1 DEF TailInv, Behind
    <3> QED
      BY Zenon, <3>1, <3>2
  <2> QED
    BY Zenon, <1>2, <2>2, <2>3
<1> QED
  BY Zenon, <1>4, <1>5


\* One tailer goes on and the buffer stays.
LEMMA OneKeeps ==
  ASSUME TailInv, NEW c \in Containers, NEW n \in DOMAIN tail[c], NEW r \in Tailer, Now(c, n, r),
         dockerBuf' = dockerBuf, faults' \in 0..MaxFaults, tail[c][n].pc # "ended",
         r.cancelled = tail[c][n].cancelled, \A s \in Streams : ReadOK(c, s, r, wrote[c][s]),
         \A x \in Seen : x.from = c /\ x.stream \in Streams => BoundOK(x.stream, x.end, r, before[c][x.stream]),
         BehindOK(Seen, c, r)
  PROVE  TailInv'
<1>1. UNCHANGED <<dockerBuf, procBuf, entries, tickVars>> /\ exited' \subseteq Followers
  BY Zenon DEF Now, procVars, TailInv, BufferTypes
<1>2. BufferTypes' /\ Sources' /\ Numbered' /\ Pipeline' /\ Stamped' /\ Whole' /\ Seen' = Seen
  BY Zenon, <1>1, BuffersRest DEF TailInv
<1>3. TailerTypes' /\ Written' /\ Reads' /\ OneTailer'
  BY Zenon, OneReads
<1>4. Bounds' /\ Behind'
  BY Zenon, <1>2, OneSees
<1> QED
  BY Zenon, <1>2, <1>3, <1>4 DEF TailInv

LEMMA OpensKeeps ==
  ASSUME TailInv, NEW c \in Containers, NEW n \in DOMAIN tail[c], TailOpens(c, n)
  PROVE  TailInv'
<1> DEFINE t == tail[c][n]
           r == [t EXCEPT !.pc = "reads", !.start = before[c], !.at = before[c]]
<1>1. t \in Tailer /\ \A s \in Streams : wrote[c][s] \in Nat /\ before[c][s] \in Nat
  BY Zenon, TailerTyped DEF TailInv
<1>2. before[c] \in [Streams -> Nat]
  BY Zenon DEF TailInv, TailerTypes
<1>3. /\ t.pc = "starts" /\ ~t.cancelled /\ Now(c, n, r) /\ dockerBuf' = dockerBuf /\ faults' = faults
  BY Zenon DEF TailOpens, Since
<1>4. /\ r \in Tailer /\ r.cancelled = t.cancelled /\ r.pc = "reads" /\ r.start = before[c] /\ r.at = before[c]
      /\ r.pending = t.pending
  BY Zenon, <1>1, <1>2 DEF Tailer
<1>5. faults' \in 0..MaxFaults
  BY Zenon, <1>3 DEF TailInv, TailerTypes
<1>6. ASSUME NEW s \in Streams
      PROVE  ReadOK(c, s, r, wrote[c][s]) /\ Base(r, s) = before[c][s]
  <2>1. t.pending[s] = <<>>
    BY Zenon, <1>3 DEF TailInv, Reads, ReadOK
  <2>2. Base(r, s) = before[c][s] /\ Len(r.pending[s]) = 0
    BY <1>1, <1>4, <2>1 DEF Base
  <2>3. before[c][s] <= wrote[c][s] /\ LineEnd(c, s, before[c][s])
    BY Zenon DEF TailInv, Written
  <2> HIDE DEF r
  <2> QED
    BY <1>1, <1>4, <2>2, <2>3 DEF ReadOK, Copy
<1> HIDE DEF r
<1>7. ASSUME NEW x \in Seen, x.from = c, x.stream \in Streams
      PROVE  BoundOK(x.stream, x.end, r, before[c][x.stream])
  BY Zenon, <1>3, <1>4, <1>6, <1>7 DEF TailInv, Bounds, BoundOK
<1>8. BehindOK(Seen, c, r)
  <2>1. \A s \in Streams : \A e \in Ends(c, s) : e \in Nat
    <3>1. \A s \in Streams : Text[c][s] \in Seq(STRING)
      BY Zenon, TailAssumption
    <3> QED
      BY <3>1 DEF Ends
  <2>2. \A s \in Streams : r.start[s] = Base(r, s) /\ Base(r, s) \in Nat
    BY Zenon, <1>1, <1>4, <1>6
  <2> QED
    BY <2>1, <2>2 DEF BehindOK
<1> QED
  BY Zenon, <1>3, <1>4, <1>5, <1>6, <1>7, <1>8, OneKeeps

LEMMA EndsKeeps ==
  ASSUME TailInv, NEW c \in Containers, NEW n \in DOMAIN tail[c], TailEnds(c, n)
  PROVE  TailInv'
<1> DEFINE t == tail[c][n]
           r == [t EXCEPT !.pc = "ended"]
<1>1. t \in Tailer
  BY Zenon, TailerTyped DEF TailInv
<1>2. /\ t.pc # "ended" /\ Now(c, n, r) /\ dockerBuf' = dockerBuf
      /\ faults' = faults \/ (faults < MaxFaults /\ faults' = faults + 1)
  BY Zenon DEF TailEnds
<1>3. /\ r \in Tailer /\ r.cancelled = t.cancelled /\ r.pc = "ended" /\ r.start = t.start /\ r.at = t.at
      /\ r.pending = t.pending
  BY Zenon, <1>1 DEF Tailer
<1>4. faults' \in 0..MaxFaults
  <2>1. MaxFaults \in Nat /\ faults \in 0..MaxFaults
    BY Zenon, TailAssumption DEF TailInv, TailerTypes
  <2> QED
    BY <1>2, <2>1
<1> HIDE DEF r
<1>5. \A s \in Streams : Base(r, s) = Base(t, s)
  BY Zenon, <1>3 DEF Base
<1>6. \A s \in Streams : ReadOK(c, s, r, wrote[c][s])
  <2>1. \A s \in Streams : ReadOK(c, s, t, wrote[c][s])
    BY Zenon DEF TailInv, Reads
  <2> HIDE DEF t
  <2> QED
    BY Zenon, <1>3, <1>5, <2>1 DEF ReadOK
<1>7. \A x \in Seen : BoundOK(x.stream, x.end, r, before[c][x.stream])
  BY Zenon, <1>3 DEF BoundOK
<1>8. BehindOK(Seen, c, r)
  <2>1. BehindOK(Seen, c, t)
    BY Zenon DEF TailInv, Behind, BehindOK
  <2> HIDE DEF t
  <2> QED
    BY Zenon, <1>3, <1>5, <2>1 DEF BehindOK
<1> QED
  BY Zenon, <1>2, <1>3, <1>4, <1>6, <1>7, <1>8, OneKeeps


\* A part of a sequence.
LEMMA Part ==
  ASSUME NEW S, NEW q \in Seq(S), NEW a \in Nat, NEW b \in Nat, a <= b, b <= Len(q)
  PROVE  /\ SubSeq(q, a + 1, b) \in Seq(S) /\ Len(SubSeq(q, a + 1, b)) = b - a
         /\ DOMAIN SubSeq(q, a + 1, b) = 1..b - a
         /\ \A i \in 1..b - a : SubSeq(q, a + 1, b)[i] = q[a + i]
OBVIOUS

\* A rest of a text, followed by what comes next in it.
LEMMA FrameChars ==
  ASSUME NEW text \in Seq(STRING), NEW p \in Seq(STRING), NEW at \in Nat, NEW k \in Nat, at + k <= Len(text),
         Copy(p, text, at - Len(p))
  PROVE  LET z == p \o SubSeq(text, at + 1, at + k) IN
         /\ z \in Seq(STRING) /\ Len(z) \in Nat /\ (at + k) - Len(z) = at - Len(p)
         /\ Copy(z, text, at - Len(p))
<1> DEFINE f == SubSeq(text, at + 1, at + k)
           z == p \o f
<1>1. at + k \in Nat /\ at <= at + k /\ (at + k) - at = k
  OBVIOUS
<1>2. f \in Seq(STRING) /\ Len(f) = k /\ \A i \in 1..k : f[i] = text[at + i]
  BY <1>1, Part
<1> HIDE DEF f
<1>3. Len(p) \in Nat
  OBVIOUS
<1>4. /\ z \in Seq(STRING) /\ Len(z) = Len(p) + k
      /\ \A i \in 1..Len(p) + k : z[i] = IF i <= Len(p) THEN p[i] ELSE f[i - Len(p)]
  <2>1. z \in Seq(STRING) /\ Len(z) = Len(p) + k
    BY Zenon, <1>2, ConcatContents
  <2>2. ASSUME NEW i \in 1..Len(p) + k
        PROVE  z[i] = IF i <= Len(p) THEN p[i] ELSE f[i - Len(p)]
    BY <1>2
  <2> QED
    BY Zenon, <2>1, <2>2
<1> HIDE DEF z
<1>5. ASSUME NEW i \in 1..Len(p) + k
      PROVE  z[i] = text[at - Len(p) + i]
  <2>1. CASE i <= Len(p)
    BY <1>3, <1>4, <2>1 DEF Copy
  <2>2. CASE i > Len(p)
    <3>1. i - Len(p) \in 1..k /\ at + (i - Len(p)) = at - Len(p) + i
      BY <1>3, <2>2
    <3> QED
      BY <1>2, <1>4, <2>2, <3>1
  <2> QED
    BY <1>3, <2>1, <2>2
<1>6. Len(z) \in Nat /\ (at + k) - Len(z) = at - Len(p)
  BY <1>3, <1>4
<1> QED
  <2>1. Copy(z, text, at - Len(p))
    BY Zenon, <1>4, <1>5 DEF Copy
  <2> QED
    BY Zenon, <1>4, <1>6, <2>1 DEF z, f

\* The characters of a frame are appended to the rest of the last one.
LEMMA ReadsKeeps ==
  ASSUME TailInv, NEW c \in Containers, NEW n \in DOMAIN tail[c], NEW s \in Streams, NEW k \in DOMAIN Text[c][s],
         ReadsFrame(c, n, s, k)
  PROVE  TailInv'
<1> DEFINE t == tail[c][n]
           z == t.pending[s] \o SubSeq(Text[c][s], t.at[s] + 1, t.at[s] + k)
           r == [t EXCEPT !.at[s] = @ + k, !.pending[s] = z]
<1>1. t \in Tailer /\ wrote[c][s] \in Nat
  BY Zenon, TailerTyped DEF TailInv
<1>2. /\ t.pc = "reads" /\ t.at[s] + k <= wrote[c][s] /\ Now(c, n, r) /\ dockerBuf' = dockerBuf /\ faults' = faults
  BY Zenon DEF ReadsFrame, Pending
<1>3. /\ t.at \in [Streams -> Nat] /\ t.pending \in [Streams -> Seq(STRING)]
      /\ t.at[s] \in Nat /\ t.pending[s] \in Seq(STRING)
  BY Zenon, <1>1, TailerFields DEF Tailer
<1>4. Text[c][s] \in Seq(STRING) /\ k \in Nat /\ wrote[c][s] <= Len(Text[c][s])
  BY TailAssumption DEF TailInv, Written
<1>5. \A o \in Streams : ReadOK(c, o, t, wrote[c][o])
  BY Zenon DEF TailInv, Reads
<1>6. faults' \in 0..MaxFaults
  BY Zenon, <1>2 DEF TailInv, TailerTypes
<1>7. \A x \in Seen : x.from = c => BoundOK(x.stream, x.end, t, before[c][x.stream])
  BY Zenon DEF TailInv, Bounds
<1>8. BehindOK(Seen, c, t)
  BY Zenon DEF TailInv, Behind, BehindOK
<1> HIDE DEF t
<1>9. /\ z \in Seq(STRING) /\ Len(z) \in Nat /\ (t.at[s] + k) - Len(z) = Base(t, s)
      /\ Copy(z, Text[c][s], Base(t, s))
  <2>1. t.at[s] + k <= Len(Text[c][s])
    <3>1. Len(Text[c][s]) \in Nat
      BY <1>4
    <3> QED
      BY <1>1, <1>2, <1>3, <1>4, <3>1
  <2>2. Copy(t.pending[s], Text[c][s], t.at[s] - Len(t.pending[s]))
    BY Zenon, <1>5 DEF ReadOK, Base
  <2> QED
    BY Zenon, <1>3, <1>4, <2>1, <2>2, FrameChars DEF Base
<1> HIDE DEF z
<1>10. /\ r \in Tailer /\ r.cancelled = t.cancelled /\ r.pc = t.pc /\ r.start = t.start
       /\ r.at = [t.at EXCEPT ![s] = t.at[s] + k] /\ r.pending = [t.pending EXCEPT ![s] = z]
  <2>1. [t.at EXCEPT ![s] = t.at[s] + k] \in [Streams -> Nat]
    BY <1>3, <1>4
  <2>2. [t.pending EXCEPT ![s] = z] \in [Streams -> Seq(STRING)]
    BY Zenon, <1>3, <1>9
  <2>3. r = [t EXCEPT !.at = [t.at EXCEPT ![s] = t.at[s] + k], !.pending = [t.pending EXCEPT ![s] = z]]
    BY Zenon
  <2> QED
    BY Zenon, <1>1, <2>1, <2>2, <2>3 DEF Tailer
<1> HIDE DEF r
<1>11. /\ r.at[s] = t.at[s] + k /\ r.pending[s] = z
       /\ \A o \in Streams : o # s => r.at[o] = t.at[o] /\ r.pending[o] = t.pending[o]
  BY Zenon, <1>3, <1>10
<1>12. \A o \in Streams : Base(r, o) = Base(t, o)
  BY Zenon, <1>9, <1>11 DEF Base
<1>13. ASSUME NEW o \in Streams
       PROVE  ReadOK(c, o, r, wrote[c][o])
  <2>1. CASE o = s
    BY Zenon, <1>2, <1>5, <1>9, <1>10, <1>11, <1>12, <2>1 DEF ReadOK
  <2>2. CASE o # s
    BY Zenon, <1>5, <1>10, <1>11, <1>12, <2>2 DEF ReadOK
  <2> QED
    BY Zenon, <2>1, <2>2
<1>14. \A x \in Seen : x.from = c /\ x.stream \in Streams => BoundOK(x.stream, x.end, r, before[c][x.stream])
  BY Zenon, <1>7, <1>10, <1>12 DEF BoundOK
<1>15. BehindOK(Seen, c, r)
  BY Zenon, <1>8, <1>10, <1>12 DEF BehindOK
<1> QED
  BY Zenon, <1>2, <1>6, <1>10, <1>13, <1>14, <1>15, OneKeeps DEF t


\* The next line of what follows a line end is the line at its place.
LEMMA LineFrom ==
  ASSUME NEW text \in Seq(STRING), NEW p \in Seq(STRING), NEW b \in Nat, NEW i \in 1..Len(p), b + i <= Len(text),
         \A j \in 1..Len(p) : p[j] = text[b + j], b = 0 \/ text[b] = NL,
         \A j \in 1..i - 1 : p[j] # NL
  PROVE  LineAt(text, b + i) = SubSeq(p, 1, i - 1)
<1> DEFINE Starts(a) == (a = 0 \/ text[a] = NL) /\ \A j \in a + 1..b + i - 1 : text[j] # NL
<1>1. i \in Nat /\ i >= 1 /\ Len(p) \in Nat /\ i <= Len(p) /\ i - 1 \in Nat
  OBVIOUS
<1>2. ASSUME NEW j \in b + 1..b + i - 1
      PROVE  text[j] # NL
  <2>1. j - b \in 1..i - 1 /\ j - b \in 1..Len(p) /\ b + (j - b) = j
    BY <1>1
  <2> QED
    BY Zenon, <2>1
<1>3. b \in 0..(b + i) - 1 /\ Starts(b)
  BY <1>1, <1>2
<1>4. ASSUME NEW a \in 0..(b + i) - 1, Starts(a)
      PROVE  a = b
  <2>1. CASE a < b
    <3>1. b \in a + 1..b + i - 1 /\ b # 0
      BY <1>1, <2>1
    <3> QED
      BY Zenon, <1>4, <3>1
  <2>2. CASE a > b
    <3>1. a \in b + 1..b + i - 1 /\ a # 0
      BY <1>1, <2>2
    <3> QED
      BY Zenon, <1>2, <1>4, <3>1
  <2> QED
    BY <1>1, <2>1, <2>2
<1>5. LineStart(text, b + i) = CHOOSE a \in 0..(b + i) - 1 : Starts(a)
  BY DEF LineStart
<1> HIDE DEF Starts
<1>6. LineStart(text, b + i) = b
  BY Zenon, <1>3, <1>4, <1>5
<1>7. LineAt(text, b + i) = SubSeq(text, b + 1, (b + i) - 1)
  BY Zenon, <1>6 DEF LineAt
<1> DEFINE u == SubSeq(text, b + 1, (b + i) - 1)
           v == SubSeq(p, 0 + 1, i - 1)
<1>8. (b + i) - 1 \in Nat /\ b <= (b + i) - 1 /\ (b + i) - 1 <= Len(text) /\ ((b + i) - 1) - b = i - 1
  <2>1. Len(text) \in Nat
    OBVIOUS
  <2> QED
    BY <1>1, <2>1
<1>9. u \in Seq(STRING) /\ Len(u) = i - 1 /\ \A j \in 1..i - 1 : u[j] = text[b + j]
  BY <1>8, Part
<1>10. v \in Seq(STRING) /\ Len(v) = i - 1 /\ \A j \in 1..i - 1 : v[j] = p[0 + j]
  <2>1. 0 \in Nat /\ 0 <= i - 1 /\ i - 1 <= Len(p) /\ (i - 1) - 0 = i - 1
    BY <1>1
  <2> QED
    BY <1>1, <2>1, Part
<1>11. v = SubSeq(p, 1, i - 1)
  OBVIOUS
<1> HIDE DEF u, v
<1>12. \A j \in 1..i - 1 : u[j] = v[j]
  <2>1. \A j \in 1..i - 1 : 0 + j = j /\ j \in 1..Len(p)
    BY <1>1
  <2> QED
    BY Zenon, <1>9, <1>10, <2>1
<1>13. u = v
  BY Zenon, <1>9, <1>10, <1>12, SameSequence
<1> QED
  BY Zenon, <1>7, <1>11, <1>13 DEF u

\* A tailer appends a line of its stream that comes after all that were collected.
LEMMA EmitKeeps ==
  ASSUME BufferTypes, Sources, Numbered, Pipeline, Stamped, Whole,
         NEW x \in Events, x.from \in Containers, WholeLine(x), \A y \in Seen : Follows(y, x),
         dockerBuf' = Append(dockerBuf, x), UNCHANGED <<procVars, tickVars>>
  PROVE  BufferTypes' /\ Sources' /\ Numbered' /\ Pipeline' /\ Stamped' /\ Whole' /\ Seen' = Seen \cup {x}
<1>1. /\ procBuf' = procBuf /\ entries' = entries /\ exited' = exited
      /\ tick' = tick /\ batch' = batch /\ sent' = sent
  BY Zenon DEF procVars, tickVars
<1>2. dockerBuf \in Seq(Events)
  BY Zenon DEF BufferTypes
<1>3. /\ dockerBuf' \in Seq(Events)
      /\ Elements(dockerBuf') = Elements(dockerBuf) \cup {x}
  BY <1>2, AppendElements
<1>4. \A i \in DOMAIN dockerBuf' : dockerBuf'[i] = x \/ \E j \in DOMAIN dockerBuf : dockerBuf'[i] = dockerBuf[j]
  BY Zenon, <1>3 DEF Elements
<1>5. Seen' = Seen \cup {x} /\ SentEvents' = SentEvents
  BY Zenon, <1>1, <1>3 DEF Seen, SentEvents, Elements
<1>6. BufferTypes'
  BY Zenon, <1>1, <1>3 DEF BufferTypes
<1>7. Sources' /\ Stamped'
  BY Zenon, <1>1, <1>4 DEF Sources, Stamped
<1>8. Numbered'
  <2>1. x.from # "journald"
    BY Zenon, TailAssumption
  <2> QED
    BY Zenon, <1>1, <1>5, <2>1 DEF Numbered
<1>9. Whole'
  BY Zenon, <1>4 DEF Whole
<1>10. Pipeline'
  <2>1. /\ \A i \in DOMAIN SentEvents : SentEvents[i] \in Seen
        /\ \A i \in DOMAIN batch : batch[i] \in Seen
        /\ \A i \in DOMAIN dockerBuf : dockerBuf[i] \in Seen
    BY Zenon DEF SentEvents, Seen
  <2>2. InOrder(dockerBuf')
    BY Zenon, <1>2, <2>1, AppendInOrder DEF Pipeline
  <2>3. Precedes(SentEvents, dockerBuf') /\ Precedes(batch, dockerBuf')
    BY Zenon, <1>4, <2>1 DEF Pipeline, Precedes
  <2> QED
    BY Zenon, <1>1, <1>5, <2>2, <2>3 DEF Pipeline
<1> QED
  BY Zenon, <1>5, <1>6, <1>7, <1>8, <1>9, <1>10


\* truncateMessage and the levels
LEMMA MessageTypes ==
  /\ \A m \in Seq(STRING) : Truncated(m) \in Seq(STRING)
  /\ \A m, s : LogLevel(m, s) \in {"warn", "info"} \cup {Severity[x] : x \in DOMAIN Severity}
  /\ \A priority : JournaldLevel(priority) \in {"error", "warn", "info"}
<1>1. ASSUME NEW m \in Seq(STRING)
      PROVE  Truncated(m) \in Seq(STRING)
  <2> DEFINE b == IF Len(m) <= MaxMessage THEN Len(m) ELSE MaxMessage
  <2>1. MaxMessage \in Nat /\ Len(m) \in Nat
    <3>1. MaxMessage \in Nat
      BY Zenon, TailAssumption
    <3> QED
      BY <3>1
  <2>2. b \in Nat /\ b <= Len(m)
    BY <2>1
  <2>3. Truncated(m) = SubSeq(m, 1, b)
    BY Zenon DEF Truncated
  <2> HIDE DEF b
  <2> QED
    BY <2>1, <2>2, <2>3
<1>2. ASSUME NEW m, NEW s
      PROVE  LogLevel(m, s) \in {"warn", "info"} \cup {Severity[x] : x \in DOMAIN Severity}
  BY Zenon DEF LogLevel
<1>3. ASSUME NEW priority
      PROVE  JournaldLevel(priority) \in {"error", "warn", "info"}
  BY Zenon DEF JournaldLevel
<1> QED
  BY Zenon, <1>1, <1>2, <1>3

\* What is left of a sequence after i elements.
LEMMA Rest ==
  ASSUME NEW S, NEW q \in Seq(S), NEW i \in 1..Len(q)
  PROVE  /\ SubSeq(q, i + 1, Len(q)) \in Seq(S) /\ Len(SubSeq(q, i + 1, Len(q))) = Len(q) - i
         /\ \A j \in 1..Len(q) - i : SubSeq(q, i + 1, Len(q))[j] = q[i + j]
OBVIOUS

FirstEnd(p, i) == p[i] = NL /\ \A j \in 1..i - 1 : p[j] # NL

LEMMA CopyRest ==
  ASSUME NEW text, NEW p \in Seq(STRING), NEW base \in Nat, NEW i \in 1..Len(p), Copy(p, text, base)
  PROVE  Copy(SubSeq(p, i + 1, Len(p)), text, base + i)
<1> DEFINE rest == SubSeq(p, i + 1, Len(p))
<1>1. Len(rest) = Len(p) - i /\ \A j \in 1..Len(p) - i : rest[j] = p[i + j]
  BY Zenon, Rest
<1> HIDE DEF rest
<1>2. ASSUME NEW j \in 1..Len(p) - i
      PROVE  i + j \in 1..Len(p) /\ base + (i + j) = (base + i) + j
  OBVIOUS
<1>3. \A j \in 1..Len(rest) : rest[j] = text[(base + i) + j]
  BY Zenon, <1>1, <1>2 DEF Copy
<1> QED
  BY Zenon, <1>3 DEF Copy, rest

LEMMA FirstEndOnly ==
  ASSUME NEW text, NEW p \in Seq(STRING), NEW base \in Nat, NEW i \in 1..Len(p), Copy(p, text, base), FirstEnd(p, i),
         NEW e \in Nat, base < e, e <= base + i, text[e] = NL
  PROVE  e = base + i
<1>1. e - base \in 1..i /\ e - base \in 1..Len(p) /\ base + (e - base) = e
  OBVIOUS
<1>2. p[e - base] = NL
  BY Zenon, <1>1 DEF Copy
<1>3. e - base \notin 1..i - 1
  BY Zenon, <1>2 DEF FirstEnd
<1> QED
  BY <1>1, <1>3

\* Of w characters of a text a tailer has read at, and what it holds after base.
Reading(text, p, at, start, w, base) ==
  /\ text \in Seq(STRING) /\ p \in Seq(STRING) /\ at \in Nat /\ start \in Nat /\ w \in Nat
  /\ base = at - Len(p) /\ start <= base /\ at <= w /\ w <= Len(text)
  /\ Copy(p, text, base) /\ (base = 0 \/ text[base] = NL)

\* The line that ends at i, and what is left.
LineRead(text, p, at, start, w, base, i) ==
  LET rest == SubSeq(p, i + 1, Len(p)) IN
  /\ base \in Nat /\ base + i \in Nat /\ base < base + i /\ start <= base + i /\ base + i <= w
  /\ base + i \in DOMAIN text /\ text[base + i] = NL
  /\ SubSeq(p, 1, i - 1) \in Seq(STRING) /\ LineAt(text, base + i) = SubSeq(p, 1, i - 1)
  /\ rest \in Seq(STRING) /\ at - Len(rest) = base + i /\ Copy(rest, text, base + i)
  /\ \A e \in Nat : base < e /\ e <= base + i /\ text[e] = NL => e = base + i

\* The first line of it, and what is left.
LEMMA LineTaken ==
  ASSUME NEW text, NEW p, NEW at, NEW start, NEW w, NEW base, Reading(text, p, at, start, w, base),
         NEW i \in DOMAIN p, FirstEnd(p, i)
  PROVE  LineRead(text, p, at, start, w, base, i)
<1> DEFINE rest == SubSeq(p, i + 1, Len(p))
<1>0. /\ text \in Seq(STRING) /\ p \in Seq(STRING) /\ at \in Nat /\ start \in Nat /\ w \in Nat
      /\ base = at - Len(p) /\ start <= base /\ at <= w /\ w <= Len(text)
      /\ Copy(p, text, base) /\ (base = 0 \/ text[base] = NL)
  BY Zenon DEF Reading
<1>1. i \in 1..Len(p) /\ i \in Nat /\ Len(p) \in Nat /\ i <= Len(p) /\ Len(text) \in Nat /\ i - 1 \in Nat
  BY <1>0
<1>2. /\ base \in Nat /\ base + i \in Nat /\ base < base + i /\ start <= base + i
      /\ base + i <= w /\ base + i <= Len(text) /\ at - (Len(p) - i) = base + i
  BY <1>0, <1>1
<1>3. base + i \in DOMAIN text /\ text[base + i] = NL
  <2>1. base + i \in 1..Len(text)
    BY <1>0, <1>1, <1>2
  <2> QED
    BY <1>0, <1>1, <2>1 DEF Copy, FirstEnd
<1>4. SubSeq(p, 1, i - 1) \in Seq(STRING)
  BY <1>0, <1>1
<1>5. LineAt(text, base + i) = SubSeq(p, 1, i - 1)
  <2>1. /\ \A j \in 1..Len(p) : p[j] = text[base + j]
        /\ \A j \in 1..i - 1 : p[j] # NL
    BY Zenon, <1>0 DEF Copy, FirstEnd
  <2> QED
    BY Zenon, <1>0, <1>1, <1>2, <2>1, LineFrom
<1>6. rest \in Seq(STRING) /\ Len(rest) = Len(p) - i
  BY Zenon, <1>0, <1>1, Rest
<1>7. Copy(rest, text, base + i)
  BY Zenon, <1>0, <1>1, <1>2, CopyRest
<1> HIDE DEF rest
<1>8. at - Len(rest) = base + i
  BY Zenon, <1>2, <1>6
<1>9. ASSUME NEW e \in Nat, base < e, e <= base + i, text[e] = NL
      PROVE  e = base + i
  <2>1. p \in Seq(STRING) /\ Copy(p, text, base) /\ base \in Nat
    BY Zenon, <1>0, <1>2
  <2> QED
    BY Zenon, <1>1, <1>9, <2>1, FirstEndOnly
<1> QED
  BY Zenon, <1>2, <1>3, <1>4, <1>5, <1>6, <1>7, <1>8, <1>9 DEF rest, LineRead

\* From t a line that ends at end was taken, and r is left.
TakenFrom(c, s, t, line, r, end) ==
  /\ r \in Tailer /\ r.cancelled = t.cancelled /\ r.pc = t.pc /\ r.start = t.start
  /\ line \in Seq(STRING) /\ end \in Nat /\ end \in Ends(c, s) /\ LineAt(Text[c][s], end) = line
  /\ Base(t, s) \in Nat /\ Base(t, s) < end /\ Base(r, s) = end
  /\ \A o \in Streams : o # s => Base(r, o) = Base(t, o)
  /\ \A e \in Ends(c, s) : e \in Nat /\ (Base(t, s) < e /\ e <= end => e = end)

\* What is left of stream s begins after a line end.
LeftAt(c, s, t, rest, end) ==
  /\ rest \in Seq(STRING) /\ end \in Nat /\ t.start[s] <= end /\ t.at[s] - Len(rest) = end
  /\ Text[c][s][end] = NL /\ Copy(rest, Text[c][s], end)

\* The tailer that is left.
Shortened(c, s, t, w, r, end) ==
  /\ r \in Tailer /\ r.cancelled = t.cancelled /\ r.pc = t.pc /\ r.start = t.start
  /\ Base(r, s) = end /\ \A o \in Streams : o # s => Base(r, o) = Base(t, o)
  /\ \A o \in Streams : ReadOK(c, o, r, w[o])

LEMMA RestLeft ==
  ASSUME NEW c, NEW s \in Streams, NEW t \in Tailer, NEW w, NEW rest, NEW end, LeftAt(c, s, t, rest, end),
         \A o \in Streams : ReadOK(c, o, t, w[o]), t.pc = "reads",
         NEW r, r = [t EXCEPT !.pending[s] = rest]
  PROVE  Shortened(c, s, t, w, r, end)
<1>1. /\ rest \in Seq(STRING) /\ end \in Nat /\ t.start[s] <= end /\ t.at[s] - Len(rest) = end
      /\ Text[c][s][end] = NL /\ Copy(rest, Text[c][s], end)
  BY Zenon DEF LeftAt
<1>2. t.pending \in [Streams -> Seq(STRING)]
  BY Zenon DEF Tailer
<1>3. [t.pending EXCEPT ![s] = rest] \in [Streams -> Seq(STRING)]
  BY Zenon, <1>1, <1>2
<1>4. r = [t EXCEPT !.pending = [t.pending EXCEPT ![s] = rest]]
  BY Zenon
<1>5. /\ r \in Tailer /\ r.cancelled = t.cancelled /\ r.pc = t.pc /\ r.start = t.start /\ r.at = t.at
      /\ r.pending = [t.pending EXCEPT ![s] = rest]
  BY Zenon, <1>3, <1>4 DEF Tailer
<1>6. r.pending[s] = rest /\ \A o \in Streams : o # s => r.pending[o] = t.pending[o]
  BY <1>2, <1>5
<1>7. Base(r, s) = end /\ \A o \in Streams : o # s => Base(r, o) = Base(t, o)
  BY Zenon, <1>1, <1>5, <1>6 DEF Base
<1>8. ASSUME NEW o \in Streams
      PROVE  ReadOK(c, o, r, w[o])
  <2>1. CASE o = s
    <3>1. LineEnd(c, s, end)
      BY Zenon, <1>1 DEF LineEnd
    <3>2. t.at[s] <= w[s]
      BY Zenon DEF ReadOK
    <3>3. r.pc # "starts"
      BY Zenon, <1>5
    <3> QED
      BY Zenon, <1>1, <1>5, <1>6, <1>7, <2>1, <3>1, <3>2, <3>3 DEF ReadOK
  <2>2. CASE o # s
    BY Zenon, <1>5, <1>6, <1>7, <2>2 DEF ReadOK
  <2> QED
    BY Zenon, <2>1, <2>2
<1> QED
  BY Zenon, <1>5, <1>7, <1>8 DEF Shortened

\* A tailer takes the first line of what it holds of stream s.
LEMMA LineSplit ==
  ASSUME NEW c \in Containers, NEW s \in Streams, NEW t \in Tailer, NEW w,
         w[s] \in Nat, w[s] <= Len(Text[c][s]), \A o \in Streams : ReadOK(c, o, t, w[o]), t.pc = "reads",
         NEW p, p = t.pending[s], NEW i \in DOMAIN p, FirstEnd(p, i),
         NEW r, r = [t EXCEPT !.pending[s] = SubSeq(p, i + 1, Len(p))]
  PROVE  /\ TakenFrom(c, s, t, SubSeq(p, 1, i - 1), r, Base(t, s) + i) /\ Base(t, s) + i <= w[s]
         /\ \A o \in Streams : ReadOK(c, o, r, w[o])
<1>1. Text[c][s] \in Seq(STRING)
  BY Zenon, TailAssumption
<1>2. p \in Seq(STRING) /\ t.at[s] \in Nat /\ t.start[s] \in Nat /\ Base(t, s) = t.at[s] - Len(p)
  BY Zenon, TailerFields DEF Base
<1>3. /\ t.start[s] <= Base(t, s) /\ t.at[s] <= w[s] /\ LineEnd(c, s, Base(t, s))
      /\ Copy(p, Text[c][s], Base(t, s))
  BY Zenon DEF ReadOK
<1>4. Base(t, s) = 0 \/ Text[c][s][Base(t, s)] = NL
  BY Zenon, <1>3 DEF LineEnd
<1>5. Reading(Text[c][s], p, t.at[s], t.start[s], w[s], Base(t, s))
  BY Zenon, <1>1, <1>2, <1>3, <1>4 DEF Reading
<1>6. LineRead(Text[c][s], p, t.at[s], t.start[s], w[s], Base(t, s), i)
  BY Zenon, <1>5, LineTaken
<1> DEFINE base == Base(t, s)
           text == Text[c][s]
           rest == SubSeq(p, i + 1, Len(p))
<1>7. /\ base \in Nat /\ base + i \in Nat /\ base < base + i /\ base + i <= w[s]
      /\ base + i \in DOMAIN text /\ text[base + i] = NL
      /\ SubSeq(p, 1, i - 1) \in Seq(STRING) /\ LineAt(text, base + i) = SubSeq(p, 1, i - 1)
      /\ \A e \in Nat : base < e /\ e <= base + i /\ text[e] = NL => e = base + i
  BY Zenon, <1>6 DEF LineRead
<1>8. LeftAt(c, s, t, rest, base + i)
  BY Zenon, <1>6 DEF LineRead, LeftAt
<1> HIDE DEF base, rest
<1>9. r = [t EXCEPT !.pending[s] = rest]
  BY Zenon DEF rest
<1>10. Shortened(c, s, t, w, r, base + i)
  BY Zenon, <1>8, <1>9, RestLeft
<1>11. base + i \in Ends(c, s)
  BY Zenon, <1>7 DEF Ends
<1>12. ASSUME NEW e \in Ends(c, s)
       PROVE  e \in Nat /\ (base < e /\ e <= base + i => e = base + i)
  <2>1. e \in Nat /\ text[e] = NL
    BY <1>1 DEF Ends
  <2> QED
    BY Zenon, <1>7, <2>1
<1> QED
  BY Zenon, <1>7, <1>10, <1>11, <1>12 DEF TakenFrom, Shortened, base

\* From S to T only the line joins, unless it is empty or a routine health check.
Joins(S, T, c, s, line, end) ==
  /\ S \subseteq T /\ \A x \in T \ S : x.from = c /\ x.stream = s /\ x.end = end
  /\ line \in Routine \cup {<<>>} \/ Taken(T, c, s, end)

\* What is behind r is collected when what was behind t and the line are.
LEMMA LineBehind ==
  ASSUME NEW c, NEW s \in Streams, NEW t, NEW line, NEW r, NEW end, TakenFrom(c, s, t, line, r, end),
         NEW S, NEW T, Joins(S, T, c, s, line, end), BehindOK(S, c, t)
  PROVE  BehindOK(T, c, r)
<1> SUFFICES ASSUME NEW o \in Streams, NEW e \in Ends(c, o), r.start[o] < e, e <= Base(r, o)
             PROVE  LineAt(Text[c][o], e) \in Routine \cup {<<>>} \/ Taken(T, c, o, e)
  BY Zenon DEF BehindOK
<1>1. \A d, q, z : Taken(S, d, q, z) => Taken(T, d, q, z)
  BY Zenon DEF Joins, Taken
<1>2. CASE e <= Base(t, o)
  <2>1. t.start[o] < e
    BY Zenon DEF TakenFrom
  <2> QED
    BY Zenon, <1>1, <1>2, <2>1 DEF BehindOK
<1>3. CASE ~(e <= Base(t, o))
  <2>1. o = s
    BY Zenon, <1>3 DEF TakenFrom
  <2>2. Base(t, s) \in Nat /\ e \in Nat /\ Base(r, s) = end
    BY Zenon, <2>1 DEF TakenFrom
  <2>3. Base(t, s) < e
    BY <1>3, <2>1, <2>2
  <2>4. e = end /\ LineAt(Text[c][s], end) = line
    BY Zenon, <2>1, <2>2, <2>3 DEF TakenFrom
  <2> QED
    BY Zenon, <2>1, <2>4 DEF Joins
<1> QED
  BY Zenon, <1>2, <1>3

LEMMA LineEmitted ==
  ASSUME TailInv, NEW c \in Containers, NEW s \in Streams, NEW t, NEW line, NEW r, NEW end,
         TakenFrom(c, s, t, line, r, end), \A x \in Seen : x.from = c /\ x.stream = s => x.end < end,
         dockerBuf' = IF line = <<>> THEN dockerBuf ELSE Emitted(c, s, end, line), UNCHANGED <<procVars, tickVars>>
  PROVE  BufferTypes' /\ Sources' /\ Numbered' /\ Pipeline' /\ Stamped' /\ Whole' /\ Joins(Seen, Seen', c, s, line, end)
<1>1. line \in Seq(STRING) /\ end \in Nat /\ end \in Ends(c, s) /\ LineAt(Text[c][s], end) = line
  BY Zenon DEF TakenFrom
<1>2. CASE line # <<>> /\ line \notin Routine
  <2> DEFINE event == Event(c, s, end, Truncated(line), LogLevel(line, s), 0)
  <2>1. dockerBuf' = Append(dockerBuf, event)
    BY Zenon, <1>2 DEF Emitted, IsRoutineHealthCheck
  <2>2. /\ event.from = c /\ event.stream = s /\ event.end = end /\ event.text = Truncated(line)
        /\ event.level = LogLevel(line, s) /\ event.ts = 0
    BY Zenon DEF Event
  <2>3. event \in Events
    <3>1. Truncated(line) \in Seq(STRING) /\ LogLevel(line, s) \in {"warn", "info"} \cup {Severity[x] : x \in DOMAIN Severity}
      BY Zenon, <1>1, MessageTypes
    <3> QED
      BY Zenon, <1>1, <3>1 DEF Event, Events
  <2> HIDE DEF event
  <2>4. WholeLine(event)
    BY Zenon, <1>1, <1>2, <2>2 DEF WholeLine
  <2>5. \A y \in Seen : Follows(y, event)
    <3>1. c # "journald"
      BY Zenon, TailAssumption
    <3> QED
      BY Zenon, <2>2, <3>1 DEF Follows
  <2>6. /\ BufferTypes' /\ Sources' /\ Numbered' /\ Pipeline' /\ Stamped' /\ Whole' /\ Seen' = Seen \cup {event}
    BY Zenon, <2>1, <2>2, <2>3, <2>4, <2>5, EmitKeeps DEF TailInv
  <2> QED
    BY Zenon, <2>2, <2>6 DEF Taken, Joins
<1>3. CASE ~(line # <<>> /\ line \notin Routine)
  <2>1. dockerBuf' = dockerBuf
    BY Zenon, <1>3 DEF Emitted, IsRoutineHealthCheck
  <2>2. UNCHANGED <<dockerBuf, procBuf, entries, tickVars>> /\ exited' \subseteq Followers
    BY Zenon, <2>1 DEF procVars, TailInv, BufferTypes
  <2>3. BufferTypes' /\ Sources' /\ Numbered' /\ Pipeline' /\ Stamped' /\ Whole' /\ Seen' = Seen
    BY Zenon, <2>2, BuffersRest DEF TailInv
  <2> QED
    BY Zenon, <1>3, <2>3 DEF Joins
<1> QED
  BY Zenon, <1>2, <1>3

LEMMA TakesKeeps ==
  ASSUME TailInv, NEW c \in Containers, NEW n \in DOMAIN tail[c], NEW s \in Streams, TakesLine(c, n, s)
  PROVE  TailInv'
<1>1. PICK i \in DOMAIN tail[c][n].pending[s] :
        LET t == tail[c][n]
            line == SubSeq(t.pending[s], 1, i - 1)
        IN /\ t.pc = "reads" /\ FirstEnd(t.pending[s], i)
           /\ dockerBuf' = IF line = <<>> THEN dockerBuf ELSE Emitted(c, s, Base(t, s) + i, line)
           /\ Now(c, n, [t EXCEPT !.pending[s] = SubSeq(t.pending[s], i + 1, Len(t.pending[s]))])
           /\ UNCHANGED faults
  BY Zenon DEF TakesLine, Base, FirstEnd
<1>2. PICK t, p, line, r, end :
        /\ t = tail[c][n] /\ p = t.pending[s] /\ line = SubSeq(p, 1, i - 1) /\ end = Base(t, s) + i
        /\ r = [t EXCEPT !.pending[s] = SubSeq(p, i + 1, Len(p))]
  BY Zenon
<1>3. /\ t.pc = "reads" /\ FirstEnd(p, i) /\ i \in DOMAIN p /\ Now(c, n, r) /\ UNCHANGED faults
      /\ dockerBuf' = IF line = <<>> THEN dockerBuf ELSE Emitted(c, s, end, line)
  BY Zenon, <1>1, <1>2
<1>4. t \in Tailer /\ wrote[c][s] \in Nat /\ wrote[c][s] <= Len(Text[c][s])
  BY Zenon, <1>2, TailerTyped DEF TailInv, Written
<1>5. \A o \in Streams : ReadOK(c, o, t, wrote[c][o])
  BY Zenon, <1>2 DEF TailInv, Reads
<1>6. TakenFrom(c, s, t, line, r, end) /\ end <= wrote[c][s] /\ \A o \in Streams : ReadOK(c, o, r, wrote[c][o])
  BY Zenon, <1>2, <1>3, <1>4, <1>5, LineSplit
<1>7. /\ r \in Tailer /\ r.cancelled = t.cancelled /\ r.pc = t.pc /\ Base(t, s) \in Nat /\ end \in Nat
      /\ Base(t, s) < end /\ Base(r, s) = end /\ \A o \in Streams : o # s => Base(r, o) = Base(t, o)
  BY Zenon, <1>6 DEF TakenFrom
<1>8. faults' \in 0..MaxFaults
  BY Zenon, <1>3 DEF TailInv, TailerTypes
<1>9. TailerTypes' /\ Written' /\ Reads' /\ OneTailer'
  BY Zenon, <1>2, <1>3, <1>6, <1>7, <1>8, OneReads
<1>10. ASSUME NEW x \in Seen, x.from = c
       PROVE  x.stream \in Streams /\ BoundOK(x.stream, x.end, r, before[c][x.stream]) /\ (x.stream = s => x.end < end)
  <2>1. x.stream \in Streams /\ BoundOK(x.stream, x.end, t, before[c][x.stream])
    BY Zenon, <1>2, <1>10 DEF TailInv, Bounds
  <2>2. x.end <= Base(t, x.stream)
    BY Zenon, <1>3, <2>1 DEF BoundOK
  <2>3. x.end \in Nat
    BY Zenon, SeenTyped DEF TailInv
  <2>4. x.stream = s => x.end < end /\ x.end <= end
    BY <1>7, <2>2, <2>3
  <2>5. x.end <= Base(r, x.stream)
    BY Zenon, <1>7, <2>1, <2>2, <2>4
  <2>6. r.pc # "starts"
    BY Zenon, <1>3, <1>7
  <2> QED
    BY Zenon, <2>1, <2>4, <2>5, <2>6 DEF BoundOK
<1>11. UNCHANGED <<procVars, tickVars>>
  BY Zenon, <1>3 DEF Now
<1>12. BufferTypes' /\ Sources' /\ Numbered' /\ Pipeline' /\ Stamped' /\ Whole' /\ Joins(Seen, Seen', c, s, line, end)
  BY Zenon, <1>3, <1>6, <1>10, <1>11, LineEmitted
<1>13. BehindOK(Seen', c, r)
  <2>1. BehindOK(Seen, c, t)
    BY Zenon, <1>2 DEF TailInv, Behind, BehindOK
  <2> QED
    BY Zenon, <1>6, <1>12, <2>1, LineBehind
<1>14. BoundOK(s, end, r, before[c][s])
  BY <1>3, <1>7 DEF BoundOK
<1>15. Bounds' /\ Behind'
  <2>1. tail[c][n].pc # "ended"
    BY Zenon, <1>2, <1>3
  <2> QED
    BY Zenon, <1>3, <1>6, <1>7, <1>10, <1>12, <1>13, <1>14, <2>1, OneSees DEF Joins
<1> QED
  BY Zenon, <1>9, <1>12, <1>15 DEF TailInv

-----------------------------------------------------------------------------
(* The collector finds and forgets containers. *)

\* The first tailer of a container that has no entry, and the end of one that does not run.
LEMMA ReconcileTail ==
  ASSUME TailInv, Reconcile, NEW c \in Containers
  PROVE  /\ tail'[c] \in Seq(Tailer) /\ Len(tail'[c]) <= MaxTailers
         /\ c \in StartsFor =>
              /\ c \notin tailers /\ DOMAIN tail'[c] = DOMAIN tail[c] \cup {Len(tail[c]) + 1} /\ Len(tail'[c]) = Len(tail[c]) + 1
              /\ tail'[c][Len(tail[c]) + 1] = Fresh /\ \A n \in DOMAIN tail[c] : tail'[c][n] = tail[c][n]
         /\ c \in tailers \ listing =>
              /\ DOMAIN tail'[c] = DOMAIN tail[c] /\ Len(tail'[c]) = Len(tail[c]) /\ Len(tail[c]) \in DOMAIN tail[c]
              /\ tail'[c][Len(tail[c])] = [tail[c][Len(tail[c])] EXCEPT !.cancelled = TRUE]
              /\ \A n \in DOMAIN tail[c] : n # Len(tail[c]) => tail'[c][n] = tail[c][n]
         /\ c \notin StartsFor /\ c \notin tailers \ listing => tail'[c] = tail[c]
         /\ Fresh \in Tailer
<1>1. /\ tail[c] \in Seq(Tailer) /\ Len(tail[c]) \in Nat /\ DOMAIN tail[c] = 1..Len(tail[c])
      /\ \A n \in DOMAIN tail[c] : tail[c][n] \in Tailer
  BY Zenon, TailerTyped DEF TailInv
<1>2. MaxTailers \in Nat /\ Len(tail[c]) <= MaxTailers
  BY Zenon, TailAssumption DEF TailInv, TailerTypes
<1>3. tail'[c] = IF c \in StartsFor THEN Append(tail[c], Fresh)
                 ELSE IF c \in tailers \ listing THEN Cancelled(c) ELSE tail[c]
  BY Zenon DEF Reconcile
<1>4. Fresh \in Tailer
  BY DEF Fresh, Tailer, Beginning, Nothing
<1>5. CASE c \in StartsFor
  <2>1. c \notin tailers /\ Len(tail[c]) < MaxTailers
    BY Zenon, <1>5 DEF StartsFor, Reconcile
  <2>2. tail'[c] = Append(tail[c], Fresh)
    BY Zenon, <1>3, <1>5
  <2>3. /\ tail'[c] \in Seq(Tailer) /\ Len(tail'[c]) = Len(tail[c]) + 1 /\ DOMAIN tail'[c] = 1..Len(tail[c]) + 1
        /\ tail'[c][Len(tail[c]) + 1] = Fresh /\ \A n \in DOMAIN tail[c] : tail'[c][n] = tail[c][n]
    BY <1>1, <1>4, <2>2
  <2>4. Len(tail'[c]) <= MaxTailers /\ DOMAIN tail'[c] = DOMAIN tail[c] \cup {Len(tail[c]) + 1}
    BY <1>1, <1>2, <2>1, <2>3
  <2>5. c \notin tailers \ listing
    BY Zenon, <2>1
  <2> QED
    BY Zenon, <1>4, <1>5, <2>1, <2>3, <2>4, <2>5
<1>6. CASE c \in tailers \ listing
  <2>1. c \notin StartsFor /\ tail[c] # <<>>
    BY Zenon, <1>6 DEF StartsFor, TailInv, OneTailer
  <2>2. Len(tail[c]) \in DOMAIN tail[c]
    BY <1>1, <2>1
  <2> DEFINE r == [tail[c][Len(tail[c])] EXCEPT !.cancelled = TRUE]
  <2>3. tail'[c] = [tail[c] EXCEPT ![Len(tail[c])] = r]
    BY Zenon, <1>3, <1>6, <2>1 DEF Cancelled
  <2>4. r \in Tailer
    BY Zenon, <1>1, <2>2 DEF Tailer
  <2> HIDE DEF r
  <2>5. /\ tail'[c] \in Seq(Tailer) /\ Len(tail'[c]) = Len(tail[c]) /\ DOMAIN tail'[c] = DOMAIN tail[c]
        /\ tail'[c][Len(tail[c])] = r /\ \A n \in DOMAIN tail[c] : n # Len(tail[c]) => tail'[c][n] = tail[c][n]
    BY <1>1, <2>2, <2>3, <2>4
  <2> QED
    BY Zenon, <1>2, <1>4, <1>6, <2>1, <2>2, <2>5 DEF r
<1>7. CASE c \notin StartsFor /\ c \notin tailers \ listing
  BY Zenon, <1>1, <1>2, <1>3, <1>4, <1>7
<1> QED
  BY Zenon, <1>5, <1>6, <1>7

LEMMA ReconcileKeeps ==
  ASSUME TailInv, Reconcile
  PROVE  TailInv'
<1>1. /\ UNCHANGED <<second, running, wrote, before, faults, dockerBuf, procBuf, entries, tickVars>>
      /\ failed' = FALSE /\ listing' = NoList /\ listedAt' = second /\ exited' \subseteq Followers
      /\ tailers' = (tailers \cap listing) \cup StartsFor
  BY Zenon DEF Reconcile, clockVars, procVars, TailInv, BufferTypes
<1>2. listing \subseteq Containers /\ listedAt < second /\ tailers \subseteq Containers /\ second \in Nat /\ listedAt' \in 0..second'
  BY <1>1 DEF TailInv, TailerTypes, Reconcile
<1>3. tail' \in [Containers -> Seq(Tailer)] /\ \A c \in Containers : Len(tail'[c]) <= MaxTailers
  <2>1. tail' = [c \in Containers |-> tail'[c]]
    BY Zenon DEF Reconcile
  <2>2. \A c \in Containers : tail'[c] \in Seq(Tailer) /\ Len(tail'[c]) <= MaxTailers
    BY Zenon, ReconcileTail
  <2> QED
    BY Zenon, <2>1, <2>2
<1>4. TailerTypes'
  BY Zenon, <1>1, <1>2, <1>3 DEF TailInv, TailerTypes, StartsFor
<1>5. Written'
  BY Zenon, <1>1 DEF TailInv, Written
<1>6. BufferTypes' /\ Sources' /\ Numbered' /\ Pipeline' /\ Stamped' /\ Whole' /\ Seen' = Seen
  BY Zenon, <1>1, BuffersRest DEF TailInv
\* A tailer of the new state is a fresh one, or one of before, cancelled or not.
<1>7. ASSUME NEW c \in Containers, NEW n \in DOMAIN tail'[c]
      PROVE  \/ c \in StartsFor /\ tail'[c][n] = Fresh
             \/ /\ n \in DOMAIN tail[c] /\ tail'[c][n].pc = tail[c][n].pc /\ tail'[c][n].start = tail[c][n].start
                /\ tail'[c][n].at = tail[c][n].at /\ tail'[c][n].pending = tail[c][n].pending
  <2>1. \A m \in DOMAIN tail[c] : tail[c][m] \in Tailer
    BY Zenon, TailerTyped DEF TailInv
  <2>2. \A t \in Tailer :
          LET r == [t EXCEPT !.cancelled = TRUE]
          IN r.pc = t.pc /\ r.start = t.start /\ r.at = t.at /\ r.pending = t.pending
    BY Zenon DEF Tailer
  <2>3. CASE c \in StartsFor
    <3>1. /\ c \notin tailers /\ DOMAIN tail'[c] = DOMAIN tail[c] \cup {Len(tail[c]) + 1} /\ Len(tail'[c]) = Len(tail[c]) + 1
          /\ tail'[c][Len(tail[c]) + 1] = Fresh /\ \A m \in DOMAIN tail[c] : tail'[c][m] = tail[c][m]
      BY Zenon, <2>3, ReconcileTail
    <3>2. CASE n \in DOMAIN tail[c]
      BY Zenon, <3>1, <3>2
    <3>3. CASE n = Len(tail[c]) + 1
      BY Zenon, <2>3, <3>1, <3>3
    <3> QED
      BY Zenon, <3>1, <3>2, <3>3
  <2>4. CASE c \in tailers \ listing
    <3>1. /\ DOMAIN tail'[c] = DOMAIN tail[c] /\ Len(tail'[c]) = Len(tail[c]) /\ Len(tail[c]) \in DOMAIN tail[c]
          /\ tail'[c][Len(tail[c])] = [tail[c][Len(tail[c])] EXCEPT !.cancelled = TRUE]
          /\ \A m \in DOMAIN tail[c] : m # Len(tail[c]) => tail'[c][m] = tail[c][m]
      BY Zenon, <2>4, ReconcileTail
    <3>2. CASE n = Len(tail[c])
      BY Zenon, <2>1, <2>2, <3>1, <3>2
    <3>3. CASE n # Len(tail[c])
      BY Zenon, <3>1, <3>3
    <3> QED
      BY Zenon, <3>2, <3>3
  <2>5. CASE c \notin StartsFor /\ c \notin tailers \ listing
    BY Zenon, <2>5, ReconcileTail
  <2> QED
    BY Zenon, <2>3, <2>4, <2>5
<1>8. \A s \in Streams : Base(Fresh, s) = 0 /\ Fresh.start[s] = 0 /\ Fresh.at[s] = 0 /\ Fresh.pending[s] = <<>> /\ Fresh.pc = "starts"
  BY DEF Base, Fresh, Beginning, Nothing
<1>9. ASSUME NEW c \in Containers, NEW s \in Streams, NEW n \in DOMAIN tail'[c]
      PROVE  ReadOK(c, s, tail'[c][n], wrote[c][s])
  <2>1. wrote[c][s] \in Nat
    BY Zenon, TailerTyped DEF TailInv
  <2>2. ASSUME tail'[c][n] = Fresh
        PROVE  ReadOK(c, s, Fresh, wrote[c][s])
    BY <1>8, <2>1 DEF ReadOK, LineEnd, Copy
  <2>3. ASSUME /\ n \in DOMAIN tail[c] /\ tail'[c][n].pc = tail[c][n].pc /\ tail'[c][n].start = tail[c][n].start
               /\ tail'[c][n].at = tail[c][n].at /\ tail'[c][n].pending = tail[c][n].pending
        PROVE  ReadOK(c, s, tail'[c][n], wrote[c][s])
    <3>1. ReadOK(c, s, tail[c][n], wrote[c][s])
      BY Zenon, <2>3 DEF TailInv, Reads
    <3> QED
      BY Zenon, <2>3, <3>1 DEF ReadOK, Base
  <2> QED
    BY Zenon, <1>7, <2>2, <2>3
<1>10. Reads'
  BY Zenon, <1>1, <1>9 DEF Reads
<1>11. OneTailer'
  <2> SUFFICES ASSUME NEW c \in Containers
               PROVE  /\ c \in tailers' => tail'[c] # <<>>
                      /\ \A n \in DOMAIN tail'[c] :
                           /\ n # Len(tail'[c]) => tail'[c][n].cancelled /\ tail'[c][n].pc = "ended"
                           /\ c \notin tailers' => tail'[c][n].cancelled
    BY <1>1, <1>2 DEF OneTailer
  <2>1. /\ \A n \in DOMAIN tail[c] : tail[c][n] \in Tailer
        /\ tail[c] \in Seq(Tailer) /\ DOMAIN tail[c] = 1..Len(tail[c]) /\ Len(tail[c]) \in Nat
    BY Zenon, TailerTyped DEF TailInv
  <2>2. /\ c \in tailers => tail[c] # <<>>
        /\ \A n \in DOMAIN tail[c] :
             /\ n # Len(tail[c]) => tail[c][n].cancelled /\ tail[c][n].pc = "ended"
             /\ c \notin tailers => tail[c][n].cancelled
             /\ tail[c][n].cancelled => tail[c][n].pc = "ended"
    BY Zenon, <1>2 DEF TailInv, OneTailer
  <2>3. CASE c \in StartsFor
    <3>1. /\ c \notin tailers /\ DOMAIN tail'[c] = DOMAIN tail[c] \cup {Len(tail[c]) + 1} /\ Len(tail'[c]) = Len(tail[c]) + 1
          /\ tail'[c][Len(tail[c]) + 1] = Fresh /\ \A m \in DOMAIN tail[c] : tail'[c][m] = tail[c][m]
      BY Zenon, <2>3, ReconcileTail
    <3>2. tail'[c] # <<>>
      BY <2>1, <3>1
    <3>3. c \in tailers'
      BY Zenon, <1>1, <2>3
    <3>4. ASSUME NEW n \in DOMAIN tail'[c], n # Len(tail'[c])
          PROVE  tail'[c][n].cancelled /\ tail'[c][n].pc = "ended"
      <4>1. n \in DOMAIN tail[c]
        BY Zenon, <3>1, <3>4
      <4> QED
        BY Zenon, <2>2, <3>1, <4>1
    <3> QED
      BY Zenon, <3>2, <3>3, <3>4
  <2>4. CASE c \in tailers \ listing
    <3>1. /\ DOMAIN tail'[c] = DOMAIN tail[c] /\ Len(tail'[c]) = Len(tail[c]) /\ Len(tail[c]) \in DOMAIN tail[c]
          /\ tail'[c][Len(tail[c])] = [tail[c][Len(tail[c])] EXCEPT !.cancelled = TRUE]
          /\ \A m \in DOMAIN tail[c] : m # Len(tail[c]) => tail'[c][m] = tail[c][m]
      BY Zenon, <2>4, ReconcileTail
    <3>2. tail'[c][Len(tail[c])].cancelled
      BY Zenon, <2>1, <3>1 DEF Tailer
    <3>3. c \notin tailers'
      BY Zenon, <1>1, <2>4 DEF StartsFor
    <3>4. ASSUME NEW n \in DOMAIN tail'[c]
          PROVE  /\ n # Len(tail'[c]) => tail'[c][n].cancelled /\ tail'[c][n].pc = "ended"
                 /\ tail'[c][n].cancelled
      <4>1. CASE n = Len(tail[c])
        BY Zenon, <3>1, <3>2, <4>1
      <4>2. CASE n # Len(tail[c])
        BY Zenon, <2>2, <3>1, <4>2
      <4> QED
        BY Zenon, <4>1, <4>2
    <3> QED
      BY Zenon, <3>3, <3>4
  <2>5. CASE c \notin StartsFor /\ c \notin tailers \ listing
    <3>1. tail'[c] = tail[c] /\ (c \in tailers' <=> c \in tailers)
      BY Zenon, <1>1, <2>5, ReconcileTail
    <3> QED
      BY Zenon, <2>2, <3>1
  <2> QED
    BY Zenon, <2>3, <2>4, <2>5
<1>12. Bounds'
  <2> SUFFICES ASSUME NEW x \in Seen, x.from \in Containers, NEW n \in DOMAIN tail'[x.from]
               PROVE  BoundOK(x.stream, x.end, tail'[x.from][n], before[x.from][x.stream])
    BY <1>1, <1>2, <1>6 DEF TailInv, Bounds
  <2>1. /\ x.stream \in Streams
        /\ \A m \in DOMAIN tail[x.from] : BoundOK(x.stream, x.end, tail[x.from][m], before[x.from][x.stream])
        /\ x.from \notin tailers => x.end <= before[x.from][x.stream]
    BY Zenon, <1>2 DEF TailInv, Bounds
  <2>2. ASSUME x.from \in StartsFor, tail'[x.from][n] = Fresh
        PROVE  BoundOK(x.stream, x.end, tail'[x.from][n], before[x.from][x.stream])
    BY Zenon, <1>8, <2>1, <2>2 DEF BoundOK, StartsFor
  <2>3. ASSUME n \in DOMAIN tail[x.from], tail'[x.from][n].pc = tail[x.from][n].pc,
               tail'[x.from][n].at = tail[x.from][n].at, tail'[x.from][n].pending = tail[x.from][n].pending
        PROVE  BoundOK(x.stream, x.end, tail'[x.from][n], before[x.from][x.stream])
    BY Zenon, <2>1, <2>3 DEF BoundOK, Base
  <2> QED
    BY Zenon, <1>7, <2>2, <2>3
<1>13. Behind'
  <2>1. Behind' = \A c \in Containers, s \in Streams : \A n \in DOMAIN tail'[c] : \A e \in Ends(c, s) :
          tail'[c][n].start[s] < e /\ e <= Base(tail'[c][n], s) =>
            LineAt(Text[c][s], e) \in Routine \cup {<<>>} \/ Taken(Seen', c, s, e)
    BY Zenon DEF Behind
  <2>2. ASSUME NEW c \in Containers, NEW s \in Streams, NEW n \in DOMAIN tail'[c], NEW e \in Ends(c, s),
               tail'[c][n].start[s] < e, e <= Base(tail'[c][n], s)
        PROVE  LineAt(Text[c][s], e) \in Routine \cup {<<>>} \/ Taken(Seen', c, s, e)
    <3>1. e \in Nat
      <4>1. Text[c][s] \in Seq(STRING)
        BY Zenon, TailAssumption
      <4> QED
        BY <4>1 DEF Ends
    <3>2. tail'[c][n] # Fresh
      BY <1>8, <2>2, <3>1
    <3>3. /\ n \in DOMAIN tail[c] /\ tail'[c][n].start = tail[c][n].start
          /\ tail'[c][n].at = tail[c][n].at /\ tail'[c][n].pending = tail[c][n].pending
      BY Zenon, <1>7, <3>2
    <3>4. tail[c][n].start[s] < e /\ e <= Base(tail[c][n], s)
      BY Zenon, <2>2, <3>3 DEF Base
    <3> QED
      BY Zenon, <1>6, <3>3, <3>4 DEF TailInv, Behind
  <2> QED
    BY <2>1, <2>2
<1> QED
  BY Zenon, <1>4, <1>5, <1>6, <1>10, <1>11, <1>12, <1>13 DEF TailInv


-----------------------------------------------------------------------------
(* The subprocesses and the tick. *)

\* Nothing happens to the tailers.
LEMMA TickKeeps ==
  ASSUME TailInv, UNCHANGED <<clockVars, listing, listedAt, tailers, tail, failed, faults>>,
         Seen \subseteq Seen', \A x \in Seen' : x \in Seen \/ x.from \notin Containers
  PROVE  TailerTypes' /\ Written' /\ Reads' /\ OneTailer' /\ Bounds' /\ Behind'
<1>1. /\ UNCHANGED <<second, running, wrote, before, listing, listedAt, tailers, tail, failed, faults>>
  BY Zenon DEF clockVars
<1>2. TailerTypes'
  BY Zenon, <1>1 DEF TailInv, TailerTypes
<1> QED
  BY Zenon, <1>1, <1>2, TailersRest DEF TailInv

\* A subprocess may append its next entry.
LEMMA EntryKeeps ==
  ASSUME TailInv, NEW p \in Followers, NEW x \in Events, x.from = p, p = "journald" => x.ts = entries + 1,
         entries < MaxEntries, entries' = entries + 1,
         procBuf' = procBuf \/ procBuf' = [procBuf EXCEPT ![p] = Append(procBuf[p], x)],
         UNCHANGED <<clockVars, dockerVars, exited, tickVars, faults>>
  PROVE  TailInv'
<1>1. /\ UNCHANGED <<clockVars, listing, listedAt, tailers, tail, failed, faults>>
      /\ dockerBuf' = dockerBuf /\ exited' = exited /\ tick' = tick /\ batch' = batch /\ sent' = sent
  BY Zenon DEF dockerVars, tickVars
<1>2. Seen' = Seen /\ SentEvents' = SentEvents
  BY <1>1 DEF Seen, SentEvents
<1>3. TailerTypes' /\ Written' /\ Reads' /\ OneTailer' /\ Bounds' /\ Behind'
  BY Zenon, <1>1, <1>2, TickKeeps
<1>4. entries \in Nat /\ entries' \in 0..MaxEntries /\ 1..entries \subseteq 1..entries' /\ entries + 1 \in 1..entries'
  <2>1. MaxEntries \in Nat /\ entries \in 0..MaxEntries
    BY Zenon, TailAssumption DEF TailInv, BufferTypes
  <2> QED
    BY <2>1
<1>5. procBuf \in [Followers -> Seq(Events)]
  BY Zenon DEF TailInv, BufferTypes
<1> DEFINE q == procBuf[p]
           z == Append(q, x)
<1>6. q \in Seq(Events)
  BY Zenon, <1>5
<1> HIDE DEF q
<1>7. z \in Seq(Events) /\ Elements(z) = Elements(q) \cup {x}
  BY <1>6, AppendElements
<1> HIDE DEF z
<1>8. \A i \in DOMAIN z : z[i] = x \/ \E j \in DOMAIN q : z[i] = q[j]
  BY Zenon, <1>7 DEF Elements
<1>9. \A y : (y.from = "journald" => y.ts \in 1..entries) => Follows(y, x)
  <2> SUFFICES ASSUME NEW y, y.from = "journald" => y.ts \in 1..entries
               PROVE  Follows(y, x)
    BY Zenon
  <2>1. p \notin Containers
    BY Zenon, TailAssumption DEF Followers
  <2>2. y.from = "journald" /\ x.from = "journald" => y.ts < x.ts
    BY <1>4
  <2> QED
    BY Zenon, <2>1, <2>2 DEF Follows
<1>10. /\ \A i \in DOMAIN SentEvents : SentEvents[i] \in Seen
       /\ \A i \in DOMAIN batch : batch[i] \in Seen
       /\ \A y \in Seen : Follows(y, x)
  BY Zenon, <1>9 DEF SentEvents, Seen, TailInv, Numbered
<1>11. \A i \in DOMAIN q : Follows(q[i], x)
  BY Zenon, <1>9 DEF TailInv, Numbered, Sources, Followers, q
<1>12. InOrder(z) /\ Precedes(SentEvents, z) /\ Precedes(batch, z)
  <2>1. InOrder(q) /\ Precedes(SentEvents, q) /\ Precedes(batch, q)
    BY Zenon DEF TailInv, Pipeline, q
  <2>2. InOrder(z)
    BY Zenon, <1>6, <1>11, <2>1, AppendInOrder DEF z
  <2> QED
    BY Zenon, <1>8, <1>10, <2>1, <2>2 DEF Precedes
<1>13. \A o \in Followers : procBuf'[o] = procBuf[o] \/ (o = p /\ procBuf'[o] = z)
  BY Zenon, <1>5 DEF z, q
<1>14. BufferTypes'
  <2>1. procBuf' \in [Followers -> Seq(Events)]
    BY Zenon, <1>5, <1>7 DEF z, q
  <2> QED
    BY Zenon, <1>1, <1>4, <2>1 DEF TailInv, BufferTypes
<1>15. Sources'
  BY <1>1, <1>8, <1>13 DEF TailInv, Sources, q
<1>16. Numbered'
  <2>1. \A y \in Seen' : y.from = "journald" => y.ts \in 1..entries'
    BY Zenon, <1>2, <1>4 DEF TailInv, Numbered
  <2>2. "journald" \in Followers /\ \A i \in DOMAIN procBuf["journald"] : procBuf["journald"][i].ts \in 1..entries'
    BY Zenon, <1>4 DEF TailInv, Numbered, Followers
  <2>3. CASE procBuf'["journald"] = procBuf["journald"]
    BY Zenon, <2>1, <2>2, <2>3 DEF Numbered
  <2>4. CASE p = "journald" /\ procBuf'["journald"] = z
    <3>1. \A i \in DOMAIN z : z[i].ts \in 1..entries'
      BY <1>4, <1>8, <2>2, <2>4 DEF q
    <3> QED
      BY Zenon, <2>1, <2>4, <3>1 DEF Numbered
  <2> QED
    BY Zenon, <1>13, <2>2, <2>3, <2>4
<1>17. Pipeline'
  BY Zenon, <1>1, <1>2, <1>12, <1>13 DEF TailInv, Pipeline
<1>18. Stamped' /\ Whole'
  BY Zenon, <1>1 DEF TailInv, Stamped, Whole
<1> QED
  BY Zenon, <1>3, <1>14, <1>15, <1>16, <1>17, <1>18 DEF TailInv

LEMMA JournalKeeps ==
  ASSUME TailInv, NEW message \in Messages, NEW priority \in Priorities, JournalEntry(message, priority)
  PROVE  TailInv'
<1> DEFINE x == Event("journald", "journald", entries + 1, Truncated(message), JournaldLevel(priority), entries + 1)
<1>1. /\ entries < MaxEntries /\ entries' = entries + 1 /\ UNCHANGED <<clockVars, dockerVars, exited, tickVars, faults>>
      /\ procBuf' = procBuf \/ procBuf' = [procBuf EXCEPT !["journald"] = Append(procBuf["journald"], x)]
  <2>1. procBuf' = procBuf \/ procBuf' = Appended("journald", x)
    BY Zenon DEF JournalEntry
  <2>2. Appended("journald", x) = procBuf \/ Appended("journald", x) = [procBuf EXCEPT !["journald"] = Append(procBuf["journald"], x)]
    BY Zenon DEF Appended, TailInv, BufferTypes
  <2> QED
    BY Zenon, <2>1, <2>2 DEF JournalEntry
<1>2. x \in Events /\ x.from = "journald" /\ x.ts = entries + 1
  <2>1. entries + 1 \in Nat
    BY DEF TailInv, BufferTypes
  <2>2. Truncated(message) \in Seq(STRING) /\ JournaldLevel(priority) \in {"error", "warn", "info"}
    BY Zenon, TailAssumption, MessageTypes
  <2> QED
    BY Zenon, <2>1, <2>2 DEF Event, Events, Followers
<1>3. "journald" \in Followers
  BY Zenon DEF Followers
<1> HIDE DEF x
<1> QED
  BY Zenon, <1>1, <1>2, <1>3, EntryKeeps

LEMMA BanKeeps ==
  ASSUME TailInv, NEW action \in {"Ban", "Unban"}, BanEntry(action)
  PROVE  TailInv'
<1> DEFINE x == Event("fail2ban", "fail2ban", entries + 1, <<action>>, IF action = "Unban" THEN "info" ELSE "warn", 0)
<1>1. /\ entries < MaxEntries /\ entries' = entries + 1 /\ UNCHANGED <<clockVars, dockerVars, exited, tickVars, faults>>
      /\ procBuf' = procBuf \/ procBuf' = [procBuf EXCEPT !["fail2ban"] = Append(procBuf["fail2ban"], x)]
  <2>1. procBuf' = Appended("fail2ban", x)
    BY Zenon DEF BanEntry
  <2>2. Appended("fail2ban", x) = procBuf \/ Appended("fail2ban", x) = [procBuf EXCEPT !["fail2ban"] = Append(procBuf["fail2ban"], x)]
    BY Zenon DEF Appended, TailInv, BufferTypes
  <2> QED
    BY Zenon, <2>1, <2>2 DEF BanEntry
<1>2. x \in Events /\ x.from = "fail2ban"
  <2>1. entries + 1 \in Nat
    BY DEF TailInv, BufferTypes
  <2>2. <<action>> \in {<<"Ban">>, <<"Unban">>}
    BY Zenon
  <2> QED
    BY Zenon, <2>1, <2>2 DEF Event, Events, Followers
<1>3. "fail2ban" \in Followers
  BY Zenon DEF Followers
<1> HIDE DEF x
<1> QED
  BY Zenon, <1>1, <1>2, <1>3, EntryKeeps


\* Nothing precedes or follows an empty sequence wrongly.
LEMMA EmptyOrder ==
  ASSUME NEW q
  PROVE  InOrder(<<>>) /\ Precedes(q, <<>>) /\ Precedes(<<>>, q)
BY DEF InOrder, Precedes

\* What stands before both parts, or after both, does so with the parts together.
LEMMA ConcatPrecedes ==
  ASSUME NEW S, NEW q \in Seq(S), NEW r \in Seq(S), NEW o
  PROVE  /\ Precedes(o, q) /\ Precedes(o, r) => Precedes(o, q \o r)
         /\ Precedes(q, o) /\ Precedes(r, o) => Precedes(q \o r, o)
<1>1. \A i \in DOMAIN (q \o r) :
        (\E j \in DOMAIN q : (q \o r)[i] = q[j]) \/ (\E j \in DOMAIN r : (q \o r)[i] = r[j])
  <2> DEFINE z == q \o r
  <2>1. Elements(z) = Elements(q) \cup Elements(r)
    BY ConcatElements
  <2> HIDE DEF z
  <2>2. \A i \in DOMAIN z : (\E j \in DOMAIN q : z[i] = q[j]) \/ (\E j \in DOMAIN r : z[i] = r[j])
    BY Zenon, <2>1 DEF Elements
  <2> QED
    BY Zenon, <2>2 DEF z
<1> QED
  BY Zenon, <1>1 DEF Precedes

\* Events of different sources are in any order.
LEMMA SourcesPrecede ==
  ASSUME NEW q, NEW r, \A i \in DOMAIN q, j \in DOMAIN r : q[i].from # r[j].from
  PROVE  Precedes(q, r)
BY Zenon DEF Precedes, Follows

\* The journal's or fail2ban's Collect.
LEMMA CollectProcKeeps ==
  ASSUME TailInv, NEW p \in Followers, NEW next \in Followers \cup {"docker", "build"}, CollectProc(p, next)
  PROVE  TailInv'
<1>1. /\ UNCHANGED <<clockVars, listing, listedAt, tailers, tail, failed, faults>>
      /\ dockerBuf' = dockerBuf /\ exited' = exited /\ sent' = sent /\ entries' = entries
      /\ tick' = [tick EXCEPT !.at = next]
  BY Zenon DEF CollectProc, dockerVars
<1>2. procBuf \in [Followers -> Seq(Events)] /\ batch \in Seq(Events) /\ procBuf[p] \in Seq(Events)
  BY Zenon DEF TailInv, BufferTypes
<1>3. tick' \in [n : 1..MaxTicks, at : Followers \cup {"docker", "build"}]
  BY Zenon, <1>1 DEF TailInv, BufferTypes
<1>4. SentEvents' = SentEvents
  BY Zenon, <1>1 DEF SentEvents
<1>5. Stamped' /\ Whole'
  BY Zenon, <1>1 DEF TailInv, Stamped, Whole
<1>6. CASE p \in exited
  <2>1. batch' = batch /\ procBuf' = procBuf
    BY Zenon, <1>6 DEF CollectProc
  <2>2. Seen' = Seen
    BY Zenon, <1>1, <2>1 DEF Seen
  <2>3. BufferTypes' /\ Sources' /\ Numbered' /\ Pipeline'
    BY Zenon, <1>1, <1>3, <1>4, <2>1, <2>2 DEF TailInv, BufferTypes, Sources, Numbered, Pipeline
  <2> QED
    BY Zenon, <1>1, <1>5, <2>2, <2>3, TickKeeps DEF TailInv
<1>7. CASE p \notin exited
  <2>1. batch' = batch \o procBuf[p] /\ procBuf' = [procBuf EXCEPT ![p] = <<>>]
    BY Zenon, <1>7 DEF CollectProc
  <2>2. /\ batch' \in Seq(Events)
        /\ Elements(batch') = Elements(batch) \cup Elements(procBuf[p])
    BY <1>2, <2>1, ConcatElements
  <2>3. /\ procBuf' \in [Followers -> Seq(Events)] /\ procBuf'[p] = <<>>
        /\ \A o \in Followers : o # p => procBuf'[o] = procBuf[o]
    BY <1>2, <2>1
  <2>4. Seen' = Seen \cup {procBuf[p][i] : i \in DOMAIN procBuf[p]}
    BY Zenon, <1>1, <2>2 DEF Seen, Elements
  <2>5. /\ \A i \in DOMAIN procBuf[p] : procBuf[p][i].from = p
        /\ p \notin Containers
        /\ \A o \in Followers : \A i \in DOMAIN procBuf[o] : procBuf[o][i].from = o
        /\ \A i \in DOMAIN dockerBuf : dockerBuf[i].from \in Containers
    BY Zenon, TailAssumption DEF TailInv, Sources, Followers
  <2>6. TailerTypes' /\ Written' /\ Reads' /\ OneTailer' /\ Bounds' /\ Behind'
    BY Zenon, <1>1, <2>4, <2>5, TickKeeps
  <2>7. BufferTypes'
    BY Zenon, <1>1, <1>3, <2>2, <2>3 DEF TailInv, BufferTypes
  <2>8. Sources'
    BY <1>1, <2>3 DEF TailInv, Sources
  <2>9. Numbered'
    <3>1. \A x \in Seen' : x.from = "journald" => x.ts \in 1..entries
      <4>1. \A x \in Seen : x.from = "journald" => x.ts \in 1..entries
        BY Zenon DEF TailInv, Numbered
      <4>2. ASSUME NEW i \in DOMAIN procBuf[p], procBuf[p][i].from = "journald"
            PROVE  procBuf[p][i].ts \in 1..entries
        BY Zenon, <2>5, <4>2 DEF TailInv, Numbered
      <4> QED
        BY Zenon, <2>4, <4>1, <4>2
    <3>2. \A i \in DOMAIN procBuf'["journald"] : procBuf'["journald"][i].ts \in 1..entries
      BY <2>3 DEF TailInv, Numbered, Followers
    <3> QED
      BY Zenon, <1>1, <3>1, <3>2 DEF Numbered
  <2>10. Pipeline'
    <3>1. /\ InOrder(SentEvents) /\ InOrder(batch) /\ InOrder(dockerBuf) /\ InOrder(procBuf[p])
          /\ Precedes(SentEvents, batch) /\ Precedes(SentEvents, dockerBuf) /\ Precedes(batch, dockerBuf)
          /\ Precedes(SentEvents, procBuf[p]) /\ Precedes(batch, procBuf[p])
          /\ \A o \in Followers : InOrder(procBuf[o]) /\ Precedes(SentEvents, procBuf[o]) /\ Precedes(batch, procBuf[o])
      BY Zenon DEF TailInv, Pipeline
    <3>2. InOrder(batch')
      BY Zenon, <1>2, <2>1, <3>1, ConcatInOrder
    <3>3. Precedes(SentEvents, batch')
      BY Zenon, <1>2, <2>1, <3>1, ConcatPrecedes
    <3>4. Precedes(batch', dockerBuf)
      <4>1. Precedes(procBuf[p], dockerBuf)
        BY <2>5, SourcesPrecede
      <4> QED
        BY Zenon, <1>2, <2>1, <3>1, <4>1, ConcatPrecedes
    <3>5. ASSUME NEW o \in Followers
          PROVE  InOrder(procBuf'[o]) /\ Precedes(SentEvents, procBuf'[o]) /\ Precedes(batch', procBuf'[o])
      <4>1. CASE o = p
        BY Zenon, <2>3, <4>1, EmptyOrder
      <4>2. CASE o # p
        <5>1. Precedes(procBuf[p], procBuf[o])
          BY SMTT(30), <2>5, <4>2, SourcesPrecede
        <5>2. Precedes(batch', procBuf[o])
          BY Zenon, <1>2, <2>1, <3>1, <5>1, ConcatPrecedes
        <5> QED
          BY Zenon, <2>3, <3>1, <4>2, <5>2
      <4> QED
        BY Zenon, <4>1, <4>2
    <3> QED
      BY Zenon, <1>1, <1>4, <3>1, <3>2, <3>3, <3>4, <3>5 DEF Pipeline
  <2> QED
    BY Zenon, <1>5, <2>6, <2>7, <2>8, <2>9, <2>10 DEF TailInv
<1> QED
  BY Zenon, <1>6, <1>7


\* DockerLogs.Collect
LEMMA CollectDockerKeeps ==
  ASSUME TailInv, CollectDocker
  PROVE  TailInv'
<1>1. /\ UNCHANGED <<clockVars, listing, listedAt, tailers, tail, failed, faults>>
      /\ procBuf' = procBuf /\ exited' = exited /\ sent' = sent /\ entries' = entries
      /\ tick' = [tick EXCEPT !.at = "build"]
  BY Zenon DEF CollectDocker, procVars
<1>2. procBuf \in [Followers -> Seq(Events)] /\ batch \in Seq(Events) /\ dockerBuf \in Seq(Events)
  BY Zenon DEF TailInv, BufferTypes
<1>3. tick' \in [n : 1..MaxTicks, at : Followers \cup {"docker", "build"}]
  BY Zenon, <1>1 DEF TailInv, BufferTypes
<1>4. SentEvents' = SentEvents
  BY Zenon, <1>1 DEF SentEvents
<1>5. Stamped'
  BY Zenon, <1>1 DEF TailInv, Stamped
<1>6. CASE failed
  <2>1. batch' = batch /\ dockerBuf' = dockerBuf
    BY Zenon, <1>6 DEF CollectDocker, KeptBuffer
  <2>2. Seen' = Seen
    BY Zenon, <1>1, <2>1 DEF Seen
  <2>3. BufferTypes' /\ Sources' /\ Numbered' /\ Pipeline' /\ Whole'
    BY Zenon, <1>1, <1>3, <1>4, <2>1, <2>2 DEF TailInv, BufferTypes, Sources, Numbered, Pipeline, Whole
  <2> QED
    BY Zenon, <1>1, <1>5, <2>2, <2>3, TickKeeps DEF TailInv
<1>7. CASE ~failed
  <2>1. batch' = batch \o dockerBuf /\ dockerBuf' = <<>>
    BY Zenon, <1>7 DEF CollectDocker, KeptBuffer
  <2>2. batch' \in Seq(Events) /\ Elements(batch') = Elements(batch) \cup Elements(dockerBuf)
    BY <1>2, <2>1, ConcatElements
  <2>3. Seen' = Seen
    <3>1. Elements(dockerBuf') = {}
      BY <2>1 DEF Elements
    <3>2. Seen = {sent[i].event : i \in DOMAIN sent} \cup Elements(batch) \cup Elements(dockerBuf)
      BY Zenon DEF Seen, Elements
    <3>3. Seen' = {sent[i].event : i \in DOMAIN sent} \cup Elements(batch') \cup Elements(dockerBuf')
      BY Zenon, <1>1 DEF Seen, Elements
    <3> QED
      BY Zenon, <2>2, <3>1, <3>2, <3>3
  <2>4. TailerTypes' /\ Written' /\ Reads' /\ OneTailer' /\ Bounds' /\ Behind'
    BY Zenon, <1>1, <2>3, TickKeeps
  <2>5. BufferTypes'
    BY <1>1, <1>3, <2>1, <2>2 DEF TailInv, BufferTypes
  <2>6. Sources' /\ Whole'
    BY <1>1, <2>1 DEF TailInv, Sources, Whole
  <2>7. Numbered'
    BY Zenon, <1>1, <2>3 DEF TailInv, Numbered
  <2>8. Pipeline'
    <3>1. /\ InOrder(SentEvents) /\ InOrder(batch) /\ InOrder(dockerBuf)
          /\ Precedes(SentEvents, batch) /\ Precedes(SentEvents, dockerBuf) /\ Precedes(batch, dockerBuf)
          /\ \A p \in Followers : InOrder(procBuf[p]) /\ Precedes(SentEvents, procBuf[p]) /\ Precedes(batch, procBuf[p])
      BY Zenon DEF TailInv, Pipeline
    <3>2. InOrder(batch')
      BY Zenon, <1>2, <2>1, <3>1, ConcatInOrder
    <3>3. Precedes(SentEvents, batch')
      BY Zenon, <1>2, <2>1, <3>1, ConcatPrecedes
    <3>4. ASSUME NEW p \in Followers
          PROVE  Precedes(batch', procBuf[p])
      <4>1. Precedes(dockerBuf, procBuf[p])
        <5>1. p \notin Containers
          BY Zenon, TailAssumption DEF Followers
        <5>2. \A i \in DOMAIN dockerBuf, j \in DOMAIN procBuf[p] : dockerBuf[i].from # procBuf[p][j].from
          BY <5>1 DEF TailInv, Sources
        <5> QED
          BY Zenon, <5>2, SourcesPrecede
      <4> QED
        BY Zenon, <1>2, <2>1, <3>1, <4>1, ConcatPrecedes
    <3>5. InOrder(dockerBuf') /\ Precedes(SentEvents, dockerBuf') /\ Precedes(batch', dockerBuf')
      BY Zenon, <2>1, EmptyOrder
    <3> QED
      BY Zenon, <1>1, <1>4, <3>1, <3>2, <3>3, <3>4, <3>5 DEF Pipeline
  <2> QED
    BY Zenon, <1>5, <2>4, <2>5, <2>6, <2>7, <2>8 DEF TailInv
<1>8. failed \in BOOLEAN
  BY Zenon DEF TailInv, TailerTypes
<1> QED
  BY Zenon, <1>6, <1>7, <1>8

\* The batch joins what was sent; a journal entry keeps its own time.
LEMMA BuildKeeps ==
  ASSUME TailInv, Build
  PROVE  TailInv'
<1> DEFINE item(i) == [event |-> batch[i], stamp |-> EventStamp(batch[i])]
           b == [i \in DOMAIN batch |-> item(i)]
<1>1. /\ UNCHANGED <<clockVars, listing, listedAt, tailers, tail, failed, faults>>
      /\ procBuf' = procBuf /\ exited' = exited /\ dockerBuf' = dockerBuf /\ entries' = entries
      /\ batch' = <<>> /\ sent' = sent \o b
  BY Zenon DEF Build, procVars, dockerVars
<1>2. batch \in Seq(Events) /\ sent \in Seq(SentEvent)
  BY Zenon DEF TailInv, BufferTypes
<1>3. tick \in [n : 1..MaxTicks, at : Followers \cup {"docker", "build"}] /\ MaxTicks \in Nat
  BY Zenon, TailAssumption DEF TailInv, BufferTypes
<1>4. tick' \in [n : 1..MaxTicks, at : Followers \cup {"docker", "build"}]
  <2>1. tick.n + 1 \in 1..MaxTicks /\ tick' = [n |-> tick.n + 1, at |-> "journald"]
    BY <1>3 DEF Build
  <2> QED
    BY Zenon, <2>1 DEF Followers
<1>5. /\ Len(batch) \in Nat /\ DOMAIN batch = 1..Len(batch)
      /\ \A i \in DOMAIN batch : batch[i] \in Events /\ batch[i] \in Seen
  BY <1>2 DEF Seen
<1>6. \A x \in Events : x.ts \in Nat
  BY Zenon DEF Events
<1>7. \A x \in Events : EventStamp(x) \in {"tick", "own"} \X Nat
  <2>1. tick.n \in Nat
    BY <1>3
  <2> QED
    BY Zenon, <1>6, <2>1 DEF EventStamp
<1>8. \A i \in DOMAIN batch : item(i) \in SentEvent /\ item(i).event = batch[i]
  BY Zenon, <1>5, <1>7 DEF SentEvent
<1>9. \A i \in DOMAIN batch : batch[i].from = "journald" => item(i).stamp = <<"own", batch[i].ts>>
  <2>1. \A x \in Seen : x.from = "journald" => x.ts \in 1..entries
    BY Zenon DEF TailInv, Numbered
  <2>2. \A i \in DOMAIN batch : batch[i].from = "journald" => batch[i].ts # 0
    BY <1>5, <2>1
  <2> QED
    BY Zenon, <2>2 DEF EventStamp
<1> HIDE DEF item
<1>10. b \in Seq(SentEvent) /\ Len(b) = Len(batch) /\ DOMAIN b = DOMAIN batch /\ \A i \in DOMAIN batch : b[i] = item(i)
  BY <1>5, <1>8
<1> HIDE DEF b
<1>11. /\ Len(sent) \in Nat /\ DOMAIN sent = 1..Len(sent) /\ Len(sent') = Len(sent) + Len(batch)
       /\ sent' \in Seq(SentEvent) /\ DOMAIN sent' = 1..Len(sent) + Len(batch)
       /\ \A i \in 1..Len(sent) + Len(batch) : sent'[i] = IF i <= Len(sent) THEN sent[i] ELSE b[i - Len(sent)]
  <2>1. /\ sent \o b \in Seq(SentEvent) /\ Len(sent \o b) = Len(sent) + Len(b)
        /\ \A i \in 1..Len(sent) + Len(b) : (sent \o b)[i] = IF i <= Len(sent) THEN sent[i] ELSE b[i - Len(sent)]
    BY Zenon, <1>2, <1>10, ConcatContents
  <2>2. Len(sent) \in Nat /\ DOMAIN sent = 1..Len(sent) /\ (sent' \in Seq(SentEvent) => DOMAIN sent' = 1..Len(sent'))
    BY <1>2
  <2>3. Len(b) = Len(batch)
    BY Zenon, <1>10
  <2> QED
    BY Zenon, <1>1, <2>1, <2>2, <2>3
<1>12. SentEvents \in Seq(Events) /\ Len(SentEvents) = Len(sent) /\ \A i \in DOMAIN sent : SentEvents[i] = sent[i].event
  <2>1. \A i \in DOMAIN sent : sent[i] \in SentEvent
    BY <1>2
  <2>2. \A x \in SentEvent : x.event \in Events
    BY Zenon DEF SentEvent
  <2>3. \A i \in 1..Len(sent) : sent[i].event \in Events
    BY Zenon, <1>11, <2>1, <2>2
  <2> QED
    BY <1>11, <2>3 DEF SentEvents
<1>13. /\ SentEvents' \in Seq(Events) /\ Len(SentEvents') = Len(sent) + Len(batch)
       /\ \A i \in 1..Len(sent) + Len(batch) : SentEvents'[i] = IF i <= Len(sent) THEN sent[i].event ELSE batch[i - Len(sent)]
  <2>1. SentEvents' = [i \in 1..Len(sent) + Len(batch) |-> sent'[i].event]
    BY Zenon, <1>11 DEF SentEvents
  <2>2. ASSUME NEW i \in 1..Len(sent) + Len(batch)
        PROVE  /\ sent'[i].event = (IF i <= Len(sent) THEN sent[i].event ELSE batch[i - Len(sent)])
               /\ sent'[i].event \in Events
    <3>1. CASE i <= Len(sent)
      <4>1. i \in DOMAIN sent /\ sent'[i] = sent[i] /\ SentEvents[i] \in Events /\ SentEvents[i] = sent[i].event
        BY <1>11, <1>12, <3>1
      <4> QED
        BY Zenon, <3>1, <4>1
    <3>2. CASE i > Len(sent)
      <4>1. i - Len(sent) \in DOMAIN batch /\ sent'[i] = b[i - Len(sent)] /\ ~(i <= Len(sent))
        BY <1>5, <1>11, <3>2
      <4> QED
        BY Zenon, <1>5, <1>8, <1>10, <4>1
    <3> QED
      BY <1>11, <3>1, <3>2
  <2> QED
    BY <1>5, <1>11, <2>1, <2>2
<1>14. SentEvents' = SentEvents \o batch
  <2> DEFINE z == SentEvents \o batch
  <2>1. /\ z \in Seq(Events) /\ Len(z) = Len(sent) + Len(batch)
        /\ \A i \in 1..Len(sent) + Len(batch) : z[i] = IF i <= Len(sent) THEN SentEvents[i] ELSE batch[i - Len(sent)]
    <3>1. /\ z \in Seq(Events) /\ Len(z) = Len(SentEvents) + Len(batch)
          /\ \A i \in 1..Len(SentEvents) + Len(batch) :
               z[i] = IF i <= Len(SentEvents) THEN SentEvents[i] ELSE batch[i - Len(SentEvents)]
      BY Zenon, <1>2, <1>12, ConcatContents
    <3> HIDE DEF z
    <3>2. Len(SentEvents) = Len(sent)
      BY Zenon, <1>12
    <3> QED
      BY Zenon, <3>1, <3>2
  <2> HIDE DEF z
  <2>2. ASSUME NEW i \in 1..Len(sent) + Len(batch)
        PROVE  SentEvents'[i] = z[i]
    <3>1. i <= Len(sent) => i \in DOMAIN sent
      BY <1>5, <1>11
    <3> QED
      BY Zenon, <1>12, <1>13, <2>1, <3>1
  <2>3. SentEvents' = z
    BY Zenon, <1>13, <2>1, <2>2, SameSequence
  <2> QED
    BY Zenon, <2>3 DEF z
<1>15. Elements(SentEvents') = Elements(SentEvents) \cup Elements(batch)
  BY <1>2, <1>12, <1>14, ConcatElements
<1>16. Seen = Elements(SentEvents) \cup Elements(batch) \cup Elements(dockerBuf)
  BY Zenon DEF Seen, SentEvents, Elements
<1>17. Seen' = Elements(SentEvents') \cup Elements(batch') \cup Elements(dockerBuf')
  BY Zenon DEF Seen, SentEvents, Elements
<1>18. Seen' = Seen
  <2>1. Elements(batch') = {}
    BY <1>1 DEF Elements
  <2> QED
    BY Zenon, <1>1, <1>15, <1>16, <1>17, <2>1
<1>19. TailerTypes' /\ Written' /\ Reads' /\ OneTailer' /\ Bounds' /\ Behind'
  BY Zenon, <1>1, <1>18, TickKeeps
<1>20. BufferTypes'
  BY <1>1, <1>4, <1>11 DEF TailInv, BufferTypes
<1>21. Sources' /\ Whole' /\ Numbered'
  BY Zenon, <1>1, <1>18 DEF TailInv, Sources, Whole, Numbered
<1>22. Stamped'
  <2> SUFFICES ASSUME NEW i \in DOMAIN sent', sent'[i].event.from = "journald"
               PROVE  sent'[i].stamp = <<"own", sent'[i].event.ts>>
    BY Zenon DEF Stamped
  <2>1. CASE i <= Len(sent)
    <3>1. i \in DOMAIN sent /\ sent'[i] = sent[i]
      BY <1>11, <2>1
    <3> QED
      BY Zenon, <3>1 DEF TailInv, Stamped
  <2>2. CASE i > Len(sent)
    <3>1. i - Len(sent) \in DOMAIN batch /\ sent'[i] = b[i - Len(sent)]
      BY <1>5, <1>11, <2>2
    <3> QED
      BY Zenon, <1>8, <1>9, <1>10, <3>1
  <2> QED
    BY <1>11, <2>1, <2>2
<1>23. Pipeline'
  <2>1. /\ InOrder(SentEvents) /\ InOrder(batch) /\ InOrder(dockerBuf)
        /\ Precedes(SentEvents, batch) /\ Precedes(SentEvents, dockerBuf) /\ Precedes(batch, dockerBuf)
        /\ \A p \in Followers : InOrder(procBuf[p]) /\ Precedes(SentEvents, procBuf[p]) /\ Precedes(batch, procBuf[p])
    BY Zenon DEF TailInv, Pipeline
  <2>2. InOrder(SentEvents')
    BY Zenon, <1>2, <1>12, <1>14, <2>1, ConcatInOrder
  <2>3. Precedes(SentEvents', dockerBuf) /\ \A p \in Followers : Precedes(SentEvents', procBuf[p])
    BY Zenon, <1>2, <1>12, <1>14, <2>1, ConcatPrecedes
  <2>4. InOrder(batch') /\ Precedes(SentEvents', batch') /\ \A q : Precedes(batch', q)
    BY Zenon, <1>1, EmptyOrder
  <2> QED
    BY Zenon, <1>1, <2>1, <2>2, <2>3, <2>4 DEF Pipeline
<1> QED
  BY Zenon, <1>19, <1>20, <1>21, <1>22, <1>23 DEF TailInv


-----------------------------------------------------------------------------
(* The invariant and what follows from it. *)

LEMMA TailInitInv ==
  ASSUME TailInit
  PROVE  TailInv
<1>1. Seen = {} /\ SentEvents = <<>>
  BY DEF TailInit, Seen, SentEvents
<1>2. TailerTypes
  <2>1. MaxSeconds \in Nat /\ MaxTailers \in Nat /\ MaxFaults \in Nat
    BY Zenon, TailAssumption
  <2>2. wrote \in [Containers -> [Streams -> Nat]] /\ before \in [Containers -> [Streams -> Nat]]
    BY Zenon DEF TailInit, Beginning
  <2>3. tail \in [Containers -> Seq(Tailer)] /\ \A c \in Containers : Len(tail[c]) = 0
    BY DEF TailInit
  <2>4. 1 \in 1..MaxSeconds /\ 0 \in 0..MaxFaults /\ 0 <= MaxTailers
    BY <2>1, TailAssumption
  <2>5. /\ second = 1 /\ running = {} /\ listing = NoList /\ listedAt = 0 /\ tailers = {} /\ failed = FALSE /\ faults = 0
    BY Zenon DEF TailInit
  <2>6. listedAt \in 0..second
    BY <2>5
  <2> QED
    BY Zenon, <2>2, <2>3, <2>4, <2>5, <2>6 DEF TailerTypes
<1>3. BufferTypes
  <2>1. 0 \in 0..MaxEntries /\ 1 \in 1..MaxTicks
    BY TailAssumption
  <2>2. /\ dockerBuf = <<>> /\ batch = <<>> /\ sent = <<>> /\ procBuf \in [Followers -> Seq(Events)]
        /\ exited = {} /\ entries = 0 /\ tick = [n |-> 1, at |-> "journald"]
    BY DEF TailInit
  <2>3. tick \in [n : 1..MaxTicks, at : Followers \cup {"docker", "build"}]
    BY Zenon, <2>1, <2>2 DEF Followers
  <2>4. <<>> \in Seq(Events) /\ <<>> \in Seq(SentEvent)
    OBVIOUS
  <2> QED
    BY Zenon, <2>1, <2>2, <2>3, <2>4 DEF BufferTypes
<1>4. Written
  <2> SUFFICES ASSUME NEW c \in Containers, NEW s \in Streams
               PROVE  /\ before[c][s] <= wrote[c][s] /\ wrote[c][s] <= Len(Text[c][s])
                      /\ LineEnd(c, s, wrote[c][s]) /\ LineEnd(c, s, before[c][s])
    BY Zenon DEF Written
  <2>1. wrote[c][s] = 0 /\ before[c][s] = 0
    BY Zenon DEF TailInit, Beginning
  <2>2. Text[c][s] \in Seq(STRING)
    BY Zenon, TailAssumption
  <2> QED
    BY <2>1, <2>2 DEF LineEnd
<1>5. \A c \in Containers : tail[c] = <<>>
  BY Zenon DEF TailInit
<1>6. Reads /\ OneTailer /\ Behind
  BY SMTT(30), <1>5 DEF TailInit, Reads, OneTailer, Behind
<1>7. Bounds /\ Numbered /\ Sources /\ Stamped /\ Whole
  BY SMTT(30), <1>1 DEF TailInit, Bounds, Numbered, Sources, Stamped, Whole, Followers
<1>8. Pipeline
  BY Zenon, <1>1, EmptyOrder DEF TailInit, Pipeline
<1> QED
  BY Zenon, <1>2, <1>3, <1>4, <1>6, <1>7, <1>8 DEF TailInv

LEMMA TailStep ==
  ASSUME TailInv, [TailNext]_tailVars
  PROVE  TailInv'
<1>1. CASE Second
  BY Zenon, <1>1, SecondKeeps
<1>2. CASE Lists \/ ListFails \/ JournalctlExits \/ TailExits \/ UNCHANGED tailVars \/ \E c \in Containers : ContainerRuns(c)
  BY Zenon, <1>2, ListKeeps
<1>3. CASE Reconcile
  BY <1>3, ReconcileKeeps
<1>4. CASE CollectDocker
  BY <1>4, CollectDockerKeeps
<1>5. CASE Build
  BY <1>5, BuildKeeps
<1>6. CASE CollectJournald \/ CollectFail2ban
  BY Zenon, <1>6, CollectProcKeeps DEF CollectJournald, CollectFail2ban, Followers
<1>7. ASSUME NEW c \in Containers, NEW s \in Streams, WritesLine(c, s)
      PROVE  TailInv'
  BY Zenon, <1>7, WritesKeeps
<1>8. ASSUME NEW m \in Messages, NEW n \in Priorities, JournalEntry(m, n)
      PROVE  TailInv'
  BY <1>8, JournalKeeps
<1>9. ASSUME NEW action \in {"Ban", "Unban"}, BanEntry(action)
      PROVE  TailInv'
  BY Zenon, <1>9, BanKeeps
<1>10. ASSUME NEW c \in Containers, NEW n \in DOMAIN tail[c], TailOpens(c, n) \/ TailEnds(c, n)
       PROVE  TailInv'
  BY Zenon, <1>10, OpensKeeps, EndsKeeps
<1>11. ASSUME NEW c \in Containers, NEW n \in DOMAIN tail[c], NEW s \in Streams, TakesLine(c, n, s)
       PROVE  TailInv'
  BY Zenon, <1>11, TakesKeeps
<1>12. ASSUME NEW c \in Containers, NEW n \in DOMAIN tail[c], NEW s \in Streams, NEW k \in DOMAIN Text[c][s],
              ReadsFrame(c, n, s, k)
       PROVE  TailInv'
  BY Zenon, <1>12, ReadsKeeps
<1> QED
  BY Zenon, <1>1, <1>2, <1>3, <1>4, <1>5, <1>6, <1>7, <1>8, <1>9, <1>10, <1>11, <1>12 DEF TailNext

(* The tailers, the buffers and the tick keep their invariant.             *)
THEOREM TailInductive == TailSpec => []TailInv
<1>1. TailInit => TailInv
  BY Zenon, TailInitInv
<1>2. TailInv /\ [TailNext]_tailVars => TailInv'
  BY Zenon, TailStep
<1> QED
  BY <1>1, <1>2, PTL DEF TailSpec

\* What was collected, in order.
LEMMA CollectedOrder ==
  ASSUME TailInv
  PROVE  InOrder(Collected) /\ Elements(Collected) = Seen
<1>1. batch \in Seq(Events) /\ dockerBuf \in Seq(Events)
  BY Zenon DEF TailInv, BufferTypes
<1>2. SentEvents \in Seq(Events)
  <2>1. sent \in Seq(SentEvent) /\ \A i \in DOMAIN sent : sent[i].event \in Seen
    BY Zenon DEF TailInv, BufferTypes, Seen
  <2>2. Len(sent) \in Nat /\ DOMAIN sent = 1..Len(sent)
    BY <2>1
  <2>3. \A i \in 1..Len(sent) : sent[i].event \in Events
    BY Zenon, <2>1, <2>2, SeenTyped DEF TailInv
  <2> QED
    BY <2>2, <2>3 DEF SentEvents
<1>3. Collected = (SentEvents \o batch) \o dockerBuf
  BY Zenon DEF Collected, SentEvents
<1>4. /\ InOrder(SentEvents) /\ InOrder(batch) /\ InOrder(dockerBuf)
      /\ Precedes(SentEvents, batch) /\ Precedes(SentEvents, dockerBuf) /\ Precedes(batch, dockerBuf)
  BY Zenon DEF TailInv, Pipeline
<1> DEFINE q == SentEvents \o batch
<1>5. q \in Seq(Events) /\ Elements(q) = Elements(SentEvents) \cup Elements(batch)
  BY <1>1, <1>2, ConcatElements
<1>6. InOrder(q)
  BY Zenon, <1>1, <1>2, <1>4, ConcatInOrder
<1>7. Precedes(q, dockerBuf)
  BY Zenon, <1>1, <1>2, <1>4, ConcatPrecedes
<1> HIDE DEF q
<1>8. InOrder(q \o dockerBuf)
  BY Zenon, <1>1, <1>4, <1>5, <1>6, <1>7, ConcatInOrder
<1>9. Elements(q \o dockerBuf) = Elements(q) \cup Elements(dockerBuf)
  BY <1>1, <1>5, ConcatElements
<1>10. Seen = Elements(SentEvents) \cup Elements(batch) \cup Elements(dockerBuf)
  BY Zenon DEF Seen, SentEvents, Elements
<1> QED
  BY Zenon, <1>3, <1>5, <1>8, <1>9, <1>10 DEF q

(* No line of a container is forwarded twice, and the lines of a stream go  *)
(* in the order in which they were written, although a tailer begins again  *)
(* at the second it starts in and the journal may hold the line too.        *)
THEOREM EachLineOnceHolds == TailSpec => []EachLineOnce
<1>1. TailInv => EachLineOnce
  BY Zenon, CollectedOrder DEF EachLineOnce, InOrder, Follows
<1> QED
  BY <1>1, TailInductive, PTL

(* A forwarded line is one its container wrote, whole up to the cap of      *)
(* DockerLogs, with its level and no health check, wherever frames cut the  *)
(* two streams; and every variable of the tailers has its type.             *)
THEOREM LinesWholeHolds == TailSpec => []LinesWhole
<1>1. TailInv => LinesWhole
  <2> SUFFICES ASSUME TailInv
               PROVE  LinesWhole
    BY Zenon
  <2>1. ASSUME NEW c \in Containers, NEW n \in DOMAIN tail[c]
        PROVE  /\ tail[c][n].pc \in {"starts", "reads", "ended"} /\ tail[c][n].cancelled \in BOOLEAN
               /\ \A s \in Streams : tail[c][n].at[s] <= wrote[c][s]
    <3>1. tail[c][n] \in Tailer
      BY Zenon, TailerTyped DEF TailInv
    <3>2. \A s \in Streams : tail[c][n].at[s] <= wrote[c][s]
      BY Zenon DEF TailInv, Reads, ReadOK
    <3> QED
      BY Zenon, <3>1, <3>2, TailerFields
  <2>2. /\ second \in 1..MaxSeconds /\ running \subseteq Containers /\ listedAt \in 0..second
        /\ listing = NoList \/ listing \subseteq Containers
        /\ failed \in BOOLEAN /\ exited \subseteq Followers /\ entries \in 0..MaxEntries /\ faults \in 0..MaxFaults
        /\ \A c \in Containers : Len(tail[c]) <= MaxTailers
    BY Zenon DEF TailInv, TailerTypes, BufferTypes
  <2>3. \A c \in Containers, s \in Streams : before[c][s] <= wrote[c][s] /\ wrote[c][s] <= Len(Text[c][s])
    BY Zenon DEF TailInv, Written
  <2>4. tailers \subseteq {c \in Containers : tail[c] # <<>>}
    BY Zenon DEF TailInv, TailerTypes, OneTailer
  <2>5. tick.n \in 1..MaxTicks /\ tick.at \in Followers \cup {"docker", "build"}
    BY Zenon DEF TailInv, BufferTypes
  <2>6. \A i \in DOMAIN dockerBuf : dockerBuf[i].from \in Containers
    BY Zenon DEF TailInv, Sources
  <2>7. TailTypeOK
    BY Zenon, <2>1, <2>2, <2>3, <2>4, <2>5, <2>6 DEF TailTypeOK
  <2> QED
    BY Zenon, <2>7 DEF TailInv, Whole, WholeLine, LinesWhole
<1> QED
  BY <1>1, TailInductive, PTL

\* A line end that a tailer passed: its line is routine, still held or collected.
Found(c, s, t, e) ==
  \/ LineAt(Text[c][s], e) \in Routine \cup {<<>>}
  \/ e > t.at[s] - Len(t.pending[s]) /\ t.pending[s][e - t.at[s] + Len(t.pending[s])] = NL
  \/ \E i \in DOMAIN Collected : Collected[i].from = c /\ Collected[i].stream = s /\ Collected[i].end = e

LEMMA PassedFound ==
  ASSUME TailInv, NEW c \in Containers, NEW s \in Streams, NEW n \in DOMAIN tail[c], NEW e \in Ends(c, s),
         tail[c][n].start[s] < e, e <= tail[c][n].at[s]
  PROVE  Found(c, s, tail[c][n], e)
<1> DEFINE t == tail[c][n]
           p == t.pending[s]
<1>1. t \in Tailer
  BY Zenon, TailerTyped DEF TailInv
<1>2. t.at[s] \in Nat /\ t.start[s] \in Nat /\ Len(p) \in Nat /\ Base(t, s) = t.at[s] - Len(p)
  BY Zenon, <1>1, TailerFields DEF Base
<1>3. e \in Nat /\ Text[c][s][e] = NL
  <2>1. Text[c][s] \in Seq(STRING)
    BY Zenon, TailAssumption
  <2> QED
    BY <2>1 DEF Ends
<1>4. Copy(p, Text[c][s], Base(t, s))
  BY Zenon DEF TailInv, Reads, ReadOK
<1>5. e <= Base(t, s) => LineAt(Text[c][s], e) \in Routine \cup {<<>>} \/ Taken(Seen, c, s, e)
  BY Zenon DEF TailInv, Behind
<1>6. e <= t.at[s]
  BY Zenon
<1> HIDE DEF t, p
<1>7. CASE e <= Base(t, s)
  <2>1. Taken(Seen, c, s, e) => \E i \in DOMAIN Collected :
          Collected[i].from = c /\ Collected[i].stream = s /\ Collected[i].end = e
    BY Zenon, CollectedOrder DEF Taken, Elements
  <2> QED
    BY Zenon, <1>5, <1>7, <2>1 DEF Found
<1>8. CASE ~(e <= Base(t, s))
  <2>1. e > t.at[s] - Len(p) /\ e - t.at[s] + Len(p) \in 1..Len(p) /\ Base(t, s) + (e - t.at[s] + Len(p)) = e
    BY <1>2, <1>3, <1>6, <1>8
  <2>2. p[e - t.at[s] + Len(p)] = NL
    BY Zenon, <1>3, <1>4, <2>1 DEF Copy
  <2> QED
    BY Zenon, <2>1, <2>2 DEF t, p, Found
<1> QED
  BY Zenon, <1>7, <1>8

(* Nothing that a tailer read is lost: every line end it passed since it     *)
(* began belongs to a line in the agent's hands or in the tailer's, or one   *)
(* that DockerLogs leaves out on purpose.                                    *)
THEOREM NothingForgottenHolds == TailSpec => []NothingForgotten
<1>1. TailInv => NothingForgotten
  <2>1. NothingForgotten <=>
          \A c \in Containers, s \in Streams : \A n \in DOMAIN tail[c] : \A e \in Ends(c, s) :
            tail[c][n].start[s] < e /\ e <= tail[c][n].at[s] => Found(c, s, tail[c][n], e)
    BY Zenon DEF NothingForgotten, Found
  <2> QED
    BY Zenon, <2>1, PassedFound
<1> QED
  BY <1>1, TailInductive, PTL

(* Two journal entries of different times never share an identity on the   *)
(* server although one tick sends them all: Journald gives each its own    *)
(* time, and the times of entries grow.                                    *)
THEOREM KeptApartHolds == TailSpec => []KeptApart
<1>1. TailInv => KeptApart
  <2> SUFFICES ASSUME TailInv, NEW i \in DOMAIN sent, NEW j \in DOMAIN sent, i # j,
                      sent[i].event.from = "journald", sent[j].event.from = "journald"
               PROVE  sent[i].stamp # sent[j].stamp
    BY Zenon DEF KeptApart
  <2>1. sent[i].stamp = <<"own", sent[i].event.ts>> /\ sent[j].stamp = <<"own", sent[j].event.ts>>
    BY Zenon DEF TailInv, Stamped
  <2>2. sent[i].event.ts \in Nat /\ sent[j].event.ts \in Nat
    <3>1. sent[i].event \in Seen /\ sent[j].event \in Seen
      BY Zenon DEF Seen
    <3> QED
      BY Zenon, <3>1, SeenTyped DEF TailInv
  <2>3. \A k, m \in DOMAIN sent : k < m => Follows(sent[k].event, sent[m].event)
    BY Zenon DEF TailInv, Pipeline, InOrder, SentEvents
  <2>4. sent \in Seq(SentEvent)
    BY Zenon DEF TailInv, BufferTypes
  <2>5. i < j \/ j < i
    BY Zenon, <2>4, Positions
  <2>6. sent[i].event.ts < sent[j].event.ts \/ sent[j].event.ts < sent[i].event.ts
    BY Zenon, <2>3, <2>5 DEF Follows
  <2>7. <<"own", sent[i].event.ts>> # <<"own", sent[j].event.ts>>
    BY Zenon, <2>2, <2>6, Apart
  <2> QED
    BY Zenon, <2>1, <2>7
<1> QED
  BY <1>1, TailInductive, PTL

=============================================================================
