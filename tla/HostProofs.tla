----------------------------- MODULE HostProofs -----------------------------
(***************************************************************************)
(* Proofs about CommandHost and the Executor it extends: what is published *)
(* of the output of a command, what becomes of its process, and the folder *)
(* it runs in.                                                             *)
(***************************************************************************)
EXTENDS CommandHost, TLAPS

----------------------------------------------------------------------------
(* The inductive invariant *)

Slice == [offset : Nat, length : Nat]

OutRecords == [written : Nat, read : Nat, pending : Nat, at : Nat,
               cadence : {"never", "recent", "due"},
               pump : {"none", "reading", "ended", "broken", "cut"}, live : Seq(Slice)]

End(slice) == slice.offset + slice.length

\* Slices that follow one another from the byte `first` to the byte before `end`.
Covers(live, first, end) ==
  /\ \A i \in 1..Len(live) :
       /\ live[i].length \in 1..ChunkBytes
       /\ live[i].offset = IF i = 1 THEN first ELSE End(live[i - 1])
  /\ end = IF live = <<>> THEN first ELSE End(live[Len(live)])

\* A reader: what it published, then what is pending, which starts at `at`.
ReaderInv(o) ==
  /\ o \in OutRecords
  /\ o.pending <= o.read
  /\ Covers(o.live, 0, o.read - o.pending)
  /\ o.pending # 0 => o.at = o.read - o.pending
  /\ o.pump = "ended" => o.pending = 0 /\ o.read = o.written

OutInv ==
  /\ out = [s \in Streams |-> out[s]]
  /\ \A s \in Streams :
       /\ ReaderInv(out[s])
       /\ out[s].pump = "ended" => ~Alive
       /\ phase \in {"idle", "spawning"} => out[s].pump = "none"
       /\ phase = "over" /\ verdict # "raised" => out[s].pump # "reading"

\* Whoever gives up waiting for the process has signalled it first.
ProcessInv ==
  /\ phase \in {"idle", "spawning", "supervise", "soft", "hard", "abort", "settle", "over"}
  /\ leader \in {"none", "running", "dead"}
  /\ holder \in BOOLEAN
  /\ leader = "none" => ~holder
  /\ phase = "idle" => leader = "none"
  /\ phase \in {"idle", "spawning", "supervise"} => verdict = "none"
  /\ phase \in {"hard", "abort"} => "hard" \in sent
  /\ phase = "settle" /\ leader = "running" => "hard" \in sent
  /\ verdict = "crashed" => phase = "over"
  /\ NoneLeftBehind

HostInv ==
  /\ task \in {"none", "RUNNING", "over"}
  /\ pid \in BOOLEAN
  /\ created => disk
  /\ chosen => bound /\ ~created
  /\ userDisk
  /\ task = "RUNNING" /\ up => /\ loop /\ session = "RUNNING" /\ verdict # "crashed"
                               /\ folder # "user" => disk
                               /\ chosen => folder = "user"
  /\ task = "RUNNING" /\ ~up => phase = "over"
  /\ task = "over" /\ leader = "running" /\ pid => "hard" \in sent
  /\ stranger # "signalled"

Inv == OutInv /\ ProcessInv /\ HostInv

----------------------------------------------------------------------------
(* The slices of the output *)

LEMMA Times ==
  ASSUME NEW a \in Nat, NEW b \in Nat, NEW c \in Nat, a <= b
  PROVE  a * c <= b * c /\ a * c \in Nat
  OBVIOUS

\* The number of slices: just enough of them.
LEMMA SliceCount ==
  ASSUME NEW n \in Nat, n # 0
  PROVE  \E k \in Nat \ {0} : /\ (n + ChunkBytes - 1) \div ChunkBytes = k
                              /\ (k - 1) * ChunkBytes < n
                              /\ n <= k * ChunkBytes
<1> DEFINE k == (n + ChunkBytes - 1) \div ChunkBytes
<1>1. k \in Nat
  BY ExecutorAssumption
<1>2. k * ChunkBytes <= n + ChunkBytes - 1 /\ n + ChunkBytes - 1 < k * ChunkBytes + ChunkBytes
  BY ExecutorAssumption
<1>3. k # 0
  BY <1>1, <1>2, ExecutorAssumption
<1>4. (k - 1) * ChunkBytes = k * ChunkBytes - ChunkBytes
  BY <1>1, ExecutorAssumption
<1> HIDE DEF k
<1>5. (k - 1) * ChunkBytes < n /\ n <= k * ChunkBytes
  <2>1. k * ChunkBytes \in Nat
    BY <1>1, ExecutorAssumption
  <2> QED BY <1>2, <1>4, <2>1, ExecutorAssumption
<1> QED BY <1>1, <1>3, <1>5 DEF k

\* `_publish_slices`: the slices of what is pending are not empty, none is longer than
\* live_output_chunk_bytes, and they cover it from its first byte to its last.
LEMMA SlicesCover ==
  ASSUME NEW at \in Nat, NEW n \in Nat, n # 0
  PROVE  /\ Slices(at, n) \in Seq(Slice)
         /\ Slices(at, n) # <<>>
         /\ Covers(Slices(at, n), at, at + n)
<1> DEFINE S == Slices(at, n)
<1>1. PICK k \in Nat \ {0} : /\ (n + ChunkBytes - 1) \div ChunkBytes = k
                             /\ (k - 1) * ChunkBytes < n
                             /\ n <= k * ChunkBytes
  BY SliceCount
<1>2. S = [i \in 1..k |->
             [offset |-> at + (i - 1) * ChunkBytes,
              length |-> IF i * ChunkBytes <= n THEN ChunkBytes ELSE n - (i - 1) * ChunkBytes]]
  BY <1>1 DEF Slices
<1>3. ASSUME NEW i \in 1..k
      PROVE  /\ S[i] \in Slice /\ S[i].length \in 1..ChunkBytes
             /\ S[i].offset = at + (i - 1) * ChunkBytes
             /\ i < k => End(S[i]) = at + i * ChunkBytes
             /\ i = k => End(S[i]) = at + n
  <2>1. S[i].offset = at + (i - 1) * ChunkBytes
    BY <1>2
  <2>2. S[i].length = IF i * ChunkBytes <= n THEN ChunkBytes ELSE n - (i - 1) * ChunkBytes
    BY <1>2
  <2>3. /\ i * ChunkBytes = (i - 1) * ChunkBytes + ChunkBytes
        /\ (i - 1) * ChunkBytes \in Nat /\ i * ChunkBytes \in Nat
    BY ExecutorAssumption
  <2>4. (i - 1) * ChunkBytes <= (k - 1) * ChunkBytes
    BY Times, ExecutorAssumption
  <2>5. i < k => i * ChunkBytes <= (k - 1) * ChunkBytes
    BY Times, ExecutorAssumption
  <2>6. (k - 1) * ChunkBytes \in Nat /\ k * ChunkBytes \in Nat
    BY ExecutorAssumption
  <2>7. i < k => i * ChunkBytes <= n
    BY <1>1, <2>3, <2>5, <2>6
  <2>8. (i - 1) * ChunkBytes < n
    BY <1>1, <2>3, <2>4, <2>6
  <2>9. S[i].length \in 1..ChunkBytes
    BY <2>2, <2>3, <2>8, ExecutorAssumption
  <2>10. i < k => End(S[i]) = at + i * ChunkBytes
    BY <2>1, <2>2, <2>3, <2>7, ExecutorAssumption DEF End
  <2>11. i = k => End(S[i]) = at + n
    <3>1. i = k /\ i * ChunkBytes <= n => i * ChunkBytes = n
      BY <1>1, <2>3, <2>6
    <3> QED BY <2>1, <2>2, <2>3, <3>1, ExecutorAssumption DEF End
  <2>12. S[i] = [offset |-> S[i].offset, length |-> S[i].length]
    BY <1>2
  <2>13. S[i].offset \in Nat /\ S[i].length \in Nat
    BY <2>1, <2>3, <2>9, ExecutorAssumption
  <2> QED BY <2>1, <2>9, <2>10, <2>11, <2>12, <2>13 DEF Slice
<1>4. Len(S) = k /\ DOMAIN S = 1..k
  BY <1>2, <1>3, ExecutorAssumption
<1>5. S \in Seq(Slice)
  BY <1>2, <1>3, <1>4
<1> HIDE DEF S
<1>6. S # <<>> /\ k \in 1..k
  BY <1>4, <1>5
<1>7. ASSUME NEW i \in 1..Len(S)
      PROVE  S[i].offset = IF i = 1 THEN at ELSE End(S[i - 1])
  <2>1. CASE i = 1
    <3>1. (i - 1) * ChunkBytes = 0
      BY <2>1, ExecutorAssumption
    <3> QED BY <1>3, <1>4, <2>1, <3>1
  <2>2. CASE i # 1
    <3>1. i \in 1..k /\ i - 1 \in 1..k /\ i - 1 < k
      BY <1>4, <2>2
    <3> QED BY <1>3, <2>2, <3>1
  <2> QED BY <2>1, <2>2
<1>8. at + n = End(S[Len(S)])
  BY <1>3, <1>4, <1>6
<1>9. Covers(S, at, at + n)
  BY <1>3, <1>4, <1>6, <1>7, <1>8 DEF Covers
<1> QED BY <1>5, <1>6, <1>9 DEF S

\* What is published goes on where it stopped.
LEMMA CoversOn ==
  ASSUME NEW live \in Seq(Slice), NEW more \in Seq(Slice), more # <<>>,
         NEW middle, NEW end, Covers(live, 0, middle), Covers(more, middle, end)
  PROVE  live \o more \in Seq(Slice) /\ Covers(live \o more, 0, end)
<1> DEFINE all == live \o more
<1>1. /\ all \in Seq(Slice) /\ Len(all) = Len(live) + Len(more)
      /\ \A i \in 1..Len(all) : all[i] = IF i <= Len(live) THEN live[i] ELSE more[i - Len(live)]
  OBVIOUS
<1>2. Len(live) \in Nat /\ Len(more) \in Nat /\ Len(more) # 0 /\ (live = <<>> <=> Len(live) = 0)
  OBVIOUS
<1> HIDE DEF all
<1>3. ASSUME NEW i \in 1..Len(all)
      PROVE  /\ all[i].length \in 1..ChunkBytes
             /\ all[i].offset = IF i = 1 THEN 0 ELSE End(all[i - 1])
  <2>1. CASE i <= Len(live)
    <3>1. i \in 1..Len(live) /\ all[i] = live[i] /\ (i # 1 => all[i - 1] = live[i - 1])
      BY SMTT(20), <1>1, <1>2, <2>1
    <3> QED BY <3>1 DEF Covers
  <2>2. CASE i = Len(live) + 1
    <3>1. all[i] = more[1] /\ 1 \in 1..Len(more)
      BY <1>1, <1>2, <2>2
    <3>2. more[1].length \in 1..ChunkBytes /\ more[1].offset = middle
      BY <3>1 DEF Covers
    <3>3. i = 1 => middle = 0
      BY <1>2, <2>2 DEF Covers
    <3>4. i # 1 => all[i - 1] = live[Len(live)] /\ middle = End(live[Len(live)])
      BY <1>1, <1>2, <2>2 DEF Covers
    <3> QED BY <3>1, <3>2, <3>3, <3>4
  <2>3. CASE i > Len(live) + 1
    <3>1. PICK j \in 1..Len(more) : i = Len(live) + j /\ j # 1
      <4>1. i - Len(live) \in 1..Len(more) /\ i - Len(live) # 1 /\ i = Len(live) + (i - Len(live))
        BY <1>1, <1>2, <2>3
      <4> QED BY <4>1
    <3>2. all[i] = more[j] /\ i # 1
      BY <1>1, <1>2, <2>3, <3>1
    <3>3. /\ i - 1 \in 1..Len(all) /\ ~(i - 1 <= Len(live))
          /\ (i - 1) - Len(live) = j - 1
      BY <1>1, <1>2, <2>3, <3>1
    <3>4. all[i - 1] = more[j - 1]
      BY <1>1, <3>3
    <3> QED BY <3>1, <3>2, <3>4 DEF Covers
  <2>4. i <= Len(live) \/ i = Len(live) + 1 \/ i > Len(live) + 1
    BY <1>1, <1>2
  <2> QED BY <2>1, <2>2, <2>3, <2>4
<1>4. all # <<>> /\ all[Len(all)] = more[Len(more)]
  BY SMTT(20), <1>1, <1>2
<1>5. end = End(all[Len(all)])
  BY <1>4 DEF Covers
<1> QED BY <1>1, <1>3, <1>4, <1>5 DEF Covers, all

----------------------------------------------------------------------------
(* The readers *)

\* A flush publishes what is pending, and nothing else.
LEMMA FlushedKeeps ==
  ASSUME NEW o, ReaderInv(o)
  PROVE  /\ ReaderInv(Flushed(o))
         /\ Flushed(o).pending = 0 /\ Flushed(o).pump = o.pump
         /\ Flushed(o).read = o.read /\ Flushed(o).written = o.written
<1> DEFINE f == Flushed(o)
<1>1. o \in OutRecords
  BY DEF ReaderInv
<1>2. CASE o.pending = 0
  BY <1>2 DEF Flushed
<1>3. CASE o.pending # 0
  <2>1. o.pending \in Nat /\ o.at \in Nat /\ o.read \in Nat /\ o.live \in Seq(Slice)
    BY <1>1 DEF OutRecords
  <2>2. o.at = o.read - o.pending
    BY <1>3 DEF ReaderInv
  <2>3. /\ Slices(o.at, o.pending) \in Seq(Slice) /\ Slices(o.at, o.pending) # <<>>
        /\ Covers(Slices(o.at, o.pending), o.at, o.at + o.pending)
    BY <1>3, <2>1, SlicesCover
  <2>4. Covers(o.live, 0, o.at)
    BY <2>2 DEF ReaderInv
  <2>5. /\ o.live \o Slices(o.at, o.pending) \in Seq(Slice)
        /\ Covers(o.live \o Slices(o.at, o.pending), 0, o.at + o.pending)
    BY <2>1, <2>3, <2>4, CoversOn
  <2>6. o.at + o.pending = o.read
    BY <2>1, <2>2
  <2>7. f = [o EXCEPT !.live = @ \o Slices(o.at, o.pending), !.pending = 0, !.cadence = "recent"]
    BY <1>3 DEF Flushed
  <2> HIDE DEF f
  <2>8. /\ f.live = o.live \o Slices(o.at, o.pending) /\ f.pending = 0
        /\ f.read = o.read /\ f.written = o.written /\ f.pump = o.pump
    BY <1>1, <2>7 DEF OutRecords
  <2>9. f \in OutRecords
    BY <1>1, <2>5, <2>7 DEF OutRecords
  <2>10. Covers(f.live, 0, f.read - f.pending)
    BY <2>1, <2>5, <2>6, <2>8
  <2>11. ReaderInv(f)
    BY <1>3, <2>1, <2>8, <2>9, <2>10 DEF ReaderInv
  <2> QED BY <2>8, <2>11 DEF f
<1> QED BY <1>2, <1>3

\* What is read is pending, from where the pending bytes start.
LEMMA ReceivedKeeps ==
  ASSUME NEW o, ReaderInv(o), o.pump = "reading", NEW n \in 1..ChunkBytes
  PROVE  ReaderInv(Received(o, n)) /\ Received(o, n).pump = "reading"
<1> DEFINE r == Received(o, n)
           at == IF o.pending = 0 THEN o.read ELSE o.at
<1>1. o \in OutRecords
  BY DEF ReaderInv
<1>2. o.pending \in Nat /\ o.at \in Nat /\ o.read \in Nat /\ n \in Nat
  BY <1>1, ExecutorAssumption DEF OutRecords
<1>3. r = [o EXCEPT !.read = @ + n, !.pending = @ + n, !.at = at]
  BY <1>1 DEF Received, OutRecords
<1>4. at \in Nat /\ o.read + n \in Nat /\ o.pending + n \in Nat
  BY <1>2
<1>5. at = o.read - o.pending
  BY <1>2 DEF ReaderInv
<1> HIDE DEF at, r
<1>6. /\ r \in OutRecords /\ r.read = o.read + n /\ r.pending = o.pending + n
      /\ r.at = at /\ r.live = o.live /\ r.pump = o.pump
  BY <1>1, <1>3, <1>4 DEF OutRecords
<1>7. r.read - r.pending = o.read - o.pending
  BY <1>2, <1>6
<1>8. Covers(r.live, 0, r.read - r.pending)
  BY <1>6, <1>7 DEF ReaderInv
<1>9. r.pending <= r.read /\ r.at = r.read - r.pending
  BY <1>2, <1>5, <1>6, <1>7 DEF ReaderInv
<1>10. ReaderInv(r) /\ r.pump = "reading"
  BY <1>6, <1>8, <1>9 DEF ReaderInv
<1> QED BY <1>10 DEF r

\* A field that says nothing of the bytes.
LEMMA CadenceKeeps ==
  ASSUME NEW o, ReaderInv(o), NEW c \in {"never", "recent", "due"}
  PROVE  ReaderInv([o EXCEPT !.cadence = c]) /\ [o EXCEPT !.cadence = c].pump = o.pump
<1>1. o \in OutRecords
  BY DEF ReaderInv
<1> DEFINE r == [o EXCEPT !.cadence = c]
<1>2. /\ r \in OutRecords /\ r.read = o.read /\ r.pending = o.pending /\ r.at = o.at
      /\ r.live = o.live /\ r.pump = o.pump /\ r.written = o.written
  BY <1>1 DEF OutRecords
<1> HIDE DEF r
<1>3. ReaderInv(r)
  BY <1>2 DEF ReaderInv
<1> QED BY <1>2, <1>3 DEF r

\* A reader that ends has published all there was.
LEMMA PumpKeeps ==
  ASSUME NEW o, ReaderInv(o), NEW p \in {"none", "reading", "ended", "broken", "cut"},
         p = "ended" => o.pending = 0 /\ o.read = o.written
  PROVE  ReaderInv([o EXCEPT !.pump = p]) /\ [o EXCEPT !.pump = p].pump = p
<1>1. o \in OutRecords
  BY DEF ReaderInv
<1> DEFINE r == [o EXCEPT !.pump = p]
<1>2. /\ r \in OutRecords /\ r.read = o.read /\ r.pending = o.pending /\ r.at = o.at
      /\ r.live = o.live /\ r.pump = p /\ r.written = o.written
  BY <1>1 DEF OutRecords
<1> HIDE DEF r
<1>3. ReaderInv(r)
  BY <1>2 DEF ReaderInv
<1> QED BY <1>2, <1>3 DEF r

LEMMA WrittenKeeps ==
  ASSUME NEW o, ReaderInv(o), o.pump # "ended"
  PROVE  ReaderInv([o EXCEPT !.written = @ + 1]) /\ [o EXCEPT !.written = @ + 1].pump = o.pump
<1>1. o \in OutRecords
  BY DEF ReaderInv
<1> DEFINE r == [o EXCEPT !.written = @ + 1]
<1>2. /\ r \in OutRecords /\ r.read = o.read /\ r.pending = o.pending /\ r.at = o.at
      /\ r.live = o.live /\ r.pump = o.pump
  BY <1>1 DEF OutRecords
<1> HIDE DEF r
<1>3. ReaderInv(r)
  BY <1>2 DEF ReaderInv
<1> QED BY <1>2, <1>3 DEF r

LEMMA FreshIs ==
  ReaderInv(Fresh) /\ Fresh.pump = "none"
<1>1. Fresh \in OutRecords /\ Fresh.live = <<>> /\ Fresh.pending = 0 /\ Fresh.read = 0
      /\ Fresh.pump = "none"
  BY DEF Fresh, OutRecords
<1>2. Covers(Fresh.live, 0, Fresh.read - Fresh.pending)
  BY <1>1 DEF Covers
<1> QED BY <1>1, <1>2 DEF ReaderInv

----------------------------------------------------------------------------
(* The steps of a command *)

\* What a step does to one stream, when the others are left alone.
LEMMA OneStream ==
  ASSUME OutInv, NEW s \in Streams, NEW o, out' = [out EXCEPT ![s] = o],
         ReaderInv(o),
         o.pump = "ended" => ~Alive,
         o.pump = "none" \/ phase \notin {"idle", "spawning"},
         o.pump = "reading" => out[s].pump = "reading",
         UNCHANGED <<phase, verdict, leader, holder>>
  PROVE  OutInv'
<1>1. \A r \in Streams : out'[r] = IF r = s THEN o ELSE out[r]
  BY DEF OutInv
<1>2. out' = [r \in Streams |-> out'[r]]
  BY DEF OutInv
<1>3. Alive' = Alive
  BY DEF Alive
<1>4. ASSUME NEW r \in Streams
      PROVE  /\ ReaderInv(out'[r])
             /\ out'[r].pump = "ended" => ~Alive'
             /\ phase' \in {"idle", "spawning"} => out'[r].pump = "none"
             /\ phase' = "over" /\ verdict' # "raised" => out'[r].pump # "reading"
  <2>1. CASE r = s
    BY <1>1, <1>3, <2>1 DEF OutInv
  <2>2. CASE r # s
    BY <1>1, <1>3, <2>2 DEF OutInv
  <2> QED BY <2>1, <2>2
<1> QED BY <1>2, <1>4 DEF OutInv, ReaderInv, OutRecords, Covers

\* The streams as the process and execute leave them.
LEMMA SameStreams ==
  ASSUME OutInv, UNCHANGED out, Alive' => Alive \/ (phase = "spawning" /\ phase' = "spawning"),
         phase' \in {"idle", "spawning"} => phase \in {"idle", "spawning"},
         phase' = "over" /\ verdict' # "raised" =>
           \/ phase = "over" /\ verdict # "raised"
           \/ phase \in {"idle", "spawning"}
  PROVE  OutInv'
<1>1. ASSUME NEW r \in Streams
      PROVE  /\ ReaderInv(out'[r])
             /\ out'[r].pump = "ended" => ~Alive'
             /\ phase' \in {"idle", "spawning"} => out'[r].pump = "none"
             /\ phase' = "over" /\ verdict' # "raised" => out'[r].pump # "reading"
  BY DEF OutInv
<1>2. out' = [r \in Streams |-> out'[r]]
  BY DEF OutInv
<1> QED BY <1>1, <1>2 DEF OutInv, ReaderInv, OutRecords, Covers

\* The steps of the process on its pipe and of a reader.
LEMMA PumpStep ==
  ASSUME OutInv, NEW s \in Streams, Write(s) \/ Pump(s) \/ IntervalElapses(s)
  PROVE  OutInv'
<1>1. /\ ReaderInv(out[s]) /\ out = [r \in Streams |-> out[r]]
      /\ phase \in {"idle", "spawning"} => out[s].pump = "none"
      /\ out[s].pump = "ended" => ~Alive
  BY DEF OutInv
<1>2. CASE Write(s)
  <2> DEFINE o == [out[s] EXCEPT !.written = @ + 1]
  <2>1. out' = [out EXCEPT ![s] = o] /\ out[s].pump # "ended"
    BY <1>1, <1>2 DEF Write
  <2>2. ReaderInv(o) /\ o.pump = out[s].pump
    BY <1>1, <2>1, WrittenKeeps
  <2>3. UNCHANGED <<phase, verdict, leader, holder>>
    BY <1>2 DEF Write
  <2> HIDE DEF o
  <2> QED BY <1>1, <2>1, <2>2, <2>3, OneStream
<1>3. CASE Read(s)
  <2>1. PICK n \in 1..ChunkBytes :
          LET o == Received(out[s], n)
          IN  out' = [out EXCEPT ![s] = IF o.cadence = "recent" THEN o ELSE Flushed(o)]
    BY <1>3 DEF Read
  <2> DEFINE p == Received(out[s], n)
             o == IF p.cadence = "recent" THEN p ELSE Flushed(p)
  <2>2. out[s].pump = "reading" /\ UNCHANGED <<phase, verdict, leader, holder>>
    BY <1>3 DEF Read
  <2>3. ReaderInv(p) /\ p.pump = "reading"
    BY <1>1, <2>2, ReceivedKeeps
  <2>4. out' = [out EXCEPT ![s] = o]
    BY <2>1
  <2> HIDE DEF p
  <2>5. ReaderInv(o) /\ o.pump = "reading"
    BY <2>3, FlushedKeeps
  <2> HIDE DEF o
  <2> QED BY <1>1, <2>2, <2>4, <2>5, OneStream
<1>4. CASE IntervalElapses(s)
  <2> DEFINE o == [out[s] EXCEPT !.cadence = "due"]
  <2>1. /\ out' = [out EXCEPT ![s] = o] /\ out[s].pump = "reading"
        /\ UNCHANGED <<phase, verdict, leader, holder>>
    BY <1>4 DEF IntervalElapses
  <2>2. ReaderInv(o) /\ o.pump = "reading"
    BY <1>1, <2>1, CadenceKeeps
  <2> HIDE DEF o
  <2> QED BY <1>1, <2>1, <2>2, OneStream
<1>5. CASE TimerFlush(s)
  <2>1. /\ out' = [out EXCEPT ![s] = Flushed(out[s])] /\ out[s].pump = "reading"
        /\ UNCHANGED <<phase, verdict, leader, holder>>
    BY <1>1, <1>5 DEF TimerFlush
  <2>2. ReaderInv(Flushed(out[s])) /\ Flushed(out[s]).pump = "reading"
    BY <1>1, <2>1, FlushedKeeps
  <2> QED BY <1>1, <2>1, <2>2, OneStream
<1>6. CASE EndOfFile(s)
  <2> DEFINE f == Flushed(out[s])
             o == [f EXCEPT !.pump = "ended"]
  <2>1. /\ out' = [out EXCEPT ![s] = o] /\ out[s].pump = "reading"
        /\ out[s].read = out[s].written /\ ~Alive
        /\ UNCHANGED <<phase, verdict, leader, holder>>
    BY <1>1, <1>6 DEF EndOfFile, Alive
  <2>2. ReaderInv(f) /\ f.pending = 0 /\ f.read = f.written
    BY <1>1, <2>1, FlushedKeeps
  <2> HIDE DEF f
  <2>3. ReaderInv(o) /\ o.pump = "ended"
    BY <2>2, PumpKeeps
  <2> HIDE DEF o
  <2> QED BY <1>1, <2>1, <2>3, OneStream
<1>7. CASE ReadBreaks(s)
  <2> DEFINE o == [out[s] EXCEPT !.pump = "broken"]
  <2>1. /\ out' = [out EXCEPT ![s] = o] /\ out[s].pump = "reading"
        /\ UNCHANGED <<phase, verdict, leader, holder>>
    BY <1>7 DEF ReadBreaks
  <2>2. ReaderInv(o) /\ o.pump = "broken"
    BY <1>1, PumpKeeps
  <2> HIDE DEF o
  <2> QED BY <1>1, <2>1, <2>2, OneStream
<1> QED BY <1>2, <1>3, <1>4, <1>5, <1>6, <1>7 DEF Pump

\* Every step of a command preserves what is known of it.
LEMMA ExecutorStep ==
  ASSUME OutInv, ProcessInv, ExecutorNext
  PROVE  OutInv' /\ ProcessInv'
<1>1. CASE \E s \in Streams : Write(s) \/ Pump(s) \/ IntervalElapses(s)
  <2>1. OutInv'
    BY <1>1, PumpStep
  <2>2. UNCHANGED <<phase, verdict, token, leader, holder, sent>>
    BY <1>1 DEF Write, Pump, Read, IntervalElapses, TimerFlush, EndOfFile, ReadBreaks
  <2> QED BY <2>1, <2>2 DEF ProcessInv, NoneLeftBehind
<1>2. CASE Execute
  <2>1. ProcessInv'
    BY <1>2 DEF Execute, ProcessInv, NoneLeftBehind
  <2>2. OutInv'
    BY <1>2, SameStreams DEF Execute, Alive
  <2> QED BY <2>1, <2>2
<1>3. CASE SpawnFails
  <2>1. ProcessInv'
    BY <1>3 DEF SpawnFails, ProcessInv, NoneLeftBehind
  <2>2. OutInv'
    BY <1>3, SameStreams DEF SpawnFails, Alive
  <2> QED BY <2>1, <2>2
<1>4. CASE \E persisted \in BOOLEAN : Spawned(persisted)
  <2>1. ProcessInv'
    BY <1>4 DEF Spawned, Aborted, ProcessInv, NoneLeftBehind
  <2>2. /\ out' = [s \in Streams |-> [out[s] EXCEPT !.pump = "reading"]]
        /\ phase' \in {"supervise", "abort"}
    BY <1>4 DEF Spawned, Aborted
  <2>3. ASSUME NEW s \in Streams PROVE ReaderInv(out'[s]) /\ out'[s].pump = "reading"
    <3>1. ReaderInv(out[s]) /\ out'[s] = [out[s] EXCEPT !.pump = "reading"]
      BY <2>2 DEF OutInv
    <3> QED BY ZenonT(40), <3>1, PumpKeeps
  <2>4. OutInv'
    BY ZenonT(40), <2>2, <2>3 DEF OutInv, ReaderInv, OutRecords, Covers
  <2> QED BY <2>1, <2>4
<1>5. CASE NoticeExit
  <2>1. ProcessInv'
    BY <1>5 DEF NoticeExit, ProcessInv, NoneLeftBehind
  <2>2. OutInv'
    BY <1>5, SameStreams DEF NoticeExit, Alive
  <2> QED BY <2>1, <2>2
<1>6. CASE Terminate
  <2>1. ProcessInv'
    BY <1>6 DEF Terminate, ProcessInv, NoneLeftBehind
  <2>2. OutInv'
    BY <1>6, SameStreams DEF Terminate, Alive
  <2> QED BY <2>1, <2>2
<1>7. CASE DrainElapses
  <2>1. ProcessInv'
    BY <1>7 DEF DrainElapses, ProcessInv, NoneLeftBehind
  <2>2. OutInv'
    BY <1>7, SameStreams DEF DrainElapses, Alive
  <2> QED BY <2>1, <2>2
<1>8. CASE Settled
  <2>1. ProcessInv'
    BY <1>8 DEF Settled, ProcessInv, NoneLeftBehind
  <2>2. ASSUME NEW s \in Streams
        PROVE  /\ ReaderInv(out'[s]) /\ out'[s].pump # "reading"
               /\ out'[s].pump = "ended" => out[s].pump = "ended"
    <3>1. ReaderInv(out[s])
      BY DEF OutInv
    <3>2. CASE out[s].pump = "reading"
      <4>1. out'[s] = [out[s] EXCEPT !.pump = "cut"]
        BY <1>8, <3>2 DEF Settled, Reading
      <4> QED BY <3>1, <4>1, PumpKeeps
    <3>3. CASE out[s].pump # "reading"
      <4>1. out'[s] = out[s]
        BY <1>8, <3>3 DEF Settled, Reading
      <4> QED BY <3>1, <3>3, <4>1
    <3> QED BY <3>2, <3>3
  <2>3. out' = [s \in Streams |-> out'[s]] /\ phase' = "over" /\ Alive' = Alive
    BY <1>8 DEF Settled, Alive
  <2>4. OutInv'
    BY <2>2, <2>3 DEF OutInv, ReaderInv, OutRecords, Covers
  <2> QED BY <2>1, <2>4
<1>9. CASE OuterCancel
  <2>1. ProcessInv'
    BY <1>9 DEF OuterCancel, Aborted, ProcessInv, NoneLeftBehind
  <2>2. OutInv'
    BY <1>9, SameStreams DEF OuterCancel, Aborted, Alive
  <2> QED BY <2>1, <2>2
<1>10. CASE CancelToken
  <2>1. ProcessInv'
    BY <1>10 DEF CancelToken, ProcessInv, NoneLeftBehind
  <2>2. OutInv'
    BY <1>10, SameStreams DEF CancelToken, Alive
  <2> QED BY <2>1, <2>2
<1>11. CASE Fork
  <2>1. ProcessInv'
    BY <1>11 DEF Fork, ProcessInv, NoneLeftBehind
  <2>2. OutInv'
    BY <1>11, SameStreams DEF Fork, Alive
  <2> QED BY <2>1, <2>2
<1>12. CASE Daemonize
  <2>1. ProcessInv'
    BY <1>12 DEF Daemonize, ProcessInv, NoneLeftBehind
  <2>2. OutInv'
    BY <1>12, SameStreams DEF Daemonize, Alive
  <2> QED BY <2>1, <2>2
<1>13. CASE ProcessEnds
  <2>1. ProcessInv'
    BY <1>13 DEF ProcessEnds, ProcessInv, NoneLeftBehind
  <2>2. OutInv'
    BY <1>13, SameStreams DEF ProcessEnds, Alive
  <2> QED BY <2>1, <2>2
<1> QED BY <1>1, <1>2, <1>3, <1>4, <1>5, <1>6, <1>7, <1>8, <1>9, <1>10, <1>11, <1>12, <1>13
    DEF ExecutorNext, Step

----------------------------------------------------------------------------
(* The steps of the host *)

\* What only the host changes leaves the command as it is.
LEMMA SameCommand ==
  ASSUME OutInv, ProcessInv, UNCHANGED executorVars
  PROVE  OutInv' /\ ProcessInv'
<1>1. OutInv'
  BY SameStreams DEF executorVars, Alive
<1>2. ProcessInv'
  BY DEF executorVars, ProcessInv, NoneLeftBehind
<1> QED BY <1>1, <1>2

\* So does every step of the host, a crash and a restart included.
LEMMA CommandStep ==
  ASSUME Inv, Next
  PROVE  OutInv' /\ ProcessInv'
<1> USE DEF Inv
<1>1. CASE BeginCommand
  <2>1. ProcessInv'
    BY <1>1 DEF BeginCommand, ProcessInv, NoneLeftBehind
  <2>2. out' = [s \in Streams |-> Fresh] /\ \A s \in Streams : out'[s] = Fresh
    BY <1>1 DEF BeginCommand
  <2>3. \A s \in Streams : ReaderInv(out'[s]) /\ out'[s].pump = "none"
    BY <2>2, FreshIs
  <2>4. OutInv'
    BY <2>2, <2>3 DEF OutInv, ReaderInv, OutRecords, Covers
  <2> QED BY <2>1, <2>4
<1>2. CASE Runs
  BY <1>2, ExecutorStep DEF Runs
<1>3. CASE Crash
  <2>1. ProcessInv'
    BY <1>3 DEF Crash, Stopped, ProcessInv, NoneLeftBehind
  <2>2. out' = [s \in Streams |-> [out[s] EXCEPT !.pump = "cut"]] /\ phase' = "over"
    BY <1>3 DEF Crash
  <2>3. ASSUME NEW s \in Streams PROVE ReaderInv(out'[s]) /\ out'[s].pump = "cut"
    <3>1. ReaderInv(out[s]) /\ out'[s] = [out[s] EXCEPT !.pump = "cut"]
      BY <2>2 DEF OutInv
    <3> QED BY <3>1, PumpKeeps
  <2>4. OutInv'
    BY <2>2, <2>3 DEF OutInv, ReaderInv, OutRecords, Covers
  <2> QED BY <2>1, <2>4
<1>4. CASE Restart
  <2>1. /\ UNCHANGED <<phase, verdict, token, holder, out>>
        /\ \/ leader' = leader /\ sent \subseteq sent'
           \/ leader = "running" /\ leader' = "dead" /\ sent \subseteq sent'
    BY <1>4 DEF Restart, TerminateOrphan
  <2>2. ProcessInv'
    BY <2>1 DEF ProcessInv, NoneLeftBehind
  <2>3. OutInv'
    BY <2>1, SameStreams DEF Alive
  <2> QED BY <2>2, <2>3
<1>5. CASE EndCommand \/ SessionEnds \/ LoopDone \/ Continue \/ Close \/ PidReused
  BY <1>5, SameCommand DEF EndCommand, SessionEnds, LoopDone, Continue, Close, PidReused
<1> QED BY <1>1, <1>2, <1>3, <1>4, <1>5 DEF Next

\* What the host knows of its command and of its folders.
LEMMA HostStep ==
  ASSUME Inv, Next
  PROVE  HostInv'
<1> USE DEF Inv, HostInv
<1>1. CASE BeginCommand
  BY <1>1 DEF BeginCommand, Environment
<1>2. CASE Runs
  <2>1. /\ UNCHANGED <<up, session, loop, bound, created, disk, userDisk, folder, task,
                       stranger, chosen>>
        /\ task = "RUNNING"
        /\ pid' \in BOOLEAN
    BY <1>2 DEF Runs
  <2>2. verdict # "crashed" => verdict' # "crashed"
    BY <1>2 DEF Runs, ExecutorNext, Step, Execute, SpawnFails, Spawned, Aborted, NoticeExit,
                Terminate, DrainElapses, Settled, OuterCancel, CancelToken, Fork, Daemonize,
                ProcessEnds, Write, Pump, Read, TimerFlush, EndOfFile, ReadBreaks,
                IntervalElapses
  <2>3. ~up => phase' = phase
    BY <1>2 DEF Runs, ProcessEnds, Write
  <2> QED BY <2>1, <2>2, <2>3
<1>3. CASE EndCommand
  <2>1. up /\ task = "RUNNING" /\ phase = "over" /\ task' = "over"
        /\ UNCHANGED <<executorVars, up, session, loop, bound, created, disk, userDisk, folder,
                       pid, stranger, chosen>>
    BY <1>3 DEF EndCommand
  <2>2. leader = "running" => "hard" \in sent
    BY <2>1 DEF ProcessInv, NoneLeftBehind
  <2> QED BY <2>1, <2>2 DEF executorVars
<1>4. CASE SessionEnds
  BY <1>4 DEF SessionEnds, executorVars
<1>5. CASE LoopDone
  BY <1>5 DEF LoopDone, Released, Removes, Rebound, SessionOver, executorVars
<1>6. CASE Continue
  BY <1>6 DEF Continue, executorVars
<1>7. CASE Close
  BY <1>7 DEF Close, Stopped, Released, Removes, executorVars
<1>8. CASE Crash
  BY <1>8 DEF Crash, Stopped
<1>9. CASE PidReused
  BY <1>9 DEF PidReused, executorVars
<1>10. CASE Restart
  BY <1>10 DEF Restart, TerminateOrphan
<1> QED BY <1>1, <1>2, <1>3, <1>4, <1>5, <1>6, <1>7, <1>8, <1>9, <1>10 DEF Next

LEMMA InitInv == Init => Inv
<1> SUFFICES ASSUME Init PROVE Inv
  OBVIOUS
<1>1. ProcessInv /\ HostInv
  BY DEF Init, Command, ProcessInv, NoneLeftBehind, HostInv
<1>2. out = [s \in Streams |-> Fresh] /\ \A s \in Streams : out[s] = Fresh
  BY DEF Init, Command
<1>3. \A s \in Streams : ReaderInv(out[s]) /\ out[s].pump = "none"
  BY <1>2, FreshIs
<1> QED BY <1>1, <1>2, <1>3 DEF Inv, OutInv

LEMMA NextInv == Inv /\ [Next]_vars => Inv'
<1> SUFFICES ASSUME Inv, [Next]_vars PROVE Inv'
  OBVIOUS
<1>1. CASE Next
  BY <1>1, CommandStep, HostStep DEF Inv
<1>2. CASE UNCHANGED vars
  <2>1. OutInv' /\ ProcessInv'
    BY <1>2, SameCommand DEF Inv, vars
  <2>2. HostInv'
    BY <1>2 DEF Inv, HostInv, vars, hostVars, executorVars
  <2> QED BY <2>1, <2>2 DEF Inv
<1> QED BY <1>1, <1>2

\* What a reader holds, what the process was sent and the folder of the command agree at every
\* step of `execute`, of the working space and of the recovery.
THEOREM Invariant == Spec => []Inv
  BY InitInv, NextInv, PTL DEF Spec

----------------------------------------------------------------------------
(* The properties *)

\* `_pump` and `_publish_slices`: whatever the reads are coalesced into, however often the timer
\* fires and wherever the reader is cut, what was published is the blob from its first byte to what
\* is still pending, in slices of at most live_output_chunk_bytes.
THEOREM LiveOutputIsTheBlob == Spec => []LiveIsTheBlob
<1>1. ASSUME Inv PROVE LiveIsTheBlob
  <2>1. ASSUME NEW s \in Streams
        PROVE  /\ \A i \in DOMAIN out[s].live :
                    /\ out[s].live[i].length \in 1..ChunkBytes
                    /\ out[s].live[i].offset = IF i = 1 THEN 0 ELSE End(out[s].live[i - 1])
               /\ out[s].read = out[s].pending +
                    IF out[s].live = <<>> THEN 0 ELSE End(out[s].live[Len(out[s].live)])
               /\ out[s].pump = "ended" => out[s].pending = 0 /\ out[s].read = out[s].written
    <3>1. ReaderInv(out[s])
      BY <1>1 DEF Inv, OutInv
    <3>2. out[s].live \in Seq(Slice) /\ out[s].read \in Nat /\ out[s].pending \in Nat
      BY <3>1 DEF ReaderInv, OutRecords
    <3>3. DOMAIN out[s].live = 1..Len(out[s].live)
      BY <3>2
    <3>4. /\ Covers(out[s].live, 0, out[s].read - out[s].pending)
          /\ out[s].pump = "ended" => out[s].pending = 0 /\ out[s].read = out[s].written
      BY <3>1 DEF ReaderInv
    <3>5. out[s].read - out[s].pending
            = IF out[s].live = <<>> THEN 0 ELSE End(out[s].live[Len(out[s].live)])
      BY <3>4 DEF Covers
    <3>6. out[s].read = out[s].pending + (out[s].read - out[s].pending)
      BY <3>2
    <3> QED BY <3>3, <3>4, <3>5, <3>6 DEF Covers
  <2> QED BY <2>1 DEF LiveIsTheBlob, End
<1> QED BY <1>1, Invariant, PTL

\* `_terminate_two_phase` and `_abort`: an interpreter still there once `execute` is over was
\* killed, and one that timed out or was cancelled was first asked to stop, whatever it does with
\* its signals and wherever the coroutine is cancelled.
THEOREM NoneIsLeftBehind == Spec => []NoneLeftBehind
<1>1. Inv => NoneLeftBehind
  BY DEF Inv, ProcessInv
<1> QED BY <1>1, Invariant, PTL

\* `ScratchManager`: the folder of the user is never removed, a command that runs has its folder,
\* and it writes where its user asked until the application stops; across conclusions, releases,
\* follow-ups, crashes and whatever the policy is.
THEOREM WorkingSpaceIsKept == Spec => []WorkingSpaceKept
<1>1. ASSUME Inv PROVE WorkingSpaceKept
  BY <1>1 DEF Inv, HostInv, WorkingSpaceKept
<1> QED BY <1>1, Invariant, PTL

\* `terminate_orphan`: after a restart an interpreter that is still there was killed if its pid was
\* persisted, and a process that merely has that pid never is.
THEOREM OrphansAreTerminated == Spec => []OrphansTerminated
<1>1. ASSUME Inv PROVE OrphansTerminated
  BY <1>1 DEF Inv, HostInv, OrphansTerminated
<1> QED BY <1>1, Invariant, PTL

\* `_settle_readers`: once `execute` has returned a result, no reader touches the blobs it was built
\* from, nor publishes a slice.
THEOREM QuietAfterwards == Spec => QuietOnceReturned
<1> DEFINE Quiet ==
      phase = "over" /\ phase' = "over" /\ verdict # "raised" =>
        \A s \in Streams : out'[s].read = out[s].read /\ out'[s].live = out[s].live
<1>1. ASSUME Inv, [Next]_vars, phase = "over", phase' = "over", verdict # "raised",
             NEW s \in Streams
      PROVE  out'[s].read = out[s].read /\ out'[s].live = out[s].live
  <2>1. out[s].pump # "reading" /\ out[s] \in OutRecords /\ out = [r \in Streams |-> out[r]]
    BY <1>1 DEF Inv, OutInv, ReaderInv
  <2>2. CASE Runs
    <3>1. ASSUME NEW r \in Streams, Write(r)
          PROVE  out'[s].read = out[s].read /\ out'[s].live = out[s].live
      <4>1. out' = [out EXCEPT ![r].written = @ + 1]
        BY <3>1 DEF Write
      <4>2. CASE r = s
        <5>1. out'[s] = [out[s] EXCEPT !.written = @ + 1]
          BY <2>1, <4>1, <4>2
        <5> QED BY <2>1, <5>1 DEF OutRecords
      <4>3. CASE r # s
        BY <2>1, <4>1, <4>3
      <4> QED BY <4>2, <4>3
    <3>2. ASSUME NEW r \in Streams, Pump(r) \/ IntervalElapses(r)
          PROVE  out'[s].read = out[s].read /\ out'[s].live = out[s].live
      <4>1. out[r].pump = "reading"
        BY <3>2 DEF Pump, Read, TimerFlush, EndOfFile, ReadBreaks, IntervalElapses
      <4> QED BY <1>1, <4>1 DEF Inv, OutInv
    <3>3. CASE UNCHANGED out
      BY <3>3
    <3>4. \/ UNCHANGED out
          \/ \E r \in Streams : Write(r) \/ Pump(r) \/ IntervalElapses(r)
      BY <1>1, <2>2 DEF Runs, ExecutorNext, Step, Execute, SpawnFails, Spawned, Aborted,
                        NoticeExit, Terminate, DrainElapses, Settled, OuterCancel, CancelToken,
                        Fork, Daemonize, ProcessEnds
    <3> QED BY <3>1, <3>2, <3>3, <3>4
  <2>3. CASE Crash
    <3>1. out'[s] = [out[s] EXCEPT !.pump = "cut"]
      BY <2>3 DEF Crash
    <3> QED BY <2>1, <3>1 DEF OutRecords
  <2>4. ~BeginCommand
    BY <1>1 DEF BeginCommand
  <2>5. CASE UNCHANGED out
    BY <2>5
  <2> QED BY <1>1, <2>2, <2>3, <2>4, <2>5
      DEF Next, EndCommand, SessionEnds, LoopDone, Continue, Close, PidReused, Restart,
          executorVars, vars
<1>2. Inv /\ [Next]_vars => [Quiet]_executorVars
  BY <1>1
<1>3. Spec => [][Quiet]_executorVars
  BY <1>2, Invariant, PTL DEF Spec
<1> QED BY <1>3 DEF QuietOnceReturned
=============================================================================
