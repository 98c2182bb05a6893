------------------------- MODULE FileTransfer_proofs -------------------------
(***************************************************************************)
(* The transfer of a batch for any batch, any limits and any threshold:    *)
(* what the receiver saves is the batch.                                   *)
(*                                                                         *)
(* The argument: what is in the receiver's chain, what it keeps until its  *)
(* transport is bound and what is on the wire are together a run of        *)
(* successive frames, from the one the receiver expects to the one before  *)
(* that which the sender sends next.                                       *)
(***************************************************************************)
EXTENDS TransferProperties, SumTheorems

(* How files are cut into chunks, for every size and every limit              *)

\* A product grows with its factors.
LEMMA ProductsOrdered ==
    ASSUME NEW a \in Int, NEW b \in Int, NEW c \in Nat, a <= b
    PROVE  a * c <= b * c
<1>1. PICK d \in Nat : b = a + d
  <2>1. b - a \in Nat /\ b = a + (b - a)
    OBVIOUS
  <2>2. QED
    BY <2>1
<1>2. b * c = a * c + d * c
  BY <1>1
<1>3. d * c >= 0
  BY Z3
<1>4. QED
  BY <1>2, <1>3

\* What rounding up with \div gives (totalChunksForFile).
LEMMA RoundedUp ==
    ASSUME NEW a \in Nat, NEW c \in Nat \ {0}, NEW q, q = (a + c - 1) \div c
    PROVE  q \in Nat /\ a <= q * c /\ q * c <= a + c - 1
<1> DEFINE n == a + c - 1
<1>1. n \in Nat
  OBVIOUS
<1>2. n \div c \in Int /\ c * (n \div c) + (n % c) = n /\ 0 <= n % c /\ n % c < c
  BY <1>1
<1>3. QED
  BY <1>2

\* Every kind of transport has a chunk size.
LEMMA ChunkSizePositive ==
    ASSUME NEW m \in Modes
    PROVE  EffectiveChunkSize(m) \in Nat \ {0}
  BY LimitsAssumption DEF EffectiveChunkSize, SmallerOf

\* The number of chunks is the file's size, rounded up.
LEMMA TotalRoundsUp ==
    ASSUME NEW size \in Nat, NEW m \in Modes
    PROVE  /\ TotalChunks(size, m) \in Nat
           /\ size <= TotalChunks(size, m) * EffectiveChunkSize(m)
           /\ TotalChunks(size, m) * EffectiveChunkSize(m)
                <= size + EffectiveChunkSize(m) - 1
<1>1. EffectiveChunkSize(m) \in Nat \ {0}
  BY ChunkSizePositive
<1>2. QED
  BY <1>1, RoundedUp DEF TotalChunks

-----------------------------------------------------------------------------

\* A file is within the chunk limit exactly if the limit's chunks can hold it:
\* what validateMetadata asks of metadata.chunks is a limit on the size which
\* depends on the transport (app.js:23-32, security.js:131).
THEOREM ChunkLimitIsSizeLimit ==
    ASSUME NEW size \in Nat, NEW m \in Modes
    PROVE  TotalChunks(size, m) <= MaxChunks
              <=> size <= MaxChunks * EffectiveChunkSize(m)
<1> DEFINE c == EffectiveChunkSize(m)
           q == TotalChunks(size, m)
<1>1. c \in Nat \ {0} /\ MaxChunks \in Nat
  BY ChunkSizePositive, LimitsAssumption
<1>2. q \in Nat /\ size <= q * c /\ q * c <= size + c - 1
  BY TotalRoundsUp
<1> HIDE DEF c, q
<1>3. ASSUME q <= MaxChunks PROVE size <= MaxChunks * c
  <2>1. q * c <= MaxChunks * c
    BY <1>1, <1>2, <1>3, ProductsOrdered
  <2>2. MaxChunks * c \in Int /\ q * c \in Int
    BY <1>1, <1>2
  <2>3. QED
    BY <1>2, <2>1, <2>2
<1>4. ASSUME size <= MaxChunks * c PROVE q <= MaxChunks
  <2> SUFFICES ASSUME q > MaxChunks PROVE FALSE
    BY <1>1, <1>2
  <2>1. (MaxChunks + 1) * c <= q * c
    BY <1>1, <1>2, ProductsOrdered
  <2>2. (MaxChunks + 1) * c = MaxChunks * c + c
    BY <1>1
  <2>3. MaxChunks * c \in Int /\ q * c \in Int
    BY <1>1, <1>2
  <2>4. QED
    BY <1>1, <1>2, <1>4, <2>1, <2>2, <2>3
<1>5. QED
  BY <1>3, <1>4 DEF c, q

\* A batch has as many chunks as its files have together.
ChunkTable(b, m) == [i \in DOMAIN b |-> TotalChunks(b[i], m)]

\* batchTotalChunks is a sum over the files (app.js:34-40).
LEMMA BatchIsSum ==
    ASSUME NEW b \in Seq(Nat), NEW m \in Modes
    PROVE  /\ BatchTotalChunks(b, m) = SumOf(ChunkTable(b, m), 1..Len(b))
           /\ \A i \in 1..Len(b) : /\ ChunkTable(b, m)[i] = TotalChunks(b[i], m)
                                   /\ ChunkTable(b, m)[i] \in Nat
<1>1. DOMAIN ChunkTable(b, m) = DOMAIN b /\ DOMAIN b = 1..Len(b)
  BY DEF ChunkTable
<1>2. BatchTotalChunks(b, m) = SumFunction(ChunkTable(b, m))
  BY DEF BatchTotalChunks, ChunkTable
<1>3. SumFunction(ChunkTable(b, m)) = SumOf(ChunkTable(b, m), DOMAIN ChunkTable(b, m))
  BY DEF SumFunction, SumFunctionOnSet, FoldFunctionOnSet, SumOf, MapThenSumSet, MapThenFoldSet
<1>4. ASSUME NEW i \in 1..Len(b)
      PROVE  ChunkTable(b, m)[i] = TotalChunks(b[i], m) /\ ChunkTable(b, m)[i] \in Nat
  <2>1. ChunkTable(b, m)[i] = TotalChunks(b[i], m) /\ b[i] \in Nat
    BY DEF ChunkTable
  <2>2. QED
    BY <2>1, TotalRoundsUp
<1>5. QED
  BY <1>1, <1>2, <1>3, <1>4

\* If every file is within the chunk limit, so is the batch within its own
\* (security.js:131-135).
LEMMA BatchWithinLimit ==
    ASSUME NEW b \in Seq(Nat), NEW m \in Modes, Len(b) <= MaxFileCount,
           \A i \in DOMAIN b : TotalChunks(b[i], m) <= MaxChunks
    PROVE  BatchTotalChunks(b, m) <= MaxChunks * MaxFileCount
<1> DEFINE S == 1..Len(b)
           C == ChunkTable(b, m)
<1>1. MaxChunks \in Nat /\ MaxFileCount \in Nat /\ Len(b) \in Nat
  BY LimitsAssumption
<1>2. IsFiniteSet(S) /\ Cardinality(S) = Len(b)
  <2>1. /\ IsFiniteSet(1..Len(b))
        /\ Cardinality(1..Len(b)) = IF 1 > Len(b) THEN 0 ELSE Len(b) - 1 + 1
    BY ONLY <1>1, FS_Interval, 1 \in Int, Len(b) \in Int
  <2>2. QED
    BY <1>1, <2>1
<1>3. BatchTotalChunks(b, m) = SumOf(C, S) /\ \A i \in S : C[i] \in Nat /\ C[i] <= MaxChunks
  <2>1. DOMAIN b = S
    OBVIOUS
  <2>2. /\ BatchTotalChunks(b, m) = SumOf(C, S)
        /\ \A i \in S : C[i] = TotalChunks(b[i], m) /\ C[i] \in Nat
    BY BatchIsSum
  <2>3. QED
    BY <2>1, <2>2
<1> HIDE DEF S, C
<1>4. SumOf(C, S) <= Len(b) * MaxChunks /\ SumOf(C, S) \in Nat
  BY <1>1, <1>2, <1>3, SumBound, SumInNat
<1>5. Len(b) * MaxChunks <= MaxFileCount * MaxChunks
  BY <1>1, ProductsOrdered
<1>6. /\ Len(b) * MaxChunks \in Int /\ MaxFileCount * MaxChunks \in Int
      /\ MaxFileCount * MaxChunks = MaxChunks * MaxFileCount
  BY <1>1
<1>7. QED
  BY <1>3, <1>4, <1>5, <1>6

\* The metadata of a batch that the sender's page let through is refused for the
\* chunk limit alone: only if some file has too many chunks.
LEMMA RefusedForChunks ==
    ASSUME NEW b \in Seq(Nat), NEW m \in Modes, Selectable(b),
           NEW i \in Nat, i + 1 \in DOMAIN b,
           \A j \in DOMAIN b : TotalChunks(b[j], m) <= MaxChunks
    PROVE  ValidMetadata(Metadata(b, m, i))
<1> DEFINE size == b[i + 1]
<1>1. size \in Nat /\ size <= MaxFileBytes /\ Len(b) <= MaxFileCount /\ i < Len(b)
  BY LimitsAssumption DEF Selectable
<1>2. size > 0 => TotalChunks(size, m) > 0
  <2>1. /\ TotalChunks(size, m) \in Nat /\ EffectiveChunkSize(m) \in Nat
        /\ size <= TotalChunks(size, m) * EffectiveChunkSize(m)
    BY <1>1, TotalRoundsUp, ChunkSizePositive
  <2>2. TotalChunks(size, m) = 0 => size <= 0
    BY <2>1
  <2>3. QED
    BY <1>1, <2>1, <2>2
<1>3. BatchTotalChunks(b, m) <= MaxChunks * MaxFileCount
  BY <1>1, BatchWithinLimit
<1>4. QED
  BY <1>1, <1>2, <1>3 DEF ValidMetadata, Metadata

\* A file that the sender's page accepts and that has too many chunks is one for a
\* data channel, too large for its chunks.
LEMMA TooManyChunks ==
    ASSUME NEW b \in Seq(Nat), NEW m \in Modes, Selectable(b),
           NEW j \in DOMAIN b, ~(TotalChunks(b[j], m) <= MaxChunks)
    PROVE  m = "p2p" /\ b[j] > MaxChunks * P2pMaxPlaintext
<1>1. /\ b[j] \in Nat /\ b[j] <= MaxFileBytes /\ MaxFileBytes <= MaxChunks * ChunkSize
      /\ {MaxFileBytes, MaxChunks, ChunkSize, P2pMaxPlaintext} \subseteq Nat \ {0}
  BY LimitsAssumption DEF Selectable
<1>2. MaxChunks * ChunkSize \in Int /\ MaxChunks * P2pMaxPlaintext \in Int
  BY <1>1
<1>3. ~(b[j] <= MaxChunks * EffectiveChunkSize(m))
  BY <1>1, ChunkLimitIsSizeLimit
<1>4. EffectiveChunkSize(m) # ChunkSize
  BY <1>1, <1>2, <1>3
<1>5. m = "p2p" /\ EffectiveChunkSize(m) = P2pMaxPlaintext
  BY <1>4 DEF EffectiveChunkSize, SmallerOf
<1>6. QED
  BY <1>1, <1>2, <1>3, <1>5

\* Over the relay the receiver takes every file that the sender's page lets its
\* user select: of LimitsAgree only what P2P makes of it can fail (app.js:16-42,
\* security.js:104-166).
THEOREM RelayFilesTaken ==
    ASSUME NEW b \in Seq(Nat), Selectable(b), NEW i \in Nat, i + 1 \in DOMAIN b
    PROVE  ValidMetadata(Metadata(b, "relay", i))
  BY RefusedForChunks, TooManyChunks DEF Modes

\* The chunks of a file are neither empty nor larger than the transport's, and
\* the last one ends where the file does (app.js:29-32, 878-886).
THEOREM ChunksCoverFile ==
    ASSUME NEW size \in Nat, NEW m \in Modes, NEW k \in 0..(TotalChunks(size, m) - 1)
    PROVE  /\ ChunkBytes(size, m, k) \in 1..EffectiveChunkSize(m)
           /\ k = TotalChunks(size, m) - 1
                => k * EffectiveChunkSize(m) + ChunkBytes(size, m, k) = size
<1> DEFINE c == EffectiveChunkSize(m)
           q == TotalChunks(size, m)
<1>1. c \in Nat \ {0}
  BY ChunkSizePositive
<1>2. q \in Nat /\ size <= q * c /\ q * c <= size + c - 1
  BY TotalRoundsUp
<1>3. ChunkBytes(size, m, k) = SmallerOf((k + 1) * c, size) - k * c
  BY DEF ChunkBytes
<1> HIDE DEF c, q
<1>4. k \in Nat /\ k + 1 <= q
  BY <1>2 DEF q
<1>5. /\ k * c \in Int /\ q * c \in Int
      /\ (k + 1) * c = k * c + c
  BY <1>1, <1>2, <1>4
<1>6. k * c + c <= q * c
  <2>1. (k + 1) * c <= q * c
    BY <1>1, <1>2, <1>4, ProductsOrdered
  <2>2. QED
    BY <1>5, <2>1
<1>7. k * c < size
  BY <1>1, <1>2, <1>5, <1>6
<1>8. ChunkBytes(size, m, k) \in 1..c
  <2>1. CASE k * c + c <= size
    <3>1. ChunkBytes(size, m, k) = c
      BY <1>1, <1>3, <1>5, <2>1 DEF SmallerOf
    <3>2. QED
      BY <1>1, <3>1
  <2>2. CASE size < k * c + c
    <3>1. ChunkBytes(size, m, k) = size - k * c
      BY <1>1, <1>3, <1>5, <2>2 DEF SmallerOf
    <3>2. QED
      BY <1>1, <1>5, <1>7, <2>2, <3>1
  <2>3. QED
    BY <1>1, <1>5, <2>1, <2>2
<1>9. ASSUME k = q - 1 PROVE k * c + ChunkBytes(size, m, k) = size
  <2>1. k * c + c = q * c
    <3>1. k + 1 = q
      BY <1>2, <1>4, <1>9
    <3>2. QED
      BY <1>5, <3>1
  <2>2. (k + 1) * c = q * c
    BY <1>5, <2>1
  <2>3. SmallerOf((k + 1) * c, size) = size
    BY <1>2, <1>5, <2>2 DEF SmallerOf
  <2>4. QED
    BY <1>3, <1>5, <2>3
<1>10. QED
  BY <1>8, <1>9 DEF c, q

-----------------------------------------------------------------------------
(* The transfer                                                              *)

\* The frames of a batch, one after the other.
ChunksOf(b, m, i) == TotalChunks(b[i + 1], m)
OfBatch(b, m, f) == f.file \in 0..(Len(b) - 1) /\ f.seq \in META..(ChunksOf(b, m, f.file) - 1)
After(b, m, f) == IF f.seq + 1 < ChunksOf(b, m, f.file) THEN Frame(f.file, f.seq + 1)
                  ELSE Frame(f.file + 1, META)

Run(b, m, s) ==
    /\ \A k \in 1..Len(s) : OfBatch(b, m, s[k])
    /\ \A k \in 1..(Len(s) - 1) : s[k + 1] = After(b, m, s[k])

LeadsTo(b, m, s, f) == Len(s) > 0 => f = After(b, m, s[Len(s)])

\* What has been sent and not yet been dealt with.
queue == IF bound THEN chain ELSE pending
stream == queue \o wire

\* The frame the sender sends next.
Coming == IF at = "metadata" THEN Frame(file, META)
          ELSE IF at = "sent" THEN Frame(file + 1, META)
          ELSE Frame(file, next)

Busy == task \in {"opening", "writing", "closing"}
Failed == task = "failed"

\* The receiver is in the middle of a file.
Reading == metadataReceived /\ fileIndex = Len(saved)

\* The frame whose task is the first one, or else the one that must come next.
Wanted == IF task = "opening" \/ ~Reading THEN Frame(Len(saved), META)
          ELSE IF task = "closing" THEN Frame(fileIndex, totalChunks - 1)
          ELSE Frame(fileIndex, currentChunk)

\* sendOneFile holds the chunks it says it holds.
SenderInv ==
    /\ at = "metadata" => next = 0
    /\ at \in {"prefetch", "drain"} => next < Chunks(file)
    /\ at = "prefetch" => prefetch = Frame(file, next)
    /\ at = "drain" =>
        /\ encrypted = Frame(file, next)
        /\ prefetch = IF next + 1 < Chunks(file) THEN Frame(file, next + 1) ELSE Nothing
    /\ at = "sent" => file = LastFile

RunInv ==
    /\ Run(files, mode, stream)
    /\ at # "failed" => LeadsTo(files, mode, stream, Coming)

\* The chain and the kept frames exclude each other (bindReceiverTransport).
ChainInv ==
    /\ bound => pending = <<>>
    /\ ~bound => chain = <<>> /\ task = "idle"
    /\ Busy => chain # <<>>
    /\ Failed => chain = <<>>

\* The run starts where the receiver is.
FrontInv ==
    /\ ~Failed /\ Len(stream) > 0 => stream[1] = Wanted
    /\ ~Failed /\ Len(stream) = 0 /\ at # "failed" => Coming = Wanted

\* How many bytes the first k chunks of a file are.
BytesOf(size, m, k) == SmallerOf(k * EffectiveChunkSize(m), size)

\* In a file; between two files; after the last one.
ReadingInv ==
    /\ fileCount = Len(files)
    /\ totalChunks = Chunks(fileIndex)
    /\ content = [k \in 1..currentChunk |-> k - 1]
    /\ written = BytesOf(Size(fileIndex), mode, currentChunk)
    /\ task = "opening" => currentChunk = 0
    /\ task \in {"idle", "writing"} => currentChunk < totalChunks
    /\ task = "closing" => currentChunk = totalChunks
BetweenInv ==
    /\ content = <<>> /\ currentChunk = 0
    /\ saved # <<>> => fileIndex < fileCount - 1
    /\ Len(saved) < Len(files)
DoneInv == AllSaved /\ fileIndex = LastFile

\* The receiver's state, as long as nothing failed.
FileInv ==
    ~Failed =>
        /\ Busy => Reading
        /\ Reading => ReadingInv
        /\ ~metadataReceived => BetweenInv
        /\ metadataReceived /\ ~Reading => DoneInv

\* onclose awaits a chain that did not fail, and the task that runs is in it.
CloseInv == receiverWs = "awaiting" => ~Failed /\ (Busy => tail > 0)

\* The batch is acknowledged when it is saved, and then the promise is settled.
AckInv ==
    /\ AllSaved => received # "pending"
    /\ ack # "none" => AllSaved

\* As long as nothing broke, over the relay.
ShutdownInv ==
    mode = "relay" /\ ~fault /\ refused = "none" =>
        /\ senderWs # "open" \/ receiverWs # "open" => AllSaved
        /\ {"rejected", "error"} \cap {sent, received} = {}
        /\ ~Failed

OfferInv ==
    /\ text => receivedFiles = <<>>
    /\ ~AllSaved => downloads = <<>>
    /\ FilesOffered

IInv ==
    /\ TypeOK /\ SenderInv /\ RunInv /\ ChainInv /\ FrontInv /\ FileInv
    /\ CloseInv /\ AckInv /\ ShutdownInv /\ OfferInv

-----------------------------------------------------------------------------
(* Queues                                                                    *)

\* What an event does to the frames on their way (ws.onmessage, enqueue).
LEMMA Appended ==
    ASSUME NEW S, NEW q \in Seq(S), NEW e \in S
    PROVE  /\ Append(q, e) \in Seq(S)
           /\ Len(Append(q, e)) = Len(q) + 1
           /\ \A k \in 1..Len(q) : Append(q, e)[k] = q[k]
           /\ Append(q, e)[Len(q) + 1] = e
           /\ Append(q, e) # <<>>
  OBVIOUS

\* What the end of a task does to the chain.
LEMMA Shortened ==
    ASSUME NEW S, NEW q \in Seq(S), q # <<>>
    PROVE  /\ Len(q) \in Nat \ {0}
           /\ Head(q) = q[1]
           /\ q[1] \in S
           /\ Tail(q) \in Seq(S)
           /\ Len(Tail(q)) = Len(q) - 1
           /\ \A k \in 1..(Len(q) - 1) : Tail(q)[k] = q[k + 1]
  OBVIOUS

\* Two queues, one behind the other.
LEMMA Joined ==
    ASSUME NEW S, NEW q \in Seq(S), NEW w \in Seq(S)
    PROVE  /\ q \o w \in Seq(S)
           /\ Len(q \o w) = Len(q) + Len(w)
           /\ \A k \in 1..Len(q) : (q \o w)[k] = q[k]
           /\ \A k \in 1..Len(w) : (q \o w)[Len(q) + k] = w[k]
           /\ \A k \in 1..(Len(q) + Len(w)) :
                (q \o w)[k] = IF k <= Len(q) THEN q[k] ELSE w[k - Len(q)]
  OBVIOUS

\* What a function is as a sequence (a batch, and its files in chunks).
LEMMA LenOfFunction ==
    ASSUME NEW n \in Nat, NEW S, NEW f \in [1..n -> S]
    PROVE  f \in Seq(S) /\ Len(f) = n
  OBVIOUS

\* A sequence is its elements.
LEMMA SameElements ==
    ASSUME NEW S, NEW q \in Seq(S), NEW r \in Seq(S), Len(q) = Len(r),
           \A k \in 1..Len(q) : q[k] = r[k]
    PROVE  q = r
  OBVIOUS

\* A frame that is sent comes last.
LEMMA JoinedSend ==
    ASSUME NEW S, NEW q \in Seq(S), NEW w \in Seq(S), NEW e \in S
    PROVE  q \o Append(w, e) = Append(q \o w, e)
  BY Appended, Joined, SameElements

\* A frame that arrives stays where it is.
LEMMA JoinedArrival ==
    ASSUME NEW S, NEW q \in Seq(S), NEW w \in Seq(S), w # <<>>
    PROVE  Append(q, Head(w)) \o Tail(w) = q \o w
  BY Appended, Shortened, Joined, SameElements

\* The end of a task removes the first frame.
LEMMA JoinedEnd ==
    ASSUME NEW S, NEW q \in Seq(S), NEW w \in Seq(S), q # <<>>
    PROVE  /\ Tail(q) \o w = Tail(q \o w)
           /\ q \o w # <<>>
           /\ Head(q) = (q \o w)[1]
  BY Shortened, Joined, SameElements

-----------------------------------------------------------------------------
(* Runs of successive frames                                                 *)

\* A run goes on with the frame it leads to.
LEMMA RunExtended ==
    ASSUME NEW b, NEW m, NEW S, NEW s \in Seq(S), NEW e \in S,
           Run(b, m, s), LeadsTo(b, m, s, e), OfBatch(b, m, e)
    PROVE  Run(b, m, Append(s, e))
<1>1. \A k \in 1..Len(Append(s, e)) : OfBatch(b, m, Append(s, e)[k])
  <2> SUFFICES ASSUME NEW k \in 1..Len(Append(s, e))
               PROVE  OfBatch(b, m, Append(s, e)[k])
    OBVIOUS
  <2>1. CASE k <= Len(s)
    BY <2>1, Appended DEF Run
  <2>2. CASE k = Len(s) + 1
    BY <2>2, Appended
  <2>3. QED
    BY <2>1, <2>2, Appended
<1>2. \A k \in 1..(Len(Append(s, e)) - 1) :
          Append(s, e)[k + 1] = After(b, m, Append(s, e)[k])
  <2> SUFFICES ASSUME NEW k \in 1..Len(s)
               PROVE  Append(s, e)[k + 1] = After(b, m, s[k])
    BY Appended
  <2>1. CASE k < Len(s)
    <3>1. k + 1 \in 1..Len(s) /\ k \in 1..(Len(s) - 1)
      BY <2>1
    <3>2. QED
      BY <3>1, Appended DEF Run
  <2>2. CASE k = Len(s)
    BY <2>2, Appended DEF LeadsTo
  <2>3. QED
    BY <2>1, <2>2
<1>3. QED
  BY <1>1, <1>2 DEF Run

\* After the first frame the run goes on with its successor.
LEMMA RunShortened ==
    ASSUME NEW b, NEW m, NEW S, NEW s \in Seq(S), s # <<>>, Run(b, m, s)
    PROVE  /\ OfBatch(b, m, s[1])
           /\ Run(b, m, Tail(s))
           /\ Len(Tail(s)) > 0 => Tail(s)[1] = After(b, m, s[1])
           /\ \A f : LeadsTo(b, m, s, f) =>
                 /\ LeadsTo(b, m, Tail(s), f)
                 /\ Len(Tail(s)) = 0 => f = After(b, m, s[1])
<1>1. /\ Len(s) \in Nat \ {0} /\ Len(Tail(s)) = Len(s) - 1
      /\ \A k \in 1..(Len(s) - 1) : Tail(s)[k] = s[k + 1]
  BY Shortened
<1>2. OfBatch(b, m, s[1])
  BY <1>1 DEF Run
<1>3. \A k \in 1..Len(Tail(s)) : OfBatch(b, m, Tail(s)[k])
  <2> SUFFICES ASSUME NEW k \in 1..(Len(s) - 1) PROVE OfBatch(b, m, Tail(s)[k])
    BY <1>1
  <2>1. Tail(s)[k] = s[k + 1] /\ k + 1 \in 1..Len(s)
    BY <1>1
  <2>2. QED
    BY <2>1 DEF Run
<1>4. \A k \in 1..(Len(Tail(s)) - 1) : Tail(s)[k + 1] = After(b, m, Tail(s)[k])
  <2> SUFFICES ASSUME NEW k \in 1..(Len(s) - 2)
               PROVE  Tail(s)[k + 1] = After(b, m, Tail(s)[k])
    BY <1>1
  <2>1. /\ Tail(s)[k] = s[k + 1] /\ Tail(s)[k + 1] = s[(k + 1) + 1]
        /\ k + 1 \in 1..(Len(s) - 1)
    BY <1>1
  <2>2. QED
    BY <2>1 DEF Run
<1>5. Len(Tail(s)) > 0 => Tail(s)[1] = After(b, m, s[1])
  <2>1. Len(s) > 1 => 1 \in 1..(Len(s) - 1) /\ Tail(s)[1] = s[1 + 1]
    BY <1>1
  <2>2. QED
    BY <1>1, <2>1 DEF Run
<1>6. ASSUME NEW f, LeadsTo(b, m, s, f)
      PROVE  /\ LeadsTo(b, m, Tail(s), f)
             /\ Len(Tail(s)) = 0 => f = After(b, m, s[1])
  <2>1. f = After(b, m, s[Len(s)])
    BY <1>1, <1>6 DEF LeadsTo
  <2>2. Len(Tail(s)) > 0 => Tail(s)[Len(Tail(s))] = s[Len(s)]
    <3>1. Len(s) > 1 => Tail(s)[Len(s) - 1] = s[(Len(s) - 1) + 1]
      BY <1>1
    <3>2. QED
      BY <1>1, <3>1
  <2>3. QED
    BY <1>1, <2>1, <2>2 DEF LeadsTo
<1>7. QED
  BY <1>2, <1>3, <1>4, <1>5, <1>6 DEF Run

\* What remains on the wire when the chain is dropped.
LEMMA RunDropped ==
    ASSUME NEW b, NEW m, NEW S, NEW q \in Seq(S), NEW w \in Seq(S), Run(b, m, q \o w)
    PROVE  /\ Run(b, m, w)
           /\ \A f : LeadsTo(b, m, q \o w, f) => LeadsTo(b, m, w, f)
<1> DEFINE s == q \o w
<1>1. /\ s \in Seq(S) /\ Len(s) = Len(q) + Len(w)
      /\ \A k \in 1..Len(w) : s[Len(q) + k] = w[k]
      /\ Len(q) \in Nat /\ Len(w) \in Nat
  BY Joined
<1>2. Run(b, m, s)
  OBVIOUS
<1> HIDE DEF s
<1>3. \A k \in 1..Len(w) : OfBatch(b, m, w[k])
  <2> SUFFICES ASSUME NEW k \in 1..Len(w) PROVE OfBatch(b, m, w[k])
    OBVIOUS
  <2>1. w[k] = s[Len(q) + k] /\ Len(q) + k \in 1..Len(s)
    BY <1>1
  <2>2. QED
    BY <1>2, <2>1 DEF Run
<1>4. \A k \in 1..(Len(w) - 1) : w[k + 1] = After(b, m, w[k])
  <2> SUFFICES ASSUME NEW k \in 1..(Len(w) - 1) PROVE w[k + 1] = After(b, m, w[k])
    OBVIOUS
  <2>1. /\ w[k] = s[Len(q) + k] /\ w[k + 1] = s[(Len(q) + k) + 1]
        /\ Len(q) + k \in 1..(Len(s) - 1)
    <3>1. k \in 1..Len(w) /\ k + 1 \in 1..Len(w) /\ Len(q) + (k + 1) = (Len(q) + k) + 1
      BY <1>1
    <3>2. QED
      BY <1>1, <3>1
  <2>2. QED
    BY <1>2, <2>1 DEF Run
<1>5. Len(w) > 0 => w[Len(w)] = s[Len(s)]
  BY <1>1
<1>6. \A f : LeadsTo(b, m, s, f) => LeadsTo(b, m, w, f)
  BY <1>1, <1>5 DEF LeadsTo
<1>7. QED
  BY <1>3, <1>4, <1>6 DEF Run, s

-----------------------------------------------------------------------------
(* Bytes and types                                                           *)

\* The bytes counted after each chunk; after the last one they are the file
\* (handleReceivedData, finishCurrentFile).
LEMMA BytesCounted ==
    ASSUME NEW size \in Nat, NEW m \in Modes, NEW k \in 0..TotalChunks(size, m)
    PROVE  /\ BytesOf(size, m, k) \in 0..size
           /\ k = 0 => BytesOf(size, m, k) = 0
           /\ k = TotalChunks(size, m) => BytesOf(size, m, k) = size
           /\ k < TotalChunks(size, m) =>
                BytesOf(size, m, k) + ChunkBytes(size, m, k) = BytesOf(size, m, k + 1)
<1> DEFINE c == EffectiveChunkSize(m)
           q == TotalChunks(size, m)
<1>1. c \in Nat \ {0}
  BY ChunkSizePositive
<1>2. q \in Nat /\ size <= q * c
  BY TotalRoundsUp
<1>3. /\ BytesOf(size, m, k) = SmallerOf(k * c, size)
      /\ BytesOf(size, m, k + 1) = SmallerOf((k + 1) * c, size)
      /\ ChunkBytes(size, m, k) = SmallerOf((k + 1) * c, size) - k * c
  BY DEF BytesOf, ChunkBytes
<1>4. k < q => ChunkBytes(size, m, k) >= 1
  <2>1. k < q => k \in 0..(q - 1)
    BY <1>2
  <2>2. k < q => ChunkBytes(size, m, k) \in 1..c
    BY <2>1, ChunksCoverFile
  <2>3. QED
    BY <1>1, <2>2
<1> HIDE DEF c, q
<1>5. k \in Nat /\ k <= q
  BY <1>2 DEF q
<1>6. k * c \in Int /\ (k + 1) * c \in Int /\ 0 * c <= k * c /\ 0 * c = 0
  BY <1>1, <1>5, ProductsOrdered
<1>7. BytesOf(size, m, k) \in 0..size
  BY <1>3, <1>6 DEF SmallerOf
<1>8. ASSUME k = 0 PROVE BytesOf(size, m, k) = 0
  BY <1>3, <1>6, <1>8 DEF SmallerOf
<1>9. ASSUME k = q PROVE BytesOf(size, m, k) = size
  <2>1. size <= k * c
    BY <1>2, <1>9
  <2>2. QED
    BY <1>3, <1>6, <2>1 DEF SmallerOf
<1>10. ASSUME k < q
       PROVE  BytesOf(size, m, k) + ChunkBytes(size, m, k) = BytesOf(size, m, k + 1)
  <2>1. SmallerOf((k + 1) * c, size) - k * c >= 1
    BY <1>3, <1>4, <1>10
  <2>2. SmallerOf((k + 1) * c, size) <= size /\ SmallerOf((k + 1) * c, size) \in Int
    BY <1>6 DEF SmallerOf
  <2>3. k * c <= size
    BY <1>6, <2>1, <2>2
  <2>4. SmallerOf(k * c, size) = k * c
    BY <2>3 DEF SmallerOf
  <2>5. QED
    BY <1>3, <1>6, <2>2, <2>4
<1>11. QED
  BY <1>7, <1>8, <1>9, <1>10 DEF q

\* The batch has files, and all frames are frames.
LEMMA Basics ==
    ASSUME TypeOK
    PROVE  /\ files \in Seq(Nat) /\ mode \in Modes
           /\ Len(files) \in Nat \ {0} /\ LastFile \in Nat
           /\ \A i \in 0..LastFile :
                 /\ Size(i) \in Nat /\ Chunks(i) \in Nat
                 /\ Chunks(i) = ChunksOf(files, mode, i)
           /\ queue \in Seq(Frames) /\ wire \in Seq(Frames) /\ stream \in Seq(Frames)
           /\ META = -1
<1>1. files \in Seq(Nat) /\ mode \in Modes
  BY TransferAssumption DEF TypeOK
<1>2. Len(files) \in Nat \ {0} /\ LastFile \in Nat
  <2>1. Len(files) \in Nat /\ fileCount \in 1..Len(files)
    BY <1>1 DEF TypeOK
  <2>2. QED
    BY <2>1 DEF LastFile
<1>3. ASSUME NEW i \in 0..LastFile
      PROVE  Size(i) \in Nat /\ Chunks(i) \in Nat /\ Chunks(i) = ChunksOf(files, mode, i)
  <2>1. i + 1 \in 1..Len(files)
    BY <1>2 DEF LastFile
  <2>2. files[i + 1] \in Nat
    BY <1>1, <2>1
  <2>3. QED
    BY <1>1, <2>2, TotalRoundsUp DEF Size, Chunks, ChunksOf
<1>4. queue \in Seq(Frames) /\ wire \in Seq(Frames)
  BY DEF TypeOK, queue
<1>5. stream \in Seq(Frames)
  BY <1>4, Joined DEF stream
<1>6. QED
  BY <1>1, <1>2, <1>3, <1>4, <1>5 DEF META

\* What arrives has been put on its way before.
LEMMA ArrivesFromWire ==
    ASSUME TypeOK, Arrive
    PROVE  wire # <<>> /\ buffered \in 0..(Len(wire) - 1)
<1>1. wire \in Seq(Frames) /\ buffered \in 0..Len(wire) /\ Len(wire) > buffered
  BY DEF TypeOK, Arrive
<1>2. Len(wire) \in Nat
  BY <1>1
<1>3. wire # <<>>
  <2>1. wire = <<>> => Len(wire) = 0
    OBVIOUS
  <2>2. QED
    BY <1>1, <1>2, <2>1
<1>4. QED
  BY <1>1, <1>2, <1>3

\* The first task of a chain is about the frame that is wanted.
LEMMA FirstTask ==
    ASSUME IInv, chain # <<>>
    PROVE  /\ bound /\ ~Failed /\ queue = chain
           /\ stream # <<>>
           /\ Head(chain) = Wanted /\ Head(chain) = stream[1]
           /\ OfBatch(files, mode, Head(chain))
           /\ Tail(chain) \o wire = Tail(stream)
<1>1. bound /\ ~Failed /\ queue = chain
  BY DEF IInv, ChainInv, queue
<1>2. chain \in Seq(Frames) /\ wire \in Seq(Frames)
  BY DEF IInv, TypeOK
<1>3. stream = chain \o wire
  BY <1>1 DEF stream
<1>4. stream # <<>> /\ Head(chain) = stream[1] /\ Tail(chain) \o wire = Tail(stream)
  BY <1>2, <1>3, JoinedEnd
<1>5. stream \in Seq(Frames) /\ Run(files, mode, stream)
  BY Basics DEF IInv, RunInv
<1>6. OfBatch(files, mode, stream[1])
  BY <1>4, <1>5, RunShortened
<1>7. Len(stream) > 0
  BY <1>4, <1>5
<1>8. QED
  BY <1>1, <1>4, <1>6, <1>7 DEF IInv, FrontInv

-----------------------------------------------------------------------------
(* What the receiver's steps do, in every case that can arise                *)

\* A task leaves the sender's side alone.
Working == UNCHANGED <<batchVars, senderVars, sent, wire, buffered, linkUp, bound,
                       pending, senderWs>>

\* A task that is not the last of the batch ends.
TaskDone ==
    /\ chain # <<>> /\ task' = "idle" /\ chain' = Tail(chain) /\ AwaitOne
    /\ UNCHANGED <<received, ack, receiverWs>>

BatchDone ==
    /\ chain # <<>> /\ task' = "idle" /\ chain' = Tail(chain) /\ AwaitOne
    /\ received' = Settle(received, "resolved")
    /\ \/ ack' = "sent" /\ receiverWs = "open" /\ receiverWs' = "closed"
       \/ UNCHANGED <<ack, receiverWs>>

TakesChunk ==
    /\ Working /\ Reading /\ ~Settling
    /\ chain # <<>> /\ task = "idle" /\ task' = "writing" /\ Continue
    /\ UNCHANGED <<fileVars, fault, refused>>

TakesMetadata ==
    /\ Working /\ ~metadataReceived /\ ~Settling
    /\ chain # <<>> /\ task = "idle" /\ task' = "opening" /\ Continue
    /\ metadataReceived' = TRUE
    /\ fileIndex' = Len(saved)
    /\ fileCount' = Len(files)
    /\ totalChunks' = Chunks(Len(saved))
    /\ currentChunk' = 0
    /\ written' = 0
    /\ UNCHANGED <<saveDir, streaming, batchDoneChunks, receivedFiles, downloads,
                   content, saved, fault, refused>>

OpensFile ==
    /\ Working /\ Reading /\ task = "opening"
    /\ \/ totalChunks = 0 /\ task' = "closing" /\ Continue
       \/ totalChunks > 0 /\ TaskDone
    /\ saveDir' \in BOOLEAN /\ streaming' \in BOOLEAN
    /\ UNCHANGED <<metaVars, written, batchDoneChunks, receivedFiles, downloads,
                   content, saved, fault, refused>>

WritesChunk ==
    /\ Working /\ Reading /\ task = "writing"
    /\ currentChunk' = currentChunk + 1
    /\ \/ currentChunk' = totalChunks /\ task' = "closing" /\ Continue
       \/ currentChunk' < totalChunks /\ TaskDone
    /\ written' = BytesOf(Size(fileIndex), mode, currentChunk')
    /\ content' = Append(content, currentChunk)
    /\ UNCHANGED <<metadataReceived, fileIndex, fileCount, totalChunks, saveDir,
                   streaming, batchDoneChunks, receivedFiles, downloads, saved,
                   fault, refused>>

SavesFile ==
    /\ saved' = Append(saved, [file |-> fileIndex, chunks |-> content])
    /\ receivedFiles' = IF text \/ streaming THEN receivedFiles
                        ELSE Append(receivedFiles, fileIndex)
    /\ UNCHANGED <<saveDir, fault, refused>>

SavesAndGoesOn ==
    /\ Working /\ Reading /\ task = "closing" /\ TaskDone
    /\ fileIndex < LastFile
    /\ SavesFile /\ NextFile
    /\ UNCHANGED downloads

SavesLast ==
    /\ Working /\ Reading /\ task = "closing" /\ BatchDone
    /\ fileIndex = LastFile
    /\ SavesFile
    /\ downloads' = Offered
    /\ UNCHANGED <<metaVars, streaming, written, batchDoneChunks, content>>

\* The file is refused or cannot be written.
FailsFile ==
    /\ Working /\ chain # <<>> /\ Fail /\ ~AllSaved
    /\ fault' \in BOOLEAN /\ refused' \in {"none", "metadata", "memory"}
    /\ fault' \/ refused' # "none"
    /\ metadataReceived' \in BOOLEAN /\ saveDir' \in BOOLEAN /\ streaming' \in BOOLEAN
    /\ UNCHANGED <<fileIndex, fileCount, totalChunks, currentChunk, written,
                   batchDoneChunks, receivedFiles, downloads, content, saved>>

\* In the middle of a file the batch is not saved, and the file is one of it.
LEMMA Unsaved ==
    ASSUME IInv, Reading, ~Failed
    PROVE  /\ ~AllSaved /\ ReadingInv
           /\ fileIndex \in 0..LastFile /\ fileIndex < Len(files)
           /\ Size(fileIndex) \in Nat /\ mode \in Modes
           /\ totalChunks = TotalChunks(Size(fileIndex), mode) /\ totalChunks \in Nat
           /\ currentChunk \in 0..totalChunks
           /\ Len(saved) = fileIndex
<1>1. fileIndex \in 0..LastFile /\ Len(files) \in Nat
  BY Basics DEF IInv, TypeOK
<1>2. ReadingInv
  BY DEF IInv, FileInv
<1>3. fileIndex < Len(files)
  BY <1>1 DEF LastFile
<1>4. /\ Size(fileIndex) \in Nat /\ mode \in Modes /\ Chunks(fileIndex) \in Nat
      /\ totalChunks = TotalChunks(Size(fileIndex), mode) /\ totalChunks = Chunks(fileIndex)
  BY <1>1, <1>2, Basics DEF IInv, ReadingInv, Chunks
<1>5. Len(saved) = fileIndex /\ ~AllSaved
  <2>1. metadataReceived /\ fileIndex = Len(saved)
    BY DEF IInv, TypeOK, Reading
  <2>2. QED
    BY <1>3, <2>1 DEF AllSaved
<1>6. currentChunk \in 0..totalChunks
  BY DEF IInv, TypeOK
<1>7. QED
  BY <1>1, <1>2, <1>3, <1>4, <1>5, <1>6

\* Every frame is the one the receiver decrypts with; only metadata is refused.
LEMMA DecryptCases ==
    ASSUME IInv, Decrypt
    PROVE  TakesChunk \/ TakesMetadata \/ FailsFile
<1> DEFINE f == Head(chain)
<1>1. chain # <<>> /\ task = "idle" /\ ~Settling /\ ~Failed
  BY DEF Decrypt, Failed
<1>2. Working /\ UNCHANGED <<saveDir, streaming, batchDoneChunks, receivedFiles,
                             downloads, content, saved, fault>>
  BY DEF Decrypt, Working
<1>3. f = Wanted /\ OfBatch(files, mode, f)
  BY <1>1, FirstTask
<1>4. saveDir \in BOOLEAN /\ streaming \in BOOLEAN /\ fault \in BOOLEAN
  BY DEF IInv, TypeOK
<1>5. CASE metadataReceived
  <2>1. Reading
    <3> SUFFICES ASSUME ~Reading PROVE FALSE
      OBVIOUS
    <3>1. AllSaved
      BY <1>1, <1>5 DEF IInv, FileInv, DoneInv
    <3>2. f.file = Len(files)
      BY <1>3, <3>1 DEF Wanted, AllSaved, Frame
    <3>3. QED
      BY <1>3, <3>2, Basics DEF OfBatch, IInv
  <2>2. f = Frame(fileIndex, currentChunk)
    BY <1>1, <1>3, <2>1 DEF Wanted
  <2>3. Expected(f)
    BY <1>5, <2>2 DEF Expected
  <2>4. task' = "writing" /\ Continue /\ UNCHANGED <<metaVars, written, refused>>
    BY <1>5, <2>3 DEF Decrypt
  <2>5. QED
    BY <1>1, <1>2, <2>1, <2>4 DEF TakesChunk, fileVars, diskVars
<1>6. CASE ~metadataReceived
  <2>1. f = Frame(Len(saved), META) /\ f.seq = META /\ f.file = Len(saved)
    BY <1>1, <1>3, <1>6 DEF Wanted, Reading, Frame
  <2>2. Expected(f)
    BY <1>6, <2>1 DEF Expected
  <2>3. ~AllSaved
    BY <1>1, <1>6, Basics DEF IInv, FileInv, BetweenInv, AllSaved
  <2>4. CASE ValidMetadata(Metadata(files, mode, f.file))
    <3>1. /\ metadataReceived' = TRUE
          /\ fileIndex' = f.file
          /\ fileCount' = Len(files)
          /\ totalChunks' = Chunks(f.file)
          /\ currentChunk' = 0
          /\ written' = 0
          /\ task' = "opening"
          /\ Continue
          /\ UNCHANGED refused
      BY <1>6, <2>2, <2>4 DEF Decrypt, Metadata, Chunks, Size
    <3>2. QED
      BY <1>1, <1>2, <1>6, <2>1, <3>1 DEF TakesMetadata
  <2>5. CASE ~ValidMetadata(Metadata(files, mode, f.file))
    <3>1. /\ metadataReceived' = TRUE
          /\ refused' = "metadata"
          /\ Fail
          /\ UNCHANGED <<fileIndex, fileCount, totalChunks, currentChunk, written>>
      BY <1>6, <2>2, <2>5 DEF Decrypt
    <3>2. QED
      BY <1>1, <1>2, <1>4, <2>3, <3>1 DEF FailsFile
  <2>6. QED
    BY <2>4, <2>5
<1>7. QED
  BY <1>5, <1>6 DEF IInv, TypeOK

\* A file is opened, or it fits into no sink.
LEMMA OpenedCases ==
    ASSUME IInv, Opened
    PROVE  OpensFile \/ FailsFile
<1>1. task = "opening" /\ ~Failed /\ chain # <<>> /\ Reading
  BY DEF Opened, Failed, Busy, IInv, ChainInv, FileInv
<1>2. /\ Working
      /\ UNCHANGED <<written, batchDoneChunks, receivedFiles, downloads, content, saved, fault>>
  BY DEF Opened, Working
<1>3. saveDir' \in BOOLEAN /\ streaming' \in BOOLEAN
  <2>1. PICK sink \in Sinks : saveDir' = sink[1] /\ streaming' = sink[2]
    BY DEF Opened
  <2>2. sink = <<FALSE, FALSE>> \/ sink = <<FALSE, TRUE>> \/ sink = <<TRUE, TRUE>>
    BY DEF Sinks
  <2>3. CASE sink = <<FALSE, FALSE>>
    BY <2>1, <2>3
  <2>4. CASE sink = <<FALSE, TRUE>>
    BY <2>1, <2>4
  <2>5. CASE sink = <<TRUE, TRUE>>
    BY <2>1, <2>5
  <2>6. QED
    BY <2>2, <2>3, <2>4, <2>5
<1>4. fault \in BOOLEAN /\ metadataReceived \in BOOLEAN
  BY DEF IInv, TypeOK
<1>5. ~AllSaved /\ totalChunks \in Nat
  BY <1>1, Unsaved
<1>6. CASE ~streaming' /\ Size(fileIndex) > MaxInMemory
  <2>1. refused' = "memory" /\ Fail /\ UNCHANGED metaVars
    BY <1>6 DEF Opened
  <2>2. QED
    BY <1>1, <1>2, <1>3, <1>4, <1>5, <2>1 DEF FailsFile, metaVars
<1>7. CASE ~(~streaming' /\ Size(fileIndex) > MaxInMemory)
  <2>1. UNCHANGED <<refused, metaVars>>
    BY <1>7 DEF Opened
  <2>2. CASE totalChunks = 0
    <3>1. task' = "closing" /\ Continue
      BY <1>7, <2>2 DEF Opened
    <3>2. QED
      BY <1>1, <1>2, <1>3, <2>1, <2>2, <3>1 DEF OpensFile
  <2>3. CASE totalChunks # 0
    <3>1. EndTask
      BY <1>7, <2>3 DEF Opened
    <3>2. currentChunk = 0
      BY <1>1, Unsaved DEF ReadingInv
    <3>3. ~BatchComplete
      BY <1>5, <2>1, <2>3, <3>2 DEF BatchComplete, IsBatchComplete, metaVars
    <3>4. TaskDone
      BY <1>1, <3>1, <3>3 DEF EndTask, TaskDone
    <3>5. QED
      BY <1>1, <1>2, <1>3, <1>5, <2>1, <2>3, <3>4 DEF OpensFile
  <2>4. QED
    BY <2>2, <2>3
<1>8. QED
  BY <1>6, <1>7

\* The bytes counted never exceed the file's size.
LEMMA WrittenCases ==
    ASSUME IInv, Written
    PROVE  WritesChunk
<1> DEFINE k == Head(chain).seq
           w == written + ChunkBytes(Size(fileIndex), mode, k)
<1>1. task = "writing" /\ ~Failed /\ chain # <<>> /\ Reading
  BY DEF Written, Failed, Busy, IInv, ChainInv, FileInv
<1>2. k = currentChunk
  BY <1>1, FirstTask DEF Wanted, Frame
<1>3. /\ Size(fileIndex) \in Nat /\ mode \in Modes /\ totalChunks \in Nat
      /\ totalChunks = TotalChunks(Size(fileIndex), mode)
      /\ currentChunk \in 0..totalChunks /\ currentChunk < totalChunks
      /\ written = BytesOf(Size(fileIndex), mode, currentChunk)
  BY <1>1, Unsaved DEF ReadingInv
<1>4. w = BytesOf(Size(fileIndex), mode, currentChunk + 1)
  BY <1>2, <1>3, BytesCounted
<1>5. w \in 0..Size(fileIndex)
  <2>1. currentChunk + 1 \in 0..TotalChunks(Size(fileIndex), mode)
    BY <1>3
  <2>2. QED
    BY <1>3, <1>4, <2>1, BytesCounted
<1>6. ~(w > Size(fileIndex))
  BY <1>3, <1>5
<1> HIDE DEF w
<1>7. /\ written' = w
      /\ content' = Append(content, k)
      /\ currentChunk' = currentChunk + 1
      /\ IF currentChunk' >= totalChunks THEN task' = "closing" /\ Continue ELSE EndTask
  BY <1>6 DEF Written, w
<1>8. /\ Working
      /\ UNCHANGED <<metadataReceived, fileIndex, fileCount, totalChunks, saveDir,
                     streaming, batchDoneChunks, receivedFiles, downloads, saved,
                     fault, refused>>
  BY DEF Written, Working
<1>9. /\ written' = BytesOf(Size(fileIndex), mode, currentChunk')
      /\ content' = Append(content, currentChunk)
      /\ currentChunk' = currentChunk + 1
  BY <1>2, <1>4, <1>7
<1>10. \/ currentChunk' = totalChunks /\ task' = "closing" /\ Continue
       \/ currentChunk' < totalChunks /\ TaskDone
  <2>1. CASE currentChunk' >= totalChunks
    BY <1>3, <1>7, <2>1
  <2>2. CASE ~(currentChunk' >= totalChunks)
    <3>1. EndTask
      BY <1>7, <2>2
    <3>2. ~BatchComplete
      BY <1>8, <2>2 DEF BatchComplete, IsBatchComplete
    <3>3. TaskDone
      BY <1>1, <3>1, <3>2 DEF EndTask, TaskDone
    <3>4. QED
      BY <1>3, <1>7, <2>2, <3>3
  <2>3. QED
    BY <2>1, <2>2
<1>11. QED
  BY <1>1, <1>8, <1>9, <1>10 DEF WritesChunk

\* The size check of finishCurrentFile holds.
LEMMA ClosedCases ==
    ASSUME IInv, Closed
    PROVE  SavesAndGoesOn \/ SavesLast
<1>1. task = "closing" /\ ~Failed /\ chain # <<>> /\ Reading
  BY DEF Closed, Failed, Busy, IInv, ChainInv, FileInv
<1>2. /\ Size(fileIndex) \in Nat /\ mode \in Modes /\ totalChunks \in Nat
      /\ totalChunks = TotalChunks(Size(fileIndex), mode)
      /\ currentChunk \in 0..totalChunks /\ currentChunk = totalChunks
      /\ written = BytesOf(Size(fileIndex), mode, currentChunk)
      /\ fileCount = Len(files) /\ fileIndex \in 0..LastFile
  BY <1>1, Unsaved DEF ReadingInv
<1>3. written = Size(fileIndex)
  BY <1>2, BytesCounted
<1>4. Working /\ UNCHANGED <<fault, refused>>
  BY DEF Closed, Working
<1>5. SavesFile /\ EndTask
  BY <1>3, <1>4 DEF Closed, SavesFile
<1>6. LastFile = Len(files) - 1 /\ Len(files) \in Nat
  BY Basics DEF LastFile, IInv
<1>7. CASE fileIndex < fileCount - 1
  <2>1. NextFile /\ UNCHANGED downloads
    BY <1>3, <1>7 DEF Closed
  <2>2. ~BatchComplete
    BY <1>2, <1>6, <1>7, <2>1 DEF BatchComplete, IsBatchComplete, NextFile, ResetForNextFile
  <2>3. TaskDone
    BY <1>1, <1>5, <2>2 DEF EndTask, TaskDone
  <2>4. QED
    BY <1>1, <1>2, <1>4, <1>5, <1>6, <1>7, <2>1, <2>3 DEF SavesAndGoesOn
<1>8. CASE ~(fileIndex < fileCount - 1)
  <2>1. /\ downloads' = Offered
        /\ UNCHANGED <<metaVars, streaming, written, batchDoneChunks, content>>
    BY <1>3, <1>8 DEF Closed
  <2>2. BatchComplete
    BY <1>2, <1>6, <1>8, <2>1 DEF BatchComplete, IsBatchComplete, metaVars
  <2>3. BatchDone
    BY <1>1, <1>5, <2>2 DEF EndTask, BatchDone
  <2>4. QED
    BY <1>1, <1>2, <1>4, <1>5, <1>6, <1>8, <2>1, <2>3 DEF SavesLast
<1>9. QED
  BY <1>7, <1>8

\* Only a file that is not saved yet can fail.
LEMMA FileFailsCases ==
    ASSUME IInv, FileFails
    PROVE  FailsFile
<1>1. (Busy \/ task = "idle") /\ ~Failed /\ chain # <<>>
  BY DEF FileFails, Busy, Failed, IInv, ChainInv
<1>2. ~AllSaved
  <2>1. CASE Busy
    BY <1>1, <2>1, Unsaved DEF IInv, FileInv
  <2>2. ASSUME task = "idle", AllSaved PROVE FALSE
    <3>1. Head(chain) = Wanted /\ OfBatch(files, mode, Head(chain))
      BY <1>1, FirstTask
    <3>2. ~Reading
      BY <1>1, <2>2, Unsaved
    <3>3. Head(chain).file = Len(files)
      BY <2>2, <3>1, <3>2 DEF Wanted, AllSaved, Frame
    <3>4. QED
      BY <3>1, <3>3, Basics DEF OfBatch, IInv
  <2>3. QED
    BY <1>1, <2>1, <2>2
<1>3. /\ Working /\ Fail /\ fault' = TRUE /\ UNCHANGED <<fileVars, refused>>
  BY DEF FileFails, Working
<1>4. /\ refused \in {"none", "metadata", "memory"} /\ metadataReceived \in BOOLEAN
      /\ saveDir \in BOOLEAN /\ streaming \in BOOLEAN
  BY DEF IInv, TypeOK
<1>5. QED
  BY <1>1, <1>2, <1>3, <1>4 DEF FailsFile, fileVars, metaVars, diskVars

\* The steps of the receiver's tasks.
Task == \/ TakesChunk \/ TakesMetadata \/ OpensFile \/ WritesChunk
        \/ SavesAndGoesOn \/ SavesLast \/ FailsFile

Sending == SendMetadata \/ SendChunk

\* The steps that touch neither the frames nor what is saved of them.
Quiet == \/ Encrypted \/ TakePrefetched \/ SendThrows \/ EncryptFails \/ Flush
         \/ WsLost \/ DataChannelLost \/ AckArrives \/ SenderSeesClose \/ ReceiverSeesClose \/ OnClose \/ AfterChain

\* All steps, by what they do to the frames.
LEMMA NextCases ==
    ASSUME IInv, Next
    PROVE  Sending \/ Bind \/ Arrive \/ Task \/ Quiet
<1>1. Receiver => Bind \/ Task
  BY DecryptCases, OpenedCases, WrittenCases, ClosedCases DEF Receiver, Task
<1>2. Faults => Task \/ Quiet
  BY FileFailsCases DEF Faults, Task, Quiet
<1>3. Sender => Sending \/ Quiet
  BY DEF Sender, Sending, Quiet
<1>4. Closing => Quiet
  BY DEF Closing, Quiet
<1>5. QED
  BY <1>1, <1>2, <1>3, <1>4 DEF Next, Quiet

-----------------------------------------------------------------------------
(* The sender                                                                *)

\* The receiver's steps and the network's leave sendOneFile alone.
LEMMA SenderAlone ==
    ASSUME Bind \/ Arrive \/ Task
    PROVE  UNCHANGED <<batchVars, senderVars, sent, linkUp, senderWs>>
  BY DEF Bind, Arrive, Task, TakesChunk, TakesMetadata, OpensFile, WritesChunk,
         SavesAndGoesOn, SavesLast, FailsFile, Working, wsVars

\* What follows the last frame of a file is the metadata of the next one.
LEMMA FileEnds ==
    ASSUME TypeOK, EndFile
    PROVE  /\ file \in 0..LastFile
           /\ at' # "failed"
           /\ prefetch' = Nothing /\ encrypted' = Nothing /\ sealed' = FALSE
           /\ Coming' = Frame(file + 1, META)
           /\ \/ /\ at' = "metadata" /\ next' = 0 /\ file' = file + 1 /\ file < LastFile
                 /\ UNCHANGED <<sent, senderWs>>
              \/ /\ at' = "sent" /\ file' = file /\ file = LastFile /\ next' = Chunks(file)
                 /\ sent' = Settle(sent, "resolved")
                 /\ senderWs' = IF CloseImmediately THEN "closed" ELSE senderWs
<1>1. file \in 0..LastFile /\ LastFile \in Nat
  BY Basics DEF TypeOK
<1>2. prefetch' = Nothing /\ encrypted' = Nothing /\ sealed' = FALSE
  BY DEF EndFile
<1>3. CASE file < LastFile
  <2>1. /\ at' = "metadata" /\ next' = 0 /\ file' = file + 1
        /\ UNCHANGED <<sent, senderWs>>
    BY <1>3 DEF EndFile
  <2>2. QED
    BY <1>1, <1>2, <1>3, <2>1 DEF Coming
<1>4. CASE ~(file < LastFile)
  <2>1. /\ at' = "sent" /\ file' = file /\ next' = Chunks(file)
        /\ sent' = Settle(sent, "resolved")
        /\ senderWs' = IF CloseImmediately THEN "closed" ELSE senderWs
    BY <1>4 DEF EndFile
  <2>2. file = LastFile
    BY <1>1, <1>4
  <2>3. QED
    BY <1>1, <1>2, <2>1, <2>2 DEF Coming
<1>5. QED
  BY <1>3, <1>4

\* A frame that is sent is the one that comes, and makes its successor come.
LEMMA Sends ==
    ASSUME IInv, Sending
    PROVE  /\ wire' = Append(wire, Coming) /\ buffered' = buffered + 1
           /\ OfBatch(files, mode, Coming) /\ Coming \in Frames
           /\ Coming' = After(files, mode, Coming)
           /\ at # "failed" /\ at' # "failed"
           /\ UNCHANGED <<batchVars, linkUp, ack, bound, pending, chain, task,
                          fileVars, received, receiverWs, tail, fault, refused>>
<1>1. TypeOK /\ SenderInv
  BY DEF IInv
<1>2. /\ file \in 0..LastFile /\ next \in 0..Chunks(file) /\ META = -1
      /\ LastFile = Len(files) - 1 /\ Len(files) \in Nat
      /\ Chunks(file) \in Nat /\ Chunks(file) = ChunksOf(files, mode, file)
  BY <1>1, Basics DEF TypeOK, LastFile
<1>3. /\ buffered' = buffered + 1
      /\ UNCHANGED <<batchVars, linkUp, ack, bound, pending, chain, task,
                     fileVars, received, receiverWs, tail, fault, refused>>
  BY DEF Sending, SendMetadata, SendChunk
<1>4. ASSUME NEW k \in META..(Chunks(file) - 1)
      PROVE  /\ OfBatch(files, mode, Frame(file, k)) /\ Frame(file, k) \in Frames
             /\ After(files, mode, Frame(file, k)) =
                    IF k + 1 < Chunks(file) THEN Frame(file, k + 1) ELSE Frame(file + 1, META)
  <2>1. Frame(file, k).file = file /\ Frame(file, k).seq = k
    BY DEF Frame
  <2>2. OfBatch(files, mode, Frame(file, k))
    BY <1>2, <2>1 DEF OfBatch
  <2>3. file \in Nat \cup {META} /\ k \in Nat \cup {META}
    BY <1>2
  <2>4. QED
    BY <1>2, <2>1, <2>2, <2>3 DEF After, Frame, Frames
<1>5. CASE SendMetadata
  <2>1. at = "metadata" /\ Coming = Frame(file, META) /\ wire' = Append(wire, Coming)
    BY <1>5 DEF SendMetadata, Coming
  <2>2. META \in META..(Chunks(file) - 1)
    BY <1>2
  <2>3. CASE Chunks(file) = 0
    <3>1. at' # "failed" /\ Coming' = Frame(file + 1, META)
      BY <1>1, <1>5, <2>3, FileEnds DEF SendMetadata
    <3>2. After(files, mode, Coming) = Frame(file + 1, META)
      BY <1>2, <1>4, <2>1, <2>2, <2>3
    <3>3. QED
      BY <1>3, <1>4, <2>1, <2>2, <3>1, <3>2
  <2>4. CASE Chunks(file) # 0
    <3>1. at' = "prefetch" /\ file' = file /\ next' = 0
      BY <1>1, <1>5, <2>1, <2>4 DEF SendMetadata, SenderInv
    <3>2. Coming' = Frame(file, 0)
      BY <3>1 DEF Coming
    <3>3. After(files, mode, Coming) = Frame(file, 0)
      BY <1>2, <1>4, <2>1, <2>2, <2>4
    <3>4. QED
      BY <1>3, <1>4, <2>1, <2>2, <3>1, <3>2, <3>3
  <2>5. QED
    BY <2>3, <2>4
<1>6. CASE SendChunk
  <2>1. at = "drain" /\ next < Chunks(file) /\ encrypted = Frame(file, next)
    BY <1>1, <1>6 DEF SendChunk, SenderInv
  <2>2. Coming = Frame(file, next) /\ wire' = Append(wire, Coming)
    BY <1>6, <2>1 DEF SendChunk, Coming
  <2>3. next \in META..(Chunks(file) - 1)
    BY <1>2, <2>1
  <2>4. CASE next + 1 = Chunks(file)
    <3>1. at' # "failed" /\ Coming' = Frame(file + 1, META)
      BY <1>1, <1>6, <2>4, FileEnds DEF SendChunk
    <3>2. After(files, mode, Coming) = Frame(file + 1, META)
      BY <1>2, <1>4, <2>2, <2>3, <2>4
    <3>3. QED
      BY <1>3, <1>4, <2>1, <2>2, <2>3, <3>1, <3>2
  <2>5. CASE next + 1 # Chunks(file)
    <3>1. at' = "prefetch" /\ file' = file /\ next' = next + 1
      BY <1>6, <2>5 DEF SendChunk
    <3>2. Coming' = Frame(file, next + 1)
      BY <3>1 DEF Coming
    <3>3. After(files, mode, Coming) = Frame(file, next + 1)
      BY <1>2, <1>4, <2>1, <2>2, <2>3, <2>5
    <3>4. QED
      BY <1>3, <1>4, <2>1, <2>2, <2>3, <3>1, <3>2, <3>3
  <2>6. QED
    BY <2>4, <2>5
<1>7. QED
  BY <1>5, <1>6 DEF Sending

\* The pipeline of sendOneFile keeps its chunks in order.
LEMMA SenderStep ==
    ASSUME IInv, Next
    PROVE  SenderInv'
<1>1. TypeOK /\ SenderInv
  BY DEF IInv
<1>2. /\ file \in 0..LastFile /\ next \in 0..Chunks(file)
      /\ Chunks(file) \in Nat
  BY <1>1, Basics DEF TypeOK
<1>3. ASSUME UNCHANGED batchVars PROVE /\ LastFile' = LastFile
                                       /\ file' = file => Chunks(file)' = Chunks(file)
  BY <1>3 DEF batchVars, LastFile, Chunks, Size
<1>4. CASE UNCHANGED <<batchVars, senderVars>>
  BY <1>1, <1>3, <1>4 DEF senderVars, SenderInv
<1>5. ASSUME EndFile, UNCHANGED batchVars PROVE SenderInv'
  BY <1>1, <1>3, <1>5, FileEnds DEF SenderInv
<1>6. CASE SendMetadata
  <2>1. UNCHANGED batchVars /\ next = 0
    BY <1>1, <1>6 DEF SendMetadata, SenderInv
  <2>2. CASE Chunks(file) # 0
    <3>1. at' = "prefetch" /\ prefetch' = Frame(file, 0) /\ file' = file /\ next' = 0
      BY <1>6, <2>1, <2>2 DEF SendMetadata
    <3>2. QED
      BY <1>2, <1>3, <2>1, <2>2, <3>1 DEF SenderInv
  <2>3. QED
    BY <1>5, <1>6, <2>1, <2>2 DEF SendMetadata
<1>7. CASE SendChunk
  <2>1. /\ UNCHANGED batchVars /\ next < Chunks(file)
        /\ prefetch = IF next + 1 < Chunks(file) THEN Frame(file, next + 1) ELSE Nothing
    BY <1>1, <1>7 DEF SendChunk, SenderInv
  <2>2. CASE next + 1 # Chunks(file)
    <3>1. at' = "prefetch" /\ prefetch' = prefetch /\ file' = file /\ next' = next + 1
      BY <1>7, <2>2 DEF SendChunk
    <3>2. next + 1 < Chunks(file)
      BY <1>2, <2>1, <2>2
    <3>3. QED
      BY <1>3, <2>1, <3>1, <3>2 DEF SenderInv
  <2>3. QED
    BY <1>5, <1>7, <2>1, <2>2 DEF SendChunk
<1>8. CASE TakePrefetched
  <2>1. /\ UNCHANGED <<batchVars, file, next>> /\ at = "prefetch" /\ at' = "drain"
        /\ encrypted' = prefetch
        /\ prefetch' = IF next + 1 < Chunks(file) THEN Frame(file, next + 1) ELSE Nothing
    BY <1>8 DEF TakePrefetched
  <2>2. prefetch = Frame(file, next) /\ next < Chunks(file)
    BY <1>1, <2>1 DEF SenderInv
  <2>3. QED
    BY <1>3, <2>1, <2>2 DEF SenderInv
<1>9. CASE Encrypted
  BY <1>1, <1>3, <1>9 DEF Encrypted, SenderInv
<1>10. CASE SendThrows \/ EncryptFails
  BY <1>3, <1>10 DEF SendThrows, EncryptFails, SenderInv
<1>11. ASSUME Quiet PROVE \/ Encrypted \/ TakePrefetched \/ SendThrows \/ EncryptFails
                          \/ UNCHANGED <<batchVars, senderVars>>
  BY <1>11 DEF Quiet, Flush, WsLost, DataChannelLost, AckArrives, SenderSeesClose,
               ReceiverSeesClose, OnClose, AfterChain
<1>12. QED
  BY <1>4, <1>6, <1>7, <1>8, <1>9, <1>10, <1>11, NextCases, SenderAlone DEF Sending

-----------------------------------------------------------------------------
(* The frames under way                                                      *)

\* Nothing but sending changes the frame that comes.
LEMMA ComingKept ==
    ASSUME Bind \/ Arrive \/ Task \/ Quiet
    PROVE  /\ UNCHANGED batchVars
           /\ at' # "failed" => at # "failed" /\ Coming' = Coming
<1>1. CASE UNCHANGED <<batchVars, senderVars>>
  BY <1>1 DEF senderVars, Coming
<1>2. CASE Encrypted
  BY <1>2 DEF Encrypted, Coming
<1>3. CASE TakePrefetched
  BY <1>3 DEF TakePrefetched, Coming
<1>4. CASE SendThrows \/ EncryptFails
  BY <1>4 DEF SendThrows, EncryptFails
<1>5. ASSUME Quiet PROVE \/ Encrypted \/ TakePrefetched \/ SendThrows \/ EncryptFails
                         \/ UNCHANGED <<batchVars, senderVars>>
  BY <1>5 DEF Quiet, Flush, WsLost, DataChannelLost, AckArrives, SenderSeesClose,
              ReceiverSeesClose, OnClose, AfterChain
<1>6. QED
  BY <1>1, <1>2, <1>3, <1>4, <1>5, SenderAlone

\* A quiet step leaves the frames and the receiver's files alone.
LEMMA QuietFrames ==
    ASSUME Quiet
    PROVE  UNCHANGED <<wire, bound, pending, chain, task, fileVars, refused, text, files, mode>>
  BY DEF Quiet, Encrypted, TakePrefetched, SendThrows, EncryptFails, Flush, WsLost,
         DataChannelLost, AckArrives, SenderSeesClose, ReceiverSeesClose, OnClose,
         AfterChain, batchVars

\* An arrival or the binding of the transport leaves the frames where they are,
\* unless the chain was rejected, which drops them.
LEMMA ArrivesInOrder ==
    ASSUME IInv, Arrive \/ Bind
    PROVE  /\ UNCHANGED <<task, fileVars, refused, fault>>
           /\ ~Failed => stream' = stream
           /\ Failed => stream # <<>> /\ stream' = Tail(stream)
<1>1. /\ queue \in Seq(Frames) /\ wire \in Seq(Frames)
      /\ chain \in Seq(Frames) /\ pending \in Seq(Frames) /\ bound \in BOOLEAN
  BY Basics DEF IInv, TypeOK
<1>2. CASE Bind
  <2>1. /\ ~bound /\ bound' = TRUE /\ chain' = pending /\ wire' = wire
        /\ UNCHANGED <<task, fileVars, refused, fault>>
    BY <1>2 DEF Bind
  <2>2. ~Failed
    BY <2>1 DEF IInv, ChainInv, Failed
  <2>3. QED
    BY <2>1, <2>2 DEF stream, queue
<1>3. CASE Arrive
  <2>1. /\ wire # <<>> /\ wire' = Tail(wire) /\ bound' = bound
        /\ UNCHANGED <<task, fileVars, refused, fault>>
    BY <1>3, ArrivesFromWire DEF Arrive, IInv
  <2>2. CASE ~bound
    <3>1. pending' = Append(pending, Head(wire)) /\ chain' = chain
      BY <1>3, <2>2 DEF Arrive
    <3>2. ~Failed
      BY <2>2 DEF IInv, ChainInv, Failed
    <3>3. stream' = Append(queue, Head(wire)) \o Tail(wire)
      BY <2>1, <2>2, <3>1 DEF stream, queue
    <3>4. QED
      BY <1>1, <2>1, <3>2, <3>3, JoinedArrival DEF stream
  <2>3. CASE bound /\ ~Failed
    <3>1. chain' = Append(chain, Head(wire)) /\ pending' = pending
      BY <1>3, <2>3 DEF Arrive, Failed
    <3>2. stream' = Append(queue, Head(wire)) \o Tail(wire)
      BY <2>1, <2>3, <3>1 DEF stream, queue
    <3>3. QED
      BY <1>1, <2>1, <2>3, <3>2, JoinedArrival DEF stream
  <2>4. CASE bound /\ Failed
    <3>1. chain = <<>> /\ chain' = <<>>
      BY <1>3, <2>4 DEF Arrive, IInv, ChainInv, Failed
    <3>2. <<>> \o wire = wire /\ <<>> \o Tail(wire) = Tail(wire)
      <4>1. /\ Tail(wire) \in Seq(Frames) /\ <<>> \in Seq(Frames)
            /\ Len(<<>>) = 0
        BY <1>1, <2>1, Shortened
      <4>2. \A w \in Seq(Frames) : <<>> \o w = w
        <5> SUFFICES ASSUME NEW w \in Seq(Frames) PROVE <<>> \o w = w
          OBVIOUS
        <5>1. Len(w) \in Nat
          OBVIOUS
        <5>2. QED
          BY <4>1, <5>1, Joined, SameElements
      <4>3. QED
        BY <1>1, <4>1, <4>2
    <3>3. stream = wire /\ stream' = Tail(wire)
      BY <2>1, <2>4, <3>1, <3>2 DEF stream, queue
    <3>4. QED
      BY <2>1, <2>4, <3>3
  <2>5. QED
    BY <2>2, <2>3, <2>4, <1>1
<1>4. QED
  BY <1>2, <1>3

\* A task that goes on leaves the frames alone, one that ends takes its frame
\* away, one that fails takes the whole chain away.
LEMMA TaskFrames ==
    ASSUME IInv, Task
    PROVE  /\ UNCHANGED <<wire, bound, pending, files, mode>>
           /\ chain' = chain => stream' = stream
           /\ TaskDone \/ BatchDone => stream # <<>> /\ stream' = Tail(stream)
           /\ FailsFile => stream' = wire
<1>1. UNCHANGED <<wire, bound, pending, files, mode>>
  BY DEF Task, TakesChunk, TakesMetadata, OpensFile, WritesChunk, SavesAndGoesOn,
         SavesLast, FailsFile, Working, batchVars
<1>2. chain' = chain => stream' = stream
  BY <1>1 DEF stream, queue
<1>3. ASSUME TaskDone \/ BatchDone PROVE stream # <<>> /\ stream' = Tail(stream)
  <2>1. chain # <<>> /\ chain' = Tail(chain)
    BY <1>3 DEF TaskDone, BatchDone
  <2>2. bound /\ stream # <<>> /\ Tail(chain) \o wire = Tail(stream)
    BY <2>1, FirstTask
  <2>3. QED
    BY <1>1, <2>1, <2>2 DEF stream, queue
<1>4. ASSUME FailsFile PROVE stream' = wire
  <2>1. chain' = <<>> /\ bound
    BY <1>4, FirstTask DEF FailsFile, Fail
  <2>2. wire \in Seq(Frames) /\ <<>> \in Seq(Frames) /\ Len(<<>>) = 0 /\ Len(wire) \in Nat
    BY DEF IInv, TypeOK
  <2>3. <<>> \o wire = wire
    BY <2>2, Joined, SameElements
  <2>4. queue' = <<>>
    BY <1>1, <2>1 DEF queue
  <2>5. QED
    BY <1>1, <2>3, <2>4 DEF stream
<1>5. QED
  BY <1>1, <1>2, <1>3, <1>4

\* The frames under way stay a run (enqueue, ws.onmessage, sendOneFile).
LEMMA RunStep ==
    ASSUME IInv, Next
    PROVE  RunInv'
<1>1. /\ stream \in Seq(Frames) /\ queue \in Seq(Frames) /\ wire \in Seq(Frames)
      /\ RunInv
  BY Basics DEF IInv
<1>2. CASE Sending
  <2>1. stream' = Append(stream, Coming) /\ files' = files /\ mode' = mode
    <3>1. wire' = Append(wire, Coming) /\ queue' = queue /\ Coming \in Frames
      BY <1>2, Sends DEF queue
    <3>2. files' = files /\ mode' = mode
      BY <1>2, Sends DEF batchVars
    <3>3. QED
      BY <1>1, <3>1, <3>2, JoinedSend DEF stream
  <2>2. /\ OfBatch(files, mode, Coming) /\ Coming \in Frames /\ at # "failed"
        /\ Coming' = After(files, mode, Coming)
    BY <1>2, Sends
  <2>3. Run(files, mode, Append(stream, Coming))
    BY <1>1, <2>2, RunExtended DEF RunInv
  <2>4. LeadsTo(files, mode, Append(stream, Coming), Coming')
    BY <1>1, <2>2, Appended DEF LeadsTo
  <2>5. QED
    BY <2>1, <2>3, <2>4 DEF RunInv
<1>3. CASE Bind \/ Arrive \/ Task \/ Quiet
  <2>1. /\ files' = files /\ mode' = mode
        /\ at' # "failed" => at # "failed" /\ Coming' = Coming
    BY <1>3, ComingKept DEF batchVars
  <2>2. stream' = stream \/ (stream # <<>> /\ stream' = Tail(stream)) \/ stream' = wire
    <3>1. CASE Quiet
      BY <3>1, QuietFrames DEF stream, queue
    <3>2. CASE Task
      <4>1. ASSUME Continue PROVE chain' = chain
        BY <4>1 DEF Continue
      <4>2. chain' = chain \/ TaskDone \/ BatchDone \/ FailsFile
        BY <3>2, <4>1 DEF Task, TakesChunk, TakesMetadata, OpensFile, WritesChunk,
                          SavesAndGoesOn, SavesLast
      <4>3. QED
        BY <3>2, <4>2, TaskFrames
    <3>3. QED
      BY <1>3, <3>1, <3>2, ArrivesInOrder
  <2>3. CASE stream' = stream
    BY <1>1, <2>1, <2>3 DEF RunInv
  <2>4. CASE stream # <<>> /\ stream' = Tail(stream)
    BY <1>1, <2>1, <2>4, RunShortened DEF RunInv
  <2>5. CASE stream' = wire
    <3>1. Run(files, mode, queue \o wire)
      BY <1>1 DEF RunInv, stream
    <3>2. /\ Run(files, mode, wire)
          /\ at # "failed" => LeadsTo(files, mode, wire, Coming)
      BY <1>1, <3>1, RunDropped DEF RunInv, stream
    <3>3. QED
      BY <2>1, <2>5, <3>2 DEF RunInv
  <2>6. QED
    BY <2>2, <2>3, <2>4, <2>5
<1>4. QED
  BY <1>2, <1>3, NextCases

\* A task that goes on is still about the same frame.
LEMMA WantedKept ==
    ASSUME IInv, Task, chain' = chain, ~Failed'
    PROVE  Wanted' = Wanted
<1>0. chain \in Seq(Frames) /\ META = -1
  BY Basics DEF IInv, TypeOK
<1>1. ~TaskDone /\ ~BatchDone /\ ~FailsFile
  <2>1. chain # <<>> => chain # Tail(chain)
    BY <1>0, Shortened
  <2>2. ~FailsFile
    BY DEF FailsFile, Fail, Failed
  <2>3. QED
    BY <2>1, <2>2 DEF TaskDone, BatchDone
<1>2. CASE TakesChunk
  BY <1>2 DEF TakesChunk, Wanted, Reading, fileVars, metaVars, diskVars
<1>3. CASE TakesMetadata
  BY <1>3 DEF TakesMetadata, Wanted, Reading
<1>4. CASE OpensFile
  <2>1. task = "opening" /\ task' = "closing" /\ Reading /\ ~Failed
        /\ totalChunks = 0 /\ UNCHANGED <<metaVars, saved>>
    BY <1>1, <1>4 DEF OpensFile, Failed
  <2>2. Reading' /\ Len(saved) = fileIndex
    BY <2>1 DEF Reading, metaVars
  <2>3. Wanted = Frame(fileIndex, META)
    BY <2>1, <2>2 DEF Wanted
  <2>4. Wanted' = Frame(fileIndex, totalChunks - 1)
    BY <2>1, <2>2 DEF Wanted, metaVars
  <2>5. QED
    BY <1>0, <2>1, <2>3, <2>4
<1>5. CASE WritesChunk
  <2>1. /\ task = "writing" /\ task' = "closing" /\ Reading /\ Reading'
        /\ totalChunks = currentChunk + 1 /\ totalChunks' = totalChunks
        /\ fileIndex' = fileIndex
    BY <1>1, <1>5 DEF WritesChunk, Reading
  <2>2. currentChunk \in Int
    BY DEF IInv, TypeOK
  <2>3. Wanted = Frame(fileIndex, currentChunk)
    BY <2>1 DEF Wanted
  <2>4. Wanted' = Frame(fileIndex, totalChunks - 1)
    BY <2>1 DEF Wanted
  <2>5. QED
    BY <2>1, <2>2, <2>3, <2>4
<1>6. QED
  BY <1>1, <1>2, <1>3, <1>4, <1>5 DEF Task, SavesAndGoesOn, SavesLast

\* After a task the next frame is wanted.
LEMMA WantedNext ==
    ASSUME IInv, Task, TaskDone \/ BatchDone
    PROVE  Wanted' = After(files, mode, Wanted)
<1>0. ~Failed /\ chain # <<>> /\ chain' = Tail(chain) /\ task' = "idle"
  BY FirstTask DEF TaskDone, BatchDone
<1>1. OpensFile \/ WritesChunk \/ SavesAndGoesOn \/ SavesLast
  <2>1. chain \in Seq(Frames)
    BY DEF IInv, TypeOK
  <2>2. chain # Tail(chain)
    BY <1>0, <2>1, Shortened
  <2>3. QED
    BY <1>0, <2>2 DEF Task, TakesChunk, TakesMetadata, FailsFile, Fail
<1>2. Reading /\ task \in {"opening", "writing", "closing"}
  BY <1>1 DEF OpensFile, WritesChunk, SavesAndGoesOn, SavesLast
<1>3. /\ ReadingInv /\ fileIndex \in 0..LastFile /\ totalChunks \in Nat
      /\ currentChunk \in 0..totalChunks /\ Len(saved) = fileIndex
      /\ totalChunks = ChunksOf(files, mode, fileIndex) /\ META = -1
  BY <1>0, <1>2, Unsaved, Basics DEF IInv, ReadingInv
<1>4. ASSUME NEW k \in META..(totalChunks - 1)
      PROVE  After(files, mode, Frame(fileIndex, k)) =
                IF k + 1 < totalChunks THEN Frame(fileIndex, k + 1)
                ELSE Frame(fileIndex + 1, META)
  BY <1>3 DEF After, Frame
<1>5. CASE OpensFile
  <2>1. /\ task = "opening" /\ totalChunks > 0 /\ currentChunk = 0
        /\ UNCHANGED <<metaVars, saved>>
    BY <1>0, <1>3, <1>5 DEF OpensFile, ReadingInv
  <2>2. Reading' /\ Wanted = Frame(fileIndex, META)
    BY <1>2, <1>3, <2>1 DEF Reading, Wanted, metaVars
  <2>3. Wanted' = Frame(fileIndex, 0)
    BY <1>0, <2>1, <2>2 DEF Wanted, metaVars
  <2>4. META \in META..(totalChunks - 1)
    BY <1>3
  <2>5. QED
    BY <1>3, <1>4, <2>1, <2>2, <2>3, <2>4
<1>6. CASE WritesChunk
  <2>1. /\ task = "writing" /\ currentChunk' = currentChunk + 1
        /\ currentChunk' < totalChunks
        /\ UNCHANGED <<fileIndex, metadataReceived, saved>>
    BY <1>0, <1>6 DEF WritesChunk
  <2>2. Reading' /\ Wanted = Frame(fileIndex, currentChunk)
    BY <1>2, <2>1 DEF Reading, Wanted
  <2>3. Wanted' = Frame(fileIndex, currentChunk + 1)
    BY <1>0, <2>1, <2>2 DEF Wanted
  <2>4. currentChunk \in META..(totalChunks - 1)
    BY <1>3, <2>1
  <2>5. QED
    BY <1>3, <1>4, <2>1, <2>2, <2>3, <2>4
<1>7. CASE SavesAndGoesOn \/ SavesLast
  <2>1. /\ task = "closing" /\ SavesFile /\ UNCHANGED fileIndex
    BY <1>7 DEF SavesAndGoesOn, SavesLast, NextFile, ResetForNextFile, metaVars
  <2>2. Len(saved') = fileIndex + 1
    <3>1. saved \in Seq([file : Nat, chunks : Seq(Nat)])
      BY DEF IInv, TypeOK
    <3>2. QED
      BY <1>3, <2>1, <3>1 DEF SavesFile
  <2>3. ~Reading'
    BY <1>3, <2>1, <2>2 DEF Reading
  <2>4. Wanted' = Frame(fileIndex + 1, META)
    BY <2>2, <2>3 DEF Wanted
  <2>5. Wanted = Frame(fileIndex, totalChunks - 1) /\ totalChunks - 1 \in META..(totalChunks - 1)
    BY <1>2, <1>3, <2>1 DEF Wanted
  <2>6. QED
    BY <1>3, <1>4, <2>4, <2>5
<1>8. QED
  BY <1>1, <1>5, <1>6, <1>7

\* A frame is in the chain or it is kept, and a task that runs is in the chain.
LEMMA ChainStep ==
    ASSUME IInv, Next
    PROVE  ChainInv'
<1>1. ChainInv /\ bound \in BOOLEAN
  BY DEF IInv, TypeOK, ChainInv
<1>2. CASE UNCHANGED <<bound, pending, chain, task>>
  BY <1>1, <1>2 DEF ChainInv, Busy, Failed
<1>3. CASE Bind
  <2>1. ~bound /\ bound' = TRUE /\ pending' = <<>> /\ task' = task
    BY <1>3 DEF Bind
  <2>2. QED
    BY <1>1, <2>1 DEF ChainInv, Busy, Failed
<1>4. CASE Arrive
  <2>1. UNCHANGED <<bound, task>>
    BY <1>4 DEF Arrive
  <2>2. CASE ~bound
    BY <1>1, <1>4, <2>1, <2>2 DEF Arrive, ChainInv, Busy, Failed
  <2>3. CASE bound /\ task = "failed"
    BY <1>1, <1>4, <2>1, <2>3 DEF Arrive, ChainInv, Busy, Failed
  <2>4. CASE bound /\ task # "failed"
    <3>1. chain' = Append(chain, Head(wire)) /\ pending' = pending /\ wire # <<>>
      BY <1>4, <2>4, ArrivesFromWire DEF Arrive, IInv
    <3>2. chain \in Seq(Frames) /\ Head(wire) \in Frames
      BY <3>1, Shortened DEF IInv, TypeOK
    <3>3. chain' # <<>>
      BY <3>1, <3>2, Appended
    <3>4. QED
      BY <1>1, <2>1, <2>4, <3>1, <3>3 DEF ChainInv, Busy, Failed
  <2>5. QED
    BY <1>1, <2>2, <2>3, <2>4
<1>5. CASE Task
  <2>1. UNCHANGED <<bound, pending>> /\ chain # <<>>
    <3>1. Busy => chain # <<>>
      BY <1>1 DEF ChainInv
    <3>2. QED
      BY <1>5, <3>1, TaskFrames
         DEF Task, TakesChunk, TakesMetadata, OpensFile, WritesChunk,
             SavesAndGoesOn, SavesLast, FailsFile, TaskDone, BatchDone, Busy
  <2>2. bound
    BY <1>1, <2>1 DEF ChainInv
  <2>3. \/ task' # "failed" /\ chain' = chain
        \/ task' = "idle"
        \/ task' = "failed" /\ chain' = <<>>
    BY <1>5 DEF Task, TakesChunk, TakesMetadata, OpensFile, WritesChunk, SavesAndGoesOn,
                SavesLast, FailsFile, TaskDone, BatchDone, Continue, Fail
  <2>4. QED
    BY <1>1, <2>1, <2>2, <2>3 DEF ChainInv, Busy, Failed
<1>6. Sending \/ Quiet => UNCHANGED <<bound, pending, chain, task>>
  BY Sends, QuietFrames
<1>7. QED
  BY <1>2, <1>3, <1>4, <1>5, <1>6, NextCases

\* The frames under way start with the one that is wanted (handleReceivedData).
LEMMA FrontStep ==
    ASSUME IInv, Next
    PROVE  FrontInv'
<1> DEFINE Begins(s, c, w, going) ==
        (Len(s) > 0 => s[1] = w) /\ (Len(s) = 0 /\ going => c = w)
<1>1. stream \in Seq(Frames) /\ Len(stream) \in Nat /\ RunInv
  BY Basics DEF IInv
<1>2. ~Failed => Begins(stream, Coming, Wanted, at # "failed")
  BY DEF IInv, FrontInv
<1>3. ASSUME ~Failed' PROVE Begins(stream', Coming', Wanted', at' # "failed")
  <2>1. CASE Sending
    <3>1. /\ wire' = Append(wire, Coming) /\ queue' = queue /\ Coming \in Frames
          /\ at # "failed"
      BY <2>1, Sends DEF queue
    <3>2. stream' = Append(stream, Coming)
      <4>1. queue \in Seq(Frames) /\ wire \in Seq(Frames)
        BY Basics DEF IInv
      <4>2. QED
        BY <3>1, <4>1, JoinedSend DEF stream
    <3>3. Wanted' = Wanted /\ ~Failed
      BY <1>3, <2>1, Sends DEF Wanted, Reading, Failed, fileVars, metaVars, diskVars
    <3>4. Len(stream') > 0 /\ stream'[1] = IF Len(stream) > 0 THEN stream[1] ELSE Coming
      BY <1>1, <3>1, <3>2, Appended
    <3>5. QED
      BY <1>1, <1>2, <3>1, <3>3, <3>4
  <2>2. ASSUME stream' = stream, ~Failed, Wanted' = Wanted,
               at' # "failed" => at # "failed" /\ Coming' = Coming
        PROVE  Begins(stream', Coming', Wanted', at' # "failed")
    BY <1>2, <2>2
  <2>3. CASE Quiet \/ Bind \/ Arrive
    <3>1. UNCHANGED <<task, fileVars>>
      BY <2>3, QuietFrames, ArrivesInOrder
    <3>2. ~Failed /\ Wanted' = Wanted
      BY <1>3, <3>1 DEF Wanted, Reading, Failed, fileVars, metaVars, diskVars
    <3>3. Quiet => stream' = stream
      BY QuietFrames DEF stream, queue
    <3>4. QED
      BY <2>2, <2>3, <3>2, <3>3, ComingKept, ArrivesInOrder
  <2>4. CASE Task
    <3>1. ~FailsFile /\ chain # <<>>
      <4>1. Busy => chain # <<>>
        BY DEF IInv, ChainInv
      <4>2. QED
        BY <1>3, <2>4, <4>1
           DEF Failed, FailsFile, Fail, Task, TakesChunk, TakesMetadata, OpensFile,
               WritesChunk, SavesAndGoesOn, SavesLast, TaskDone, BatchDone, Busy
    <3>2. ~Failed
      BY <3>1, FirstTask
    <3>3. CASE chain' = chain
      BY <1>3, <2>2, <2>4, <3>2, <3>3, ComingKept, TaskFrames, WantedKept
    <3>4. CASE TaskDone \/ BatchDone
      <4>1. stream # <<>> /\ stream' = Tail(stream)
        BY <2>4, <3>4, TaskFrames
      <4>2. Wanted' = After(files, mode, Wanted)
        BY <2>4, <3>4, WantedNext
      <4>3. stream[1] = Wanted
        BY <3>1, FirstTask
      <4>4. at' # "failed" => LeadsTo(files, mode, stream, Coming')
        BY <1>1, <2>4, ComingKept DEF RunInv
      <4>5. /\ Len(Tail(stream)) > 0 => Tail(stream)[1] = After(files, mode, stream[1])
            /\ LeadsTo(files, mode, stream, Coming') /\ Len(Tail(stream)) = 0
                  => Coming' = After(files, mode, stream[1])
        BY <1>1, <4>1, RunShortened DEF RunInv
      <4>6. QED
        BY <4>1, <4>2, <4>3, <4>4, <4>5
    <3>5. chain' = chain \/ TaskDone \/ BatchDone
      BY <2>4, <3>1 DEF Task, TakesChunk, TakesMetadata, OpensFile, WritesChunk,
                        SavesAndGoesOn, SavesLast, Continue
    <3>6. QED
      BY <3>3, <3>4, <3>5
  <2>5. QED
    BY <2>1, <2>3, <2>4, NextCases
<1>4. QED
  BY <1>3 DEF FrontInv

-----------------------------------------------------------------------------
(* The receiver's files                                                      *)

\* Only the receiver's tasks work on its files.
LEMMA OthersKeepFiles ==
    ASSUME IInv, Sending \/ Bind \/ Arrive \/ Quiet
    PROVE  UNCHANGED <<task, fileVars, refused, text, files, mode>>
<1>1. Sending => UNCHANGED <<task, fileVars, refused, text, files, mode>>
  BY Sends DEF batchVars
<1>2. Bind \/ Arrive => UNCHANGED <<task, fileVars, refused, text, files, mode>>
  BY ArrivesInOrder, SenderAlone DEF batchVars
<1>3. QED
  BY <1>1, <1>2, QuietFrames

\* The chunks written so far, in the order of their numbers.
LEMMA ContentGrows ==
    ASSUME NEW n \in Nat, NEW c, c = [k \in 1..n |-> k - 1]
    PROVE  /\ c \in Seq(Nat)
           /\ Append(c, n) = [k \in 1..(n + 1) |-> k - 1]
<1>1. c \in Seq(Nat) /\ Len(c) = n
  OBVIOUS
<1> DEFINE d == [k \in 1..(n + 1) |-> k - 1]
<1>2. d \in Seq(Nat) /\ Len(d) = n + 1 /\ \A k \in 1..(n + 1) : d[k] = k - 1
  OBVIOUS
<1>3. /\ Append(c, n) \in Seq(Nat) /\ Len(Append(c, n)) = n + 1
      /\ \A k \in 1..n : Append(c, n)[k] = k - 1
      /\ Append(c, n)[n + 1] = n
  BY <1>1, Appended
<1> HIDE DEF d
<1>4. \A k \in 1..(n + 1) : Append(c, n)[k] = d[k]
  BY <1>2, <1>3
<1>5. Append(c, n) = d
  BY <1>2, <1>3, <1>4, SameElements
<1>6. QED
  BY <1>1, <1>5 DEF d

\* The next file is begun where the last one ended.
LEMMA FileBegins ==
    ASSUME IInv, TakesMetadata
    PROVE  Reading' /\ ReadingInv'
<1>1. BetweenInv /\ ~Failed
  BY DEF IInv, FileInv, TakesMetadata, Failed
<1>2. /\ fileIndex' = Len(saved) /\ saved' = saved /\ metadataReceived' = TRUE
      /\ fileCount' = Len(files) /\ totalChunks' = Chunks(Len(saved))
      /\ currentChunk' = 0 /\ written' = 0 /\ task' = "opening" /\ content' = content
      /\ files' = files /\ mode' = mode
  BY DEF TakesMetadata, Working, batchVars
<1>3. Reading'
  BY <1>2 DEF Reading
<1>4. Len(saved) \in 0..LastFile
  <2>1. Len(saved) \in Nat
    BY DEF IInv, TypeOK
  <2>2. QED
    BY <1>1, <2>1, Basics DEF IInv, BetweenInv, LastFile
<1>5. Size(Len(saved)) \in Nat /\ mode \in Modes /\ totalChunks' = TotalChunks(Size(Len(saved)), mode)
  BY <1>2, <1>4, Basics DEF IInv, Chunks
<1>6. totalChunks' \in Nat
  BY <1>5, TotalRoundsUp
<1>7. BytesOf(Size(Len(saved)), mode, 0) = 0
  BY <1>5, <1>6, BytesCounted
<1>8. written' = BytesOf(Size(fileIndex), mode, currentChunk)'
  BY <1>2, <1>7 DEF Size
<1>9. content' = [k \in 1..currentChunk' |-> k - 1]
  <2>1. content = <<>>
    BY <1>1 DEF BetweenInv
  <2>2. [k \in 1..0 |-> k - 1] = <<>>
    OBVIOUS
  <2>3. QED
    BY <1>2, <2>1, <2>2
<1>10. totalChunks' = Chunks(fileIndex)'
  BY <1>2 DEF Chunks, Size
<1>11. fileCount' = Len(files')
  BY <1>2
<1>12. QED
  BY <1>2, <1>3, <1>8, <1>9, <1>10, <1>11 DEF ReadingInv

\* The receiver's counters and what it has written fit together (Opened, Written).
LEMMA FileGoesOn ==
    ASSUME IInv, TakesChunk \/ OpensFile \/ WritesChunk
    PROVE  Reading' /\ ReadingInv' /\ ~Failed'
<1>1. Reading /\ ~Failed /\ ReadingInv
  BY DEF TakesChunk, OpensFile, WritesChunk, Failed, IInv, FileInv
<1>2. /\ UNCHANGED <<metadataReceived, fileIndex, saved, fileCount, totalChunks, files, mode>>
  BY DEF TakesChunk, OpensFile, WritesChunk, Working, batchVars, fileVars, metaVars, diskVars
<1>3. /\ Reading' /\ fileCount' = Len(files)' /\ totalChunks' = Chunks(fileIndex)'
      /\ Size(fileIndex)' = Size(fileIndex)
  BY <1>1, <1>2 DEF Reading, ReadingInv, Chunks, Size
<1>4. currentChunk \in Nat /\ totalChunks \in Nat
  BY <1>1, Unsaved
<1>5. CASE TakesChunk \/ OpensFile
  <2>1. UNCHANGED <<content, written, currentChunk>>
    BY <1>5 DEF TakesChunk, OpensFile, fileVars, metaVars, diskVars
  <2>2. /\ content' = [k \in 1..currentChunk' |-> k - 1]
        /\ written' = BytesOf(Size(fileIndex)', mode', currentChunk')
    BY <1>1, <1>2, <1>3, <2>1 DEF ReadingInv
  <2>3. \/ task' = "writing" /\ currentChunk < totalChunks
        \/ task' = "closing" /\ currentChunk = totalChunks
        \/ task' = "idle" /\ currentChunk < totalChunks
    BY <1>1, <1>5 DEF TakesChunk, OpensFile, TaskDone, ReadingInv
  <2>4. QED
    BY <1>2, <1>3, <2>1, <2>2, <2>3 DEF ReadingInv, Failed
<1>6. CASE WritesChunk
  <2>1. /\ currentChunk' = currentChunk + 1
        /\ written' = BytesOf(Size(fileIndex), mode, currentChunk')
        /\ content' = Append(content, currentChunk)
    BY <1>6 DEF WritesChunk
  <2>2. content' = [k \in 1..currentChunk' |-> k - 1]
    BY <1>1, <1>4, <2>1, ContentGrows DEF ReadingInv
  <2>3. written' = BytesOf(Size(fileIndex)', mode', currentChunk')
    BY <1>2, <1>3, <2>1
  <2>4. \/ task' = "closing" /\ currentChunk' = totalChunks
        \/ task' = "idle" /\ currentChunk' < totalChunks
    BY <1>6 DEF WritesChunk, TaskDone
  <2>5. QED
    BY <1>2, <1>3, <2>2, <2>3, <2>4 DEF ReadingInv, Failed
<1>7. QED
  BY <1>5, <1>6

\* What a file that is closed adds to what is saved.
LEMMA FileSaved ==
    ASSUME IInv, SavesAndGoesOn \/ SavesLast
    PROVE  /\ UNCHANGED <<files, mode, text>> /\ task' = "idle"
           /\ saved' = Append(saved, [file |-> fileIndex, chunks |-> content])
           /\ Len(saved') = Len(saved) + 1 /\ Len(saved) = fileIndex
           /\ content = [k \in 1..totalChunks |-> k - 1]
           /\ totalChunks = Chunks(fileIndex) /\ fileIndex \in 0..LastFile
           /\ ~AllSaved
           /\ AllSaved' <=> SavesLast
           /\ currentChunk = totalChunks
<1>1. Reading /\ ~Failed /\ task = "closing"
  BY DEF SavesAndGoesOn, SavesLast, Failed
<1>2. /\ ~AllSaved /\ ReadingInv /\ fileIndex \in 0..LastFile /\ Len(saved) = fileIndex
      /\ LastFile = Len(files) - 1 /\ Len(files) \in Nat
  BY <1>1, Unsaved, Basics DEF IInv, LastFile
<1>3. /\ UNCHANGED <<files, mode, text>> /\ task' = "idle"
      /\ saved' = Append(saved, [file |-> fileIndex, chunks |-> content])
  BY DEF SavesAndGoesOn, SavesLast, Working, batchVars, TaskDone, BatchDone, SavesFile
<1>4. Len(saved') = Len(saved) + 1
  <2>1. saved \in Seq([file : Nat, chunks : Seq(Nat)])
    BY DEF IInv, TypeOK
  <2>2. QED
    BY <1>3, <2>1
<1>5. currentChunk = totalChunks /\ content = [k \in 1..totalChunks |-> k - 1]
  BY <1>1, <1>2 DEF ReadingInv
<1>6. SavesLast => AllSaved'
  BY <1>2, <1>3, <1>4 DEF SavesLast, AllSaved
<1>7. SavesAndGoesOn => ~AllSaved'
  BY <1>2, <1>3, <1>4 DEF SavesAndGoesOn, AllSaved
<1>8. QED
  BY <1>2, <1>3, <1>4, <1>5, <1>6, <1>7 DEF ReadingInv

\* In a file, between two files, or done (finishCurrentFile).
LEMMA FileStep ==
    ASSUME IInv, Next
    PROVE  FileInv'
<1>1. CASE Sending \/ Bind \/ Arrive \/ Quiet
  <2>1. UNCHANGED <<task, fileVars, files, mode>> /\ FileInv
    BY <1>1, OthersKeepFiles DEF IInv
  <2>2. /\ Reading' = Reading /\ BetweenInv' = BetweenInv /\ DoneInv' = DoneInv
        /\ ReadingInv' = ReadingInv /\ Failed' = Failed /\ Busy' = Busy
    BY <2>1 DEF Reading, BetweenInv, DoneInv, ReadingInv, Failed, Busy, AllSaved,
                LastFile, Chunks, Size, fileVars, metaVars, diskVars
  <2>3. QED
    BY <2>1, <2>2 DEF FileInv, fileVars, metaVars
<1>2. CASE TakesMetadata
  BY <1>2, FileBegins DEF FileInv, Reading
<1>3. CASE TakesChunk \/ OpensFile \/ WritesChunk
  BY <1>3, FileGoesOn DEF FileInv, Reading
<1>4. CASE SavesAndGoesOn
  <2>1. /\ task' = "idle" /\ metadataReceived' = FALSE /\ content' = <<>>
        /\ currentChunk' = 0 /\ fileIndex' = fileIndex /\ fileCount' = fileCount
    BY <1>4 DEF SavesAndGoesOn, TaskDone, NextFile, ResetForNextFile
  <2>2. /\ fileIndex < LastFile /\ Reading /\ ~Failed
    BY <1>4 DEF SavesAndGoesOn, Failed
  <2>3. /\ Len(saved') = fileIndex + 1 /\ files' = files /\ fileIndex \in 0..LastFile
    BY <1>4, FileSaved
  <2>4. fileCount = Len(files) /\ LastFile = Len(files) - 1 /\ Len(files) \in Nat
    BY <2>2, Unsaved, Basics DEF IInv, ReadingInv, LastFile
  <2>5. fileIndex' < fileCount' - 1 /\ Len(saved') < Len(files')
    BY <2>1, <2>2, <2>3, <2>4
  <2>6. BetweenInv'
    BY <2>1, <2>5 DEF BetweenInv
  <2>7. QED
    BY <2>1, <2>6 DEF FileInv, Reading, Busy
<1>5. CASE SavesLast
  <2>1. /\ task' = "idle" /\ metadataReceived' = metadataReceived /\ metadataReceived
        /\ fileIndex' = fileIndex /\ fileIndex = LastFile
    BY <1>5 DEF SavesLast, BatchDone, metaVars, Reading
  <2>2. /\ Len(saved') = fileIndex + 1 /\ files' = files /\ AllSaved'
        /\ fileIndex \in 0..LastFile
    BY <1>5, FileSaved
  <2>3. ~Reading'
    BY <2>1, <2>2 DEF Reading
  <2>4. DoneInv'
    BY <2>1, <2>2 DEF DoneInv, LastFile
  <2>5. QED
    BY <2>1, <2>3, <2>4 DEF FileInv, Busy
<1>6. CASE FailsFile
  BY <1>6 DEF FailsFile, Fail, FileInv, Failed
<1>7. QED
  BY <1>1, <1>2, <1>3, <1>4, <1>5, <1>6, NextCases DEF Task

=============================================================================
