--------------------------- MODULE TransferLimits ---------------------------
(***************************************************************************)
(* The arithmetic of a batch: what a sender may select                     *)
(* (src/public/security.js), how a file is cut into chunks for each kind   *)
(* of transport (src/public/app.js), and which metadata a receiver takes.  *)
(* Sizes are numbers of bytes.                                             *)
(***************************************************************************)
EXTENDS Integers, Sequences, Functions

CONSTANTS MaxFileBytes,     \* MAX_FILE_BYTES
          MaxBatchBytes,    \* MAX_BATCH_BYTES
          MaxInMemory,      \* MAX_IN_MEMORY_RECEIVE_BYTES
          MaxTextBytes,     \* MAX_TEXT_BYTES
          MaxChunks,        \* MAX_CHUNKS
          MaxFileCount,     \* MAX_FILE_COUNT
          ChunkSize,        \* CHUNK_SIZE
          P2pMaxPlaintext   \* P2P_MAX_PLAINTEXT

\* 2 GiB is exactly MAX_CHUNKS chunks of 256 KiB, and a text is kept in memory.
ASSUME LimitsAssumption ==
    /\ {MaxFileBytes, MaxBatchBytes, MaxInMemory, MaxTextBytes, MaxChunks,
        MaxFileCount, ChunkSize, P2pMaxPlaintext} \subseteq Nat \ {0}
    /\ MaxFileBytes <= MaxChunks * ChunkSize
    /\ MaxTextBytes <= MaxInMemory

Modes == {"relay", "p2p"}

SmallerOf(a, b) == IF a <= b THEN a ELSE b

EffectiveChunkSize(mode) ==
    IF mode = "p2p" THEN SmallerOf(ChunkSize, P2pMaxPlaintext) ELSE ChunkSize

\* totalChunksForFile
TotalChunks(size, mode) ==
    (size + EffectiveChunkSize(mode) - 1) \div EffectiveChunkSize(mode)

\* What readChunk(k) reads.
ChunkBytes(size, mode, k) ==
    SmallerOf((k + 1) * EffectiveChunkSize(mode), size) - k * EffectiveChunkSize(mode)

BatchTotalChunks(files, mode) ==
    SumFunction([i \in DOMAIN files |-> TotalChunks(files[i], mode)])

\* Mutant: the size of a file is not looked at.
Selectable_AnySize(files) ==
    /\ Len(files) \in 1..MaxFileCount
    /\ SumFunction(files) <= MaxBatchBytes
\* validateSendFiles
Selectable(files) ==
    /\ Len(files) \in 1..MaxFileCount
    /\ \A i \in DOMAIN files : files[i] <= MaxFileBytes
    /\ SumFunction(files) <= MaxBatchBytes

\* prepareTextFile: a text is a batch of one file.
SelectableText(files) ==
    /\ Len(files) = 1
    /\ files[1] \in 1..MaxTextBytes

\* What sendOneFile says of file i of a batch.
Metadata(files, mode, i) ==
    [size             |-> files[i + 1],
     chunks           |-> TotalChunks(files[i + 1], mode),
     fileIndex        |-> i,
     fileCount        |-> Len(files),
     batchTotalChunks |-> BatchTotalChunks(files, mode)]

\* validateMetadata
ValidMetadata(m) ==
    /\ m.fileCount <= MaxFileCount
    /\ m.fileIndex < m.fileCount
    /\ m.chunks <= MaxChunks
    /\ m.size <= MaxFileBytes
    /\ m.batchTotalChunks <= MaxChunks * MaxFileCount
    /\ m.size > 0 => m.chunks > 0

=============================================================================
