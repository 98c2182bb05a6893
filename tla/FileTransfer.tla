---------------------------- MODULE FileTransfer ----------------------------
(***************************************************************************)
(* The transfer of a batch of files between two browsers that share a      *)
(* session key and agree on the transport (src/public/app.js): the         *)
(* sender's pipeline, the transport's buffer, the receiver's chain of      *)
(* tasks, and the shutdown of the two WebSockets.                          *)
(*                                                                         *)
(* A file is its size, a frame is the (file, sequence) pair that its       *)
(* additional authenticated data binds; how sizes become chunks is in      *)
(* TransferLimits.  The transport is reliable and ordered until it breaks. *)
(* The receiver writes a file to disk, if its browser has the pickers and  *)
(* the user answers them, or to memory.  A connection may break, the disk   *)
(* may fail, and so may the reading, encrypting and decrypting of a chunk. *)
(*                                                                         *)
(* Each page runs one event at a time: between two awaits nothing happens. *)
(***************************************************************************)
EXTENDS TransferLimits, SequencesExt

CONSTANTS Batches,    \* the batches of files a user may try to send
          Threshold   \* BACKPRESSURE_THRESHOLD, in frames

ASSUME TransferAssumption ==
    /\ Batches \subseteq Seq(Nat)
    /\ Threshold \in Nat

VARIABLES
    mode,              \* transport.mode
    files,             \* the sender's state.files
    text,              \* metadata.kind is "text"
    pickers,           \* the receiver's window has showDirectoryPicker and showSaveFilePicker
    at,                \* where sendOneFile is
    file,              \* fileIndex in sendAllFiles
    next,              \* i in the loop over the chunks
    prefetch,          \* the chunk that encryptChunk works on
    sealed,            \* that promise is fulfilled
    encrypted,         \* the chunk to be sent next
    sent,              \* the sender's promise: resolveOnce, rejectOnce
    senderWs,          \* the sender's WebSocket
    wire,              \* the frames the transport has taken and not yet delivered
    buffered,          \* bufferedAmount: how many of them, the last, are not yet on the way
    linkUp,            \* the transport delivers
    ack,               \* transfer-ack
    bound,             \* bindReceiverTransport has run
    pending,           \* frames that came before it
    chain,             \* the unfinished tasks of the receiver's chain
    task,              \* where its first task is
    metadataReceived,  \* state._metadataReceived
    fileIndex,         \* state.fileIndex
    fileCount,         \* state.fileCount
    totalChunks,       \* state.totalChunks
    currentChunk,      \* state.currentChunk
    saveDir,           \* state.saveDir is set
    streaming,         \* state.streaming
    written,           \* state.bytesWritten or state.mergeOffset
    batchDoneChunks,   \* state.batchDoneChunks
    receivedFiles,     \* state.receivedFiles
    downloads,         \* the files that showDownloads offers
    content,           \* history: the chunks written to the current file
    saved,             \* history: the files that were finished
    received,          \* the receiver's promise
    receiverWs,        \* the receiver's WebSocket
    tail,              \* how many tasks its onclose handler still awaits
    fault,             \* history: a connection broke or a file failed
    refused            \* history: the limit for which the receiver refused a file

senderVars == <<at, file, next, prefetch, sealed, encrypted>>
batchVars == <<mode, files, text, pickers>>
metaVars == <<metadataReceived, fileIndex, fileCount, totalChunks, currentChunk>>
diskVars == <<saveDir, streaming, written, batchDoneChunks, receivedFiles,
              downloads, content, saved>>
fileVars == <<metaVars, diskVars>>
wsVars == <<senderWs, receiverWs, tail>>
vars == <<batchVars, senderVars, sent, wire, buffered, linkUp, ack, bound, pending,
          chain, task, fileVars, received, wsVars, fault, refused>>

META == -1  \* METADATA_FILE_INDEX, METADATA_AAD_SEQ
Nothing == [file |-> META, seq |-> META]

Frame(i, k) == [file |-> i, seq |-> k]
Size(i) == files[i + 1]
Chunks(i) == TotalChunks(Size(i), mode)
LastFile == Len(files) - 1

Frames == [file : Nat \cup {META}, seq : Nat \cup {META}]
\* "error" is the rejection by the error event of the WebSocket.
Outcomes == {"pending", "resolved", "rejected", "error"}

TypeOK ==
    /\ mode \in Modes
    /\ files \in Batches
    /\ text \in BOOLEAN
    /\ pickers \in BOOLEAN
    /\ at \in {"metadata", "prefetch", "drain", "sent", "failed"}
    /\ file \in 0..LastFile
    /\ next \in 0..Chunks(file)
    /\ prefetch \in Frames
    /\ sealed \in BOOLEAN
    /\ encrypted \in Frames
    /\ sent \in Outcomes
    /\ senderWs \in {"open", "closed"}
    /\ wire \in Seq(Frames)
    /\ buffered \in 0..Len(wire)
    /\ linkUp \in BOOLEAN
    /\ ack \in {"none", "sent", "received"}
    /\ bound \in BOOLEAN
    /\ pending \in Seq(Frames)
    /\ chain \in Seq(Frames)
    /\ task \in {"idle", "opening", "writing", "closing", "failed"}
    /\ metadataReceived \in BOOLEAN
    /\ fileIndex \in 0..LastFile
    /\ fileCount \in 1..Len(files)
    /\ totalChunks \in Nat
    /\ currentChunk \in 0..totalChunks
    /\ saveDir \in BOOLEAN
    /\ streaming \in BOOLEAN
    /\ written \in 0..Size(fileIndex)
    /\ batchDoneChunks \in Nat
    /\ receivedFiles \in Seq(0..LastFile)
    /\ downloads \in Seq(0..LastFile)
    /\ content \in Seq(Nat)
    /\ saved \in Seq([file : Nat, chunks : Seq(Nat)])
    /\ received \in Outcomes
    /\ receiverWs \in {"open", "closed", "awaiting", "done"}
    /\ tail \in Nat
    /\ fault \in BOOLEAN
    /\ refused \in {"none", "metadata", "memory"}

Init ==
    /\ mode \in Modes
    /\ files \in Batches
    /\ text \in BOOLEAN
    /\ Selectable(files)
    /\ text => SelectableText(files)
    /\ pickers \in BOOLEAN
    /\ at = "metadata" /\ file = 0 /\ next = 0
    /\ prefetch = Nothing /\ sealed = FALSE /\ encrypted = Nothing
    /\ sent = "pending" /\ received = "pending"
    /\ senderWs = "open" /\ receiverWs = "open" /\ tail = 0
    /\ wire = <<>> /\ buffered = 0 /\ linkUp = TRUE /\ ack = "none"
    /\ bound = FALSE /\ pending = <<>> /\ chain = <<>> /\ task = "idle"
    /\ metadataReceived = FALSE
    /\ fileIndex = 0 /\ fileCount = 1 /\ totalChunks = 0 /\ currentChunk = 0
    /\ saveDir = FALSE /\ streaming = FALSE /\ written = 0 /\ batchDoneChunks = 0
    /\ receivedFiles = <<>> /\ downloads = <<>>
    /\ content = <<>> /\ saved = <<>>
    /\ fault = FALSE /\ refused = "none"

Settle(promise, outcome) == IF promise = "pending" THEN outcome ELSE promise

-----------------------------------------------------------------------------
(* The sender: sendAllFiles and sendOneFile                                  *)

\* A closed data channel throws.  A closed WebSocket takes the frame, counts it
\* in bufferedAmount for ever, and drops it.
CanSend == mode = "relay" \/ linkUp

\* Mutant: the sender never waits for the acknowledgement.
CloseImmediately_Always == TRUE
\* transfer-policy.js; the receiver ignores the transfer-done of the other case.
CloseImmediately == mode = "p2p"

\* What follows the last frame of a file.
EndFile ==
    /\ encrypted' = Nothing
    /\ prefetch' = Nothing
    /\ sealed' = FALSE
    /\ IF file < LastFile
       THEN /\ file' = file + 1
            /\ next' = 0
            /\ at' = "metadata"
            /\ UNCHANGED <<sent, senderWs>>
       ELSE /\ at' = "sent"
            /\ sent' = Settle(sent, "resolved")
            /\ senderWs' = IF CloseImmediately THEN "closed" ELSE senderWs
            /\ next' = Chunks(file)
            /\ UNCHANGED file

SendMetadata ==
    /\ at = "metadata"
    /\ CanSend
    /\ wire' = Append(wire, Frame(file, META))
    /\ buffered' = buffered + 1
    /\ IF Chunks(file) = 0
       THEN EndFile
       ELSE /\ at' = "prefetch"
            /\ prefetch' = Frame(file, 0)
            /\ UNCHANGED <<file, next, sealed, encrypted, sent, senderWs>>
    /\ UNCHANGED <<batchVars, linkUp, ack, bound, pending, chain, task,
                   fileVars, received, receiverWs, tail, fault, refused>>

\* The worker has encrypted the chunk.
Encrypted ==
    /\ prefetch # Nothing
    /\ ~sealed
    /\ sealed' = TRUE
    /\ UNCHANGED <<batchVars, at, file, next, prefetch, encrypted, sent, wire,
                   buffered, linkUp, ack, bound, pending, chain, task, fileVars,
                   received, wsVars, fault, refused>>

TakePrefetched ==
    /\ at = "prefetch"
    /\ sealed
    /\ encrypted' = prefetch
    /\ prefetch' = IF next + 1 < Chunks(file) THEN Frame(file, next + 1) ELSE Nothing
    /\ sealed' = FALSE
    /\ at' = "drain"
    /\ UNCHANGED <<batchVars, file, next, sent, wire, buffered, linkUp, ack, bound,
                   pending, chain, task, fileVars, received, wsVars, fault, refused>>

\* Mutant: no backpressure.
Drained_Always == TRUE
Drained == buffered <= Threshold

\* The transport puts a frame on its way.
Flush ==
    /\ buffered > 0
    /\ linkUp
    /\ mode = "relay" => senderWs = "open"
    /\ buffered' = buffered - 1
    /\ UNCHANGED <<batchVars, senderVars, sent, wire, linkUp, ack, bound, pending,
                   chain, task, fileVars, received, wsVars, fault, refused>>

SendChunk ==
    /\ at = "drain"
    /\ Drained
    /\ CanSend
    /\ wire' = Append(wire, encrypted)
    /\ buffered' = buffered + 1
    /\ IF next + 1 = Chunks(file)
       THEN EndFile
       ELSE /\ next' = next + 1
            /\ at' = "prefetch"
            /\ encrypted' = Nothing
            /\ UNCHANGED <<file, prefetch, sealed, sent, senderWs>>
    /\ UNCHANGED <<batchVars, linkUp, ack, bound, pending, chain, task,
                   fileVars, received, receiverWs, tail, fault, refused>>

\* The exception rejects the sender's chain, whose last task this is.
SendThrows ==
    /\ at = "metadata" \/ (at = "drain" /\ Drained)
    /\ ~CanSend
    /\ at' = "failed"
    /\ UNCHANGED <<batchVars, file, next, prefetch, sealed, encrypted, sent,
                   wire, buffered, linkUp, ack, bound, pending, chain, task, fileVars,
                   received, wsVars, fault, refused>>

\* The file cannot be read or the worker answers with an error: what awaits the
\* chunk throws.
EncryptFails ==
    /\ at = "metadata" \/ (at = "prefetch" /\ ~sealed)
    /\ at' = "failed"
    /\ prefetch' = Nothing
    /\ fault' = TRUE
    /\ UNCHANGED <<batchVars, file, next, sealed, encrypted, sent, wire, buffered,
                   linkUp, ack, bound, pending, chain, task, fileVars, received,
                   wsVars, refused>>

AckArrives ==
    /\ ack = "sent"
    /\ senderWs = "open"
    /\ ack' = "received"
    /\ senderWs' = "closed"
    /\ UNCHANGED <<batchVars, senderVars, sent, wire, buffered, linkUp, bound, pending,
                   chain, task, fileVars, received, receiverWs, tail, fault, refused>>

-----------------------------------------------------------------------------
(* The receiver's chain                                                      *)

\* isBatchComplete, on the values the state is about to have.
IsBatchComplete(total, current, index, count) ==
    current >= total /\ index >= count - 1

\* Mutant: the index is left out of the test.
BatchComplete_AnyFile == IsBatchComplete(totalChunks', currentChunk', 0, 1)
BatchComplete == IsBatchComplete(totalChunks', currentChunk', fileIndex', fileCount')

\* The onclose handler awaits no more tasks; it goes on before any other event.
Settling == receiverWs = "awaiting" /\ tail = 0

AwaitOne == tail' = IF receiverWs = "awaiting" THEN tail - 1 ELSE tail

\* A rejected chain tells rejectOnce only through the tasks behind the one that
\* failed; onclose, which awaits the chain, returns.
Fail ==
    /\ task' = "failed"
    /\ chain' = <<>>
    /\ received' = IF Len(chain) > 1 THEN Settle(received, "rejected") ELSE received
    /\ receiverWs' = IF receiverWs = "awaiting" THEN "done" ELSE receiverWs
    /\ UNCHANGED <<ack, tail>>

\* The task ends well; the end of the batch is acknowledged over the relay.
EndTask ==
    /\ task' = "idle"
    /\ chain' = Tail(chain)
    /\ AwaitOne
    /\ IF BatchComplete
       THEN /\ received' = Settle(received, "resolved")
            /\ IF mode = "relay" /\ receiverWs = "open"
               THEN ack' = "sent" /\ receiverWs' = "closed"
               ELSE UNCHANGED <<ack, receiverWs>>
       ELSE UNCHANGED <<received, ack, receiverWs>>

\* A message event.  Before the transport is bound the frame is kept.
Arrive ==
    LET f == Head(wire)
    IN  /\ linkUp
        /\ Len(wire) > buffered
        /\ mode = "relay" => receiverWs = "open"
        /\ ~Settling
        /\ wire' = Tail(wire)
        /\ CASE ~bound -> pending' = Append(pending, f) /\ UNCHANGED <<chain, received>>
             [] bound /\ task = "failed" ->
                    /\ received' = Settle(received, "rejected")
                    /\ UNCHANGED <<pending, chain>>
             [] OTHER -> chain' = Append(chain, f) /\ UNCHANGED <<pending, received>>
        /\ UNCHANGED <<batchVars, senderVars, sent, buffered, linkUp, ack, bound,
                       task, fileVars, wsVars, fault, refused>>

\* Mutant: the frames kept are enqueued last come, first served.
Bind_Reversed ==
    /\ ~bound
    /\ ~Settling
    /\ bound' = TRUE
    /\ chain' = Reverse(pending)
    /\ pending' = <<>>
    /\ AwaitOne
    /\ UNCHANGED <<batchVars, senderVars, sent, wire, buffered, linkUp, ack, task,
                   fileVars, received, senderWs, receiverWs, fault, refused>>

\* bindReceiverTransport, the end of the task that ran the negotiation.
Bind ==
    /\ ~bound
    /\ ~Settling
    /\ bound' = TRUE
    /\ chain' = pending
    /\ pending' = <<>>
    /\ AwaitOne
    /\ UNCHANGED <<batchVars, senderVars, sent, wire, buffered, linkUp, ack, task,
                   fileVars, received, senderWs, receiverWs, fault, refused>>

\* Mutant: every chunk is expected to be one of the first file.
Expected_FirstFile(f) ==
    IF metadataReceived THEN f = Frame(0, currentChunk) ELSE f.seq = META
\* What handleReceivedData decrypts with; the metadata of every file is bound to
\* the same pair, whatever the file.
Expected(f) ==
    IF metadataReceived THEN f = Frame(fileIndex, currentChunk) ELSE f.seq = META

Continue == UNCHANGED <<chain, received, ack, receiverWs, tail>>

\* wasmDecrypt answers.
Decrypt ==
    LET f == Head(chain)
        m == Metadata(files, mode, f.file)
    IN  /\ chain # <<>>
        /\ task = "idle"
        /\ ~Settling
        /\ IF ~Expected(f)
           THEN Fail /\ UNCHANGED <<metaVars, written, refused>>
           ELSE IF metadataReceived
           THEN task' = "writing" /\ Continue /\ UNCHANGED <<metaVars, written, refused>>
           ELSE /\ metadataReceived' = TRUE
                /\ IF ValidMetadata(m)
                   THEN /\ fileIndex' = m.fileIndex
                        /\ fileCount' = m.fileCount
                        /\ totalChunks' = m.chunks
                        /\ currentChunk' = 0
                        /\ written' = 0
                        /\ task' = "opening"
                        /\ Continue
                        /\ UNCHANGED refused
                   ELSE /\ refused' = "metadata"
                        /\ Fail
                        /\ UNCHANGED <<fileIndex, fileCount, totalChunks,
                                       currentChunk, written>>
        /\ UNCHANGED <<batchVars, senderVars, sent, wire, buffered, linkUp, bound, pending,
                       saveDir, streaming, batchDoneChunks, receivedFiles,
                       downloads, content, saved, senderWs, fault>>

\* What becomes of saveDir and streaming: a text goes to memory; a directory is
\* asked for with the first of several files; a picker that throws anything but
\* AbortError is passed over.
Sinks ==
    IF text \/ ~pickers THEN {<<FALSE, FALSE>>}
    ELSE IF saveDir THEN {<<TRUE, TRUE>>}
    ELSE {<<FALSE, TRUE>>, <<FALSE, FALSE>>}
            \cup (IF fileIndex = 0 /\ fileCount > 1 THEN {<<TRUE, TRUE>>} ELSE {})

\* The pickers and createWritable; an empty file is finished at once.
Opened ==
    /\ task = "opening"
    /\ \E sink \in Sinks : saveDir' = sink[1] /\ streaming' = sink[2]
    /\ IF ~streaming' /\ Size(fileIndex) > MaxInMemory
       THEN refused' = "memory" /\ Fail /\ UNCHANGED metaVars
       ELSE /\ UNCHANGED <<refused, metaVars>>
            /\ IF totalChunks = 0 THEN task' = "closing" /\ Continue ELSE EndTask
    /\ UNCHANGED <<batchVars, senderVars, sent, wire, buffered, linkUp, bound, pending,
                   written, batchDoneChunks, receivedFiles, downloads, content,
                   saved, senderWs, fault>>

\* The frame's plaintext is counted, then written.
Written ==
    LET k == Head(chain).seq
        w == written + ChunkBytes(Size(fileIndex), mode, k)
    IN  /\ task = "writing"
        /\ UNCHANGED <<metadataReceived, fileIndex, fileCount, totalChunks>>
        /\ IF w > Size(fileIndex)
           THEN Fail /\ UNCHANGED <<currentChunk, written, content>>
           ELSE /\ written' = w
                /\ content' = Append(content, k)
                /\ currentChunk' = currentChunk + 1
                /\ IF currentChunk' >= totalChunks
                   THEN task' = "closing" /\ Continue
                   ELSE EndTask
        /\ UNCHANGED <<batchVars, senderVars, sent, wire, buffered, linkUp, bound, pending,
                       saveDir, streaming, batchDoneChunks, receivedFiles,
                       downloads, saved, senderWs, fault, refused>>

\* Mutant: the chunk counter goes on.
ResetForNextFile_KeepsChunk ==
    /\ metadataReceived' = FALSE
    /\ totalChunks' = 0
    /\ content' = <<>>
    /\ written' = 0
    /\ streaming' = FALSE
    /\ UNCHANGED <<fileIndex, fileCount, currentChunk>>
\* The file index stays that of the file that was finished.
ResetForNextFile ==
    /\ metadataReceived' = FALSE
    /\ currentChunk' = 0
    /\ totalChunks' = 0
    /\ content' = <<>>
    /\ written' = 0
    /\ streaming' = FALSE
    /\ UNCHANGED <<fileIndex, fileCount>>

\* Mutant: the chunks of a finished file are not counted.
NextFile_NotCounted == ResetForNextFile /\ UNCHANGED batchDoneChunks
NextFile == ResetForNextFile /\ batchDoneChunks' = batchDoneChunks + totalChunks

\* Mutant: the links are shown before the last file is among them.
Offered_Early == IF text \/ streaming THEN downloads ELSE receivedFiles
\* showDownloads only runs if the last file went to memory.
Offered == IF text \/ streaming THEN downloads ELSE receivedFiles'

\* finishCurrentFile: the size check, close, and the reset between two files.
Closed ==
    /\ task = "closing"
    /\ IF written # Size(fileIndex)
       THEN Fail /\ UNCHANGED fileVars
       ELSE /\ saved' = Append(saved, [file |-> fileIndex, chunks |-> content])
            /\ receivedFiles' = IF text \/ streaming THEN receivedFiles
                                ELSE Append(receivedFiles, fileIndex)
            /\ UNCHANGED saveDir
            /\ IF fileIndex < fileCount - 1
               THEN NextFile /\ UNCHANGED downloads
               ELSE /\ downloads' = Offered
                    /\ UNCHANGED <<metaVars, streaming, written, batchDoneChunks, content>>
            /\ EndTask
    /\ UNCHANGED <<batchVars, senderVars, sent, wire, buffered, linkUp, bound, pending,
                   senderWs, fault, refused>>

\* The worker answers with an error, a picker is cancelled, the directory is not
\* writable, the disk is full.
FileFails ==
    /\ \/ task = "idle" /\ chain # <<>> /\ ~Settling
       \/ task = "opening" /\ pickers /\ ~text
       \/ task \in {"writing", "closing"} /\ streaming
    /\ Fail
    /\ fault' = TRUE
    /\ UNCHANGED <<batchVars, senderVars, sent, wire, buffered, linkUp, bound, pending,
                   fileVars, senderWs, refused>>

-----------------------------------------------------------------------------
(* The WebSockets and the data channel                                       *)

\* Both WebSockets break, with or without an error event.
WsLost ==
    /\ senderWs = "open"
    /\ receiverWs = "open"
    /\ senderWs' = "closed"
    /\ receiverWs' = "closed"
    /\ sent' \in {sent, Settle(sent, "error")}
    /\ received' \in {received, Settle(received, "error")}
    /\ linkUp' = (linkUp /\ mode = "p2p")
    /\ fault' = TRUE
    /\ UNCHANGED <<batchVars, senderVars, wire, buffered, ack, bound, pending,
                   chain, task, fileVars, tail, refused>>

DataChannelLost ==
    /\ mode = "p2p"
    /\ linkUp
    /\ linkUp' = FALSE
    /\ fault' = TRUE
    /\ UNCHANGED <<batchVars, senderVars, sent, wire, buffered, ack, bound,
                   pending, chain, task, fileVars, received, wsVars, refused>>

\* The relay closes the other connection of the pair.  The sender's onclose
\* awaits sendAllFiles and then finds its promise settled or its chain rejected.
SenderSeesClose ==
    /\ receiverWs # "open"
    /\ senderWs = "open"
    /\ senderWs' = "closed"
    /\ UNCHANGED <<batchVars, senderVars, sent, wire, buffered, linkUp, ack, bound,
                   pending, chain, task, fileVars, received, receiverWs, tail,
                   fault, refused>>

\* The same at the receiver, whose WebSocket may report an error first.
ReceiverSeesClose ==
    /\ senderWs # "open"
    /\ receiverWs = "open"
    /\ receiverWs' = "closed"
    /\ received' \in {received, Settle(received, "error")}
    /\ UNCHANGED <<batchVars, senderVars, sent, wire, buffered, linkUp, ack, bound,
                   pending, chain, task, fileVars, senderWs, tail, fault, refused>>

\* Mutant: onclose does not await the chain.
OnClose_NoAwait ==
    /\ receiverWs = "closed"
    /\ receiverWs' = "awaiting"
    /\ tail' = 0
    /\ UNCHANGED <<batchVars, senderVars, sent, wire, buffered, linkUp, ack, bound,
                   pending, chain, task, fileVars, received, senderWs, fault, refused>>

\* ws.onclose of the receiver, up to "await chain" ...
OnClose ==
    /\ receiverWs = "closed"
    /\ IF task = "failed"
       THEN receiverWs' = "done" /\ UNCHANGED tail
       ELSE /\ receiverWs' = "awaiting"
            /\ tail' = Len(chain) + (IF bound THEN 0 ELSE 1)
    /\ UNCHANGED <<batchVars, senderVars, sent, wire, buffered, linkUp, ack, bound,
                   pending, chain, task, fileVars, received, senderWs, fault, refused>>

\* ... and what follows it.
AfterChain ==
    /\ Settling
    /\ receiverWs' = "done"
    /\ received' = Settle(received,
                          IF IsBatchComplete(totalChunks, currentChunk, fileIndex, fileCount)
                          THEN "resolved" ELSE "rejected")
    /\ UNCHANGED <<batchVars, senderVars, sent, wire, buffered, linkUp, ack, bound,
                   pending, chain, task, fileVars, senderWs, tail, fault, refused>>

-----------------------------------------------------------------------------

Sender == SendMetadata \/ Encrypted \/ TakePrefetched \/ SendChunk \/ SendThrows
Receiver == Bind \/ Decrypt \/ Opened \/ Written \/ Closed
Faults == EncryptFails \/ FileFails \/ WsLost \/ DataChannelLost
Closing == AckArrives \/ SenderSeesClose \/ ReceiverSeesClose \/ OnClose \/ AfterChain

Next == Sender \/ Flush \/ Receiver \/ Arrive \/ Faults \/ Closing

Spec == Init /\ [][Next]_vars

\* The worker answers, the network delivers what it has and the pickers are
\* answered; nothing obliges a fault to happen.
Fairness ==
    /\ WF_vars(SendMetadata \/ TakePrefetched \/ SendChunk \/ SendThrows)
    /\ WF_vars(Encrypted)
    /\ WF_vars(Flush)
    /\ WF_vars(Arrive)
    /\ WF_vars(Receiver)
    /\ WF_vars(Closing)

FairSpec == Spec /\ Fairness

=============================================================================
