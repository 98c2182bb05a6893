------------------------- MODULE TransferProperties -------------------------
(* What FileTransfer is checked to do. *)
EXTENDS FileTransfer

\* A file of the abstract batch is its number of chunks.
InChunks(batch, m) == [i \in DOMAIN batch |-> TotalChunks(batch[i], m)]

\* The files a receiver saves are those of the batch, whole and in order, and it
\* acknowledges the batch only once all of them are saved (app.js:958-1106).
Delivery == INSTANCE BatchDelivery
    WITH Batches <- {InChunks(b, m) : b \in Batches, m \in Modes},
         files <- InChunks(files, mode),
         acked <- ack # "none"

\* The transfer as a whole behaves like BatchDelivery: pipeline, buffering
\* before the transport is bound, the chain of tasks and the reset between two
\* files lose, repeat and reorder no chunk (app.js:795-1106).
ImplementsDelivery == Delivery!Spec

AllSaved == Len(saved) = Len(files)

\* The receiver reports success only for a whole batch, with the one exception
\* the code has: isBatchComplete also holds before the first metadata, so a
\* WebSocket that closes that early counts as success (app.js:328-333, 673).
SuccessMeansSaved ==
    [][(received # "resolved" /\ received' = "resolved")
          => Len(saved') = Len(files) \/ (saved' = <<>> /\ ~metadataReceived')]_vars

\* In relay mode the sender keeps its WebSocket until the receiver has
\* everything: no shutdown of its own cuts a transfer short, and none of the two
\* promises is rejected unless something broke or the receiver refused a file
\* (transfer-policy.js:6-8).
RelayShutdownSafe ==
    mode = "relay" /\ ~fault /\ refused = "none" =>
        /\ senderWs # "open" => AllSaved
        /\ {"rejected", "error"} \cap {sent, received} = {}

\* Backpressure: at most one chunk is handed to the transport above the
\* threshold and still in its buffer; only metadata frames may pile up
\* (app.js:794, 891-900).
DataFrames(w, n) == {k \in DOMAIN w : k > Len(w) - n /\ w[k].seq # META}
Backpressure == Cardinality(DataFrames(wire, buffered)) <= Threshold + 1

\* receiveGlobalChunk, the position of the receiver's progress bar.
Global == batchDoneChunks + currentChunk

\* The receiver's progress never goes back, not even when the counters of a
\* finished file are moved to batchDoneChunks, never exceeds the total that the
\* metadata announces, and reaches it with the last file (app.js:65-90, 928-932).
ProgressHonest ==
    [][/\ Global <= Global'
       /\ Global' <= BatchTotalChunks(files, mode)
       /\ Len(saved') = Len(files) => Global' = BatchTotalChunks(files, mode)]_vars

\* Metadata of a batch that the sender's page let through is refused for one
\* reason only: the chunks of a data channel are smaller, so that a file near
\* the size limit has more of them than a receiver accepts (app.js:16-28,
\* security.js:104-166).
RefusedOnlyForP2pChunks ==
    refused = "metadata" =>
        /\ mode = "p2p"
        /\ \E i \in DOMAIN files : files[i] > MaxChunks * P2pMaxPlaintext

\* When a batch is saved, every file that the receiver holds in memory is offered
\* for download - if the last file of the batch is one of them: the branch that
\* reports success looks at the last file alone (app.js:922-954).
FilesOffered == AllSaved /\ ~streaming => downloads = receivedFiles

\* If nothing breaks and the file fits into the receiver's sinks, a transfer
\* over the relay ends: all files are saved, both promises are resolved and both
\* WebSockets closed (app.js:528-680).
RelayTransferEnds ==
    mode = "relay" ~> \/ fault \/ refused = "memory"
                      \/ /\ AllSaved
                         /\ sent = "resolved" /\ received = "resolved"
                         /\ senderWs = "closed" /\ receiverWs = "done"

\* If nothing breaks and no file is refused, the receiver of a direct transfer
\* saves all files, even though the sender's WebSocket is long closed
\* (app.js:348-420, transfer-policy.js:6-8).
DirectTransferEnds == mode = "p2p" ~> (fault \/ refused # "none" \/ AllSaved)

-----------------------------------------------------------------------------
(* What the repository says and the code does not do.                        *)

\* app.js:670 "chain already reported the error": when onclose returns because
\* the chain was rejected, the receiver's promise was rejected before.
ChainErrorReported == receiverWs = "done" /\ task = "failed" => received # "pending"

\* README.md:69 says the receiver waits for the download: a direct transfer in
\* which nothing breaks is not reported as a failure.
DirectNotRejected ==
    mode = "p2p" /\ ~fault /\ refused = "none" => received # "rejected"

\* security.js:4 "2 GiB per file": a file that the sender's page accepts is one
\* whose metadata the receiver's page accepts.
LimitsAgree == refused # "metadata"

=============================================================================
