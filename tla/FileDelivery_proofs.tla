------------------------- MODULE FileDelivery_proofs -------------------------
(***************************************************************************)
(* What follows from the frames being in order: nothing is acknowledged    *)
(* early, the relay transfer is not cut short, and the pages deliver the   *)
(* batch of BatchDelivery, for any batch, limits and threshold.            *)
(***************************************************************************)
EXTENDS FileTransfer_proofs, FiniteSetTheorems

-----------------------------------------------------------------------------
(* Acknowledgement and shutdown                                              *)

\* What a task does to the promise, the acknowledgement and the WebSocket.
LEMMA TaskEffects ==
    ASSUME IInv, Task
    PROVE  /\ chain # <<>> /\ ~Failed
           /\ UNCHANGED <<mode, text, files, sent, senderWs>>
           /\ ~SavesAndGoesOn /\ ~SavesLast => saved' = saved
           /\ ~SavesLast /\ ~FailsFile => UNCHANGED <<received, ack, receiverWs, fault, refused>>
           /\ ~FailsFile => UNCHANGED <<fault, refused>> /\ ~Failed'
           /\ tail' = tail \/ (~Busy' /\ AwaitOne)
<1>1. chain # <<>> /\ ~Failed
  <2>1. Busy => chain # <<>>
    BY DEF IInv, ChainInv
  <2>2. chain # <<>>
    BY <2>1 DEF Task, TakesChunk, TakesMetadata, OpensFile, WritesChunk, SavesAndGoesOn,
                SavesLast, FailsFile, TaskDone, BatchDone, Busy
  <2>3. QED
    BY <2>2, FirstTask
<1>2. UNCHANGED <<mode, text, files, sent, senderWs>>
  BY DEF Task, TakesChunk, TakesMetadata, OpensFile, WritesChunk, SavesAndGoesOn,
         SavesLast, FailsFile, Working, batchVars
<1>3. ~SavesAndGoesOn /\ ~SavesLast => saved' = saved
  BY DEF Task, TakesChunk, TakesMetadata, OpensFile, WritesChunk, FailsFile,
         fileVars, diskVars
<1>4. ~SavesLast /\ ~FailsFile => UNCHANGED <<received, ack, receiverWs, fault, refused>>
  BY DEF Task, TakesChunk, TakesMetadata, OpensFile, WritesChunk, SavesAndGoesOn,
         SavesFile, TaskDone, Continue
<1>5. ~FailsFile => UNCHANGED <<fault, refused>> /\ ~Failed'
  BY DEF Task, TakesChunk, TakesMetadata, OpensFile, WritesChunk, SavesAndGoesOn,
         SavesLast, SavesFile, TaskDone, BatchDone, Failed
<1>6. tail' = tail \/ (~Busy' /\ AwaitOne)
  BY DEF Task, TakesChunk, TakesMetadata, OpensFile, WritesChunk, SavesAndGoesOn,
         SavesLast, FailsFile, Fail, TaskDone, BatchDone, Continue, Busy
<1>7. QED
  BY <1>1, <1>2, <1>3, <1>4, <1>5, <1>6

\* onclose goes on when the tasks it awaits are over, and not before.
LEMMA CloseStep ==
    ASSUME IInv, Next
    PROVE  CloseInv'
<1>1. CloseInv /\ tail \in Nat /\ bound \in BOOLEAN /\ chain \in Seq(Frames)
  BY DEF IInv, TypeOK
<1>2. CASE UNCHANGED <<receiverWs, task, tail>>
  BY <1>1, <1>2 DEF CloseInv, Failed, Busy
<1>3. CASE Sending
  BY <1>2, <1>3, Sends
<1>4. CASE Bind
  <2>1. ~bound /\ task' = task /\ receiverWs' = receiverWs
    BY <1>4 DEF Bind
  <2>2. task = "idle"
    BY <2>1 DEF IInv, ChainInv
  <2>3. QED
    BY <2>1, <2>2 DEF CloseInv, Failed, Busy
<1>5. CASE Arrive
  BY <1>2, <1>5 DEF Arrive, wsVars
<1>6. CASE Task
  <2>1. CASE FailsFile
    BY <2>1 DEF FailsFile, Fail, CloseInv
  <2>2. CASE ~FailsFile
    <3>1. ~Failed'
      BY <1>6, <2>2, TaskEffects
    <3>2. receiverWs' = "awaiting" => receiverWs = "awaiting"
      BY <1>6, <2>2, TaskEffects DEF SavesLast, BatchDone
    <3>3. ASSUME receiverWs' = "awaiting", Busy' PROVE tail' > 0
      <4>1. tail' = tail
        BY <1>6, <3>3, TaskEffects
      <4>2. CASE Busy
        BY <1>1, <3>2, <3>3, <4>1, <4>2 DEF CloseInv
      <4>3. CASE ~Busy
        <5>1. ~Settling
          BY <1>6, <3>3, <4>3
             DEF Task, TakesChunk, TakesMetadata, OpensFile, WritesChunk, SavesAndGoesOn,
                 SavesLast, FailsFile, Fail, TaskDone, BatchDone, Busy
        <5>2. QED
          BY <1>1, <3>2, <3>3, <4>1, <5>1 DEF Settling
      <4>4. QED
        BY <4>2, <4>3
    <3>4. QED
      BY <3>1, <3>3 DEF CloseInv
  <2>3. QED
    BY <2>1, <2>2
<1>7. CASE OnClose
  <2>1. CASE task = "failed"
    BY <1>7, <2>1 DEF OnClose, CloseInv
  <2>2. CASE task # "failed"
    <3>1. /\ tail' = Len(chain) + (IF bound THEN 0 ELSE 1) /\ task' = task
      BY <1>7, <2>2 DEF OnClose
    <3>2. Busy => chain # <<>> /\ Len(chain) > 0
      BY <1>1 DEF IInv, ChainInv
    <3>3. Busy' => Busy
      BY <3>1 DEF Busy
    <3>4. Busy => tail' > 0
      BY <1>1, <3>1, <3>2
    <3>5. QED
      BY <2>2, <3>1, <3>3, <3>4 DEF CloseInv, Failed
  <2>3. QED
    BY <2>1, <2>2
<1>8. CASE WsLost \/ ReceiverSeesClose \/ AfterChain
  BY <1>8 DEF WsLost, ReceiverSeesClose, AfterChain, CloseInv
<1>9. CASE Encrypted \/ TakePrefetched \/ SendThrows \/ EncryptFails \/ Flush
           \/ DataChannelLost \/ AckArrives \/ SenderSeesClose
  BY <1>2, <1>9 DEF Encrypted, TakePrefetched, SendThrows, EncryptFails, Flush,
                    DataChannelLost, AckArrives, SenderSeesClose, wsVars
<1>10. QED
  BY <1>3, <1>4, <1>5, <1>6, <1>7, <1>8, <1>9, NextCases DEF Quiet

\* What is saved and acknowledged stays so, and a promise is settled once.
LEMMA QuietEffects ==
    ASSUME Quiet
    PROVE  /\ received' \in {received} \cup
                  {Settle(received, o) : o \in {"resolved", "rejected", "error"}}
           /\ ack' = ack \/ (ack = "sent" /\ ack' = "received")
           /\ fault' = fault \/ fault' = TRUE
  BY DEF Quiet, Encrypted, TakePrefetched, SendThrows, EncryptFails, Flush, WsLost,
         DataChannelLost, AckArrives, SenderSeesClose, ReceiverSeesClose, OnClose, AfterChain, Settle, wsVars

\* Nothing is acknowledged before everything is saved (EndTask).
LEMMA AckStep ==
    ASSUME IInv, Next
    PROVE  AckInv'
<1>1. AckInv
  BY DEF IInv
<1>2. ASSUME saved' = saved, files' = files,
             received # "pending" => received' # "pending",
             ack' # "none" => ack # "none"
      PROVE  AckInv'
  BY <1>1, <1>2 DEF AckInv, AllSaved
<1>3. CASE Sending
  BY <1>2, <1>3, Sends DEF batchVars, fileVars, diskVars
<1>4. CASE Bind
  BY <1>2, <1>4 DEF Bind, batchVars, fileVars, diskVars
<1>5. CASE Arrive
  BY <1>2, <1>5 DEF Arrive, Settle, batchVars, fileVars, diskVars
<1>6. CASE Quiet
  <2>1. saved' = saved /\ files' = files
    BY <1>6, QuietFrames DEF fileVars, diskVars
  <2>2. received # "pending" => received' # "pending"
    BY <1>6, QuietEffects DEF Settle
  <2>3. QED
    BY <1>2, <1>6, <2>1, <2>2, QuietEffects
<1>7. CASE SavesLast
  <2>1. AllSaved' /\ received' = Settle(received, "resolved")
    BY <1>7, FileSaved DEF SavesLast, BatchDone
  <2>2. QED
    BY <2>1 DEF AckInv, Settle
<1>8. CASE SavesAndGoesOn
  <2>1. ~AllSaved /\ ~AllSaved' /\ ack' = ack
    BY <1>8, FileSaved, TaskEffects DEF Task, SavesAndGoesOn, TaskDone, SavesLast
  <2>2. QED
    BY <1>1, <2>1 DEF AckInv
<1>9. CASE FailsFile
  <2>1. ~AllSaved /\ saved' = saved /\ files' = files /\ ack' = ack
    BY <1>9 DEF FailsFile, Fail, Working, batchVars
  <2>2. QED
    BY <1>1, <2>1 DEF AckInv, AllSaved
<1>10. CASE TakesChunk \/ TakesMetadata \/ OpensFile \/ WritesChunk
  BY <1>2, <1>10 DEF TakesChunk, TakesMetadata, OpensFile, WritesChunk, TaskDone,
                     Continue, Working, batchVars, fileVars, diskVars
<1>11. QED
  BY <1>3, <1>4, <1>5, <1>6, <1>7, <1>8, <1>9, <1>10, NextCases DEF Task

\* Sending closes the WebSocket of a direct transfer only (shouldCloseImmediately).
LEMMA SendingShutsDown ==
    ASSUME IInv, Sending
    PROVE  /\ sent' \in {sent, Settle(sent, "resolved")}
           /\ senderWs' = senderWs \/ (senderWs' = "closed" /\ mode = "p2p")
<1>1. ASSUME EndFile
      PROVE  /\ sent' \in {sent, Settle(sent, "resolved")}
             /\ senderWs' = senderWs \/ (senderWs' = "closed" /\ mode = "p2p")
  BY <1>1 DEF EndFile, CloseImmediately
<1>2. QED
  BY <1>1 DEF Sending, SendMetadata, SendChunk

\* Over the relay only a fault shuts a transfer down before its end.
LEMMA ShutdownStep ==
    ASSUME IInv, Next
    PROVE  ShutdownInv'
<1> SUFFICES ASSUME mode' = "relay", ~fault', refused' = "none"
             PROVE  /\ senderWs' # "open" \/ receiverWs' # "open" => AllSaved'
                    /\ {"rejected", "error"} \cap {sent', received'} = {}
                    /\ ~Failed'
  BY DEF ShutdownInv
<1> DEFINE Good == /\ senderWs # "open" \/ receiverWs # "open" => AllSaved
                   /\ sent \notin {"rejected", "error"} /\ received \notin {"rejected", "error"}
                   /\ ~Failed
<1>1. ASSUME mode = "relay", ~fault, refused = "none" PROVE Good
  BY <1>1 DEF IInv, ShutdownInv
<1>2. /\ AllSaved => received # "pending"
      /\ ack # "none" => AllSaved
  BY DEF IInv, AckInv
<1> HIDE DEF Good
<1>3. ASSUME Good, UNCHANGED <<senderWs, receiverWs, saved, files, sent, received, task>>
      PROVE  Good'
  BY <1>3 DEF Good, AllSaved, Failed
<1>4. Good' => /\ senderWs' # "open" \/ receiverWs' # "open" => AllSaved'
               /\ {"rejected", "error"} \cap {sent', received'} = {}
               /\ ~Failed'
  BY DEF Good
<1>5. CASE Sending
  <2>1. /\ mode' = mode /\ fault' = fault /\ refused' = refused
        /\ UNCHANGED <<receiverWs, saved, files, received, task>>
    BY <1>5, Sends DEF batchVars, fileVars, diskVars
  <2>2. Good
    BY <1>1, <2>1
  <2>3. senderWs' = senderWs /\ sent' \notin {"rejected", "error"}
    BY <1>5, <2>1, <2>2, SendingShutsDown DEF Settle, Good
  <2>4. QED
    BY <1>4, <2>1, <2>2, <2>3 DEF Good, AllSaved, Failed
<1>6. CASE Bind
  <2>1. UNCHANGED <<mode, fault, refused, senderWs, receiverWs, saved, files, sent, received, task>>
    BY <1>6 DEF Bind, batchVars, fileVars, diskVars
  <2>2. QED
    BY <1>1, <1>3, <1>4, <2>1
<1>7. CASE Arrive
  <2>1. UNCHANGED <<mode, fault, refused, senderWs, receiverWs, saved, files, sent, task>>
    BY <1>7 DEF Arrive, batchVars, fileVars, diskVars, wsVars
  <2>2. Good
    BY <1>1, <2>1
  <2>3. received' = received
    BY <1>7, <2>2 DEF Arrive, Good, Failed
  <2>4. QED
    BY <1>3, <1>4, <2>1, <2>2, <2>3
<1>8. CASE Task
  <2>1. ~FailsFile
    BY DEF FailsFile
  <2>2. /\ UNCHANGED <<mode, fault, refused, sent, senderWs, files>> /\ ~Failed'
    BY <1>8, <2>1, TaskEffects
  <2>3. Good
    BY <1>1, <2>2
  <2>4. CASE SavesLast
    <3>1. AllSaved' /\ received' = Settle(received, "resolved")
      BY <2>4, FileSaved DEF SavesLast, BatchDone
    <3>2. QED
      BY <1>4, <2>2, <2>3, <3>1 DEF Good, Settle
  <2>5. CASE ~SavesLast
    <3>1. UNCHANGED <<received, receiverWs>>
      BY <1>8, <2>1, <2>5, TaskEffects
    <3>2. AllSaved => AllSaved'
      BY <1>8, <2>2, <2>5, FileSaved, TaskEffects DEF AllSaved
    <3>3. QED
      BY <1>4, <2>2, <2>3, <3>1, <3>2 DEF Good
  <2>6. QED
    BY <2>4, <2>5
<1>9. CASE Quiet
  <2>1. UNCHANGED <<mode, refused, saved, files, task>>
    BY <1>9, QuietFrames DEF fileVars, diskVars
  <2>2. ~fault
    BY <1>9, QuietEffects
  <2>3. Good
    BY <1>1, <2>1, <2>2
  <2>4. ~WsLost /\ ~DataChannelLost /\ ~EncryptFails
    BY DEF WsLost, DataChannelLost, EncryptFails
  <2>5. AllSaved' <=> AllSaved
    BY <2>1 DEF AllSaved
  <2>6. CASE Encrypted \/ TakePrefetched \/ SendThrows \/ Flush \/ OnClose
    <3>1. UNCHANGED <<senderWs, sent, received>> /\ (receiverWs' # "open" => receiverWs # "open")
      BY <2>6 DEF Encrypted, TakePrefetched, SendThrows, Flush, OnClose, wsVars
    <3>2. QED
      BY <1>4, <2>1, <2>3, <2>5, <3>1 DEF Good, Failed
  <2>7. CASE AckArrives \/ SenderSeesClose
    <3>1. UNCHANGED <<receiverWs, sent, received>> /\ AllSaved
      BY <1>2, <2>3, <2>7 DEF AckArrives, SenderSeesClose, Good
    <3>2. QED
      BY <1>4, <2>1, <2>3, <2>5, <3>1 DEF Good, Failed
  <2>8. CASE ReceiverSeesClose \/ AfterChain
    <3>1. UNCHANGED <<senderWs, sent>> /\ AllSaved
      BY <2>3, <2>8 DEF ReceiverSeesClose, AfterChain, Settling, Good
    <3>2. received' = received
      BY <1>2, <2>8, <3>1 DEF ReceiverSeesClose, AfterChain, Settle
    <3>3. QED
      BY <1>4, <2>1, <2>3, <2>5, <3>1, <3>2 DEF Good, Failed
  <2>9. QED
    BY <1>9, <2>4, <2>6, <2>7, <2>8 DEF Quiet
<1>10. QED
  BY <1>5, <1>6, <1>7, <1>8, <1>9, NextCases

\* The links are shown with the last file, if it went to memory (showDownloads).
LEMMA OfferStep ==
    ASSUME IInv, Next
    PROVE  OfferInv'
<1>1. OfferInv
  BY DEF IInv
<1>2. ASSUME UNCHANGED <<saved, files, text, receivedFiles, downloads>>,
             streaming' = streaming \/ ~AllSaved
      PROVE  OfferInv'
  <2>1. AllSaved' <=> AllSaved
    BY <1>2 DEF AllSaved
  <2>2. QED
    BY <1>1, <1>2, <2>1 DEF OfferInv, FilesOffered
<1>3. CASE Sending \/ Bind \/ Arrive \/ Quiet
  BY <1>2, <1>3, OthersKeepFiles DEF fileVars, diskVars
<1>4. CASE TakesChunk \/ TakesMetadata
  BY <1>2, <1>4 DEF TakesChunk, TakesMetadata, Working, batchVars, fileVars, diskVars
<1>5. CASE OpensFile \/ WritesChunk
  <2>1. ~AllSaved
    BY <1>5, Unsaved DEF OpensFile, WritesChunk, Failed
  <2>2. QED
    BY <1>2, <1>5, <2>1 DEF OpensFile, WritesChunk, Working, batchVars
<1>6. CASE FailsFile
  BY <1>2, <1>6 DEF FailsFile, Working, batchVars
<1>7. CASE SavesAndGoesOn
  <2>1. /\ ~AllSaved /\ ~AllSaved' /\ text' = text /\ downloads' = downloads
        /\ text => receivedFiles' = receivedFiles
    BY <1>7, FileSaved DEF SavesAndGoesOn, SavesLast, SavesFile
  <2>2. QED
    BY <1>1, <2>1 DEF OfferInv, FilesOffered
<1>8. CASE SavesLast
  <2>1. /\ ~AllSaved /\ AllSaved' /\ text' = text /\ streaming' = streaming
        /\ text \/ streaming => downloads' = downloads /\ receivedFiles' = receivedFiles
        /\ ~(text \/ streaming) => downloads' = receivedFiles'
    BY <1>8, FileSaved DEF SavesLast, SavesFile, Offered
  <2>2. QED
    BY <1>1, <2>1 DEF OfferInv, FilesOffered
<1>9. QED
  BY <1>3, <1>4, <1>5, <1>6, <1>7, <1>8, NextCases DEF Task

-----------------------------------------------------------------------------
(* Types                                                                     *)

SenderTypes ==
    /\ mode \in Modes /\ files \in Batches /\ text \in BOOLEAN /\ pickers \in BOOLEAN
    /\ at \in {"metadata", "prefetch", "drain", "sent", "failed"}
    /\ file \in 0..LastFile /\ next \in 0..Chunks(file)
    /\ prefetch \in Frames /\ sealed \in BOOLEAN /\ encrypted \in Frames
    /\ sent \in Outcomes /\ senderWs \in {"open", "closed"}

LinkTypes ==
    /\ wire \in Seq(Frames) /\ buffered \in 0..Len(wire)
    /\ linkUp \in BOOLEAN /\ ack \in {"none", "sent", "received"}
    /\ bound \in BOOLEAN /\ pending \in Seq(Frames) /\ chain \in Seq(Frames)
    /\ task \in {"idle", "opening", "writing", "closing", "failed"}
    /\ received \in Outcomes /\ receiverWs \in {"open", "closed", "awaiting", "done"}
    /\ tail \in Nat /\ fault \in BOOLEAN /\ refused \in {"none", "metadata", "memory"}

FileTypes ==
    /\ metadataReceived \in BOOLEAN
    /\ fileIndex \in 0..LastFile /\ fileCount \in 1..Len(files)
    /\ totalChunks \in Nat /\ currentChunk \in 0..totalChunks
    /\ saveDir \in BOOLEAN /\ streaming \in BOOLEAN
    /\ written \in 0..Size(fileIndex) /\ batchDoneChunks \in Nat
    /\ receivedFiles \in Seq(0..LastFile) /\ downloads \in Seq(0..LastFile)
    /\ content \in Seq(Nat) /\ saved \in Seq([file : Nat, chunks : Seq(Nat)])

\* The types of the sender, of what is between the pages, and of the files.
LEMMA TypeParts == TypeOK <=> SenderTypes /\ LinkTypes /\ FileTypes
  BY DEF TypeOK, SenderTypes, LinkTypes, FileTypes

\* Every step leaves the batch and the transport as they were chosen.
LEMMA BatchKept ==
    ASSUME IInv, Next
    PROVE  UNCHANGED batchVars /\ LastFile' = LastFile
<1>1. UNCHANGED batchVars
  BY NextCases, Sends, ComingKept
<1>2. QED
  BY <1>1 DEF batchVars, LastFile

\* The sender stays within its file, and the file within the batch.
LEMMA SenderTypeStep ==
    ASSUME IInv, Next
    PROVE  SenderTypes'
<1>1. TypeOK /\ SenderTypes /\ SenderInv
  BY TypeParts DEF IInv
<1>2. /\ UNCHANGED batchVars /\ LastFile' = LastFile
      /\ \A i : Chunks(i)' = TotalChunks(files[i + 1], mode)
      /\ \A i : Chunks(i) = TotalChunks(files[i + 1], mode)
  BY BatchKept DEF Chunks, Size, batchVars
<1>3. /\ file \in 0..LastFile /\ next \in 0..Chunks(file) /\ LastFile \in Nat
      /\ \A i \in 0..LastFile : Chunks(i) \in Nat
      /\ META = -1
  BY <1>1, Basics DEF SenderTypes
<1>4. /\ mode' \in Modes /\ files' \in Batches /\ text' \in BOOLEAN /\ pickers' \in BOOLEAN
  BY <1>1, <1>2 DEF SenderTypes, batchVars
<1>5. /\ Nothing \in Frames
      /\ \A k \in Nat : Frame(file, k) \in Frames
  BY <1>3 DEF Frames, Nothing, Frame
<1>6. CASE UNCHANGED <<senderVars, sent>> /\ senderWs' \in {senderWs, "closed"}
  BY <1>1, <1>2, <1>4, <1>6 DEF SenderTypes, senderVars
<1>7. CASE UNCHANGED senderVars /\ sent' \in Outcomes /\ senderWs' = "closed"
  BY <1>1, <1>2, <1>4, <1>7 DEF SenderTypes, senderVars
<1>8. ASSUME EndFile PROVE SenderTypes'
  <2>1. /\ prefetch' \in Frames /\ encrypted' \in Frames /\ sealed' \in BOOLEAN
    BY <1>1, <1>5, <1>8, FileEnds
  <2>2. /\ at' \in {"metadata", "prefetch", "drain", "sent", "failed"}
        /\ file' \in 0..LastFile
        /\ next' = 0 \/ (next' = Chunks(file) /\ file' = file)
    BY <1>1, <1>3, <1>8, FileEnds
  <2>3. next' \in 0..Chunks(file)'
    <3>1. Chunks(file)' = TotalChunks(files[file' + 1], mode)
      BY <1>2 DEF Chunks, Size, batchVars
    <3>2. Chunks(file)' \in Nat
      BY <1>2, <1>3, <2>2, <3>1
    <3>3. next' = Chunks(file) /\ file' = file => next' = Chunks(file)'
      BY <1>2, <3>1
    <3>4. QED
      BY <2>2, <3>2, <3>3
  <2>4. sent' \in Outcomes /\ senderWs' \in {"open", "closed"}
    BY <1>1, <1>8 DEF EndFile, SenderTypes, Settle, Outcomes
  <2>5. QED
    BY <1>2, <1>4, <2>1, <2>2, <2>3, <2>4 DEF SenderTypes
<1>9. ASSUME file' = file PROVE Chunks(file)' = Chunks(file)
  BY <1>2, <1>9 DEF Chunks, Size, batchVars
<1>10. CASE SendMetadata
  <2>1. CASE Chunks(file) # 0
    <3>1. /\ at' = "prefetch" /\ prefetch' = Frame(file, 0)
          /\ UNCHANGED <<file, next, sealed, encrypted, sent, senderWs>>
      BY <1>10, <2>1 DEF SendMetadata
    <3>2. QED
      BY <1>1, <1>2, <1>3, <1>4, <1>5, <1>9, <3>1 DEF SenderTypes
  <2>2. QED
    BY <1>8, <1>10, <2>1 DEF SendMetadata
<1>11. CASE SendChunk
  <2>1. CASE next + 1 # Chunks(file)
    <3>1. /\ at' = "prefetch" /\ next' = next + 1 /\ encrypted' = Nothing
          /\ UNCHANGED <<file, prefetch, sealed, sent, senderWs>>
      BY <1>11, <2>1 DEF SendChunk
    <3>2. next < Chunks(file)
      BY <1>1, <1>11 DEF SendChunk, SenderInv
    <3>3. next' \in 0..Chunks(file)'
      BY <1>3, <1>9, <3>1, <3>2
    <3>4. QED
      BY <1>1, <1>2, <1>3, <1>4, <1>5, <3>1, <3>3 DEF SenderTypes
  <2>2. QED
    BY <1>8, <1>11, <2>1 DEF SendChunk
<1>12. CASE TakePrefetched
  <2>1. /\ at' = "drain" /\ encrypted' = prefetch /\ sealed' = FALSE
        /\ prefetch' = IF next + 1 < Chunks(file) THEN Frame(file, next + 1) ELSE Nothing
        /\ UNCHANGED <<file, next, sent, senderWs>>
    BY <1>12 DEF TakePrefetched, wsVars
  <2>2. next + 1 \in Nat
    BY <1>3
  <2>3. prefetch' \in Frames /\ encrypted' \in Frames
    BY <1>1, <1>5, <2>1, <2>2 DEF SenderTypes
  <2>4. QED
    BY <1>1, <1>2, <1>4, <1>9, <2>1, <2>3 DEF SenderTypes
<1>13. CASE Encrypted
  <2>1. sealed' = TRUE /\ UNCHANGED <<at, file, next, prefetch, encrypted, sent, senderWs>>
    BY <1>13 DEF Encrypted, wsVars
  <2>2. QED
    BY <1>1, <1>2, <1>4, <1>9, <2>1 DEF SenderTypes
<1>14. CASE SendThrows \/ EncryptFails
  <2>1. /\ at' = "failed" /\ prefetch' \in {prefetch, Nothing}
        /\ UNCHANGED <<file, next, sealed, encrypted, sent, senderWs>>
    BY <1>14 DEF SendThrows, EncryptFails, wsVars
  <2>2. QED
    BY <1>1, <1>2, <1>4, <1>5, <1>9, <2>1 DEF SenderTypes
<1>15. CASE Bind \/ Arrive \/ Task
  BY <1>6, <1>15, SenderAlone
<1>16. CASE \/ Flush \/ DataChannelLost \/ AckArrives \/ SenderSeesClose
            \/ ReceiverSeesClose \/ OnClose \/ AfterChain
  BY <1>6, <1>16 DEF Flush, DataChannelLost, AckArrives, SenderSeesClose, ReceiverSeesClose,
                     OnClose, AfterChain, wsVars
<1>17. CASE WsLost
  <2>1. UNCHANGED senderVars /\ senderWs' = "closed" /\ sent' \in {sent, Settle(sent, "error")}
    BY <1>17 DEF WsLost
  <2>2. sent' \in Outcomes
    BY <1>1, <2>1 DEF SenderTypes, Settle, Outcomes
  <2>3. QED
    BY <1>7, <2>1, <2>2
<1>18. QED
  BY <1>10, <1>11, <1>12, <1>13, <1>14, <1>15, <1>16, <1>17, NextCases DEF Sending, Quiet

\* AwaitOne never counts below zero.
LEMMA LinkTypeStep ==
    ASSUME IInv, Next
    PROVE  LinkTypes'
<1>1. LinkTypes
  BY TypeParts DEF IInv
<1>2. received \in Outcomes /\ \A o \in Outcomes : Settle(received, o) \in Outcomes
  BY <1>1 DEF LinkTypes, Settle
<1>3. {"pending", "resolved", "rejected", "error"} = Outcomes
  BY DEF Outcomes
<1>4. CASE Sending
  <2>1. /\ wire' = Append(wire, Coming) /\ Coming \in Frames /\ buffered' = buffered + 1
        /\ UNCHANGED <<linkUp, ack, bound, pending, chain, task, received, receiverWs,
                       tail, fault, refused>>
    BY <1>4, Sends
  <2>2. wire' \in Seq(Frames) /\ buffered' \in 0..Len(wire')
    <3>1. wire \in Seq(Frames) /\ buffered \in 0..Len(wire) /\ Len(wire) \in Nat
      BY <1>1 DEF LinkTypes
    <3>2. wire' \in Seq(Frames) /\ Len(wire') = Len(wire) + 1
      BY <2>1, <3>1, Appended
    <3>3. QED
      BY <2>1, <3>1, <3>2
  <2>3. QED
    BY <1>1, <2>1, <2>2 DEF LinkTypes
<1>5. CASE Bind
  <2>1. /\ ~Settling /\ AwaitOne /\ bound' = TRUE /\ chain' = pending /\ pending' = <<>>
        /\ UNCHANGED <<wire, buffered, linkUp, ack, task, received, receiverWs, fault,
                       refused>>
    BY <1>5 DEF Bind
  <2>2. tail' \in Nat
    BY <1>1, <2>1 DEF LinkTypes, Settling, AwaitOne
  <2>3. pending' \in Seq(Frames)
    BY <2>1
  <2>4. QED
    BY <1>1, <2>1, <2>2, <2>3 DEF LinkTypes
<1>6. CASE Arrive
  <2>1. /\ wire # <<>> /\ wire' = Tail(wire)
        /\ buffered' = buffered /\ buffered \in 0..(Len(wire) - 1)
        /\ pending' \in {pending, Append(pending, Head(wire))}
        /\ chain' \in {chain, Append(chain, Head(wire))}
        /\ received' \in {received, Settle(received, "rejected")}
        /\ UNCHANGED <<linkUp, ack, bound, task, receiverWs, tail, fault, refused>>
    BY <1>6, ArrivesFromWire DEF Arrive, wsVars, IInv
  <2>2. wire \in Seq(Frames) /\ pending \in Seq(Frames) /\ chain \in Seq(Frames)
    BY <1>1 DEF LinkTypes
  <2>3. wire' \in Seq(Frames) /\ Head(wire) \in Frames /\ buffered' \in 0..Len(wire')
    BY <2>1, <2>2, Shortened
  <2>4. pending' \in Seq(Frames) /\ chain' \in Seq(Frames)
    <3>1. \A q \in Seq(Frames) : Append(q, Head(wire)) \in Seq(Frames)
      BY <2>3, Appended
    <3>2. QED
      BY <2>1, <2>2, <3>1
  <2>5. received' \in Outcomes
    BY <1>2, <1>3, <2>1
  <2>6. QED
    BY <1>1, <2>1, <2>3, <2>4, <2>5 DEF LinkTypes
<1>7. CASE Task
  <2>1. chain # <<>> /\ chain \in Seq(Frames)
    BY <1>1, <1>7, TaskEffects DEF LinkTypes
  <2>2. UNCHANGED <<wire, buffered, linkUp, bound, pending>>
    BY <1>7 DEF Task, TakesChunk, TakesMetadata, OpensFile, WritesChunk, SavesAndGoesOn,
                SavesLast, FailsFile, Working
  <2>3. chain' \in {chain, Tail(chain), <<>>}
        /\ task' \in {"idle", "opening", "writing", "closing", "failed"}
    BY <1>7 DEF Task, TakesChunk, TakesMetadata, OpensFile, WritesChunk, SavesAndGoesOn,
                SavesLast, FailsFile, Fail, TaskDone, BatchDone, Continue
  <2>4. chain' \in Seq(Frames)
    <3>1. Tail(chain) \in Seq(Frames) /\ <<>> \in Seq(Frames)
      BY <2>1, Shortened
    <3>2. QED
      BY <2>1, <2>3, <3>1
  <2>5. /\ received' \in {received, Settle(received, "resolved"), Settle(received, "rejected")}
        /\ ack' \in {ack, "sent"} /\ receiverWs' \in {receiverWs, "closed", "done"}
        /\ fault' \in {fault, TRUE, FALSE} /\ refused' \in {refused, "none", "metadata", "memory"}
    BY <1>7 DEF Task, TakesChunk, TakesMetadata, OpensFile, WritesChunk, SavesAndGoesOn,
                SavesLast, SavesFile, FailsFile, Fail, TaskDone, BatchDone, Continue
  <2>6. tail' \in Nat
    <3>1. ASSUME AwaitOne, receiverWs = "awaiting", tail' # tail PROVE tail > 0
      <4>1. Busy
        BY <1>7, <3>1 DEF Task, TakesChunk, TakesMetadata, OpensFile, WritesChunk,
                          SavesAndGoesOn, SavesLast, FailsFile, Fail, Continue, Busy
      <4>2. QED
        BY <3>1, <4>1 DEF IInv, CloseInv
    <3>2. tail' = tail \/ AwaitOne
      BY <1>7, TaskEffects
    <3>3. QED
      BY <1>1, <3>1, <3>2 DEF LinkTypes, AwaitOne
  <2>7. received' \in Outcomes
    BY <1>2, <1>3, <2>5
  <2>8. QED
    BY <1>1, <2>2, <2>3, <2>4, <2>5, <2>6, <2>7 DEF LinkTypes
<1>8. CASE Quiet
  <2>1. UNCHANGED <<wire, bound, pending, chain, task, refused>>
    BY <1>8, QuietFrames
  <2>2. /\ received' \in Outcomes /\ ack' \in {ack, "received"} /\ fault' \in {fault, TRUE}
    BY <1>2, <1>3, <1>8, QuietEffects
  <2>3. linkUp' \in {linkUp, (linkUp /\ mode = "p2p"), FALSE}
    BY <1>8 DEF Quiet, Encrypted, TakePrefetched, SendThrows, EncryptFails, Flush,
                WsLost, DataChannelLost, AckArrives, SenderSeesClose, ReceiverSeesClose,
                OnClose, AfterChain
  <2>4. receiverWs' \in {receiverWs, "closed", "awaiting", "done"}
    BY <1>8 DEF Quiet, Encrypted, TakePrefetched, SendThrows, EncryptFails, Flush,
                WsLost, DataChannelLost, AckArrives, SenderSeesClose, ReceiverSeesClose,
                OnClose, AfterChain, wsVars
  <2>5. tail' \in {tail, Len(chain) + (IF bound THEN 0 ELSE 1)}
    BY <1>8 DEF Quiet, Encrypted, TakePrefetched, SendThrows, EncryptFails, Flush,
                WsLost, DataChannelLost, AckArrives, SenderSeesClose, ReceiverSeesClose,
                OnClose, AfterChain, wsVars
  <2>6. buffered' = buffered \/ (buffered > 0 /\ buffered' = buffered - 1)
    BY <1>8 DEF Quiet, Encrypted, TakePrefetched, SendThrows, EncryptFails, Flush,
                WsLost, DataChannelLost, AckArrives, SenderSeesClose, ReceiverSeesClose,
                OnClose, AfterChain
  <2>7. linkUp' \in BOOLEAN /\ buffered' \in 0..Len(wire)
    <3>1. linkUp \in BOOLEAN /\ buffered \in 0..Len(wire) /\ Len(wire) \in Nat
      BY <1>1 DEF LinkTypes
    <3>2. linkUp' \in BOOLEAN
      BY <2>3, <3>1
    <3>3. buffered' \in 0..Len(wire)
      BY <2>6, <3>1
    <3>4. QED
      BY <3>2, <3>3
  <2>8. tail' \in Nat
    BY <1>1, <2>5 DEF LinkTypes
  <2>9. QED
    BY <1>1, <2>1, <2>2, <2>4, <2>7, <2>8 DEF LinkTypes
<1>9. QED
  BY <1>4, <1>5, <1>6, <1>7, <1>8, NextCases

\* The counters stay within the file and the file within the batch.
LEMMA FileTypeStep ==
    ASSUME IInv, Next
    PROVE  FileTypes'
<1>1. FileTypes /\ TypeOK
  BY TypeParts DEF IInv
<1>2. /\ files' = files /\ mode' = mode /\ text' = text /\ LastFile' = LastFile
      /\ LastFile \in Nat /\ Len(files) \in Nat \ {0}
      /\ \A i \in 0..LastFile : Size(i) \in Nat
  BY <1>1, BatchKept, Basics DEF batchVars
<1>3. ASSUME fileIndex' = fileIndex PROVE Size(fileIndex)' = Size(fileIndex)
  BY <1>2, <1>3 DEF Size
<1>4. CASE UNCHANGED <<fileIndex, fileCount, totalChunks, currentChunk, written,
                       batchDoneChunks, receivedFiles, downloads, content, saved>>
           /\ metadataReceived' \in BOOLEAN /\ saveDir' \in BOOLEAN /\ streaming' \in BOOLEAN
  BY <1>1, <1>2, <1>3, <1>4 DEF FileTypes
<1>5. CASE Sending \/ Bind \/ Arrive \/ Quiet
  <2>1. UNCHANGED fileVars
    BY <1>5, OthersKeepFiles
  <2>2. QED
    BY <1>1, <1>4, <2>1 DEF FileTypes, fileVars, metaVars, diskVars
<1>6. CASE TakesChunk
  BY <1>1, <1>4, <1>6 DEF FileTypes, TakesChunk, fileVars, metaVars, diskVars
<1>7. CASE TakesMetadata
  <2>1. /\ fileIndex' = Len(saved) /\ fileCount' = Len(files) /\ totalChunks' = Chunks(Len(saved))
        /\ currentChunk' = 0 /\ written' = 0 /\ metadataReceived' = TRUE
        /\ UNCHANGED <<saveDir, streaming, batchDoneChunks, receivedFiles, downloads,
                       content, saved>>
    BY <1>7 DEF TakesMetadata
  <2>2. BetweenInv
    BY <1>7 DEF IInv, FileInv, TakesMetadata, Failed
  <2>3. Len(saved) \in 0..LastFile
    <3>1. Len(saved) \in Nat /\ Len(saved) < Len(files)
      BY <1>1, <2>2 DEF FileTypes, BetweenInv
    <3>2. QED
      BY <1>2, <3>1 DEF LastFile
  <2>4. totalChunks' \in Nat
    BY <1>1, <2>1, <2>3, Basics
  <2>5. Size(fileIndex)' = Size(Len(saved)) /\ Size(Len(saved)) \in Nat
    BY <1>2, <2>1, <2>3 DEF Size
  <2>6. QED
    BY <1>1, <1>2, <2>1, <2>3, <2>4, <2>5 DEF FileTypes
<1>8. CASE OpensFile
  BY <1>1, <1>4, <1>8 DEF FileTypes, OpensFile, metaVars
<1>9. CASE WritesChunk
  <2>1. /\ currentChunk' = currentChunk + 1
        /\ currentChunk' <= totalChunks
        /\ written' = BytesOf(Size(fileIndex), mode, currentChunk')
        /\ content' = Append(content, currentChunk)
        /\ UNCHANGED <<metadataReceived, fileIndex, fileCount, totalChunks, saveDir,
                       streaming, batchDoneChunks, receivedFiles, downloads, saved>>
    BY <1>1, <1>9 DEF WritesChunk, FileTypes
  <2>2. /\ Size(fileIndex) \in Nat /\ mode \in Modes /\ totalChunks \in Nat
        /\ totalChunks = TotalChunks(Size(fileIndex), mode) /\ currentChunk \in 0..totalChunks
    BY <1>9, Unsaved DEF WritesChunk, Failed
  <2>3. currentChunk' \in 0..totalChunks'
    BY <2>1, <2>2
  <2>4. written' \in 0..Size(fileIndex)
    <3>1. currentChunk' \in 0..TotalChunks(Size(fileIndex), mode)
      BY <2>1, <2>2, <2>3
    <3>2. QED
      BY <2>1, <2>2, <3>1, BytesCounted
  <2>5. content' \in Seq(Nat)
    <3>1. content \in Seq(Nat) /\ currentChunk \in Nat
      BY <1>1, <2>2 DEF FileTypes
    <3>2. QED
      BY <2>1, <3>1, Appended
  <2>6. QED
    BY <1>1, <1>2, <1>3, <2>1, <2>3, <2>4, <2>5 DEF FileTypes
<1>10. CASE SavesAndGoesOn \/ SavesLast
  <2>1. /\ saved' = Append(saved, [file |-> fileIndex, chunks |-> content])
        /\ receivedFiles' = IF text \/ streaming THEN receivedFiles
                            ELSE Append(receivedFiles, fileIndex)
        /\ UNCHANGED <<saveDir, fileIndex, fileCount>>
    BY <1>10 DEF SavesAndGoesOn, SavesLast, SavesFile, NextFile, ResetForNextFile, metaVars
  <2>2. saved' \in Seq([file : Nat, chunks : Seq(Nat)])
    <3>1. [file |-> fileIndex, chunks |-> content] \in [file : Nat, chunks : Seq(Nat)]
      BY <1>1, <1>2 DEF FileTypes
    <3>2. QED
      BY <1>1, <2>1, <3>1, Appended DEF FileTypes
  <2>3. receivedFiles' \in Seq(0..LastFile)
    <3>1. receivedFiles \in Seq(0..LastFile) /\ fileIndex \in 0..LastFile
      BY <1>1 DEF FileTypes
    <3>2. Append(receivedFiles, fileIndex) \in Seq(0..LastFile)
      BY <3>1, Appended
    <3>3. QED
      BY <2>1, <3>1, <3>2
  <2>4. CASE SavesAndGoesOn
    <3>1. /\ metadataReceived' = FALSE /\ currentChunk' = 0 /\ totalChunks' = 0
          /\ content' = <<>> /\ written' = 0 /\ streaming' = FALSE
          /\ batchDoneChunks' = batchDoneChunks + totalChunks
          /\ downloads' = downloads
      BY <2>4 DEF SavesAndGoesOn, NextFile, ResetForNextFile
    <3>2. /\ batchDoneChunks' \in Nat /\ content' \in Seq(Nat)
          /\ metadataReceived' \in BOOLEAN /\ streaming' \in BOOLEAN /\ saveDir' \in BOOLEAN
      <4>1. batchDoneChunks \in Nat /\ totalChunks \in Nat /\ saveDir \in BOOLEAN
        BY <1>1 DEF FileTypes
      <4>2. batchDoneChunks' \in Nat /\ content' \in Seq(Nat)
        BY <3>1, <4>1
      <4>3. metadataReceived' \in BOOLEAN /\ streaming' \in BOOLEAN
        BY <3>1
      <4>4. saveDir' \in BOOLEAN
        BY <2>1, <4>1
      <4>5. QED
        BY <4>2, <4>3, <4>4
    <3>3. written' \in 0..Size(fileIndex)'
      BY <1>1, <1>2, <1>3, <2>1, <3>1 DEF FileTypes
    <3>4. /\ fileIndex' \in 0..LastFile' /\ fileCount' \in 1..Len(files')
          /\ totalChunks' \in Nat /\ currentChunk' \in 0..totalChunks'
      BY <1>1, <1>2, <2>1, <3>1 DEF FileTypes
    <3>5. receivedFiles' \in Seq(0..LastFile') /\ downloads' \in Seq(0..LastFile')
      BY <1>1, <1>2, <2>3, <3>1 DEF FileTypes
    <3>6. QED
      BY <2>2, <3>2, <3>3, <3>4, <3>5 DEF FileTypes
  <2>5. CASE SavesLast
    <3>1. /\ downloads' = downloads \/ downloads' = receivedFiles'
          /\ UNCHANGED <<metaVars, streaming, written, batchDoneChunks, content>>
      BY <2>5 DEF SavesLast, Offered
    <3>2. QED
      BY <1>1, <1>2, <1>3, <2>1, <2>2, <2>3, <3>1 DEF FileTypes, metaVars
  <2>6. QED
    BY <1>10, <2>4, <2>5
<1>11. CASE FailsFile
  BY <1>4, <1>11 DEF FailsFile
<1>12. QED
  BY <1>5, <1>6, <1>7, <1>8, <1>9, <1>10, <1>11, NextCases DEF Task

-----------------------------------------------------------------------------
(* The theorems                                                              *)

\* Two pages that have agreed on a key and a transport have sent nothing yet.
LEMMA InitInv == Init => IInv
<1> SUFFICES ASSUME Init PROVE IInv
  OBVIOUS
<1>1. /\ mode \in Modes /\ files \in Batches /\ text \in BOOLEAN /\ pickers \in BOOLEAN
      /\ at = "metadata" /\ file = 0 /\ next = 0
      /\ prefetch = Nothing /\ sealed = FALSE /\ encrypted = Nothing
      /\ sent = "pending" /\ received = "pending"
      /\ senderWs = "open" /\ receiverWs = "open" /\ tail = 0
      /\ wire = <<>> /\ buffered = 0 /\ linkUp = TRUE /\ ack = "none"
      /\ bound = FALSE /\ pending = <<>> /\ chain = <<>> /\ task = "idle"
  BY DEF Init
<1>2. /\ metadataReceived = FALSE
      /\ fileIndex = 0 /\ fileCount = 1 /\ totalChunks = 0 /\ currentChunk = 0
      /\ saveDir = FALSE /\ streaming = FALSE /\ written = 0 /\ batchDoneChunks = 0
      /\ receivedFiles = <<>> /\ downloads = <<>>
      /\ content = <<>> /\ saved = <<>>
      /\ fault = FALSE /\ refused = "none"
  BY DEF Init
<1>3. files \in Seq(Nat) /\ Len(files) \in Nat \ {0} /\ META = -1
  BY <1>1, TransferAssumption DEF Init, Selectable, META
<1>4. LastFile \in Nat /\ LastFile = Len(files) - 1
  BY <1>3 DEF LastFile
<1>5. Size(0) \in Nat /\ Chunks(0) \in Nat
  BY <1>1, <1>3, TotalRoundsUp DEF Size, Chunks
<1>6. Nothing \in Frames /\ <<>> \in Seq(Frames)
  BY DEF Nothing, Frames
<1>7. SenderTypes
  <2>1. file \in 0..LastFile /\ next \in 0..Chunks(file)
    BY <1>1, <1>4, <1>5
  <2>2. prefetch \in Frames /\ sealed \in BOOLEAN /\ encrypted \in Frames
    BY <1>1, <1>6
  <2>3. QED
    BY <1>1, <2>1, <2>2 DEF SenderTypes, Outcomes
<1>8. LinkTypes
  <2>1. Len(wire) \in Nat /\ buffered \in 0..Len(wire)
    BY <1>1
  <2>2. QED
    BY <1>1, <1>2, <1>6, <2>1 DEF LinkTypes, Outcomes
<1>9. FileTypes
  <2>1. /\ receivedFiles \in Seq(0..LastFile) /\ downloads \in Seq(0..LastFile)
        /\ content \in Seq(Nat) /\ saved \in Seq([file : Nat, chunks : Seq(Nat)])
    BY <1>2
  <2>2. metadataReceived \in BOOLEAN /\ saveDir \in BOOLEAN /\ streaming \in BOOLEAN
    BY <1>2
  <2>3. fileIndex \in 0..LastFile /\ fileCount \in 1..Len(files) /\ written \in 0..Size(fileIndex)
    BY <1>2, <1>3, <1>4, <1>5
  <2>4. totalChunks \in Nat /\ currentChunk \in 0..totalChunks /\ batchDoneChunks \in Nat
    BY <1>2
  <2>5. QED
    BY <2>1, <2>2, <2>3, <2>4 DEF FileTypes
<1>10. TypeOK
  BY <1>7, <1>8, <1>9, TypeParts
<1>11. stream \in Seq(Frames) /\ Len(stream) = 0
  <2>1. queue = <<>> /\ queue \in Seq(Frames) /\ wire \in Seq(Frames) /\ Len(queue) = 0 /\ Len(wire) = 0
    BY <1>1, <1>6 DEF queue
  <2>2. QED
    BY <2>1, Joined DEF stream
<1>12. ~AllSaved /\ Len(saved) = 0
  BY <1>2, <1>3 DEF AllSaved
<1>13. SenderInv /\ ChainInv
  BY <1>1 DEF SenderInv, ChainInv, Busy, Failed
<1>14. RunInv
  BY <1>11 DEF RunInv, Run, LeadsTo
<1>15. FrontInv
  BY <1>1, <1>2, <1>11, <1>12 DEF FrontInv, Coming, Wanted, Reading
<1>16. FileInv
  BY <1>1, <1>2, <1>3, <1>12 DEF FileInv, BetweenInv, Busy, Reading
<1>17. CloseInv /\ AckInv /\ ShutdownInv /\ OfferInv
  BY <1>1, <1>2, <1>12 DEF CloseInv, AckInv, ShutdownInv, OfferInv, FilesOffered, Failed
<1>18. QED
  BY <1>10, <1>13, <1>14, <1>15, <1>16, <1>17 DEF IInv

\* Every step keeps the invariant.
LEMMA StepInv == IInv /\ [Next]_vars => IInv'
<1>1. ASSUME IInv, Next PROVE IInv'
  <2>1. TypeOK'
    <3>1. SenderTypes' /\ LinkTypes' /\ FileTypes'
      BY <1>1, SenderTypeStep, LinkTypeStep, FileTypeStep
    <3>2. QED
      BY <3>1 DEF TypeOK, SenderTypes, LinkTypes, FileTypes
  <2>2. SenderInv' /\ RunInv' /\ ChainInv' /\ FrontInv' /\ FileInv'
    BY <1>1, SenderStep, RunStep, ChainStep, FrontStep, FileStep
  <2>3. CloseInv' /\ AckInv' /\ ShutdownInv' /\ OfferInv'
    BY <1>1, CloseStep, AckStep, ShutdownStep, OfferStep
  <2>4. QED
    BY <2>1, <2>2, <2>3 DEF IInv
<1>2. ASSUME IInv, UNCHANGED vars PROVE IInv'
  <2>1. UNCHANGED <<batchVars, senderVars, sent, wire, buffered, linkUp, ack, bound,
                    pending, chain, task, metaVars, diskVars, received, wsVars, fault, refused>>
    BY <1>2 DEF vars, fileVars
  <2>2. TypeOK'
    BY <1>2, <2>1 DEF IInv, TypeOK, batchVars, senderVars, metaVars, diskVars, wsVars,
                      Chunks, Size, LastFile
  <2>3. SenderInv' /\ RunInv'
    BY <1>2, <2>1 DEF IInv, SenderInv, RunInv, batchVars, senderVars,
                      Chunks, Size, LastFile, stream, queue, Coming
  <2>4. ChainInv' /\ FrontInv'
    BY <1>2, <2>1 DEF IInv, ChainInv, FrontInv, Busy, Failed, Coming, Wanted, Reading,
                      senderVars, metaVars, diskVars, stream, queue
  <2>5. FileInv'
    <3>1. /\ ReadingInv' = ReadingInv /\ BetweenInv' = BetweenInv /\ DoneInv' = DoneInv
          /\ Reading' = Reading /\ Busy' = Busy /\ Failed' = Failed
      BY <2>1 DEF ReadingInv, BetweenInv, DoneInv, Reading, Busy, Failed, AllSaved, batchVars,
                  metaVars, diskVars, Chunks, Size, LastFile
    <3>2. QED
      BY <1>2, <2>1, <3>1 DEF IInv, FileInv, metaVars
  <2>6. CloseInv' /\ AckInv' /\ ShutdownInv' /\ OfferInv'
    BY <1>2, <2>1 DEF IInv, CloseInv, AckInv, ShutdownInv, OfferInv, FilesOffered, AllSaved,
                      Busy, Failed, batchVars, diskVars, wsVars
  <2>7. QED
    BY <2>2, <2>3, <2>4, <2>5, <2>6 DEF IInv
<1>3. QED
  BY <1>1, <1>2

\* The frames under way, the receiver's counters, the two promises and the
\* WebSockets fit together in every reachable state (app.js:795-1106).
THEOREM TransferInvariant == Spec => []IInv
  BY InitInv, StepInv, PTL DEF Spec

\* Every variable has its type; that currentChunk stays within the file, and
\* that onclose never awaits a negative number of tasks, is part of it
\* (app.js:655-680, 958-1106).
THEOREM TransferTypeCorrect == Spec => []TypeOK
<1>1. IInv => TypeOK
  BY DEF IInv
<1>2. QED
  BY <1>1, TransferInvariant, PTL

\* Over the relay the sender closes its WebSocket after the receiver has
\* everything, and no promise is rejected, unless something broke or a file was
\* refused (transfer-policy.js:6-8, app.js:528-680).
THEOREM TransferShutdownSafe == Spec => []RelayShutdownSafe
<1>1. IInv => RelayShutdownSafe
  BY DEF IInv, ShutdownInv, RelayShutdownSafe
<1>2. QED
  BY <1>1, TransferInvariant, PTL

\* A saved batch whose last file went to memory is offered whole (app.js:922-954).
THEOREM LinksOffered == Spec => []FilesOffered
<1>1. IInv => FilesOffered
  BY DEF IInv, OfferInv
<1>2. QED
  BY <1>1, TransferInvariant, PTL

\* The receiver's promise is resolved by the last task of the batch, or by onclose
\* before the first metadata (app.js:328-333, 655-680).
THEOREM SuccessIsWhole == Spec => SuccessMeansSaved
<1>1. ASSUME IInv, [Next]_vars, received # "resolved", received' = "resolved"
      PROVE  Len(saved') = Len(files) \/ (saved' = <<>> /\ ~metadataReceived')
  <2>1. Next
    BY <1>1 DEF vars
  <2>2. CASE SavesLast
    BY <1>1, <2>2, FileSaved DEF AllSaved
  <2>3. CASE AfterChain
    <3>1. /\ receiverWs = "awaiting" /\ tail = 0
          /\ UNCHANGED <<saved, metadataReceived>>
          /\ IsBatchComplete(totalChunks, currentChunk, fileIndex, fileCount)
      BY <1>1, <2>3 DEF AfterChain, Settling, Settle, fileVars, metaVars, diskVars
    <3>2. /\ currentChunk >= totalChunks /\ fileIndex >= fileCount - 1
          /\ totalChunks \in Nat /\ currentChunk \in Nat
          /\ fileIndex \in Int /\ fileCount \in Int
      BY <1>1, <3>1 DEF IsBatchComplete, IInv, TypeOK
    <3>3. ~Failed /\ ~Busy
      BY <1>1, <3>1 DEF IInv, CloseInv
    <3>4. task = "idle"
      BY <1>1, <3>3 DEF IInv, TypeOK, Failed, Busy
    <3>5. ~Reading
      BY <1>1, <3>2, <3>3, <3>4 DEF IInv, FileInv, ReadingInv
    <3>6. CASE metadataReceived
      BY <1>1, <3>1, <3>3, <3>5, <3>6 DEF IInv, FileInv, DoneInv, AllSaved
    <3>7. CASE ~metadataReceived
      <4>1. BetweenInv
        BY <1>1, <3>3, <3>7 DEF IInv, FileInv
      <4>2. saved = <<>>
        BY <3>2, <4>1 DEF BetweenInv
      <4>3. QED
        BY <3>1, <3>7, <4>2
    <3>8. QED
      BY <3>6, <3>7
  <2>4. CASE Sending \/ Bind
    BY <1>1, <2>4, Sends DEF Bind
  <2>5. CASE Arrive
    BY <1>1, <2>5 DEF Arrive, Settle
  <2>6. CASE Task /\ ~SavesLast
    <3>1. CASE FailsFile
      BY <1>1, <3>1 DEF FailsFile, Fail, Settle
    <3>2. CASE ~FailsFile
      BY <1>1, <2>6, <3>2, TaskEffects
    <3>3. QED
      BY <3>1, <3>2
  <2>7. CASE Quiet /\ ~AfterChain
    BY <1>1, <2>7 DEF Quiet, Encrypted, TakePrefetched, SendThrows, EncryptFails, Flush,
                      WsLost, DataChannelLost, AckArrives, SenderSeesClose, ReceiverSeesClose, OnClose, Settle
  <2>8. QED
    BY <1>1, <2>1, <2>2, <2>3, <2>4, <2>5, <2>6, <2>7, NextCases
<1>2. QED
  BY <1>1, TransferInvariant, PTL DEF Spec, SuccessMeansSaved

\* The chunks among the last n frames are finitely many, and no more than n.
LEMMA DataCounted ==
    ASSUME NEW w \in Seq(Frames), NEW n \in 0..Len(w)
    PROVE  /\ IsFiniteSet(DataFrames(w, n)) /\ Cardinality(DataFrames(w, n)) \in Nat
           /\ Cardinality(DataFrames(w, n)) <= n
<1> DEFINE a == Len(w) - n + 1
<1>1. /\ Len(w) \in Nat /\ n \in Nat /\ a \in Int /\ Len(w) \in Int
      /\ DataFrames(w, n) \in SUBSET (a..Len(w))
  BY DEF DataFrames
<1>2. IsFiniteSet(a..Len(w)) /\ Cardinality(a..Len(w)) = n
  <2>1. /\ IsFiniteSet(a..Len(w))
        /\ Cardinality(a..Len(w)) = IF a > Len(w) THEN 0 ELSE Len(w) - a + 1
    BY <1>1, FS_Interval, Zenon
  <2>2. (IF a > Len(w) THEN 0 ELSE Len(w) - a + 1) = n
    BY <1>1
  <2>3. QED
    BY <2>1, <2>2
<1> HIDE DEF a
<1>3. IsFiniteSet(DataFrames(w, n)) /\ Cardinality(DataFrames(w, n)) <= n
  BY <1>1, <1>2, FS_Subset
<1>4. QED
  BY <1>3, FS_CardinalityType

\* Metadata adds no chunk to those in the buffer.
LEMMA MetadataSent ==
    ASSUME NEW w \in Seq(Frames), NEW n \in 0..Len(w), NEW f \in Frames, f.seq = META
    PROVE  DataFrames(Append(w, f), n + 1) = DataFrames(w, n)
<1>1. /\ Len(Append(w, f)) = Len(w) + 1 /\ Len(w) \in Nat
      /\ DOMAIN Append(w, f) = 1..(Len(w) + 1) /\ DOMAIN w = 1..Len(w)
      /\ \A k \in 1..Len(w) : Append(w, f)[k] = w[k]
      /\ Append(w, f)[Len(w) + 1] = f
  BY Appended
<1>2. Len(w) + 1 \notin DataFrames(Append(w, f), n + 1)
  BY <1>1 DEF DataFrames
<1>3. \A k \in 1..Len(w) : k \in DataFrames(Append(w, f), n + 1) <=> k \in DataFrames(w, n)
  BY <1>1 DEF DataFrames
<1>4. DataFrames(w, n) \subseteq 1..Len(w)
  BY <1>1 DEF DataFrames
<1>5. DataFrames(Append(w, f), n + 1) \subseteq 1..(Len(w) + 1)
  BY <1>1 DEF DataFrames
<1>6. DataFrames(Append(w, f), n + 1) \subseteq 1..Len(w)
  BY <1>1, <1>2, <1>5
<1>7. QED
  BY <1>3, <1>4, <1>6

\* A frame that arrives was not in the buffer, those in it move up by one.
LEMMA DataArrived ==
    ASSUME NEW w \in Seq(Frames), w # <<>>, NEW n \in 0..(Len(w) - 1)
    PROVE  Cardinality(DataFrames(Tail(w), n)) <= Cardinality(DataFrames(w, n))
<1> DEFINE S == DataFrames(Tail(w), n)
           T == DataFrames(w, n)
           shift == [k \in S |-> k + 1]
<1>1. /\ Tail(w) \in Seq(Frames) /\ Len(w) \in Nat \ {0} /\ Len(Tail(w)) = Len(w) - 1
      /\ DOMAIN Tail(w) = 1..(Len(w) - 1) /\ DOMAIN w = 1..Len(w)
      /\ \A k \in 1..(Len(w) - 1) : Tail(w)[k] = w[k + 1]
  BY Shortened
<1>2. \A k \in S : k \in Nat /\ k + 1 \in T
  BY <1>1 DEF DataFrames
<1>3. IsFiniteSet(T) /\ IsFiniteSet(S)
  <2>1. n \in 0..Len(w) /\ n \in 0..Len(Tail(w))
    BY <1>1
  <2>2. QED
    BY <1>1, <2>1, DataCounted
<1> HIDE DEF S, T
<1>4. shift \in [S -> T] /\ \A j, k \in S : shift[j] = shift[k] => j = k
  BY <1>2
<1>5. shift \in Injection(S, T)
  BY <1>4 DEF Injection, IsInjective
<1>6. Cardinality(S) <= Cardinality(T)
  BY <1>3, <1>5, FS_Injection
<1>7. QED
  BY <1>6 DEF S, T

\* A frame that goes on its way leaves the buffer.
LEMMA DataFlushed ==
    ASSUME NEW w \in Seq(Frames), NEW n \in 1..Len(w)
    PROVE  Cardinality(DataFrames(w, n - 1)) <= Cardinality(DataFrames(w, n))
<1>1. Len(w) \in Nat /\ DataFrames(w, n - 1) \in SUBSET DataFrames(w, n)
  BY DEF DataFrames
<1>2. n \in 0..Len(w)
  BY <1>1
<1>3. IsFiniteSet(DataFrames(w, n))
  BY <1>2, DataCounted
<1>4. QED
  BY <1>1, <1>3, FS_Subset

\* However full the transport is, the pipeline puts at most one chunk on top of the
\* threshold (app.js:794, 891-900).
THEOREM BackpressureHolds == Spec => []Backpressure
<1> DEFINE Chunky(w, n) == Cardinality(DataFrames(w, n))
<1>1. Init => Backpressure
  <2> SUFFICES ASSUME Init PROVE Backpressure
    OBVIOUS
  <2>1. /\ wire = <<>> /\ <<>> \in Seq(Frames) /\ 0 \in 0..Len(<<>>) /\ buffered = 0
        /\ Threshold \in Nat
    BY TransferAssumption DEF Init
  <2>2. Chunky(<<>>, 0) \in Nat /\ Chunky(<<>>, 0) <= 0
    BY <2>1, DataCounted
  <2>3. QED
    BY <2>1, <2>2 DEF Backpressure
<1>2. ASSUME IInv, IInv', Backpressure, [Next]_vars PROVE Backpressure'
  <2>1. /\ wire \in Seq(Frames) /\ buffered \in 0..Len(wire)
        /\ wire' \in Seq(Frames) /\ buffered' \in 0..Len(wire')
        /\ Len(wire) \in Nat /\ Threshold \in Nat
    BY <1>2, TransferAssumption DEF IInv, TypeOK
  <2>2. /\ Chunky(wire, buffered) \in Nat /\ Chunky(wire', buffered') \in Nat
        /\ Chunky(wire', buffered') <= buffered'
    BY <2>1, DataCounted
  <2>3. Chunky(wire, buffered) <= Threshold + 1
    BY <1>2 DEF Backpressure
  <2> HIDE DEF Chunky
  <2>4. ASSUME Chunky(wire', buffered') <= Chunky(wire, buffered) PROVE Backpressure'
    <3>1. Chunky(wire', buffered') <= Threshold + 1
      BY <2>1, <2>2, <2>3, <2>4
    <3>2. QED
      BY <3>1 DEF Backpressure, Chunky
  <2>5. CASE UNCHANGED <<wire, buffered>>
    BY <2>2, <2>4, <2>5
  <2>6. CASE SendMetadata
    <3>1. wire' = Append(wire, Frame(file, META)) /\ buffered' = buffered + 1
      BY <2>6 DEF SendMetadata
    <3>2. Frame(file, META).seq = META /\ Frame(file, META) \in Frames
      <4>1. file \in Nat
        BY <1>2, Basics DEF IInv, TypeOK
      <4>2. QED
        BY <4>1 DEF Frame, Frames
    <3>3. Chunky(wire', buffered') = Chunky(wire, buffered)
      BY <2>1, <3>1, <3>2, MetadataSent DEF Chunky
    <3>4. QED
      BY <2>2, <2>4, <3>3
  <2>7. CASE SendChunk
    <3>1. buffered <= Threshold /\ buffered' = buffered + 1
      BY <2>7 DEF SendChunk, Drained
    <3>2. Chunky(wire', buffered') <= Threshold + 1
      BY <2>1, <2>2, <3>1
    <3>3. QED
      BY <3>2 DEF Backpressure, Chunky
  <2>8. CASE Arrive
    <3>1. wire' = Tail(wire) /\ buffered' = buffered
      BY <2>8 DEF Arrive
    <3>2. wire # <<>> /\ buffered \in 0..(Len(wire) - 1)
      BY <1>2, <2>8, ArrivesFromWire DEF IInv
    <3>3. Chunky(wire', buffered') <= Chunky(wire, buffered)
      BY <2>1, <3>1, <3>2, DataArrived DEF Chunky
    <3>4. QED
      BY <2>4, <3>3
  <2>9. CASE Flush
    <3>1. wire' = wire /\ buffered' = buffered - 1 /\ buffered \in 1..Len(wire)
      BY <2>1, <2>9 DEF Flush
    <3>2. Chunky(wire', buffered') <= Chunky(wire, buffered)
      BY <2>1, <3>1, DataFlushed DEF Chunky
    <3>3. QED
      BY <2>4, <3>2
  <2>10. UNCHANGED <<wire, buffered>> \/ SendMetadata \/ SendChunk \/ Arrive \/ Flush
    <3>1. Quiet => UNCHANGED <<wire, buffered>> \/ Flush
      BY DEF Quiet, Encrypted, TakePrefetched, SendThrows, EncryptFails, WsLost,
             DataChannelLost, AckArrives, SenderSeesClose, ReceiverSeesClose, OnClose,
             AfterChain
    <3>2. Task => UNCHANGED <<wire, buffered>>
      BY DEF Task, TakesChunk, TakesMetadata, OpensFile, WritesChunk, SavesAndGoesOn,
             SavesLast, FailsFile, Working
    <3>3. Bind => UNCHANGED <<wire, buffered>>
      BY DEF Bind
    <3>4. QED
      BY <1>2, <3>1, <3>2, <3>3, NextCases DEF Sending, vars
  <2>11. QED
    BY <2>5, <2>6, <2>7, <2>8, <2>9, <2>10
<1>3. QED
  BY <1>1, <1>2, TransferInvariant, PTL DEF Spec

\* Every step of the pages is the delivery of the next file, whole, or none.
LEMMA StepDelivers == ASSUME IInv, [Next]_vars PROVE [Delivery!Next]_(Delivery!vars)
<1>1. ASSUME UNCHANGED <<files, mode, saved>>, (ack # "none") <=> (ack' # "none")
      PROVE  UNCHANGED Delivery!vars
  <2>1. InChunks(files, mode)' = InChunks(files, mode)
    BY <1>1 DEF InChunks
  <2>2. (ack # "none")' = (ack # "none")
    BY <1>1
  <2>3. QED
    BY <1>1, <2>1, <2>2 DEF Delivery!vars
<1>2. CASE SavesAndGoesOn \/ SavesLast
  <2>1. /\ UNCHANGED <<files, mode>> /\ fileIndex \in 0..LastFile
        /\ saved' = Append(saved, [file |-> fileIndex, chunks |-> content])
        /\ Len(saved') = Len(saved) + 1 /\ Len(saved) = fileIndex
        /\ content = [k \in 1..Chunks(fileIndex) |-> k - 1]
        /\ ~AllSaved
        /\ AllSaved' <=> SavesLast
    BY <1>2, FileSaved
  <2>2. Len(files) \in Nat \ {0} /\ LastFile = Len(files) - 1 /\ files \in Seq(Nat)
    BY Basics DEF IInv, LastFile
  <2>3. /\ InChunks(files, mode)' = InChunks(files, mode)
        /\ Len(InChunks(files, mode)) = Len(files)
        /\ InChunks(files, mode)[fileIndex + 1] = Chunks(fileIndex)
    <3>1. InChunks(files, mode)' = InChunks(files, mode)
      BY <2>1 DEF InChunks
    <3>2. fileIndex + 1 \in DOMAIN files
      BY <2>1, <2>2
    <3>3. InChunks(files, mode)[fileIndex + 1] = TotalChunks(files[fileIndex + 1], mode)
      BY <3>2 DEF InChunks
    <3>4. Len(InChunks(files, mode)) = Len(files)
      <4>1. DOMAIN files = 1..Len(files) /\ DOMAIN InChunks(files, mode) = 1..Len(files)
        BY <2>2 DEF InChunks
      <4>2. QED
        BY <2>2, <4>1, LenOfFunction DEF InChunks
    <3>5. QED
      BY <3>1, <3>3, <3>4 DEF Chunks, Size
  <2>4. saved' = Append(saved, Delivery!Whole(Len(saved)))
    BY <2>1, <2>3 DEF Delivery!Whole
  <2>5. (ack # "none")' \in {FALSE, Len(saved') = Len(files)}
    <3>1. ack = "none"
      BY <2>1 DEF IInv, AckInv
    <3>2. SavesAndGoesOn => ack' = "none"
      BY <3>1 DEF SavesAndGoesOn, TaskDone
    <3>3. SavesLast => Len(saved') = Len(files)
      BY <2>1 DEF AllSaved
    <3>4. QED
      BY <1>2, <3>2, <3>3
  <2>6. Len(saved) < Len(files)
    BY <2>1, <2>2
  <2>7. QED
    BY <2>3, <2>4, <2>5, <2>6 DEF Delivery!Next, Delivery!Deliver
<1>3. CASE Sending \/ Bind \/ Arrive \/ Quiet
  <2>1. UNCHANGED <<files, mode, saved>>
    BY <1>3, OthersKeepFiles DEF fileVars, diskVars
  <2>2. (ack # "none") <=> (ack' # "none")
    BY <1>3, Sends, QuietEffects DEF Bind, Arrive
  <2>3. QED
    BY <1>1, <2>1, <2>2
<1>4. CASE TakesChunk \/ TakesMetadata \/ OpensFile \/ WritesChunk \/ FailsFile
  <2>1. UNCHANGED <<files, mode, saved>>
    BY <1>4 DEF TakesChunk, TakesMetadata, OpensFile, WritesChunk, FailsFile, Working,
                batchVars, fileVars, diskVars
  <2>2. ack' = ack
    BY <1>4 DEF TakesChunk, TakesMetadata, OpensFile, WritesChunk, FailsFile, TaskDone,
                Continue, Fail
  <2>3. QED
    BY <1>1, <2>1, <2>2
<1>5. CASE UNCHANGED vars
  BY <1>1, <1>5 DEF vars, batchVars, fileVars, diskVars
<1>6. QED
  BY <1>2, <1>3, <1>4, <1>5, NextCases DEF Task

\* Pipeline, buffering before the transport is bound, the chain of tasks and the
\* reset between two files deliver the batch of BatchDelivery, whatever the sizes,
\* the limits and the threshold are (app.js:795-1106).
THEOREM DeliveryImplemented == Spec => ImplementsDelivery
<1>1. Init => Delivery!Init
  BY DEF Init, Delivery!Init
<1>2. QED
  BY <1>1, StepDelivers, TransferInvariant, PTL DEF Spec, ImplementsDelivery, Delivery!Spec

-----------------------------------------------------------------------------
(* Refusals                                                                  *)

\* The sender's page let the batch through, and metadata is refused only for a
\* file with too many chunks.
LimitInv == Selectable(files) /\ RefusedOnlyForP2pChunks

\* The receiver looks at the limits when it has decrypted metadata, and nowhere
\* else (app.js:995-1010).
LEMMA RefusedAtMetadata ==
    ASSUME IInv, LimitInv, Next, refused' = "metadata", refused # "metadata"
    PROVE  /\ mode = "p2p"
           /\ \E i \in DOMAIN files : files[i] > MaxChunks * P2pMaxPlaintext
<1> DEFINE f == Head(chain)
<1>1. Decrypt /\ chain # <<>> /\ ~ValidMetadata(Metadata(files, mode, f.file))
  <2>1. CASE Sender \/ Flush \/ Arrive \/ Faults \/ Closing
    BY <2>1 DEF Sender, SendMetadata, Encrypted, TakePrefetched, SendChunk, SendThrows,
                Flush, Arrive, Faults, EncryptFails, FileFails, WsLost, DataChannelLost,
                Closing, AckArrives, SenderSeesClose, ReceiverSeesClose, OnClose, AfterChain
  <2>2. CASE Bind \/ Opened \/ Written \/ Closed
    BY <2>2 DEF Bind, Opened, Written, Closed
  <2>3. CASE Decrypt
    BY <2>3 DEF Decrypt
  <2>4. QED
    BY <2>1, <2>2, <2>3 DEF Next, Receiver
<1>2. f.file \in 0..(Len(files) - 1)
  BY <1>1, FirstTask DEF OfBatch
<1>3. files \in Seq(Nat) /\ mode \in Modes /\ Len(files) \in Nat
  BY Basics DEF IInv
<1>4. f.file \in Nat /\ f.file + 1 \in DOMAIN files
  BY <1>2, <1>3
<1>5. PICK j \in DOMAIN files : ~(TotalChunks(files[j], mode) <= MaxChunks)
  BY <1>1, <1>3, <1>4, RefusedForChunks DEF LimitInv
<1>6. QED
  BY <1>3, <1>5, TooManyChunks DEF LimitInv

\* A receiver takes the metadata of whatever its peer's page let through, unless a
\* file has more of a data channel's chunks than it accepts (app.js:16-28,
\* security.js:104-166).
THEOREM RefusalsExplained == Spec => []RefusedOnlyForP2pChunks
<1>1. Init => LimitInv
  BY DEF Init, LimitInv, RefusedOnlyForP2pChunks
<1>2. ASSUME IInv, LimitInv, [Next]_vars PROVE LimitInv'
  <2>1. UNCHANGED <<mode, files>>
    BY <1>2, BatchKept DEF vars, batchVars
  <2>2. CASE refused' = "metadata" /\ refused # "metadata"
    <3>1. Next
      BY <1>2, <2>2 DEF vars
    <3>2. QED
      BY <1>2, <2>1, <2>2, <3>1, RefusedAtMetadata DEF LimitInv, RefusedOnlyForP2pChunks
  <2>3. CASE refused' = "metadata" => refused = "metadata"
    BY <1>2, <2>1, <2>3 DEF LimitInv, RefusedOnlyForP2pChunks
  <2>4. QED
    BY <2>2, <2>3
<1>3. LimitInv => RefusedOnlyForP2pChunks
  BY DEF LimitInv
<1>4. QED
  BY <1>1, <1>2, <1>3, TransferInvariant, PTL DEF Spec

-----------------------------------------------------------------------------
(* Progress                                                                  *)

\* The chunks of the first n files of the batch.
ChunksBefore(n) == SumOf(ChunkTable(files, mode), 1..n)

\* The progress bar stands at the chunks of the files that are saved and those of
\* the current file; the counters of the last file are never moved.
ProgressInv ==
    /\ Global <= BatchTotalChunks(files, mode)
    /\ AllSaved => Global = BatchTotalChunks(files, mode)
    /\ ~Failed => batchDoneChunks = ChunksBefore(IF AllSaved THEN LastFile ELSE Len(saved))

\* One file more, and no more than the batch (app.js:42-48).
LEMMA OneFileMore ==
    ASSUME TypeOK, NEW n \in 0..LastFile
    PROVE  /\ ChunksBefore(n) \in Nat
           /\ ChunksBefore(n + 1) = ChunksBefore(n) + Chunks(n)
           /\ ChunksBefore(n + 1) <= BatchTotalChunks(files, mode)
           /\ n = LastFile => ChunksBefore(n + 1) = BatchTotalChunks(files, mode)
<1> DEFINE C == ChunkTable(files, mode)
<1>1. files \in Seq(Nat) /\ mode \in Modes /\ Len(files) \in Nat /\ LastFile = Len(files) - 1
  BY Basics DEF LastFile
<1>2. /\ BatchTotalChunks(files, mode) = SumOf(C, 1..Len(files))
      /\ \A i \in 1..Len(files) : C[i] = TotalChunks(files[i], mode) /\ C[i] \in Nat
  BY <1>1, BatchIsSum
<1>3. C[n + 1] = Chunks(n)
  BY <1>1, <1>2 DEF Chunks, Size
<1> HIDE DEF C
<1>4. /\ IsFiniteSet(1..n) /\ IsFiniteSet(1..(n + 1)) /\ IsFiniteSet(1..Len(files))
      /\ n + 1 \in 1..(n + 1) /\ (1..(n + 1)) \ {n + 1} = 1..n
      /\ 1..(n + 1) \subseteq 1..Len(files) /\ 1..n \subseteq 1..Len(files)
  <2>1. n \in Nat /\ n + 1 \in Int /\ n + 1 <= Len(files)
    BY <1>1
  <2>2. IsFiniteSet(1..n) /\ IsFiniteSet(1..(n + 1)) /\ IsFiniteSet(1..Len(files))
    BY <1>1, <2>1, FS_Interval
  <2>3. n + 1 \in 1..(n + 1) /\ (1..(n + 1)) \ {n + 1} = 1..n
    BY <2>1
  <2>4. 1..(n + 1) \subseteq 1..Len(files) /\ 1..n \subseteq 1..Len(files)
    BY <1>1, <2>1
  <2>5. QED
    BY <2>2, <2>3, <2>4
<1>5. SumOf(C, 1..n) \in Nat
  BY <1>2, <1>4, SumInNat
<1>6. SumOf(C, 1..(n + 1)) = C[n + 1] + SumOf(C, 1..n)
  <2>1. \A i \in 1..(n + 1) : C[i] \in Nat
    BY <1>2, <1>4
  <2>2. SumOf(C, 1..(n + 1)) = C[n + 1] + SumOf(C, (1..(n + 1)) \ {n + 1})
    BY ONLY <1>4, <2>1, SumRemove
  <2>3. QED
    BY <1>4, <2>2
<1>7. SumOf(C, 1..(n + 1)) <= SumOf(C, 1..Len(files))
  BY <1>2, <1>4, SumMonotone
<1>8. C[n + 1] \in Nat
  BY <1>2, <1>4
<1>9. QED
  BY <1>1, <1>2, <1>3, <1>5, <1>6, <1>7, <1>8 DEF ChunksBefore, C

\* Where the counters stand in the middle of a file.
LEMMA InFile ==
    ASSUME IInv, ProgressInv, Reading, ~Failed
    PROVE  /\ ~AllSaved /\ Len(saved) = fileIndex /\ fileIndex \in 0..LastFile
           /\ LastFile = Len(files) - 1 /\ Len(files) \in Nat
           /\ totalChunks = Chunks(fileIndex) /\ totalChunks \in Nat
           /\ currentChunk \in 0..totalChunks
           /\ batchDoneChunks = ChunksBefore(fileIndex) /\ batchDoneChunks \in Nat
           /\ ChunksBefore(fileIndex + 1) = batchDoneChunks + totalChunks
           /\ ChunksBefore(fileIndex + 1) <= BatchTotalChunks(files, mode)
           /\ fileIndex = LastFile
                => batchDoneChunks + totalChunks = BatchTotalChunks(files, mode)
           /\ BatchTotalChunks(files, mode) \in Nat
<1>1. /\ ~AllSaved /\ Len(saved) = fileIndex /\ fileIndex \in 0..LastFile
      /\ totalChunks \in Nat /\ currentChunk \in 0..totalChunks /\ ReadingInv
  BY Unsaved
<1>2. totalChunks = Chunks(fileIndex)
  BY <1>1 DEF ReadingInv
<1>3. TypeOK /\ batchDoneChunks = ChunksBefore(fileIndex)
  BY <1>1 DEF IInv, ProgressInv
<1>4. /\ files \in Seq(Nat) /\ mode \in Modes /\ Len(files) \in Nat
      /\ LastFile \in Nat /\ LastFile = Len(files) - 1
  BY <1>3, Basics DEF LastFile
<1>5. /\ ChunksBefore(fileIndex) \in Nat
      /\ ChunksBefore(fileIndex + 1) = ChunksBefore(fileIndex) + Chunks(fileIndex)
      /\ ChunksBefore(fileIndex + 1) <= BatchTotalChunks(files, mode)
      /\ fileIndex = LastFile => ChunksBefore(fileIndex + 1) = BatchTotalChunks(files, mode)
  BY <1>1, <1>3, OneFileMore
<1>6. BatchTotalChunks(files, mode) \in Nat
  <2>1. IsFiniteSet(1..Len(files))
    BY <1>4, FS_Interval
  <2>2. QED
    BY <1>4, <2>1, BatchIsSum, SumInNat
<1>7. QED
  BY <1>1, <1>2, <1>3, <1>4, <1>5, <1>6

\* A step of the receiver takes the progress bar forward, by the chunk that was
\* written or not at all: the move of the counters does not show (app.js:922-954).
LEMMA ProgressStep ==
    ASSUME IInv, ProgressInv, Next
    PROVE  ProgressInv' /\ Global <= Global'
<1>1. /\ UNCHANGED <<files, mode>> /\ LastFile' = LastFile
      /\ batchDoneChunks \in Nat /\ currentChunk \in Nat /\ Global \in Nat
  BY BatchKept DEF batchVars, IInv, TypeOK, Global
<1>2. /\ BatchTotalChunks(files, mode)' = BatchTotalChunks(files, mode)
      /\ \A n : ChunksBefore(n)' = ChunksBefore(n)
  BY <1>1 DEF BatchTotalChunks, ChunksBefore, ChunkTable
<1>3. ASSUME UNCHANGED <<batchDoneChunks, currentChunk, saved>>, Failed => Failed'
      PROVE  ProgressInv' /\ Global <= Global'
  <2>1. Global' = Global /\ AllSaved' = AllSaved
    BY <1>1, <1>3 DEF Global, AllSaved
  <2>2. QED
    BY <1>1, <1>2, <1>3, <2>1 DEF ProgressInv
<1>4. CASE Sending \/ Bind \/ Arrive \/ Quiet
  BY <1>3, <1>4, OthersKeepFiles DEF fileVars, metaVars, diskVars, Failed
<1>5. CASE TakesChunk \/ OpensFile
  BY <1>3, <1>5, TaskEffects DEF Task, TakesChunk, OpensFile, fileVars, metaVars, diskVars
<1>6. CASE TakesMetadata
  <2>1. ~Failed /\ ~metadataReceived
    BY <1>6 DEF TakesMetadata, Failed
  <2>2. currentChunk = 0
    BY <2>1 DEF IInv, FileInv, BetweenInv
  <2>3. QED
    BY <1>3, <1>6, <2>1, <2>2 DEF TakesMetadata
<1>7. CASE FailsFile
  BY <1>3, <1>7 DEF FailsFile, Fail, Failed
<1>8. CASE WritesChunk
  <2>1. Reading /\ ~Failed
    BY <1>8 DEF WritesChunk, Failed
  <2>2. /\ currentChunk' = currentChunk + 1 /\ currentChunk' <= totalChunks
        /\ UNCHANGED <<batchDoneChunks, saved>>
    <3>1. totalChunks \in Nat
      BY <2>1, InFile
    <3>2. QED
      BY <1>8, <3>1 DEF WritesChunk
  <2>3. Global' = Global + 1 /\ Global' <= batchDoneChunks + totalChunks
    <3>1. totalChunks \in Nat
      BY <2>1, InFile
    <3>2. QED
      BY <1>1, <2>2, <3>1 DEF Global
  <2>4. Global' <= BatchTotalChunks(files, mode)
    BY <1>1, <2>1, <2>3, InFile
  <2>5. AllSaved' = AllSaved /\ ~AllSaved
    BY <1>1, <2>1, <2>2, InFile DEF AllSaved
  <2>6. batchDoneChunks' = ChunksBefore(Len(saved'))
    BY <2>1, <2>2, InFile
  <2>7. QED
    BY <1>1, <1>2, <2>3, <2>4, <2>5, <2>6 DEF ProgressInv
<1>9. CASE SavesAndGoesOn \/ SavesLast
  <2>1. Reading /\ ~Failed
    BY <1>9 DEF SavesAndGoesOn, SavesLast, Failed
  <2>2. /\ Len(saved') = Len(saved) + 1
        /\ AllSaved' <=> SavesLast
        /\ currentChunk = totalChunks
    BY <1>9, FileSaved
  <2>3. Len(saved') = fileIndex + 1 /\ Global = batchDoneChunks + totalChunks
    BY <2>1, <2>2, InFile DEF Global
  <2>4. CASE SavesAndGoesOn
    <3>1. batchDoneChunks' = batchDoneChunks + totalChunks /\ currentChunk' = 0
      BY <2>4 DEF SavesAndGoesOn, NextFile, ResetForNextFile
    <3>2. Global' = Global /\ ~AllSaved'
      <4>1. ~SavesLast
        BY <2>1, <2>4, InFile DEF SavesAndGoesOn, SavesLast
      <4>2. batchDoneChunks + totalChunks \in Nat
        BY <2>1, InFile
      <4>3. QED
        BY <2>2, <2>3, <3>1, <4>1, <4>2 DEF Global
    <3>3. batchDoneChunks' = ChunksBefore(Len(saved'))
      BY <2>1, <2>3, <3>1, InFile
    <3>4. QED
      BY <1>1, <1>2, <3>2, <3>3 DEF ProgressInv
  <2>5. CASE SavesLast
    <3>1. UNCHANGED <<batchDoneChunks, currentChunk>> /\ fileIndex = LastFile
      BY <2>5 DEF SavesLast, metaVars
    <3>2. Global' = Global /\ Global = BatchTotalChunks(files, mode) /\ AllSaved'
      BY <2>1, <2>2, <2>3, <2>5, <3>1, InFile DEF Global
    <3>3. batchDoneChunks' = ChunksBefore(LastFile)
      BY <2>1, <3>1, InFile
    <3>4. QED
      BY <1>1, <1>2, <3>2, <3>3 DEF ProgressInv
  <2>6. QED
    BY <1>9, <2>4, <2>5
<1>10. QED
  BY <1>4, <1>5, <1>6, <1>7, <1>8, <1>9, NextCases DEF Task

\* The receiver's progress bar never goes back, never passes the total that the
\* metadata announces, and is full when the last file is saved, whatever the sizes of
\* the files and of the chunks are (app.js:65-90, 928-932).
THEOREM ProgressIsHonest == Spec => ProgressHonest
<1>1. Init => ProgressInv
  <2> SUFFICES ASSUME Init PROVE ProgressInv
    OBVIOUS
  <2>1. Global = 0 /\ batchDoneChunks = 0 /\ ~AllSaved /\ Len(saved) = 0
    <3>1. Len(files) # 0
      BY DEF Init, Selectable
    <3>2. QED
      BY <3>1 DEF Init, Global, AllSaved
  <2>2. /\ files \in Seq(Nat) /\ mode \in Modes /\ Len(files) \in Nat
    BY TransferAssumption DEF Init
  <2>3. BatchTotalChunks(files, mode) \in Nat
    <3>1. IsFiniteSet(1..Len(files))
      BY <2>2, FS_Interval
    <3>2. QED
      BY <2>2, <3>1, BatchIsSum, SumInNat
  <2>4. ChunksBefore(0) = 0
    <3>1. 1..0 = {}
      OBVIOUS
    <3>2. QED
      BY <3>1, SumEmpty DEF ChunksBefore
  <2>5. QED
    BY <2>1, <2>3, <2>4 DEF ProgressInv
<1>2. ASSUME IInv, ProgressInv, [Next]_vars
      PROVE  /\ ProgressInv'
             /\ [/\ Global <= Global'
                 /\ Global' <= BatchTotalChunks(files, mode)
                 /\ Len(saved') = Len(files) => Global' = BatchTotalChunks(files, mode)]_vars
  <2>1. CASE Next
    <3>1. ProgressInv' /\ Global <= Global' /\ UNCHANGED <<files, mode>>
      BY <1>2, <2>1, ProgressStep, BatchKept DEF batchVars
    <3>2. BatchTotalChunks(files, mode)' = BatchTotalChunks(files, mode)
      BY <3>1 DEF BatchTotalChunks
    <3>3. QED
      BY <3>1, <3>2 DEF ProgressInv, AllSaved
  <2>2. CASE UNCHANGED vars
    <3>1. UNCHANGED <<files, mode, task, saved, batchDoneChunks, currentChunk>>
      BY <2>2 DEF vars, batchVars, fileVars, metaVars, diskVars
    <3>2. QED
      BY <1>2, <2>2, <3>1 DEF ProgressInv, Global, AllSaved, Failed, LastFile, ChunksBefore,
                              ChunkTable, BatchTotalChunks
  <2>3. QED
    BY <1>2, <2>1, <2>2
<1>3. QED
  BY <1>1, <1>2, TransferInvariant, PTL DEF Spec, ProgressHonest

=============================================================================
