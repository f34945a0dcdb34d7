------------------------------ MODULE Streaming -------------------------------
(***************************************************************************)
(* src/streaming.c: the chunked file pipeline (pipe) and the capture of    *)
(* the framebuffer into transport messages (frames).  A request of the     *)
(* pipeline is [left, at, done]: its length, how far its buffer pointer has *)
(* moved, and done.  Three fields are not part of the program: want, the   *)
(* length the caller gave, asked, the bytes of the buffer that were handed *)
(* to plat_fs_read or plat_fs_write, and moved, the pairs <<byte of the    *)
(* buffer, byte of the file>> of the transfers that took place.  error is  *)
(* left out: it is 0 from the start to the end.                            *)
(***************************************************************************)
EXTENDS Integers, FiniteSets

CONSTANTS
  STREAMING_QUEUE_DEPTH, STREAMING_CHUNK_SIZE,
  Lengths,                 \* bound: lengths of requests
  FRAME_W, FRAME_H,        \* VIDEO_WIDTH, VIDEO_HEIGHT, a byte per pixel
  FRAME_CHUNK_PAYLOAD,
  MaxFrames                \* bound: complete frames of one start

ASSUME StreamingAssumption ==
  /\ {STREAMING_QUEUE_DEPTH, STREAMING_CHUNK_SIZE, FRAME_CHUNK_PAYLOAD} \subseteq Nat \ {0}
  /\ Lengths \subseteq Nat
  /\ {FRAME_W, FRAME_H, MaxFrames} \subseteq Nat

VARIABLES pipe, frames

Idle == [left |-> 0, at |-> 0, done |-> TRUE, want |-> 0, asked |-> {}, moved |-> {}]
Request(length) == [left |-> length, at |-> 0, done |-> FALSE, want |-> length,
                    asked |-> {}, moved |-> {}]
PipeClosed == [open |-> FALSE, tail |-> 0, hung |-> FALSE,
               queue |-> [i \in 0..STREAMING_QUEUE_DEPTH - 1 |-> Idle]]

PipeInit == pipe = PipeClosed

stream_open == /\ ~pipe.open
               /\ pipe' = [PipeClosed EXCEPT !.open = TRUE]

stream_close == /\ pipe.open /\ ~pipe.hung
                /\ pipe' = PipeClosed

Piece(r) == IF r.left <= STREAMING_CHUNK_SIZE THEN r.left ELSE STREAMING_CHUNK_SIZE

(* plat_fs_read and plat_fs_write of n bytes at the buffer pointer.  They  *)
(* take no offset: the piece is always the start of the file.  Of the n    *)
(* bytes k are moved: fewer when the file ends or a sector fails, which    *)
(* the caller of Transfer does not look at.                                *)
Transfer(r, n, k) ==
  [r EXCEPT !.asked = @ \cup {r.at + b : b \in 0..n - 1},
            !.moved = @ \cup {<<r.at + b, b>> : b \in 0..(IF k < n THEN k ELSE n) - 1}]

BadAdvanceChunk(r, k) ==    \* the last piece is moved as a whole chunk
  LET t == Transfer(r, STREAMING_CHUNK_SIZE, k) IN
  IF r.left <= STREAMING_CHUNK_SIZE THEN [t EXCEPT !.done = TRUE]
  ELSE [t EXCEPT !.left = @ - STREAMING_CHUNK_SIZE, !.at = @ + STREAMING_CHUNK_SIZE]

(* The last piece leaves the length and the pointer as they are.           *)
advance_chunk(r, k) ==
  LET t == Transfer(r, Piece(r), k) IN
  IF r.left <= STREAMING_CHUNK_SIZE THEN [t EXCEPT !.done = TRUE]
  ELSE [t EXCEPT !.left = @ - STREAMING_CHUNK_SIZE, !.at = @ + STREAMING_CHUNK_SIZE]

Outcomes == 0..STREAMING_CHUNK_SIZE    \* the bytes one transfer may move

(* stream_read_async and stream_write_async.  queue_tail is never taken    *)
(* back: a pipeline takes STREAMING_QUEUE_DEPTH requests in its life.      *)
stream_async(length) ==
  /\ pipe.open /\ ~pipe.hung
  /\ pipe.tail < STREAMING_QUEUE_DEPTH
  /\ pipe' = [pipe EXCEPT !.queue[pipe.tail] = Request(length), !.tail = @ + 1]

BadStreamPoll ==            \* stops at the first request that is done
  /\ pipe.open /\ ~pipe.hung
  /\ pipe' = [pipe EXCEPT !.queue =
                [i \in DOMAIN @ |-> IF i < pipe.tail /\ \A j \in 0..i : ~@[j].done
                                    THEN advance_chunk(@[i], 0) ELSE @[i]]]

(* One chunk of every request that is not done, each with its own outcome. *)
stream_poll ==
  /\ pipe.open /\ ~pipe.hung
  /\ \E k \in [DOMAIN pipe.queue -> Outcomes] :
       pipe' = [pipe EXCEPT !.queue =
                  [i \in DOMAIN @ |-> IF i < pipe.tail /\ ~@[i].done
                                      THEN advance_chunk(@[i], k[i]) ELSE @[i]]]

(* stream_read_sync and stream_write_sync borrow the first entry of the    *)
(* queue, whoever has it, and loop until its length is 0, which            *)
(* advance_chunk never makes it: only an empty request returns, and leaves *)
(* the entry as a request that is not done.                                *)
stream_sync(length) ==
  /\ pipe.open /\ ~pipe.hung
  /\ pipe' = [pipe EXCEPT !.queue[0] = Request(length), !.hung = length > 0]

(* The loop: at the end it moves the last piece again and again.           *)
SyncPass ==
  /\ pipe.hung
  /\ \E k \in Outcomes : pipe' = [pipe EXCEPT !.queue[0] = advance_chunk(@, k)]

PipeNext ==
  \/ stream_open \/ stream_close \/ stream_poll \/ SyncPass
  \/ \E length \in Lengths : stream_async(length) \/ stream_sync(length)
-------------------------------------------------------------------------------
FramesOff == [init |-> FALSE, running |-> FALSE, low |-> FALSE, passthrough |-> FALSE, id |-> 0,
              sending |-> FALSE, chunk |-> 0, offset |-> 0, complete |-> {}]

FramesInit == frames = FramesOff

streaming_init ==
  /\ ~frames.init
  /\ frames' = [FramesOff EXCEPT !.init = TRUE]

(* frames.complete, the ids of whole frames since the start, is not part   *)
(* of the program.                                                         *)
streaming_start ==
  /\ frames.init /\ ~frames.sending
  /\ frames' = [frames EXCEPT !.running = TRUE, !.id = 0, !.complete = {}]

streaming_stop ==
  /\ ~frames.sending
  /\ frames' = [frames EXCEPT !.running = FALSE]

(* Medium and high quality send the same frame.                            *)
streaming_set_quality(low) ==
  /\ ~frames.sending
  /\ frames' = [frames EXCEPT !.low = low]

streaming_set_passthrough(on) ==
  /\ ~frames.sending
  /\ frames' = [frames EXCEPT !.passthrough = on]

effective_width == IF frames.low THEN FRAME_W \div 2 ELSE FRAME_W
effective_height == IF frames.low THEN FRAME_H \div 2 ELSE FRAME_H
TotalBytes == effective_width * effective_height

BadFrameChunks == TotalBytes \div FRAME_CHUNK_PAYLOAD     \* rounds down

FrameChunks == (TotalBytes + FRAME_CHUNK_PAYLOAD - 1) \div FRAME_CHUNK_PAYLOAD

(* The bytes of the framebuffer that the bytes from..to of the frame are.  *)
FrameSource(from, to) ==
  LET w == effective_width
  IN  {IF frames.low THEN (p \div w) * 2 * FRAME_W + (p % w) * 2 ELSE p : p \in from..to}

streaming_capture_and_send ==
  /\ frames.init /\ frames.running /\ ~frames.sending
  /\ frames.id < MaxFrames
  /\ frames' = [frames EXCEPT !.sending = TRUE, !.chunk = 0, !.offset = 0]

FrameRest == TotalBytes - frames.offset
FrameCopied == IF frames.offset + FRAME_CHUNK_PAYLOAD > TotalBytes THEN FrameRest
               ELSE FRAME_CHUNK_PAYLOAD

(* One pass of the loop; when transport_send fails the frame is given up   *)
(* and the next one takes its id.                                          *)
FrameChunk(sent) ==
  /\ frames.sending /\ frames.chunk < FrameChunks
  /\ frames' = IF sent THEN [frames EXCEPT !.chunk = @ + 1, !.offset = @ + FrameCopied]
               ELSE [frames EXCEPT !.sending = FALSE, !.chunk = 0, !.offset = 0]

FrameEnd ==
  /\ frames.sending /\ frames.chunk >= FrameChunks
  /\ frames' = [frames EXCEPT !.sending = FALSE, !.chunk = 0, !.offset = 0, !.id = @ + 1,
                              !.complete = IF frames.offset = TotalBytes THEN @ \cup {frames.id}
                                           ELSE @]

FramesNext ==
  \/ streaming_init \/ streaming_start \/ streaming_stop
  \/ \E b \in BOOLEAN : streaming_set_quality(b) \/ streaming_set_passthrough(b)
  \/ streaming_capture_and_send
  \/ \E sent \in BOOLEAN : FrameChunk(sent)
  \/ FrameEnd
-------------------------------------------------------------------------------
(* The pipeline keeps to the caller's buffers: however polls, requests and *)
(* synchronous calls follow each other, also while the last piece is moved *)
(* again and again, no piece reaches outside the length the caller gave,   *)
(* and one that is done had all of it handed to a transfer, so no byte was *)
(* skipped.  Whether the transfers took place done does not say.  What did *)
(* come or go is the start of the file, chunk after chunk: byte b of the   *)
(* buffer meets byte b % STREAMING_CHUNK_SIZE of the file, whatever offset *)
(* and however long the request.                                           *)
BuffersCovered ==
  \A i \in DOMAIN pipe.queue :
     LET r == pipe.queue[i] IN
     /\ r.asked \subseteq 0..r.want - 1
     /\ r.done => r.asked = 0..r.want - 1
     /\ \A m \in r.moved : m[1] \in r.asked /\ m[2] = m[1] % STREAMING_CHUNK_SIZE

(* A request that the pipeline took is not done; the caller polls for it.  *)
(* A synchronous call that hangs has no poll left to wait for.             *)
RequestsPending ==
  pipe.open /\ ~pipe.hung /\ \E i \in 0..pipe.tail - 1 : ~pipe.queue[i].done

(* The chunks of a frame follow each other without a gap, none is empty or *)
(* larger than a transport payload, they only read the framebuffer, and at *)
(* the end they are the whole frame; ids count whole frames, so only a     *)
(* frame whose send failed shares its id with another.                     *)
FramesWhole ==
  /\ frames.sending =>
       /\ frames.offset = (IF frames.chunk < FrameChunks THEN frames.chunk * FRAME_CHUNK_PAYLOAD
                           ELSE TotalBytes)
       /\ frames.chunk < FrameChunks =>
            /\ FrameCopied \in 1..FRAME_CHUNK_PAYLOAD
            /\ FrameSource(frames.offset, frames.offset + FrameCopied - 1)
                 \subseteq 0..FRAME_W * FRAME_H - 1
  /\ frames.complete = 0..frames.id - 1
===============================================================================
