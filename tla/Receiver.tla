------------------------------ MODULE Receiver ------------------------------
(***************************************************************************)
(* The receiving half of the ZeroMQ transport (ZmqEnvelopeIo.hpp, class    *)
(* Receiver): one I/O thread owns the socket and hands every message to    *)
(* the owner's decoder, while the owner starts and stops it and the        *)
(* scheduler's worker asks failed().                                       *)
(*                                                                         *)
(* link stands for the socket: the messages libzmq holds for this reader.  *)
(* What arrives on it, and what the decoder does with a message, belong to *)
(* the modules that extend this one.                                       *)
(***************************************************************************)
EXTENDS Integers, Sequences

CONSTANTS
    MaxStarts,  \* bound on start() calls
    Failures    \* whether the socket may fail to open, or recv() may fail

ASSUME ReceiverAssumption == MaxStarts \in Nat /\ Failures \in BOOLEAN

VARIABLES
    owner,          \* "down", "starting", "up" or "stopping"
    stopRequested,  \* _stopRequested
    opened,         \* _opened
    openFailure,    \* _openFailure is not empty
    failed,         \* _failed
    reader,         \* where the I/O thread stands; "done" is _threadDone
    held,           \* the message in the reader's hands: <<>> or <<m>>
    messages,       \* _messages
    link,           \* external: what recv() will return, in order
    starts          \* history: start() calls so far

signals      == <<stopRequested, opened, openFailure, failed>>
readerVars   == <<reader, held, messages>>
receiverVars == <<owner, signals, readerVars, link, starts>>

Reader == {"done", "opening", "polling", "receiving", "received", "decoding", "closing"}

ReceiverTypeOK ==
    /\ owner \in {"down", "starting", "up", "stopping"}
    /\ stopRequested \in BOOLEAN /\ opened \in BOOLEAN
    /\ openFailure \in BOOLEAN /\ failed \in BOOLEAN
    /\ reader \in Reader
    /\ Len(held) \in 0 .. 1
    /\ messages \in Nat
    /\ starts \in 0 .. MaxStarts

ReceiverInit ==
    /\ owner = "down" /\ reader = "done" /\ held = <<>>
    /\ stopRequested = FALSE /\ opened = FALSE /\ openFailure = FALSE /\ failed = FALSE
    /\ messages = 0 /\ starts = 0

-----------------------------------------------------------------------------
(* The owner.                                                              *)

(* start(): reset the flags, launch readLoop() on the I/O pool.  The       *)
(* socket is new, so nothing an earlier one held is left on the link.      *)
StartReceiver ==
    /\ owner = "down" /\ starts < MaxStarts
    /\ owner' = "starting"
    /\ stopRequested' = FALSE /\ opened' = FALSE /\ openFailure' = FALSE /\ failed' = FALSE
    /\ reader' = "opening"
    /\ link' = <<>>
    /\ starts' = starts + 1
    /\ UNCHANGED <<held, messages>>

StartReturns ==
    /\ owner = "starting" /\ opened /\ ~openFailure
    /\ owner' = "up"
    /\ UNCHANGED <<signals, readerVars, link, starts>>

StartThrows ==
    /\ owner = "starting" /\ opened /\ openFailure /\ reader = "done"
    /\ owner' = "down"
    /\ UNCHANGED <<signals, readerVars, link, starts>>

(* stop(): raise the flag and wait for the thread. *)
RequestStop ==
    /\ owner = "up"
    /\ owner' = "stopping" /\ stopRequested' = TRUE
    /\ UNCHANGED <<opened, openFailure, failed, readerVars, link, starts>>

(* StopReturns with a bug, for QuietAfterStop: it does not wait. *)
StopReturnsEarly ==
    /\ owner = "stopping"
    /\ owner' = "down"
    /\ UNCHANGED <<signals, readerVars, link, starts>>

StopReturns ==
    /\ owner = "stopping" /\ reader = "done"
    /\ owner' = "down"
    /\ UNCHANGED <<signals, readerVars, link, starts>>

-----------------------------------------------------------------------------
(* The I/O thread: readLoop() and receiveUntilStopped().                   *)

Open(failure) ==
    /\ reader = "opening"
    /\ failure => Failures
    /\ opened' = TRUE /\ openFailure' = failure
    /\ reader' = IF failure THEN "closing" ELSE "polling"
    /\ UNCHANGED <<owner, stopRequested, failed, held, messages, link, starts>>

(* Each turn of the loop begins with a look at _stopRequested. *)
Poll ==
    /\ reader = "polling"
    /\ reader' = IF stopRequested THEN "closing" ELSE "receiving"
    /\ UNCHANGED <<owner, signals, held, messages, link, starts>>

(* recv() returns a whole multipart message. *)
Receive ==
    /\ reader = "receiving" /\ link # <<>>
    /\ held' = <<Head(link)>> /\ link' = Tail(link)
    /\ reader' = "received"
    /\ UNCHANGED <<owner, signals, messages, starts>>

(* ZMQ_RCVTIMEO expires. *)
Timeout ==
    /\ reader = "receiving" /\ link = <<>>
    /\ reader' = "polling"
    /\ UNCHANGED <<owner, signals, held, messages, link, starts>>

(* recv() throws: a failure only when nobody asked the reader to stop. *)
Fail ==
    /\ reader = "receiving" /\ Failures
    /\ failed' = (failed \/ ~stopRequested)
    /\ reader' = "closing"
    /\ UNCHANGED <<owner, stopRequested, opened, openFailure, held, messages, link, starts>>

(* The message is counted under the mutex before the decoder sees it. *)
CountMessage ==
    /\ reader = "received"
    /\ messages' = messages + 1
    /\ reader' = "decoding"
    /\ UNCHANGED <<owner, signals, held, link, starts>>

(* The decoder returns; what it did is conjoined by the extending module. *)
Decoded ==
    /\ reader = "decoding"
    /\ held' = <<>>
    /\ reader' = "polling"
    /\ UNCHANGED <<owner, signals, messages, link, starts>>

CloseSocket ==
    /\ reader = "closing"
    /\ reader' = "done"
    /\ UNCHANGED <<owner, signals, held, messages, link, starts>>

(* Everything the reader does but decode. *)
ReaderStep ==
    \/ \E failure \in BOOLEAN : Open(failure)
    \/ Poll \/ Receive \/ Timeout \/ Fail \/ CountMessage \/ CloseSocket
=============================================================================
