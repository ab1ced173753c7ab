--------------------------- MODULE TcpConnection ----------------------------
(***************************************************************************)
(* What the two ends of a raw TCP byte stream (TcpByteIo.hpp) have in      *)
(* common: the life of the I/O thread that owns the socket, and how it     *)
(* takes, keeps and loses its one peer.  The ends are "sink" and "source"; *)
(* one of them listens and the other connects.                             *)
(*                                                                         *)
(* The network is external.  A connection is made by the kernel, which     *)
(* puts it in the listener's backlog, before either end has adopted it; it *)
(* carries bytes from the sink to the source.  What may go wrong, and every *)
(* start() of an end but the first, is drawn from one budget, MaxFaults.   *)
(***************************************************************************)
EXTENDS Integers, Sequences, FiniteSets

CONSTANTS
    MaxFaults,     \* bound on faults and restarts
    WireBytes      \* what a connection holds unread

ASSUME TcpAssumption ==
    MaxFaults \in Nat /\ WireBytes \in Nat \ {0}

Ends   == {"sink", "source"}
Conns  == 1 .. 3   \* an end has one connection, and one more may wait
None   == 0

VARIABLES
    listener,       \* the end whose bind setting is true
    owner,          \* per end: "down", "up" or "stopping"
    stopRequested,  \* per end: _stopRequested
    io,             \* per end: where its I/O thread stands; "done" is _ioThreadDone
    peer,           \* per end: the connection it serves
    attempt,        \* the connecting end's half-made connection
    everConnected,  \* per end: _everConnected
    linkBalance,    \* per end and run: connections adopted (_everConnected and
                    \* nReconnects) minus connections lost (nDisconnects)
    conns,          \* external: the connections; holders have a descriptor open
    backlog,        \* external: those the listener has not accepted
    faults,         \* history: faults and restarts so far
    tcpStarts       \* per end, history: start() calls so far

networkVars == <<conns, backlog, faults>>
threadVars  == <<owner, stopRequested, io, tcpStarts>>
peerVars    == <<peer, attempt, everConnected, linkBalance>>
tcpVars     == <<listener, threadVars, peerVars, networkVars>>

Idle == [holders |-> {}, wire |-> <<>>, reset |-> FALSE]

TcpInit ==
    /\ listener \in Ends
    /\ owner = [e \in Ends |-> "down"] /\ io = [e \in Ends |-> "done"]
    /\ stopRequested = [e \in Ends |-> FALSE] /\ tcpStarts = [e \in Ends |-> 0]
    /\ peer = [e \in Ends |-> None] /\ attempt = None
    /\ everConnected = [e \in Ends |-> FALSE] /\ linkBalance = [e \in Ends |-> 0]
    /\ conns = [c \in Conns |-> Idle] /\ backlog = <<>> /\ faults = 0

-----------------------------------------------------------------------------
(* The network.                                                            *)

Listening    == io[listener] # "done"
Unused       == {c \in Conns : conns[c].holders = {}}
Fresh(c)     == c \in Unused /\ \A d \in Unused : c <= d
Broken(c, e) == conns[c].reset \/ conns[c].holders \subseteq {e}

(* Descriptors of end e closed on connections cs: nobody reads the wire of *)
(* one the source has left.                                                *)
Closed(cs, e) ==
    [c \in Conns |->
       IF c \notin cs THEN conns[c]
       ELSE LET left == conns[c].holders \ {e}
            IN  IF left = {} THEN Idle
                ELSE [conns[c] EXCEPT !.holders = left,
                                      !.wire = IF e = "source" THEN <<>> ELSE @]]

Fault == faults < MaxFaults /\ faults' = faults + 1

(* A client that is no block of ours connects to the listener. *)
StrangerConnects(c) ==
    /\ Listening /\ Fresh(c) /\ Len(backlog) < 2 /\ Fault
    /\ conns' = [conns EXCEPT ![c].holders = {listener, "stranger"}]
    /\ backlog' = Append(backlog, c)
    /\ UNCHANGED <<listener, threadVars, peerVars>>

StrangerLeaves(c) ==
    /\ "stranger" \in conns[c].holders
    /\ conns' = IF conns[c].holders = {"stranger"} THEN [conns EXCEPT ![c] = Idle]
                ELSE [conns EXCEPT ![c].holders = @ \ {"stranger"}, ![c].wire = <<>>]
    /\ UNCHANGED <<listener, threadVars, peerVars, backlog, faults>>

ConnectionReset(c) ==
    /\ Ends \subseteq conns[c].holders /\ ~conns[c].reset /\ Fault
    /\ conns' = [conns EXCEPT ![c].reset = TRUE, ![c].wire = <<>>]
    /\ UNCHANGED <<listener, threadVars, peerVars, backlog>>

-----------------------------------------------------------------------------
(* The owner and the life of the I/O thread.                               *)

(* start(): the thread opens what it can, tells start() and goes on; when  *)
(* the endpoint cannot be resolved or bound it ends, and start() throws.   *)
Launch(e) ==
    /\ owner[e] = "down"
    /\ stopRequested' = [stopRequested EXCEPT ![e] = FALSE]
    /\ everConnected' = [everConnected EXCEPT ![e] = FALSE]
    /\ linkBalance' = [linkBalance EXCEPT ![e] = 0]
    /\ tcpStarts' = [tcpStarts EXCEPT ![e] = @ + 1]
    /\ \/ /\ owner' = [owner EXCEPT ![e] = "up"] /\ io' = [io EXCEPT ![e] = "loop"]
          /\ IF tcpStarts[e] = 0 THEN UNCHANGED faults ELSE Fault
       \/ Fault /\ UNCHANGED <<owner, io>>
    /\ UNCHANGED <<listener, peer, attempt, conns, backlog>>

RequestStop(e) ==
    /\ owner[e] = "up"
    /\ owner' = [owner EXCEPT ![e] = "stopping"]
    /\ stopRequested' = [stopRequested EXCEPT ![e] = TRUE]
    /\ UNCHANGED <<listener, io, tcpStarts, peerVars, networkVars>>

StopReturns(e) ==
    /\ owner[e] = "stopping" /\ io[e] = "done"
    /\ owner' = [owner EXCEPT ![e] = "down"]
    /\ UNCHANGED <<listener, stopRequested, io, tcpStarts, peerVars, networkVars>>

(* The thread ends and its descriptors close: the peer's, the half-made    *)
(* connection's, and the listening socket's with its backlog.              *)
Descriptors(e) == ({peer[e]} \cup (IF e # listener THEN {attempt} ELSE {})
                   \cup (IF e = listener THEN {backlog[i] : i \in DOMAIN backlog} ELSE {})) \ {None}

ThreadEnds(e) ==
    /\ io' = [io EXCEPT ![e] = "done"]
    /\ peer' = [peer EXCEPT ![e] = None]
    /\ attempt' = IF e = listener THEN attempt ELSE None
    /\ backlog' = IF e = listener THEN <<>> ELSE backlog
    /\ conns' = Closed(Descriptors(e), e)
    /\ UNCHANGED <<listener, owner, stopRequested, tcpStarts, everConnected, linkBalance, faults>>

-----------------------------------------------------------------------------
(* The one peer.                                                           *)

MayAcquire(e) == io[e] = "loop" /\ ~stopRequested[e] /\ peer[e] = None

Adopt(e, c) ==
    /\ peer' = [peer EXCEPT ![e] = c]
    /\ everConnected' = [everConnected EXCEPT ![e] = TRUE]
    /\ linkBalance' = [linkBalance EXCEPT ![e] = @ + 1]

Accept(e) ==
    /\ e = listener /\ MayAcquire(e) /\ backlog # <<>>
    /\ Adopt(e, Head(backlog)) /\ backlog' = Tail(backlog)
    /\ UNCHANGED <<listener, threadVars, attempt, conns, faults>>

(* connect() on a new socket, once the kernel of the far end answers.  An  *)
(* attempt that is refused leaves nothing behind.                          *)
Connect(e, c) ==
    /\ e # listener /\ MayAcquire(e) /\ attempt = None
    /\ Listening /\ Len(backlog) < 2 /\ Fresh(c)
    /\ conns' = [conns EXCEPT ![c].holders = Ends]
    /\ backlog' = Append(backlog, c)
    /\ attempt' = c
    /\ UNCHANGED <<listener, threadVars, peer, everConnected, linkBalance, faults>>

(* awaitPending(): the poll reports the connection. *)
Connected(e) ==
    /\ e # listener /\ MayAcquire(e) /\ attempt # None /\ ~conns[attempt].reset
    /\ Adopt(e, attempt) /\ attempt' = None
    /\ UNCHANGED <<listener, threadVars, networkVars>>

(* awaitPending(): the attempt failed, or its time has passed. *)
AttemptEnds(e) ==
    /\ e # listener /\ MayAcquire(e) /\ attempt # None
    /\ IF conns[attempt].reset THEN UNCHANGED faults ELSE Fault
    /\ attempt' = None
    /\ conns' = Closed({attempt}, e)
    /\ UNCHANGED <<listener, threadVars, peer, everConnected, linkBalance, backlog>>

(* losePeer(); and refuseExtraPeers(), which closes what waits.  Both are  *)
(* conjoined with a step of io by the ends.                                *)
NoExtra(e) == {}   \* Extra with a bug, for PairReconnects: nothing is closed

Extra(e) == IF e = listener THEN {backlog[i] : i \in DOMAIN backlog} ELSE {}

FewerHeld(e) == [linkBalance EXCEPT ![e] = @ - 1]

Lost(e) ==
    /\ peer' = [peer EXCEPT ![e] = None]
    /\ linkBalance' = FewerHeld(e)

(* Either end's peer, attempt and threads: what both do alike. *)
Lifecycle(e) ==
    \/ RequestStop(e) \/ StopReturns(e)
    \/ Accept(e) \/ Connected(e) \/ AttemptEnds(e)
    \/ \E c \in Conns : Connect(e, c)

Network ==
    \E c \in Conns : StrangerConnects(c) \/ StrangerLeaves(c) \/ ConnectionReset(c)
=============================================================================
