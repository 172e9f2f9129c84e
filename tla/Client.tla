-------------------------------- MODULE Client --------------------------------
(***************************************************************************)
(* One connection and the goroutines that share it: the two pumps of         *)
(* ws/client.go, the timer of StartAuthTimeout (handler/auth.go), the hub     *)
(* goroutine (ws/hub.go), and the game loops, which send to it too.           *)
(*                                                                          *)
(* Messages to the client are numbered in the order in which SendMessage was  *)
(* called for them.  Messages from it are "authenticate" or "message"; those  *)
(* of other clients that compete for the hub are "foreign".                   *)
(***************************************************************************)
EXTENDS Integers, SequencesExt

CONSTANTS SendCap,      \* capacity of Client.Send
          IncomingCap,  \* capacity of Hub.Incoming
          MaxSends,     \* bound on the messages to the client
          MaxReads      \* bound on the messages from it

ASSUME ClientAssumption ==
    /\ SendCap \in Nat \ {0} /\ IncomingCap \in Nat \ {0}
    /\ MaxSends \in Nat /\ MaxReads \in Nat

VARIABLES
    conn,     \* "open", or "closed" on this side
    peer,     \* the other side answers, or does not any more: "up", "down"
    reader,   \* where ReadPump is
    reads,    \* how many messages it has read
    holds,    \* the message it is about to hand to the hub
    incoming, \* Hub.Incoming
    hub,      \* where the hub goroutine is
    auth,     \* Client.Authenticated
    timer,    \* where the function of StartAuthTimeout is
    send,     \* what is in Client.Send
    open,     \* Client.Send is not closed
    offered,  \* how many messages SendMessage was called for
    dropped,  \* those it dropped (history)
    writer,   \* where WritePump is
    writing,  \* the message it took from Send
    wire,     \* what it has written
    frame     \* it has written the close frame

inVars == <<reader, reads, holds, incoming>>
outVars == <<send, offered, dropped>>
pumpVars == <<writer, writing, wire, frame>>
vars == <<conn, peer, inVars, hub, auth, timer, outVars, open, pumpVars>>

Kinds == {"authenticate", "message"}

\* Registered, the pumps and the timer just started.
Init ==
    /\ conn = "open" /\ peer = "up"
    /\ reader = "reading" /\ reads = 0 /\ holds = "none" /\ incoming = <<>>
    /\ hub = "idle" /\ auth = FALSE /\ timer = "armed"
    /\ send = <<>> /\ open = TRUE /\ offered = 0 /\ dropped = {}
    /\ writer = "select" /\ writing = <<>> /\ wire = <<>> /\ frame = FALSE

Close == conn' = "closed"

\* (Mutant of SendMessage: waits while the buffer is full.)
SendBlocking ==
    /\ ~open \/ Len(send) < SendCap
    /\ offered' = offered + 1
    /\ IF open THEN send' = Append(send, offered') /\ UNCHANGED dropped
               ELSE dropped' = dropped \cup {offered'} /\ UNCHANGED send

\* SendMessage: the message is dropped when the buffer is full, and when Send is
\* closed, where the send panics and is recovered.
SendMessage ==
    /\ offered' = offered + 1
    /\ IF open /\ Len(send) < SendCap
       THEN send' = Append(send, offered') /\ UNCHANGED dropped
       ELSE dropped' = dropped \cup {offered'} /\ UNCHANGED send

PeerGoes ==
    /\ peer = "up" /\ peer' = "down"
    /\ UNCHANGED <<conn, inVars, hub, auth, timer, outVars, open, pumpVars>>

(***************************************************************************)
(* ReadPump.                                                                *)
(***************************************************************************)

\* Frames that have arrived can be read although the connection is gone.
Read(kind) ==
    /\ reader = "reading" /\ reads < MaxReads
    /\ reads' = reads + 1 /\ holds' = kind /\ reader' = "sending"
    /\ UNCHANGED <<conn, peer, incoming, hub, auth, timer, outVars, open, pumpVars>>

HandOver ==
    /\ reader = "sending" /\ Len(incoming) < IncomingCap
    /\ incoming' = Append(incoming, holds)
    /\ holds' = "none" /\ reader' = "reading"
    /\ UNCHANGED <<conn, peer, reads, hub, auth, timer, outVars, open, pumpVars>>

\* ReadMessage fails: closed on either side, silent for pongWait, a bad frame.
ReadFails ==
    /\ reader = "reading"
    /\ reader' = "leaving"
    /\ UNCHANGED <<conn, peer, reads, holds, incoming, hub, auth, timer, outVars,
                   open, pumpVars>>

ReaderCloses ==
    /\ reader = "closing"
    /\ Close
    /\ reader' = "done"
    /\ UNCHANGED <<peer, reads, holds, incoming, hub, auth, timer, outVars, open,
                   pumpVars>>

(***************************************************************************)
(* WritePump.                                                               *)
(***************************************************************************)

Take ==
    /\ writer = "select" /\ send # <<>>
    /\ writing' = <<Head(send)>> /\ send' = Tail(send)
    /\ writer' = "writing"
    /\ UNCHANGED <<conn, peer, inVars, hub, auth, timer, offered, dropped, open,
                   wire, frame>>

Write ==
    /\ writer = "writing" /\ conn = "open"
    /\ wire' = wire \o writing /\ writing' = <<>>
    /\ writer' = "select"
    /\ UNCHANGED <<conn, peer, inVars, hub, auth, timer, outVars, open, frame>>

\* (Mutant of TakeClose: what is left in the buffer is forgotten.)
TakeCloseAtOnce ==
    /\ writer = "select" /\ ~open
    /\ frame' = (conn = "open")
    /\ writer' = "closing"
    /\ UNCHANGED <<conn, peer, inVars, hub, auth, timer, outVars, open, writing, wire>>

\* Send is closed and empty: the close frame is written.
TakeClose ==
    /\ writer = "select" /\ send = <<>> /\ ~open
    /\ frame' = (conn = "open")
    /\ writer' = "closing"
    /\ UNCHANGED <<conn, peer, inVars, hub, auth, timer, outVars, open, writing, wire>>

\* A write fails: of a message, or of a ping.
WriteFails ==
    /\ writer \in {"select", "writing"}
    /\ conn # "open" \/ peer = "down"
    /\ writing' = <<>>
    /\ writer' = "closing"
    /\ UNCHANGED <<conn, peer, inVars, hub, auth, timer, outVars, open, wire, frame>>

WriterCloses ==
    /\ writer = "closing"
    /\ Close
    /\ writer' = "done"
    /\ UNCHANGED <<peer, inVars, hub, auth, timer, outVars, open, writing, wire, frame>>

(***************************************************************************)
(* The timer of StartAuthTimeout.                                           *)
(***************************************************************************)

\* It reads Authenticated, without a lock, and acts on what it read.
TimeOut ==
    /\ timer = "armed"
    /\ timer' = IF auth THEN "done" ELSE "telling"
    /\ UNCHANGED <<conn, peer, inVars, hub, auth, outVars, open, pumpVars>>

TimerTells ==
    /\ timer = "telling"
    /\ SendMessage
    /\ timer' = "closing"
    /\ UNCHANGED <<conn, peer, inVars, hub, auth, open, pumpVars>>

\* (Mutant of TimerCloses: the client is told, and left alone.)
TimerLeavesOpen ==
    /\ timer = "closing"
    /\ timer' = "done"
    /\ UNCHANGED <<conn, peer, inVars, hub, auth, outVars, open, pumpVars>>

TimerCloses ==
    /\ timer = "closing"
    /\ Close
    /\ timer' = "done"
    /\ UNCHANGED <<peer, inVars, hub, auth, outVars, open, pumpVars>>

(***************************************************************************)
(* The hub goroutine, and the others that send.                              *)
(***************************************************************************)

\* Messages of other clients, as long as they matter to this one.
Foreign ==
    /\ reader # "done" /\ Len(incoming) < IncomingCap
    /\ incoming' = Append(incoming, "foreign")
    /\ UNCHANGED <<conn, peer, reader, reads, holds, hub, auth, timer, outVars, open,
                   pumpVars>>

\* HandleAuthenticate calls Game Center and the database, and holds the hub
\* until they answer or time out.  Another client's message may be broadcast to
\* this one or not.
Handle ==
    /\ hub = "idle" /\ incoming # <<>>
    /\ incoming' = Tail(incoming)
    /\ \/ Head(incoming) = "authenticate" /\ ~auth /\ hub' = "authenticating"
       \/ Head(incoming) \in Kinds /\ (Head(incoming) = "authenticate" => auth)
            /\ hub' = "replying"
       \/ Head(incoming) = "foreign" /\ hub' \in {"idle", "replying"}
    /\ UNCHANGED <<conn, peer, reader, reads, holds, auth, timer, outVars, open,
                   pumpVars>>

\* It succeeds or fails; authenticateClient sets Authenticated and sends after.
Authenticated ==
    /\ hub = "authenticating"
    /\ auth' \in BOOLEAN
    /\ hub' = "replying"
    /\ UNCHANGED <<conn, peer, inVars, timer, outVars, open, pumpVars>>

Reply ==
    /\ hub = "replying"
    /\ IF offered < MaxSends THEN SendMessage ELSE UNCHANGED outVars
    /\ hub' = "idle"
    /\ UNCHANGED <<conn, peer, inVars, auth, timer, open, pumpVars>>

\* (Mutant of Unregister: Send stays open.)
UnregisterKeepsOpen ==
    /\ hub = "idle" /\ reader = "leaving"
    /\ reader' = "closing"
    /\ UNCHANGED <<conn, peer, reads, holds, incoming, hub, auth, timer, outVars,
                   open, pumpVars>>

\* Hub.Run: delete, close(client.Send), OnDisconnect.
Unregister ==
    /\ hub = "idle" /\ reader = "leaving"
    /\ open' = FALSE
    /\ reader' = "closing"
    /\ UNCHANGED <<conn, peer, reads, holds, incoming, hub, auth, timer, outVars,
                   pumpVars>>

\* A loop broadcasts: also to a client that has just gone, and to one that is in
\* a room under another player for ever.
LoopSends ==
    /\ offered < MaxSends
    /\ SendMessage
    /\ UNCHANGED <<conn, peer, inVars, hub, auth, timer, open, pumpVars>>

Reader == (\E kind \in Kinds : Read(kind)) \/ HandOver \/ ReadFails \/ ReaderCloses
Writer == Take \/ Write \/ TakeClose \/ WriteFails \/ WriterCloses
Timer == TimeOut \/ TimerTells \/ TimerCloses
HubStep == Handle \/ Authenticated \/ Reply

Next == PeerGoes \/ Reader \/ Writer \/ Timer \/ HubStep \/ Unregister \/ Foreign \/ LoopSends

Spec == Init /\ [][Next]_vars

\* Every goroutine that can go on does.  A read fails once the connection is
\* closed here, or the peer has been silent for pongWait; a write fails at once
\* when the connection is closed here; the handlers' calls time out.  The select
\* of the hub passes nobody over for ever, and the senders to Incoming are served
\* in turn.
FairSpec ==
    /\ Spec
    /\ WF_vars(ReadFails /\ (conn # "open" \/ peer = "down"))
    /\ WF_vars(ReaderCloses) /\ SF_vars(HandOver)
    /\ WF_vars(Take) /\ WF_vars(Write) /\ WF_vars(TakeClose) /\ WF_vars(WriterCloses)
    /\ WF_vars(WriteFails /\ conn # "open")
    /\ WF_vars(Timer)
    /\ WF_vars(HubStep) /\ SF_vars(Unregister)

(***************************************************************************)
(* Properties.                                                              *)
(***************************************************************************)

ClientTypeOK ==
    /\ conn \in {"open", "closed"} /\ peer \in {"up", "down"}
    /\ reader \in {"reading", "sending", "leaving", "closing", "done"}
    /\ reads \in 0..MaxReads
    /\ holds \in Kinds \cup {"none"} /\ (reader = "sending" <=> holds # "none")
    /\ incoming \in Seq(Kinds \cup {"foreign"}) /\ Len(incoming) <= IncomingCap
    /\ hub \in {"idle", "authenticating", "replying"}
    /\ {auth, open, frame} \subseteq BOOLEAN
    /\ timer \in {"armed", "telling", "closing", "done"}
    /\ offered \in 0..MaxSends + 1 /\ dropped \subseteq 1..offered
    /\ send \in Seq(1..offered) /\ Len(send) <= SendCap
    /\ writer \in {"select", "writing", "closing", "done"}
    /\ writing \in Seq(1..offered) /\ (writer = "writing" <=> writing # <<>>)
    /\ wire \in Seq(1..offered)
    /\ open <=> reader \notin {"closing", "done"}

\* What has been written, is being written and waits, in this order.
Outgoing == wire \o writing \o send

\* The client receives messages in the order they were sent and none twice,
\* whatever was dropped in between, and although several goroutines send; and
\* once it receives the close frame it has received all that was not dropped.
DeliveredInOrder ==
    /\ \A i, j \in DOMAIN Outgoing : i < j => Outgoing[i] < Outgoing[j]
    /\ frame => ToSet(wire) = 1..offered \ dropped

\* A connection that is broken takes its goroutines with it: both pumps return
\* and the hub forgets the client, although the writer has stopped emptying the
\* buffer and others go on sending to it.
PumpsReturn == (conn # "open" \/ peer = "down") ~> (reader = "done" /\ writer = "done")

\* A client that does not authenticate does not stay.
StrangersGo == (timer = "armed") ~> (auth \/ conn # "open")

\* What holds of both at every moment: no pump returns, and the timer does not leave
\* a stranger alone, without the connection being closed by then; and who returns last
\* finds the client unregistered, its buffer closed.
NobodyLeftBehind ==
    /\ reader = "done" \/ writer = "done" => conn = "closed"
    /\ timer = "done" => auth \/ conn = "closed"
    /\ reader = "done" => ~open
===============================================================================
