--------------------------- MODULE ControlChannel ---------------------------
(***************************************************************************)
(* The agent's side of the control connection: several threads send frames *)
(* over one socket (net.c, terminal.c, portforward.c), the server's reader *)
(* takes them apart (proto.Decode).                                        *)
(*                                                                         *)
(* send_frame writes the length and the body of a frame with two calls of  *)
(* ctc_tls_write.  A thread that forwards a port holds g_send_mu meanwhile,*)
(* a terminal's reader holds the write_mu of its own session, the main     *)
(* loop holds nothing.                                                     *)
(***************************************************************************)
EXTENDS Naturals, Sequences, FiniteSets

CONSTANTS MainLoop,     \* the thread of ctc_conn_run
          TermReader,   \* term_reader threads
          PfReader,     \* pf_reader threads
          SendMu,       \* g_send_mu
          Nobody,
          MaxFrames     \* bound on the frames each thread sends

ASSUME ChannelAssumption ==
  /\ MaxFrames \in Nat
  /\ Nobody # SendMu
  /\ \A S \in {{MainLoop}, TermReader, PfReader} : Nobody \notin S /\ SendMu \notin S
  /\ MainLoop \notin TermReader \cup PfReader /\ TermReader \cap PfReader = {}

VARIABLES
  tpc,      \* where a thread is in sending a frame
  owner,    \* lock -> the thread that holds it
  left,     \* frames a thread will still send
  wire,     \* what was written and not yet read
  reading,  \* the server's reader: the frame whose length it has read
  broken    \* Decode has failed: the server closes the connection

channelVars == <<tpc, owner, left, wire, reading, broken>>

Thread == {MainLoop} \cup TermReader \cup PfReader
Lock   == {SendMu} \cup TermReader
Piece  == [from : Thread, part : {"length", "body"}]

\* The lock a thread sends under; write_mu is named by its session's thread.
LockOf(t) == IF t \in PfReader THEN SendMu ELSE IF t \in TermReader THEN t ELSE Nobody

ChannelTypeOK ==
  /\ tpc \in [Thread -> {"idle", "length", "body", "unlock"}]
  /\ owner \in [Lock -> Thread \cup {Nobody}]
  /\ left \in [Thread -> 0 .. MaxFrames]
  /\ \A i \in 1 .. Len(wire) : wire[i] \in Piece
  /\ reading \in Thread \cup {Nobody}
  /\ broken \in BOOLEAN
  \* a lock is held by a thread that is sending under it
  /\ \A l \in Lock, t \in Thread :
       owner[l] = t => (LockOf(t) = l /\ tpc[t] # "idle")

ChannelInit ==
  /\ tpc = [t \in Thread |-> "idle"]
  /\ owner = [l \in Lock |-> Nobody]
  /\ left = [t \in Thread |-> MaxFrames]
  /\ wire = <<>> /\ reading = Nobody /\ broken = FALSE

-----------------------------------------------------------------------------

\* Mutant: the lock is taken without waiting for its owner.
BeginUnlocked(t) ==
  /\ tpc[t] = "idle" /\ left[t] > 0
  /\ owner' = IF LockOf(t) # Nobody THEN [owner EXCEPT ![LockOf(t)] = t] ELSE owner
  /\ tpc' = [tpc EXCEPT ![t] = "length"]
  /\ left' = [left EXCEPT ![t] = @ - 1]
  /\ UNCHANGED <<wire, reading, broken>>

Begin(t) ==
  /\ tpc[t] = "idle" /\ left[t] > 0
  /\ LockOf(t) # Nobody => owner[LockOf(t)] = Nobody
  /\ owner' = IF LockOf(t) # Nobody THEN [owner EXCEPT ![LockOf(t)] = t] ELSE owner
  /\ tpc' = [tpc EXCEPT ![t] = "length"]
  /\ left' = [left EXCEPT ![t] = @ - 1]
  /\ UNCHANGED <<wire, reading, broken>>

\* Mutant: a write that failed is tried again.
WritePartAgain(t, part, next) ==
  /\ tpc[t] = part /\ ~broken
  /\ wire' = Append(wire, [from |-> t, part |-> part])
  /\ tpc' = [tpc EXCEPT ![t] = next]
  /\ UNCHANGED <<owner, left, reading, broken>>

\* write_all of the length, then of the body; each fails when the connection is
\* closed, and then the frame is given up.
WritePart(t, part, next) ==
  /\ tpc[t] = part
  /\ \/ /\ ~broken
        /\ wire' = Append(wire, [from |-> t, part |-> part])
        /\ tpc' = [tpc EXCEPT ![t] = next]
     \/ /\ broken
        /\ tpc' = [tpc EXCEPT ![t] = "unlock"]
        /\ UNCHANGED wire
  /\ UNCHANGED <<owner, left, reading, broken>>

WriteLength(t) == WritePart(t, "length", "body")
WriteBody(t)   == WritePart(t, "body", "unlock")

Unlock(t) ==
  /\ tpc[t] = "unlock"
  /\ owner' = IF LockOf(t) # Nobody THEN [owner EXCEPT ![LockOf(t)] = Nobody] ELSE owner
  /\ tpc' = [tpc EXCEPT ![t] = "idle"]
  /\ UNCHANGED <<left, wire, reading, broken>>

\* Decode: a length, then as many bytes.  The first bytes of a body taken for a
\* length are far above MaxMessageSize; a body that has another frame's bytes in it
\* is not JSON.
Decode ==
  /\ wire # <<>> /\ ~broken
  /\ LET p == Head(wire)
     IN  \/ reading = Nobody /\ p.part = "length" /\ reading' = p.from /\ UNCHANGED broken
         \/ reading # Nobody /\ p = [from |-> reading, part |-> "body"]
              /\ reading' = Nobody /\ UNCHANGED broken
         \/ /\ IF reading = Nobody THEN p.part = "body" ELSE p # [from |-> reading, part |-> "body"]
            /\ broken' = TRUE /\ UNCHANGED reading
  /\ wire' = Tail(wire)
  /\ UNCHANGED <<tpc, owner, left>>

ChannelNext ==
  \/ \E t \in Thread : Begin(t) \/ WriteLength(t) \/ WriteBody(t) \/ Unlock(t)
  \/ Decode

ChannelSpec == ChannelInit /\ [][ChannelNext]_channelVars

\* Threads get the processor, and a mutex that is free again and again is given to
\* a thread that waits for it.
ChannelFairSpec ==
  /\ ChannelSpec /\ WF_channelVars(Decode)
  /\ \A t \in Thread : SF_channelVars(Begin(t)) /\ WF_channelVars(WriteLength(t) \/ WriteBody(t) \/ Unlock(t))

-----------------------------------------------------------------------------

\* Frames of threads that send under the same lock never mix: between the length
\* and the body of a frame on the wire there is no piece of such a thread.
SameLockIntact ==
  \A i, k \in 1 .. Len(wire) :
    (/\ i < k
     /\ wire[i].part = "length"
     /\ wire[k].from # wire[i].from /\ LockOf(wire[k].from) = LockOf(wire[i].from)
     /\ LockOf(wire[i].from) # Nobody)
      => \E j \in i + 1 .. k - 1 : wire[j] = [from |-> wire[i].from, part |-> "body"]

\* No thread waits for ever for a lock, through failed writes too: every frame is
\* sent or given up.
AllSent == <>(\A t \in Thread : left[t] = 0 /\ tpc[t] = "idle")

-----------------------------------------------------------------------------
(* What the comments of the code promise and the code does not keep.        *)

\* The writers of the control connection are serialised: the server's reader never
\* meets a frame that is torn apart by another.
FramesIntact == ~broken
=============================================================================
