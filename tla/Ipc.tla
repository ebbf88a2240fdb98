--------------------------------- MODULE Ipc ----------------------------------
(***************************************************************************)
(* src/src/kernel/ipc.c and the system calls around it: mailboxes of one   *)
(* message, senders that never block, and receivers that queue, park and   *)
(* look again.  A message is its length and the number of the send that    *)
(* was accepted; the bytes are not modelled.                               *)
(***************************************************************************)
EXTENDS Parking

CONSTANTS
  NChannels, \* IPC_CHANNEL_MAX
  Lengths,   \* the lengths of messages
  Caps,      \* the sizes of the receivers' buffers
  MaxSends   \* bound on the messages accepted

ASSUME IpcAssumption == Lengths \subseteq Nat \ {0} /\ MaxSends \in Nat

Channels == 0 .. NChannels - 1
NoMsg == [n |-> 0, len |-> 0]
Message == [n : 1 .. MaxSends, len : Lengths]

VARIABLES
  chan,   \* ipc_channels[]: the mailbox and the receivers
  sends,  \* the messages accepted so far, of all channels
  got     \* the messages that left a mailbox, with the task that took them

ipcVars == <<chan, sends, got>>

\* ipc_init()
IpcInit ==
  /\ chan = [c \in Channels |-> [msg |-> NoMsg, receivers |-> WaitQueueInit]]
  /\ sends = 0
  /\ got = {}

\* A receive on channel c with a buffer of size cap; m is the message it took.
IpcFrame(at, c, cap) == [at |-> at, c |-> c, cap |-> cap, m |-> NoMsg, x |-> NoTask]

-----------------------------------------------------------------------------
(***************************************************************************)
(* Sending                                                                 *)
(***************************************************************************)

\* sys_ipc_send(): copied from the user, refused when the mailbox is full; one
\* receiver is taken out under channel->lock.
IpcSend(t, c, len) ==
  LET r == WaitQueueDequeue(chan[c].receivers, wait_next)
  IN /\ Idle(t) /\ sends < MaxSends
     /\ chan[c].msg = NoMsg
     /\ sends' = sends + 1
     /\ chan' = [chan EXCEPT ![c] = [msg |-> [n |-> sends + 1, len |-> len], receivers |-> r.q]]
     /\ wait_next' = r.next
     /\ stack' = [stack EXCEPT ![t] = <<[IpcFrame("iunpark", c, len) EXCEPT !.x = r.task]>>]
     /\ UNCHANGED <<sched, det, got>>

SendUnpark(t) ==
  /\ At(t, "iunpark")
  /\ Unpark(Top(t).x)
  /\ Return(t)
  /\ UNCHANGED <<wait_next, det, ipcVars>>

-----------------------------------------------------------------------------
(***************************************************************************)
(* Receiving: the loop of sys_ipc_recv()                                   *)
(***************************************************************************)
SysIpcRecv(t, c, cap) ==
  /\ Idle(t)
  /\ stack' = [stack EXCEPT ![t] = <<IpcFrame("irecv", c, cap)>>]
  /\ UNCHANGED <<sched, wait_next, det, ipcVars>>

\* Mutant: has_message stays set.
ReceiveKeepsMessage(t) ==
  /\ At(t, "irecv") /\ chan[Top(t).c].msg # NoMsg
  /\ stack' = [stack EXCEPT ![t][1].at = "icopy", ![t][1].m = chan[Top(t).c].msg]
  /\ UNCHANGED <<sched, wait_next, det, chan, sends, got>>

\* ipc_receive() up to the release of channel->lock: the message, an error where
\* it does not fit, or a place in the queue (kept, where the task has one).
IpcReceive(t) ==
  LET c == Top(t).c
      ch == chan[c]
      r == WaitQueueEnqueue(ch.receivers, wait_next, t)
  IN /\ At(t, "irecv")
     /\ CASE ch.msg # NoMsg /\ Top(t).cap < ch.msg.len ->
               Return(t) /\ UNCHANGED <<chan, wait_next>>
          [] ch.msg # NoMsg /\ Top(t).cap >= ch.msg.len ->
               /\ chan' = [chan EXCEPT ![c].msg = NoMsg]
               /\ stack' = [stack EXCEPT ![t][1].at = "icopy", ![t][1].m = ch.msg]
               /\ UNCHANGED wait_next
          [] ch.msg = NoMsg ->
               /\ chan' = [chan EXCEPT ![c].receivers = r.q]
               /\ wait_next' = r.next
               /\ Goto(t, "ipark")
     /\ UNCHANGED <<sched, det, sends, got>>

\* sched_park_task(); schedule() is called whether or not the task was blocked.
RecvPark(t) ==
  LET r == Parked(sched[t])
  IN /\ At(t, "ipark")
     /\ sched' = [sched EXCEPT ![t] = r]
     /\ Goto(t, IF r.state = "BLOCKED" THEN "irecv" ELSE "ischedule")
     /\ UNCHANGED <<wait_next, det, ipcVars>>

\* schedule() by a task that may go on: it gives way.
RecvSchedule(t) ==
  /\ At(t, "ischedule")
  /\ sched' = [sched EXCEPT ![t].state = "READY"]
  /\ Goto(t, "irecv")
  /\ UNCHANGED <<wait_next, det, ipcVars>>

\* mmu_copy_to_user(), after the mailbox was emptied; where the buffer cannot be written
\* the call fails, and the message is gone all the same.
RecvCopy(t) ==
  /\ At(t, "icopy")
  /\ got' = got \cup {[m |-> Top(t).m, t |-> t]}
  /\ Return(t)
  /\ UNCHANGED <<sched, wait_next, det, chan, sends>>

-----------------------------------------------------------------------------
\* ipc_detach_task(), channel by channel, by the reaper of v.
IpcDetachFrom(i) == IF i = NChannels THEN Detach("mutex", 0) ELSE Detach("ipc", i)

IpcDetach(v) ==
  LET c == det[v].i
      r == WaitQueueRemove(chan[c].receivers, wait_next, v)
  IN /\ det[v].at = "ipc"
     /\ chan' = [chan EXCEPT ![c].receivers = r.q]
     /\ wait_next' = r.next
     /\ det' = [det EXCEPT ![v] = IpcDetachFrom(c + 1)]
     /\ UNCHANGED <<sched, stack, sends, got>>

-----------------------------------------------------------------------------
IpcCallStep(t) ==
  SendUnpark(t) \/ IpcReceive(t) \/ RecvPark(t) \/ RecvSchedule(t) \/ RecvCopy(t)

-----------------------------------------------------------------------------
(***************************************************************************)
(* Properties                                                              *)
(***************************************************************************)
IpcTypeOK ==
  /\ chan \in [Channels -> [msg : Message \cup {NoMsg}, receivers : Queue]]
  /\ got \subseteq [m : Message, t : Tasks]

InBox == {chan[c].msg.n : c \in {d \in Channels : chan[d].msg # NoMsg}}
InCopy == {Top(t).m.n : t \in {u \in Tasks : Live(u) /\ In(u, {"icopy"})}}
Delivered == {g.m.n : g \in got}

\* Every message ipc_send() accepted is in exactly one place, the mailbox, one
\* receiver's kernel buffer or one receiver's answer: none is lost, overwritten or
\* given to two receivers that were awake at once.
ExactlyOnce ==
  /\ InBox \cup InCopy \cup Delivered = 1 .. sends
  /\ InBox \cap (InCopy \cup Delivered) = {} /\ InCopy \cap Delivered = {}
  /\ Cardinality(got) = Cardinality(Delivered)

=============================================================================
