------------------------------ MODULE Channel ------------------------------
(***************************************************************************)
(* What a ThreadSafeBuffer<T> promises to the threads that share it: an    *)
(* unbounded first-in first-out channel whose operations are atomic.  An   *)
(* item is put once, is handed to exactly one consumer, and items leave in *)
(* the order in which they entered.  ThreadSafeBuffer is shown to          *)
(* implement this specification; DeploymentBridge relies on it.            *)
(***************************************************************************)
EXTENDS Sequences

CONSTANTS Consumers,   \* the threads that call get()
          Data,        \* the values that travel through the channel
          NoData       \* what a consumer holds before its first get()

VARIABLES channel,     \* the items put and not yet taken, oldest first
          taken        \* taken[c]: the item c's latest get() returned

chanVars == <<channel, taken>>

ChannelInit ==
    /\ channel = <<>>
    /\ taken = [c \in Consumers |-> NoData]

Put(d) ==
    /\ channel' = Append(channel, d)
    /\ UNCHANGED taken

Get(c) ==
    /\ channel # <<>>
    /\ taken' = [taken EXCEPT ![c] = Head(channel)]
    /\ channel' = Tail(channel)

ChannelNext ==
    \/ \E d \in Data : Put(d)
    \/ \E c \in Consumers : Get(c)

ChannelSpec == ChannelInit /\ [][ChannelNext]_chanVars

(***************************************************************************)
(* Nobody is obliged to put, but while the channel is not empty some       *)
(* consumer eventually gets.                                               *)
(***************************************************************************)
LiveChannelSpec == ChannelSpec /\ WF_chanVars(\E c \in Consumers : Get(c))
=============================================================================
