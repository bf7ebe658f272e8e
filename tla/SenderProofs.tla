---------------------------- MODULE SenderProofs ----------------------------
(***************************************************************************)
(* Theorems about Sender, for every FIFO length, every set of requested    *)
(* numbers and every bound.                                                *)
(***************************************************************************)
EXTENDS Sender, TLAPS

-----------------------------------------------------------------------------
(* The inductive invariant *)

\* Each mutex is held by exactly the thread inside its critical section.
MutexHeld ==
  /\ mutex_mcast_socket = "main" <=> main_pc \in {"send", "add"}
  /\ mutex_mcast_socket = "replay" <=> replay_pc = "send"
  /\ mutex_requests = "ctrl" <=> ctrl_pc = "insert"
  /\ mutex_requests = "replay" <=> replay_pc = "clear"

\* The block main holds is newer than every block on the wire, until it is on
\* the wire itself.
BlockIsNew ==
  /\ main_pc \in {"lock", "send", "add"} => audio_data = reads
  /\ main_pc \in {"lock", "send"} => \A p \in wire : p.data < audio_data
  /\ main_pc = "add" => [num |-> byte_num, data |-> audio_data] \in wire
  /\ \A p \in wire : p.data <= reads

Inv ==
  /\ TypeOK
  /\ MutexHeld
  /\ BlockIsNew
  /\ StreamFaithful
  /\ FifoIsLatest
  /\ NoNumberSkipped

-----------------------------------------------------------------------------
(* Types *)

\* add_to_queue yields packets from packets.
LEMMA AddToQueueType ==
  ASSUME NEW list \in Seq(Packet), NEW pack \in Packet
  PROVE  add_to_queue(list, pack) \in Seq(Packet)
<1>1. Append(list, pack) \in Seq(Packet) /\ Append(list, pack) # <<>>
  OBVIOUS
<1>2. Tail(Append(list, pack)) \in Seq(Packet)
  BY <1>1
<1> QED BY <1>1, <1>2 DEF add_to_queue

\* The variables start with their types.
LEMMA InitTypeOK == Init => TypeOK
<1> SUFFICES ASSUME Init PROVE TypeOK
  OBVIOUS
<1>1. finish \in BOOLEAN /\ alive \in BOOLEAN /\ closed \in BOOLEAN
  BY DEF Init
<1>2. fifo \in Seq(Packet) /\ wire \subseteq Packet /\ out \in Packet
  BY DEF Init, Packet, NoPacket
<1> QED BY <1>1, <1>2 DEF Init, TypeOK

\* Every step keeps them.
LEMMA TypeOKStep == TypeOK /\ [Next]_vars => TypeOK'
<1> SUFFICES ASSUME TypeOK, [Next]_vars PROVE TypeOK'
  OBVIOUS
<1> USE ConstantsAssumption
<1>1. CASE UNCHANGED vars
  BY <1>1 DEF vars, TypeOK, mainVars, ctrlVars, replayVars, netVars
<1>2. ASSUME syserr PROVE TypeOK'
  <2>1. alive' \in BOOLEAN BY <1>2 DEF syserr
  <2> QED
    BY <1>2, <2>1 DEF syserr, TypeOK, mainVars, ctrlVars, replayVars, netVars
<1>3. CASE Main
  <2> USE DEF TypeOK, mainOthers, ctrlVars, replayVars, netVars
  <2>1. CASE MainPoll BY <2>1 DEF MainPoll
  <2>2. CASE MainRead
    <3>1. finish' \in BOOLEAN BY <2>2 DEF MainRead
    <3> QED BY <2>2, <3>1 DEF MainRead
  <2>3. CASE MainLock BY <2>3 DEF MainLock
  <2>4. CASE MainSend
    <3>1. [num |-> byte_num, data |-> audio_data] \in Packet
      BY DEF Packet
    <3> QED BY <2>4, <3>1 DEF MainSend, send_Mcast
  <2>5. CASE MainAdd
    <3>1. [num |-> byte_num, data |-> audio_data] \in Packet
      BY DEF Packet
    <3>2. fifo' \in Seq(Packet)
      BY <2>5, <3>1, AddToQueueType DEF MainAdd
    <3> QED BY <2>5, <3>2 DEF MainAdd
  <2>6. CASE MainFinish BY <2>6 DEF MainFinish
  <2>7. CASE MainJoinCtrl BY <2>7 DEF MainJoinCtrl
  <2>8. CASE MainJoinReplay BY <2>8 DEF MainJoinReplay
  <2> QED BY <1>3, <2>1, <2>2, <2>3, <2>4, <2>5, <2>6, <2>7, <2>8 DEF Main
<1>4. CASE Ctrl
  <2> USE DEF TypeOK, ctrlOthers, mainVars, replayVars, netVars
  <2>1. CASE CtrlLookup BY <2>1 DEF CtrlLookup
  <2>2. CASE CtrlRexmit BY <2>2 DEF CtrlRexmit
  <2>3. CASE CtrlLock BY <2>3 DEF CtrlLock
  <2>4. CASE add_to_set BY <2>4 DEF add_to_set
  <2>5. CASE CtrlUnlock BY <2>5 DEF CtrlUnlock
  <2>6. CASE CtrlFinish BY <2>6 DEF CtrlFinish
  <2> QED BY <1>4, <2>1, <2>2, <2>3, <2>4, <2>5, <2>6 DEF Ctrl
<1>5. CASE Replay
  <2> USE DEF TypeOK, replayOthers, mainVars, ctrlVars, netVars
  <2>1. CASE ReplayCopy BY <2>1 DEF ReplayCopy
  <2>2. CASE ReplayClear BY <2>2 DEF ReplayClear
  <2>3. CASE ReplayLock BY <2>3 DEF ReplayLock
  <2>4. CASE ReplaySend
    <3>1. ASSUME NEW n \in copy_requests, Retransmit(n)
          PROVE  wire' \subseteq Packet /\ out' \in Packet
      <4>1. CASE UNCHANGED netVars BY <4>1
      <4>2. CASE \E i \in DOMAIN fifo : fifo[i].num = n /\ send_Mcast(fifo[i])
        BY <4>2 DEF send_Mcast
      <4> QED BY <3>1, <4>1, <4>2 DEF Retransmit
    <3> QED BY <2>4, <3>1 DEF ReplaySend
  <2>5. CASE ReplayUnlock BY <2>5 DEF ReplayUnlock
  <2> QED BY <1>5, <2>1, <2>2, <2>3, <2>4, <2>5 DEF Replay
<1>6. CASE Fails
  BY <1>2, <1>6 DEF Fails, MainReadFails, MainSendFails, CtrlLookupFails,
                    ReplaySendFails
<1>7. CASE Environment
  <2>1. UNCHANGED envOthers /\ finish' \in BOOLEAN
          /\ stdin' \in {"open", "eof", "hup"}
    BY <1>7 DEF Environment, StdinEnds, catch_interput, TypeOK
  <2>2. UNCHANGED <<alive, mutex_mcast_socket, mutex_requests,
                    retransmision_requests>>
          /\ UNCHANGED mainVars /\ UNCHANGED ctrlVars
          /\ UNCHANGED replayVars /\ UNCHANGED netVars
    BY <2>1 DEF envOthers
  <2> QED BY <2>1, <2>2 DEF TypeOK, mainVars, ctrlVars, replayVars, netVars
<1> QED BY <1>1, <1>3, <1>4, <1>5, <1>6, <1>7 DEF Next, Step, Terminated

\* Every variable of the sender keeps its type, whatever the threads do.
THEOREM SenderTypeOK == Spec => []TypeOK
BY InitTypeOK, TypeOKStep, PTL DEF Spec

-----------------------------------------------------------------------------
(* Locks *)

\* No step lets two threads into one critical section, and none leaves a mutex
\* locked behind it.
LEMMA MutexHeldStep == TypeOK /\ MutexHeld /\ [Next]_vars => MutexHeld'
<1> SUFFICES ASSUME TypeOK, MutexHeld, [Next]_vars PROVE MutexHeld'
  OBVIOUS
<1> USE DEF MutexHeld
<1>1. CASE UNCHANGED vars
  BY <1>1 DEF vars, mainVars, ctrlVars, replayVars
<1>2. ASSUME syserr PROVE MutexHeld'
  BY <1>2 DEF syserr, mainVars, ctrlVars, replayVars
<1>3. CASE Main
  BY <1>3 DEF Main, MainPoll, MainRead, MainLock, MainSend, MainAdd,
              MainFinish, MainJoinCtrl, MainJoinReplay, mainOthers, ctrlVars,
              replayVars
<1>4. CASE Ctrl
  BY <1>4 DEF Ctrl, CtrlLookup, CtrlRexmit, CtrlLock, add_to_set, CtrlUnlock,
              CtrlFinish, ctrlOthers, mainVars, replayVars
<1>5. CASE Replay
  BY <1>5 DEF Replay, ReplayCopy, ReplayClear, ReplayLock, ReplaySend,
              ReplayUnlock, replayOthers, mainVars, ctrlVars
<1>6. CASE Fails
  BY <1>2, <1>6 DEF Fails, MainReadFails, MainSendFails, CtrlLookupFails,
                    ReplaySendFails
<1>7. CASE Environment
  BY <1>7 DEF Environment, StdinEnds, catch_interput, envOthers, mainVars,
              ctrlVars, replayVars
<1> QED BY <1>1, <1>3, <1>4, <1>5, <1>6, <1>7 DEF Next, Step, Terminated

-----------------------------------------------------------------------------
(* The stream *)

\* What add_to_queue keeps: the new packet last, and one packet less in front
\* when the FIFO was full.
LEMMA AddToQueueKeeps ==
  ASSUME NEW list \in Seq(Packet), NEW pack \in Packet,
         Len(list) <= max_count
  PROVE  LET kept == add_to_queue(list, pack)
             gone == Len(list) + 1 - Len(kept)
         IN  /\ Len(kept) = IF Len(list) < max_count THEN Len(list) + 1
                                                     ELSE max_count
             /\ \A i \in DOMAIN kept :
                  kept[i] = IF i + gone = Len(list) + 1 THEN pack
                                                        ELSE list[i + gone]
<1> USE ConstantsAssumption
<1> DEFINE longer == Append(list, pack)
<1>1. /\ longer \in Seq(Packet) /\ longer # <<>>
      /\ Len(longer) = Len(list) + 1
      /\ \A i \in 1..Len(longer) :
           longer[i] = IF i = Len(list) + 1 THEN pack ELSE list[i]
  OBVIOUS
<1>2. CASE Len(list) < max_count
  <2>1. add_to_queue(list, pack) = longer
    BY <1>1, <1>2 DEF add_to_queue
  <2>2. DOMAIN longer = 1..Len(longer)
    BY <1>1
  <2> HIDE DEF longer
  <2> QED BY <1>1, <1>2, <2>1, <2>2
<1>3. CASE Len(list) = max_count
  <2> DEFINE kept == add_to_queue(list, pack)
  <2>1. kept = Tail(longer)
    BY <1>1, <1>3 DEF add_to_queue
  <2>2. Len(Tail(longer)) = Len(list) /\ Tail(longer) \in Seq(Packet)
    BY <1>1
  <2>3. \A i \in 1..Len(list) : Tail(longer)[i] = longer[i + 1]
    BY <1>1
  <2> HIDE DEF longer, kept
  <2>4. /\ Len(kept) = Len(list) /\ kept \in Seq(Packet)
        /\ \A i \in 1..Len(list) : kept[i] = longer[i + 1]
    BY <2>1, <2>2, <2>3
  <2>5. Len(list) \in Nat /\ DOMAIN kept = 1..Len(list)
    BY <2>4
  <2>6. Len(list) + 1 - Len(kept) = 1
    BY <2>4, <2>5
  <2>7. ASSUME NEW i \in 1..Len(list)
        PROVE  kept[i] = IF i + 1 = Len(list) + 1 THEN pack ELSE list[i + 1]
    <3>1. i + 1 \in 1..Len(longer)
      BY <1>1, <2>5
    <3> QED BY <1>1, <2>4, <3>1
  <2>8. \A i \in DOMAIN kept :
          kept[i] = IF i + (Len(list) + 1 - Len(kept)) = Len(list) + 1
                    THEN pack ELSE list[i + (Len(list) + 1 - Len(kept))]
    BY <2>5, <2>6, <2>7
  <2>9. Len(kept) = IF Len(list) < max_count THEN Len(list) + 1 ELSE max_count
    BY <1>3, <2>4, <2>5
  <2> QED BY ONLY <2>8, <2>9 DEF kept
<1> QED BY <1>2, <1>3

\* The state the stream is made of, and what Inv says of it.
streamVars == <<main_pc, audio_data, byte_num, fifo, reads, wire>>

StreamInv ==
  BlockIsNew /\ StreamFaithful /\ FifoIsLatest /\ NoNumberSkipped

\* A step that leaves those variables alone keeps StreamInv.
LEMMA StreamUnchanged == StreamInv /\ UNCHANGED streamVars => StreamInv'
BY DEF StreamInv, streamVars, BlockIsNew, StreamFaithful, FifoIsLatest,
       NoNumberSkipped

\* So does one that only moves main between places outside its critical section
\* without a block.
LEMMA StreamIdleMove ==
  ASSUME StreamInv, UNCHANGED <<byte_num, fifo, wire>>, TypeOK,
         main_pc # "add", reads' \in {reads, reads + 1},
         main_pc' \in {"poll", "read", "join_ctrl", "join_replay", "done"}
  PROVE  StreamInv'
<1> USE DEF StreamInv
<1>1. BlockIsNew' BY DEF BlockIsNew, TypeOK, Packet
<1>2. StreamFaithful' BY DEF StreamFaithful
<1>3. FifoIsLatest' BY DEF FifoIsLatest
<1>4. NoNumberSkipped' BY DEF NoNumberSkipped
<1> QED BY <1>1, <1>2, <1>3, <1>4

\* main's steps: the new packet gets the next number and the newest block, and
\* the FIFO follows byte_num.
LEMMA StreamMainStep == Inv /\ Main => StreamInv'
<1> SUFFICES ASSUME Inv, Main PROVE StreamInv'
  OBVIOUS
<1> USE DEF Inv, StreamInv
<1>1. CASE MainPoll
  BY <1>1, StreamIdleMove DEF MainPoll, mainOthers, netVars
<1>2. CASE MainRead
  <2>1. CASE main_pc' = "poll"
    BY <1>2, <2>1, StreamIdleMove DEF MainRead, netVars, TypeOK
  <2>2. CASE main_pc' = "lock"
    <3>1. /\ audio_data' = reads + 1 /\ reads' = reads + 1
          /\ main_pc = "read" /\ UNCHANGED <<byte_num, fifo, wire>>
      BY <1>2, <2>2 DEF MainRead, netVars
    <3>2. BlockIsNew'
      BY <2>2, <3>1 DEF BlockIsNew, TypeOK, Packet
    <3> QED BY <2>2, <3>1, <3>2 DEF StreamFaithful, FifoIsLatest, NoNumberSkipped
  <2> QED BY <1>2, <2>1, <2>2 DEF MainRead
<1>3. CASE MainLock
  BY <1>3 DEF MainLock, netVars, BlockIsNew, StreamFaithful, FifoIsLatest,
              NoNumberSkipped
<1>4. CASE MainSend
  <2> DEFINE new == [num |-> byte_num, data |-> audio_data]
  <2>1. /\ main_pc = "send" /\ main_pc' = "add" /\ wire' = wire \union {new}
        /\ UNCHANGED <<audio_data, byte_num, fifo, reads>>
    BY <1>4 DEF MainSend, send_Mcast
  <2>2. \A p \in wire : p.num < byte_num /\ p.data < audio_data
    BY <2>1 DEF NoNumberSkipped, BlockIsNew, TypeOK
  <2>3. BlockIsNew'
    BY <2>1 DEF BlockIsNew, TypeOK
  <2>4. StreamFaithful'
    BY <2>1, <2>2 DEF StreamFaithful, TypeOK, Packet
  <2>5. FifoIsLatest'
    BY <2>1 DEF FifoIsLatest
  <2>6. NoNumberSkipped'
    <3>1. {p.num : p \in wire} = {n \in 0..byte_num : n < byte_num}
      BY <2>1 DEF NoNumberSkipped
    <3>2. {p.num : p \in wire'} = {p.num : p \in wire} \union {byte_num}
      <4>1. new.num = byte_num OBVIOUS
      <4> HIDE DEF new
      <4> QED BY <2>1, <4>1
    <3> QED BY <2>1, <3>1, <3>2 DEF NoNumberSkipped, TypeOK
  <2> QED BY <2>3, <2>4, <2>5, <2>6
<1>5. CASE MainAdd
  <2> DEFINE new == [num |-> byte_num, data |-> audio_data]
  <2>1. /\ main_pc = "add" /\ main_pc' = "poll"
        /\ fifo' = add_to_queue(fifo, new) /\ byte_num' = byte_num + 1
        /\ UNCHANGED <<reads, wire>>
    BY <1>5 DEF MainAdd, netVars
  <2>2. BlockIsNew' /\ StreamFaithful'
    BY <2>1 DEF BlockIsNew, StreamFaithful
  <2>3. FifoIsLatest'
    <3>1. /\ new \in Packet /\ new \in wire /\ new.num = byte_num
      BY <2>1 DEF TypeOK, Packet, BlockIsNew
    <3>2. Len(fifo) <= max_count
      BY ConstantsAssumption DEF FifoIsLatest, TypeOK
    <3> DEFINE gone == Len(fifo) + 1 - Len(fifo')
    <3>3. /\ Len(fifo') = IF Len(fifo) < max_count THEN Len(fifo) + 1
                                                   ELSE max_count
          /\ \A i \in DOMAIN fifo' :
               fifo'[i] = IF i + gone = Len(fifo) + 1 THEN new
                                                     ELSE fifo[i + gone]
      BY <2>1, <3>1, <3>2, AddToQueueKeeps DEF TypeOK
    <3>4. fifo' \in Seq(Packet) /\ fifo \in Seq(Packet)
      BY <2>1, <3>1, AddToQueueType DEF TypeOK
    <3> HIDE DEF new
    <3>5. Len(fifo') = IF byte_num' < max_count THEN byte_num' ELSE max_count
      BY <2>1, <3>3, ConstantsAssumption DEF FifoIsLatest, TypeOK
    <3>6. ASSUME NEW i \in DOMAIN fifo'
          PROVE  fifo'[i].num = byte_num' - Len(fifo') + i - 1 /\ fifo'[i] \in wire'
      <4>1. i \in 1..Len(fifo') /\ Len(fifo') \in Nat /\ Len(fifo) \in Nat
        BY <3>4
      <4>2. CASE i + gone = Len(fifo) + 1
        <5>1. fifo'[i] = new /\ new \in wire' /\ new.num = byte_num
          BY <2>1, <3>1, <3>3, <4>2
        <5>2. i = Len(fifo')
          BY <4>1, <4>2
        <5>3. byte_num' - Len(fifo') + i - 1 = byte_num
          BY <2>1, <4>1, <5>2 DEF TypeOK
        <5> QED BY ONLY <5>1, <5>3
      <4>3. CASE i + gone # Len(fifo) + 1
        <5>1. i + gone \in DOMAIN fifo
          <6>1. DOMAIN fifo = 1..Len(fifo) BY <3>4
          <6>2. gone \in {0, 1}
            BY <3>2, <3>3, <4>1, ConstantsAssumption
          <6> QED BY <4>1, <4>3, <6>1, <6>2
        <5>2. fifo'[i] = fifo[i + gone]
          BY <3>3, <4>3
        <5> HIDE DEF gone
        <5>3. fifo[i + gone].num = byte_num - Len(fifo) + (i + gone) - 1
              /\ fifo[i + gone] \in wire
          BY <5>1 DEF FifoIsLatest
        <5> QED BY <2>1, <4>1, <5>2, <5>3 DEF gone, TypeOK
      <4> QED BY <4>2, <4>3
    <3> QED BY <3>5, <3>6 DEF FifoIsLatest
  <2>4. NoNumberSkipped'
    BY <2>1 DEF NoNumberSkipped, TypeOK
  <2> QED BY <2>2, <2>3, <2>4
<1>6. CASE MainFinish
  BY <1>6, StreamIdleMove DEF MainFinish, netVars
<1>7. CASE MainJoinCtrl
  BY <1>7, StreamIdleMove DEF MainJoinCtrl, netVars
<1>8. CASE MainJoinReplay
  BY <1>8, StreamIdleMove DEF MainJoinReplay, netVars
<1> QED BY <1>1, <1>2, <1>3, <1>4, <1>5, <1>6, <1>7, <1>8 DEF Main

\* A retransmission adds nothing to the wire: what the FIFO holds was sent.
LEMMA StreamReplayStep == Inv /\ Replay => StreamInv'
<1> SUFFICES ASSUME Inv, Replay PROVE UNCHANGED streamVars
  BY StreamUnchanged DEF Inv, StreamInv
<1> USE DEF streamVars, replayOthers, mainVars, netVars
<1>1. CASE ReplaySend
  <2>1. ASSUME NEW n \in copy_requests, Retransmit(n) PROVE wire' = wire
    BY <2>1 DEF Retransmit, send_Mcast, Inv, FifoIsLatest
  <2> QED BY <1>1, <2>1 DEF ReplaySend
<1> QED
  BY <1>1 DEF Replay, ReplayCopy, ReplayClear, ReplayLock, ReplayUnlock

\* Inv holds in every reachable state.
THEOREM SenderInv == Spec => []Inv
<1>1. Init => Inv
  <2> SUFFICES ASSUME Init PROVE MutexHeld /\ StreamInv
    BY InitTypeOK DEF Inv, StreamInv
  <2>1. MutexHeld BY DEF Init, MutexHeld
  <2>2. FifoIsLatest BY ConstantsAssumption DEF Init, FifoIsLatest
  <2>3. NoNumberSkipped BY DEF Init, NoNumberSkipped
  <2> QED BY <2>1, <2>2, <2>3 DEF Init, StreamInv, BlockIsNew, StreamFaithful
<1>2. Inv /\ [Next]_vars => Inv'
  <2> SUFFICES ASSUME Inv, [Next]_vars PROVE StreamInv'
    BY TypeOKStep, MutexHeldStep DEF Inv, StreamInv
  <2>1. StreamInv BY DEF Inv, StreamInv
  <2>2. CASE Main BY <2>2, StreamMainStep
  <2>3. CASE Replay BY <2>3, StreamReplayStep
  <2>4. CASE UNCHANGED mainVars /\ UNCHANGED netVars
    BY <2>1, <2>4, StreamUnchanged DEF streamVars, mainVars, netVars
  <2>5. CASE Ctrl
    BY <2>4, <2>5 DEF Ctrl, CtrlLookup, CtrlRexmit, CtrlLock, add_to_set,
                      CtrlUnlock, CtrlFinish, ctrlOthers
  <2>6. CASE Fails
    BY <2>4, <2>6 DEF Fails, MainReadFails, MainSendFails, CtrlLookupFails,
                      ReplaySendFails, syserr
  <2>7. CASE Environment
    BY <2>4, <2>7 DEF Environment, StdinEnds, catch_interput, envOthers
  <2>8. CASE UNCHANGED vars
    BY <2>4, <2>8 DEF vars
  <2> QED
    BY <2>2, <2>3, <2>5, <2>6, <2>7, <2>8 DEF Next, Step, Terminated
<1> QED BY <1>1, <1>2, PTL DEF Spec

\* First transmissions and retransmissions of a number never differ, and numbers
\* follow stdin.
THEOREM SenderStreamFaithful == Spec => []StreamFaithful
BY SenderInv, PTL DEF Inv

\* The FIFO is always the last max_count packets sent.
THEOREM SenderFifoIsLatest == Spec => []FifoIsLatest
BY SenderInv, PTL DEF Inv

\* The numbers sent are always all those below byte_num.
THEOREM SenderNoNumberSkipped == Spec => []NoNumberSkipped
BY SenderInv, PTL DEF Inv

-----------------------------------------------------------------------------
(* Requests and the end *)

\* Between replay_loop's copy and its clear nothing is added to the collection.
CopyTaken == replay_pc = "clear" => retransmision_requests = copy_requests

\* What main knows of the threads it has joined.
Joined ==
  /\ main_pc = "join_replay" => ctrl_pc = "done"
  /\ closed \/ main_pc = "done" => ctrl_pc = "done" /\ replay_pc = "done"

\* Only holders of mutex_requests touch the collection.
LEMMA CopyTakenStep == Inv /\ CopyTaken /\ [Next]_vars => CopyTaken'
<1> SUFFICES ASSUME Inv, CopyTaken, [Next]_vars PROVE CopyTaken'
  OBVIOUS
<1>1. CASE UNCHANGED <<replay_pc, retransmision_requests, copy_requests>>
  BY <1>1 DEF CopyTaken
<1>2. CASE Replay
  <2>1. CASE ReplayCopy BY <2>1 DEF ReplayCopy, CopyTaken
  <2>2. CASE ReplayClear BY <2>2 DEF ReplayClear, CopyTaken
  <2>3. CASE ReplayLock BY <2>3 DEF ReplayLock, CopyTaken
  <2>4. CASE ReplaySend BY <2>4 DEF ReplaySend, CopyTaken
  <2>5. CASE ReplayUnlock BY <2>5 DEF ReplayUnlock, CopyTaken
  <2> QED BY <1>2, <2>1, <2>2, <2>3, <2>4, <2>5 DEF Replay
<1>3. CASE add_to_set
  <2>1. replay_pc # "clear" /\ replay_pc' = replay_pc
    BY <1>3 DEF add_to_set, ctrlOthers, replayVars, Inv, MutexHeld
  <2> QED BY <2>1 DEF CopyTaken
<1>4. CASE Main
  BY <1>1, <1>4 DEF Main, MainPoll, MainRead, MainLock, MainSend, MainAdd,
                    MainFinish, MainJoinCtrl, MainJoinReplay, mainOthers,
                    replayVars
<1>5. CASE CtrlLookup \/ CtrlRexmit \/ CtrlLock \/ CtrlUnlock \/ CtrlFinish
  BY <1>1, <1>5 DEF CtrlLookup, CtrlRexmit, CtrlLock, CtrlUnlock, CtrlFinish,
                    ctrlOthers, replayVars
<1>6. CASE Fails
  BY <1>1, <1>6 DEF Fails, MainReadFails, MainSendFails, CtrlLookupFails,
                    ReplaySendFails, syserr, replayVars
<1>7. CASE Environment
  BY <1>1, <1>7 DEF Environment, StdinEnds, catch_interput, envOthers,
                    replayVars
<1>8. CASE UNCHANGED vars
  BY <1>1, <1>8 DEF vars, replayVars
<1> QED
  BY <1>2, <1>3, <1>4, <1>5, <1>6, <1>7, <1>8 DEF Next, Step, Ctrl, Terminated

\* No step loses a collected number: it stays, or is in the copy.
LEMMA NoRequestLostStep ==
  ASSUME CopyTaken, [Next]_vars
  PROVE  \A n \in retransmision_requests :
           n \in retransmision_requests' \/ n \in copy_requests'
<1>1. CASE UNCHANGED retransmision_requests
  BY <1>1
<1>2. CASE Replay
  <2>1. CASE ReplayClear BY <2>1 DEF ReplayClear, CopyTaken
  <2>2. CASE ReplayCopy \/ ReplayLock \/ ReplaySend \/ ReplayUnlock
    BY <1>1, <2>2 DEF ReplayCopy, ReplayLock, ReplaySend, ReplayUnlock
  <2> QED BY <1>2, <2>1, <2>2 DEF Replay
<1>3. CASE add_to_set
  BY <1>3 DEF add_to_set
<1>4. CASE Main
  BY <1>1, <1>4 DEF Main, MainPoll, MainRead, MainLock, MainSend, MainAdd,
                    MainFinish, MainJoinCtrl, MainJoinReplay, mainOthers
<1>5. CASE CtrlLookup \/ CtrlRexmit \/ CtrlLock \/ CtrlUnlock \/ CtrlFinish
  BY <1>1, <1>5 DEF CtrlLookup, CtrlRexmit, CtrlLock, CtrlUnlock, CtrlFinish
<1>6. CASE Fails
  BY <1>1, <1>6 DEF Fails, MainReadFails, MainSendFails, CtrlLookupFails,
                    ReplaySendFails, syserr
<1>7. CASE Environment
  BY <1>1, <1>7 DEF Environment, StdinEnds, catch_interput, envOthers
<1>8. CASE UNCHANGED vars
  BY <1>1, <1>8 DEF vars
<1> QED
  BY <1>2, <1>3, <1>4, <1>5, <1>6, <1>7, <1>8 DEF Next, Step, Ctrl, Terminated

\* Whatever control datagrams arrive while replay_loop takes the collection, no
\* number is lost between the copy and the clear.
THEOREM SenderNoRequestLost == Spec => NoRequestLost
<1>1. Init => CopyTaken
  BY DEF Init, CopyTaken
<1>2. Inv /\ CopyTaken /\ [Next]_vars => CopyTaken'
  BY CopyTakenStep
<1>3. CopyTaken /\ [Next]_vars =>
        [\A n \in retransmision_requests :
           n \in retransmision_requests' \/ n \in copy_requests']_vars
  BY NoRequestLostStep
<1> QED BY <1>1, <1>2, <1>3, SenderInv, PTL DEF Spec, NoRequestLost

\* No step undoes what a join has established: threads that are done stay done.
LEMMA JoinedStep == Joined /\ [Next]_vars => Joined'
<1> SUFFICES ASSUME Joined, [Next]_vars PROVE Joined'
  OBVIOUS
<1>1. CASE UNCHANGED <<main_pc, closed>> /\ (ctrl_pc = "done" => ctrl_pc' = "done")
             /\ (replay_pc = "done" => replay_pc' = "done")
  BY <1>1 DEF Joined
<1>2. CASE Main
  <2>1. ctrl_pc' = ctrl_pc /\ replay_pc' = replay_pc
    BY <1>2 DEF Main, MainPoll, MainRead, MainLock, MainSend, MainAdd,
                MainFinish, MainJoinCtrl, MainJoinReplay, mainOthers,
                ctrlVars, replayVars
  <2>2. CASE MainJoinCtrl
    BY <2>1, <2>2 DEF MainJoinCtrl, Joined
  <2>3. CASE MainJoinReplay
    BY <2>1, <2>3 DEF MainJoinReplay, Joined
  <2>4. CASE closed' = closed /\ main_pc' \notin {"join_replay", "done"}
    BY <2>1, <2>4 DEF Joined
  <2> QED
    BY <1>2, <2>2, <2>3, <2>4 DEF Main, MainPoll, MainRead, MainLock, MainSend,
                                  MainAdd, MainFinish
<1>3. CASE Ctrl
  BY <1>1, <1>3 DEF Ctrl, CtrlLookup, CtrlRexmit, CtrlLock, add_to_set,
                    CtrlUnlock, CtrlFinish, ctrlOthers, mainVars, replayVars
<1>4. CASE Replay
  BY <1>1, <1>4 DEF Replay, ReplayCopy, ReplayClear, ReplayLock, ReplaySend,
                    ReplayUnlock, replayOthers, mainVars, ctrlVars
<1>5. CASE Fails
  BY <1>1, <1>5 DEF Fails, MainReadFails, MainSendFails, CtrlLookupFails,
                    ReplaySendFails, syserr, mainVars, ctrlVars, replayVars
<1>6. CASE Environment
  BY <1>1, <1>6 DEF Environment, StdinEnds, catch_interput, envOthers,
                    mainVars, ctrlVars, replayVars
<1>7. CASE UNCHANGED vars
  BY <1>1, <1>7 DEF vars, mainVars, ctrlVars, replayVars
<1> QED BY <1>2, <1>3, <1>4, <1>5, <1>6, <1>7 DEF Next, Step, Terminated

\* The sockets are closed only when ctrl_loop and replay_loop have returned.
THEOREM SenderCloseAfterJoin == Spec => []CloseAfterJoin
<1>1. Init => Joined
  BY DEF Init, Joined
<1>2. Joined => CloseAfterJoin
  BY DEF Joined, CloseAfterJoin
<1> QED BY <1>1, <1>2, JoinedStep, PTL DEF Spec

-----------------------------------------------------------------------------
(* What replay_loop sends *)

\* replay_loop's copy is empty outside one round of the loop.
CopyDone == replay_pc \in {"sleep", "done"} => copy_requests = {}

\* Only ReplayCopy fills the copy, and the round ends when it is empty.
LEMMA CopyDoneStep == CopyDone /\ [Next]_vars => CopyDone'
<1> SUFFICES ASSUME CopyDone, [Next]_vars PROVE CopyDone'
  OBVIOUS
<1>1. CASE UNCHANGED replayVars
  BY <1>1 DEF CopyDone, replayVars
<1>2. CASE Replay
  BY <1>2 DEF Replay, ReplayCopy, ReplayClear, ReplayLock, ReplaySend,
              ReplayUnlock, CopyDone
<1>3. CASE Main
  BY <1>1, <1>3 DEF Main, MainPoll, MainRead, MainLock, MainSend, MainAdd,
                    MainFinish, MainJoinCtrl, MainJoinReplay, mainOthers
<1>4. CASE Ctrl
  BY <1>1, <1>4 DEF Ctrl, CtrlLookup, CtrlRexmit, CtrlLock, add_to_set,
                    CtrlUnlock, CtrlFinish, ctrlOthers
<1>5. CASE Fails
  BY <1>1, <1>5 DEF Fails, MainReadFails, MainSendFails, CtrlLookupFails,
                    ReplaySendFails, syserr
<1>6. CASE Environment
  BY <1>1, <1>6 DEF Environment, StdinEnds, catch_interput, envOthers
<1>7. CASE UNCHANGED vars
  BY <1>1, <1>7 DEF vars
<1> QED BY <1>2, <1>3, <1>4, <1>5, <1>6, <1>7 DEF Next, Step, Terminated

\* A number leaves the copy only in ReplaySend, which multicasts what the FIFO
\* holds under that number.
LEMMA EveryHeldRequestSentStep ==
  ASSUME CopyDone, [Next]_vars
  PROVE  \A n \in copy_requests :
           n \in copy_requests' \/ n \notin Held \/ out' \in
             {p \in wire' : p.num = n}
<1>1. CASE UNCHANGED replayVars
  BY <1>1 DEF replayVars
<1>2. CASE Replay
  <2>1. CASE ReplayCopy BY <2>1 DEF ReplayCopy, CopyDone
  <2>2. CASE ReplaySend
    <3>1. ASSUME NEW n \in copy_requests, Retransmit(n), n \in Held
          PROVE  out' \in {p \in wire' : p.num = n}
      BY <3>1 DEF Retransmit, send_Mcast
    <3> QED BY <2>2, <3>1 DEF ReplaySend
  <2>3. CASE ReplayClear \/ ReplayLock \/ ReplayUnlock
    BY <2>3 DEF ReplayClear, ReplayLock, ReplayUnlock
  <2> QED BY <1>2, <2>1, <2>2, <2>3 DEF Replay
<1>3. CASE Main
  BY <1>1, <1>3 DEF Main, MainPoll, MainRead, MainLock, MainSend, MainAdd,
                    MainFinish, MainJoinCtrl, MainJoinReplay, mainOthers
<1>4. CASE Ctrl
  BY <1>1, <1>4 DEF Ctrl, CtrlLookup, CtrlRexmit, CtrlLock, add_to_set,
                    CtrlUnlock, CtrlFinish, ctrlOthers
<1>5. CASE Fails
  BY <1>1, <1>5 DEF Fails, MainReadFails, MainSendFails, CtrlLookupFails,
                    ReplaySendFails, syserr
<1>6. CASE Environment
  BY <1>1, <1>6 DEF Environment, StdinEnds, catch_interput, envOthers
<1>7. CASE UNCHANGED vars
  BY <1>1, <1>7 DEF vars
<1> QED BY <1>2, <1>3, <1>4, <1>5, <1>6, <1>7 DEF Next, Step, Terminated

\* Every number replay_loop copied is multicast before it leaves the copy, unless
\* the FIFO has dropped its packet.
THEOREM SenderEveryHeldRequestSent == Spec => EveryHeldRequestSent
<1>1. Init => CopyDone
  BY DEF Init, CopyDone
<1>2. CopyDone /\ [Next]_vars =>
        [\A n \in copy_requests :
           n \in copy_requests' \/ n \notin Held \/ out' \in
             {p \in wire' : p.num = n}]_vars
  BY EveryHeldRequestSentStep
<1> QED BY <1>1, <1>2, CopyDoneStep, PTL DEF Spec, EveryHeldRequestSent

-----------------------------------------------------------------------------
(* The sender implements StreamWindow *)

\* The stream as StreamWindow sees it.
Count == byte_num + (IF main_pc = "add" THEN 1 ELSE 0)

Sent == [i \in 1..Count |-> (CHOOSE p \in wire : p.num = i - 1).data]

\* Every block main holds is one of the MaxReads reads.
ReadsCounted ==
  /\ reads <= MaxReads
  /\ main_pc = "read" /\ stdin = "open" => reads < MaxReads
  /\ main_pc \in {"lock", "send", "add"} => reads > 0

\* main enters a read of open stdin only when one is left.
LEMMA ReadsCountedStep == TypeOK /\ ReadsCounted /\ [Next]_vars => ReadsCounted'
<1> SUFFICES ASSUME TypeOK, ReadsCounted, [Next]_vars PROVE ReadsCounted'
  OBVIOUS
<1> USE ConstantsAssumption DEF ReadsCounted
<1>1. CASE UNCHANGED <<main_pc, reads, stdin>>
  BY <1>1
<1>2. CASE Main
  BY <1>2 DEF Main, MainPoll, MainRead, MainLock, MainSend, MainAdd,
              MainFinish, MainJoinCtrl, MainJoinReplay, mainOthers, TypeOK
<1>3. CASE Ctrl
  BY <1>1, <1>3 DEF Ctrl, CtrlLookup, CtrlRexmit, CtrlLock, add_to_set,
                    CtrlUnlock, CtrlFinish, ctrlOthers, mainVars
<1>4. CASE Replay
  BY <1>1, <1>4 DEF Replay, ReplayCopy, ReplayClear, ReplayLock, ReplaySend,
                    ReplayUnlock, replayOthers, mainVars
<1>5. CASE Fails
  BY <1>1, <1>5 DEF Fails, MainReadFails, MainSendFails, CtrlLookupFails,
                    ReplaySendFails, syserr, mainVars
<1>6. CASE Environment
  BY <1>6 DEF Environment, StdinEnds, catch_interput, envOthers, mainVars
<1>7. CASE UNCHANGED vars
  BY <1>1, <1>7 DEF vars, mainVars
<1> QED BY <1>2, <1>3, <1>4, <1>5, <1>6, <1>7 DEF Next, Step, Terminated

\* Packet n on the wire is element n + 1 of the stream, which has one element
\* for each number sent.
SentIsWire ==
  /\ Sent \in Seq(Nat) /\ Len(Sent) = Count /\ DOMAIN Sent = 1..Count
  /\ \A p \in wire : p.num + 1 \in 1..Count /\ Sent[p.num + 1] = p.data
  /\ \A i \in 1..Count : \E p \in wire : p.num = i - 1 /\ Sent[i] = p.data

\* It is, because no number was skipped and none has two payloads.
LEMMA InvSentIsWire == Inv => SentIsWire
<1> SUFFICES ASSUME Inv PROVE SentIsWire
  OBVIOUS
<1> USE DEF Inv
<1>1. Count \in Nat
  BY DEF Count, TypeOK
<1>2. {p.num : p \in wire} = 0 .. Count - 1
  <2>1. CASE main_pc = "add"
    <3>1. Count - 1 = byte_num BY <2>1 DEF Count, TypeOK
    <3>2. {n \in 0..byte_num : n < byte_num \/ main_pc = "add"} = 0..byte_num
      BY <2>1
    <3> QED BY <3>1, <3>2 DEF NoNumberSkipped
  <2>2. CASE main_pc # "add"
    <3>1. Count = byte_num /\ byte_num \in Nat BY <2>2 DEF Count, TypeOK
    <3>2. {n \in 0..byte_num : n < byte_num} = 0 .. byte_num - 1
      BY <3>1
    <3> QED BY <2>2, <3>1, <3>2 DEF NoNumberSkipped
  <2> QED BY <2>1, <2>2
<1>3. \A i \in 1..Count : \E p \in wire : p.num = i - 1
  <2> SUFFICES ASSUME NEW i \in 1..Count PROVE i - 1 \in {p.num : p \in wire}
    OBVIOUS
  <2>1. i - 1 \in 0 .. Count - 1 BY <1>1
  <2> QED BY <1>2, <2>1
<1>4. \A i \in 1..Count : \E p \in wire : p.num = i - 1 /\ Sent[i] = p.data
  BY <1>3 DEF Sent
<1>5. DOMAIN Sent = 1..Count
  BY DEF Sent
<1>6. Sent \in Seq(Nat) /\ Len(Sent) = Count
  <2>1. ASSUME NEW i \in 1..Count PROVE Sent[i] \in Nat
    <3>1. PICK p \in wire : Sent[i] = p.data
      BY <1>4
    <3>2. p \in Packet
      BY DEF TypeOK
    <3> QED BY <3>1, <3>2 DEF Packet
  <2>2. Sent \in [1..Count -> Nat]
    BY <2>1 DEF Sent
  <2> QED BY <1>1, <2>2
<1>7. ASSUME NEW p \in wire
      PROVE  p.num + 1 \in 1..Count /\ Sent[p.num + 1] = p.data
  <2>1. p.num \in 0 .. Count - 1
    BY <1>2
  <2>2. p.num + 1 \in 1..Count
    BY <1>1, <2>1
  <2>3. PICK q \in wire : q.num = p.num /\ Sent[p.num + 1] = q.data
    <3> DEFINE i == p.num + 1
    <3>1. i \in 1..Count /\ i - 1 = p.num
      BY <2>1, <2>2
    <3> HIDE DEF i
    <3>2. \E q \in wire : q.num = i - 1 /\ Sent[i] = q.data
      BY <1>4, <3>1
    <3>3. \E q \in wire : q.num = p.num /\ Sent[i] = q.data
      BY <3>1, <3>2
    <3> QED BY <3>3 DEF i
  <2> QED BY <2>2, <2>3 DEF StreamFaithful
<1> QED BY <1>4, <1>5, <1>6, <1>7 DEF SentIsWire

\* A step that leaves the wire and byte_num alone, and main on the same side of
\* send, leaves the stream alone.
LEMMA SentUnchanged ==
  ASSUME UNCHANGED <<wire, byte_num>>, main_pc = "add" <=> main_pc' = "add"
  PROVE  Sent' = Sent
<1>1. Count' = Count
  BY DEF Count
<1> QED BY <1>1 DEF Sent

\* What receivers asked for and replay_loop has not dealt with.
Asked == ctrl_batch \union retransmision_requests \union copy_requests

\* ctrl_loop and replay_loop hold numbers only inside a round, and between copy
\* and clear the collection is the copy.
RoundInv ==
  /\ CopyTaken /\ CopyDone
  /\ ctrl_pc \in {"poll", "done"} => ctrl_batch = {}

\* The batch of a datagram is empty before the mutex is unlocked.
LEMMA RoundInvStep == Inv /\ RoundInv /\ [Next]_vars => RoundInv'
<1> SUFFICES ASSUME Inv, RoundInv, [Next]_vars
             PROVE  ctrl_pc' \in {"poll", "done"} => ctrl_batch' = {}
  BY CopyTakenStep, CopyDoneStep DEF RoundInv
<1> USE DEF RoundInv
<1>1. CASE UNCHANGED ctrlVars
  BY <1>1 DEF ctrlVars
<1>2. CASE Ctrl
  BY <1>2 DEF Ctrl, CtrlLookup, CtrlRexmit, CtrlLock, add_to_set, CtrlUnlock,
              CtrlFinish
<1>3. CASE Main
  BY <1>1, <1>3 DEF Main, MainPoll, MainRead, MainLock, MainSend, MainAdd,
                    MainFinish, MainJoinCtrl, MainJoinReplay, mainOthers
<1>4. CASE Replay
  BY <1>1, <1>4 DEF Replay, ReplayCopy, ReplayClear, ReplayLock, ReplaySend,
                    ReplayUnlock, replayOthers
<1>5. CASE Fails
  BY <1>1, <1>5 DEF Fails, MainReadFails, MainSendFails, CtrlLookupFails,
                    ReplaySendFails, syserr
<1>6. CASE Environment
  BY <1>1, <1>6 DEF Environment, StdinEnds, catch_interput, envOthers
<1>7. CASE UNCHANGED vars
  BY <1>1, <1>7 DEF vars
<1> QED BY <1>2, <1>3, <1>4, <1>5, <1>6, <1>7 DEF Next, Step, Terminated

\* main's send_Mcast is a Broadcast.
LEMMA MainSendBroadcasts ==
  ASSUME Inv, SentIsWire, SentIsWire', ReadsCounted, MainSend
  PROVE  Window!Broadcast
<1> DEFINE new == [num |-> byte_num, data |-> audio_data]
<1>1. /\ main_pc = "send" /\ main_pc' = "add" /\ byte_num' = byte_num
      /\ wire' = wire \union {new} /\ out' = new
  BY DEF MainSend, send_Mcast
<1>2. Count = byte_num /\ Count' = byte_num + 1 /\ byte_num \in Nat
  BY <1>1 DEF Count, Inv, TypeOK
<1>3. audio_data \in 1..MaxReads
  BY <1>1, ConstantsAssumption DEF Inv, TypeOK, BlockIsNew, ReadsCounted
<1>4. \A i \in DOMAIN Sent : Sent[i] < audio_data
  BY <1>1 DEF Inv, BlockIsNew, SentIsWire
<1>5. Sent' = Append(Sent, audio_data)
  <2>1. Sent' \in Seq(Nat) /\ Len(Sent') = byte_num + 1
    BY <1>2 DEF SentIsWire
  <2>2. /\ Sent \in Seq(Nat) /\ Len(Sent) = byte_num
        /\ Append(Sent, audio_data) \in Seq(Nat)
        /\ Len(Append(Sent, audio_data)) = byte_num + 1
    BY <1>2, <1>3 DEF SentIsWire
  <2>3. ASSUME NEW i \in 1 .. byte_num + 1
        PROVE  Sent'[i] = Append(Sent, audio_data)[i]
    <3>1. CASE i = byte_num + 1
      <4>1. new \in wire' /\ new.num = byte_num /\ new.data = audio_data
        BY <1>1
      <4>2. Sent'[byte_num + 1] = audio_data
        BY <4>1 DEF SentIsWire
      <4> QED BY <2>2, <3>1, <4>2
    <3>2. CASE i \in 1..byte_num
      <4>1. PICK p \in wire : p.num = i - 1 /\ Sent[i] = p.data
        BY <1>2, <3>2 DEF SentIsWire
      <4>2. p \in wire' /\ p.num + 1 = i
        <5>1. p \in wire' BY <1>1
        <5>2. i - 1 + 1 = i BY <3>2
        <5> QED BY <4>1, <5>1, <5>2
      <4>3. Sent'[i] = p.data
        BY <4>2 DEF SentIsWire
      <4>4. Append(Sent, audio_data)[i] = Sent[i]
        BY <2>2, <3>2
      <4> QED BY <4>1, <4>3, <4>4
    <3>3. i = byte_num + 1 \/ i \in 1..byte_num
      BY <1>2
    <3> QED BY <3>1, <3>2, <3>3
  <2> HIDE DEF new
  <2> QED BY <2>1, <2>2, <2>3
<1>6. out' = [num |-> Len(Sent), data |-> audio_data]
  BY <1>1, <1>2 DEF SentIsWire
<1>7. Asked' = Asked
  BY DEF MainSend, mainOthers, ctrlVars, replayVars, Asked
<1> QED
  BY <1>3, <1>4, <1>5, <1>6, <1>7 DEF Window!Broadcast, Sent, Count, Asked

\* What the FIFO holds while replay_loop sends is what can be repeated.
LEMMA HeldIsRecent ==
  ASSUME Inv, SentIsWire, replay_pc = "send"
  PROVE  \A n \in Nat : n \in Held <=> Window!Recent(n)
<1>1. main_pc # "add" /\ Count = byte_num /\ byte_num \in Nat
  BY DEF Inv, MutexHeld, Count, TypeOK
<1>2. Len(Sent) = byte_num
  BY <1>1 DEF SentIsWire
<1>3. /\ Len(fifo) \in Nat /\ DOMAIN fifo = 1..Len(fifo)
      /\ Len(fifo) = IF byte_num < max_count THEN byte_num ELSE max_count
      /\ \A i \in 1..Len(fifo) : fifo[i].num = byte_num - Len(fifo) + i - 1
  BY DEF Inv, FifoIsLatest, TypeOK
<1>4. ASSUME NEW n \in Nat
      PROVE  n \in Held <=> n < byte_num /\ byte_num <= n + max_count
  <2>1. ASSUME n \in Held PROVE n < byte_num /\ byte_num <= n + max_count
    <3>1. PICK i \in 1..Len(fifo) : n = byte_num - Len(fifo) + i - 1
      BY <1>3, <2>1 DEF Held
    <3> QED BY <1>1, <1>3, <3>1, ConstantsAssumption
  <2>2. ASSUME n < byte_num, byte_num <= n + max_count PROVE n \in Held
    <3> DEFINE i == n + 1 - (byte_num - Len(fifo))
    <3>1. i \in 1..Len(fifo) /\ n = byte_num - Len(fifo) + i - 1
      BY <1>1, <1>3, <2>2, ConstantsAssumption
    <3> HIDE DEF i
    <3>2. fifo[i].num = n
      BY <1>3, <3>1
    <3> QED BY <1>3, <3>1, <3>2 DEF Held
  <2> QED BY <2>1, <2>2
<1> QED BY <1>2, <1>4 DEF Window!Recent, Sent, Count

\* One turn of replay_loop is a Repeat when the FIFO holds the number, and gives
\* it up when the FIFO does not.
LEMMA ReplaySendRepeats ==
  ASSUME Inv, SentIsWire, ReplaySend
  PROVE  Window!Repeat \/ Window!GiveUp \/ UNCHANGED <<Sent, Asked, out>>
<1>1. PICK n \in copy_requests :
        Retransmit(n) /\ copy_requests' = copy_requests \ {n}
  BY DEF ReplaySend
<1>2. /\ replay_pc = "send" /\ UNCHANGED <<main_pc, byte_num, fifo>>
      /\ UNCHANGED <<ctrl_batch, retransmision_requests>>
  BY DEF ReplaySend, replayOthers, mainVars, ctrlVars
<1>3. n \in Asked /\ n \in Nat
  BY <1>1, ConstantsAssumption DEF Asked, Inv, TypeOK
<1>4. Asked' \in {Asked, Asked \ {n}}
  BY <1>1, <1>2 DEF Asked
<1>5. ASSUME NEW i \in DOMAIN fifo, fifo[i].num = n, send_Mcast(fifo[i])
      PROVE  Window!Repeat
  <2>1. fifo[i] \in wire /\ wire' = wire /\ out' = fifo[i] /\ fifo[i] \in Packet
    BY <1>5 DEF send_Mcast, Inv, FifoIsLatest, TypeOK
  <2>2. Sent' = Sent
    BY <1>2, <2>1, SentUnchanged
  <2>3. Window!Recent(n)
    BY <1>2, <1>3, <1>5, HeldIsRecent DEF Held
  <2>4. Sent[n + 1] = fifo[i].data
    BY <1>5, <2>1 DEF SentIsWire
  <2>5. out' = [num |-> n, data |-> Sent[n + 1]]
    BY <1>5, <2>1, <2>4 DEF Packet
  <2> QED
    BY <1>3, <1>4, <2>2, <2>3, <2>5 DEF Window!Repeat, Sent, Count, Asked
<1>6. ASSUME n \notin Held, UNCHANGED netVars
      PROVE  Window!GiveUp \/ UNCHANGED <<Sent, Asked, out>>
  <2>1. Sent' = Sent /\ out' = out
    BY <1>2, <1>6, SentUnchanged DEF netVars
  <2>2. ~Window!Recent(n)
    BY <1>2, <1>3, <1>6, HeldIsRecent
  <2>3. CASE Asked' = Asked
    BY <2>1, <2>3
  <2>4. CASE Asked' = Asked \ {n}
    BY <1>3, <2>1, <2>2, <2>4 DEF Window!GiveUp, Sent, Count, Asked
  <2> QED BY <1>4, <2>3, <2>4
<1> QED BY <1>1, <1>5, <1>6 DEF Retransmit

\* ctrl_loop's steps ask, or hand numbers on.
LEMMA CtrlAsks ==
  ASSUME Inv, RoundInv, Ctrl
  PROVE  Window!Ask \/ UNCHANGED <<Sent, Asked, out>>
<1>1. Sent' = Sent /\ out' = out /\ copy_requests' = copy_requests
  <2>1. UNCHANGED <<mainVars, replayVars, netVars>>
    BY DEF Ctrl, CtrlLookup, CtrlRexmit, CtrlLock, add_to_set, CtrlUnlock,
           CtrlFinish, ctrlOthers
  <2> QED BY <2>1, SentUnchanged DEF mainVars, replayVars, netVars
<1>2. CASE CtrlRexmit
  <2>1. /\ ctrl_batch = {} /\ ctrl_batch' \in SUBSET Requests
        /\ UNCHANGED retransmision_requests
    BY <1>2 DEF CtrlRexmit, RoundInv
  <2>2. Asked' = Asked \union ctrl_batch'
    BY <1>1, <2>1 DEF Asked
  <2> QED BY <1>1, <2>1, <2>2 DEF Window!Ask, Sent, Count, Asked
<1>3. CASE add_to_set
  <2>1. PICK n \in ctrl_batch :
          /\ retransmision_requests' = retransmision_requests \union {n}
          /\ ctrl_batch' = ctrl_batch \ {n}
    BY <1>3 DEF add_to_set
  <2> QED BY <1>1, <2>1 DEF Asked
<1>4. CASE CtrlLookup \/ CtrlLock \/ CtrlUnlock \/ CtrlFinish
  <2>1. UNCHANGED <<ctrl_batch, retransmision_requests>>
    BY <1>4 DEF CtrlLookup, CtrlLock, CtrlUnlock, CtrlFinish
  <2> QED BY <1>1, <2>1 DEF Asked
<1> QED BY <1>2, <1>3, <1>4 DEF Ctrl

\* A step that leaves main, the wire and the numbers alone stutters.
Still == UNCHANGED <<mainVars, netVars, ctrl_batch, retransmision_requests,
                     copy_requests>>

LEMMA StillStutters == Still => UNCHANGED <<Sent, Asked, out>>
BY SentUnchanged DEF Still, mainVars, netVars, Asked

\* replay_loop takes the collection in two steps and repeats one number per turn.
LEMMA ReplayRepeats ==
  ASSUME Inv, RoundInv, SentIsWire, Replay
  PROVE  Window!Repeat \/ Window!GiveUp \/ UNCHANGED <<Sent, Asked, out>>
<1>1. CASE ReplaySend BY <1>1, ReplaySendRepeats
<1>2. CASE ReplayCopy \/ ReplayClear
  <2>1. UNCHANGED <<mainVars, netVars, ctrl_batch>>
    BY <1>2 DEF ReplayCopy, ReplayClear, replayOthers, ctrlVars
  <2>2. Sent' = Sent /\ out' = out
    BY <2>1, SentUnchanged DEF mainVars, netVars
  <2>3. Asked' = Asked
    BY <1>2, <2>1 DEF ReplayCopy, ReplayClear, RoundInv, CopyTaken, CopyDone,
                      Asked
  <2> QED BY <2>2, <2>3
<1>3. CASE ReplayLock \/ ReplayUnlock
  BY <1>3, StillStutters DEF ReplayLock, ReplayUnlock, replayOthers, ctrlVars,
                             Still
<1> QED BY <1>1, <1>2, <1>3 DEF Replay

\* main broadcasts with send_Mcast; nothing else it does is seen.
LEMMA MainBroadcasts ==
  ASSUME Inv, SentIsWire, SentIsWire', ReadsCounted, Main
  PROVE  Window!Broadcast \/ UNCHANGED <<Sent, Asked, out>>
<1>1. UNCHANGED <<ctrl_batch, retransmision_requests, copy_requests>>
  BY DEF Main, MainPoll, MainRead, MainLock, MainSend, MainAdd, MainFinish,
         MainJoinCtrl, MainJoinReplay, mainOthers, ctrlVars, replayVars
<1>2. Asked' = Asked
  BY <1>1 DEF Asked
<1>3. CASE MainSend
  BY <1>3, MainSendBroadcasts
<1>4. CASE MainAdd
  <2>1. /\ main_pc = "add" /\ main_pc' = "poll" /\ byte_num' = byte_num + 1
        /\ wire' = wire /\ out' = out
    BY <1>4 DEF MainAdd, netVars
  <2>2. Count' = Count
    BY <2>1 DEF Count, Inv, TypeOK
  <2> QED BY <1>2, <2>1, <2>2 DEF Sent
<1>5. CASE /\ main_pc # "add" /\ main_pc' # "add"
           /\ UNCHANGED <<wire, byte_num, out>>
  BY <1>2, <1>5, SentUnchanged
<1> QED
  BY <1>3, <1>4, <1>5 DEF Main, MainPoll, MainRead, MainLock, MainFinish,
       MainJoinCtrl, MainJoinReplay, netVars

\* Every step of the sender is one of StreamWindow or a stutter.
LEMMA WindowStep ==
  ASSUME Inv, RoundInv, SentIsWire, SentIsWire', ReadsCounted, [Next]_vars
  PROVE  Window!Next \/ UNCHANGED <<Sent, Asked, out>>
<1>1. CASE Main BY <1>1, MainBroadcasts DEF Window!Next
<1>2. CASE Ctrl BY <1>2, CtrlAsks DEF Window!Next
<1>3. CASE Replay BY <1>3, ReplayRepeats DEF Window!Next
<1>4. CASE Fails
  BY <1>4, StillStutters DEF Fails, MainReadFails, MainSendFails,
       CtrlLookupFails, ReplaySendFails, syserr, ctrlVars, replayVars, Still
<1>5. CASE Environment
  BY <1>5, StillStutters DEF Environment, StdinEnds, catch_interput, envOthers,
       ctrlVars, replayVars, Still
<1>6. CASE UNCHANGED vars
  BY <1>6, StillStutters DEF vars, ctrlVars, replayVars, Still
<1> QED BY <1>1, <1>2, <1>3, <1>4, <1>5, <1>6 DEF Next, Step, Terminated

\* Threads, locks and the FIFO together show the group nothing but an ever longer
\* stream and repeats, from its last max_count packets, of what was asked for; and
\* they lose no request that can be met.
THEOREM SenderImplementsStreamWindow == Spec => ImplementsStreamWindow
<1>1. Init => Window!Init
  <2> SUFFICES ASSUME Init
               PROVE  Sent = <<>> /\ Asked = {} /\ out = [num |-> 0, data |-> 0]
    BY DEF Window!Init, Sent, Count, Asked
  <2>1. Count = 0 BY DEF Init, Count
  <2> QED BY <2>1 DEF Init, NoPacket, Sent, Asked
<1>2. Init => ReadsCounted /\ RoundInv
  BY ConstantsAssumption DEF Init, ReadsCounted, RoundInv, CopyTaken, CopyDone
<1>3. Inv => TypeOK /\ SentIsWire
  BY InvSentIsWire DEF Inv
<1>4. Inv /\ RoundInv /\ SentIsWire /\ SentIsWire' /\ ReadsCounted /\ [Next]_vars
        => [Window!Next]_<<Sent, Asked, out>>
  BY WindowStep
<1> QED
  BY <1>1, <1>2, <1>3, <1>4, SenderInv, ReadsCountedStep, RoundInvStep, PTL
  DEF Spec, ImplementsStreamWindow, Window!Spec, Sent, Count, Asked
=============================================================================
