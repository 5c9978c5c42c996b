------------------------------ MODULE IocpProofs ------------------------------
(***************************************************************************)
(* Theorems about IocpProactor, for every number of threads and            *)
(* connections and all bounds.  That the counters of operations stay within *)
(* MaxSends, which TypeOK says, is a consequence of InFlightBySends, so the *)
(* two are proved together: BaseTypeOK (the counters are natural numbers)   *)
(* is inductive, InFlightBySends is inductive relative to it, and both give *)
(* TypeOK.                                                                  *)
(***************************************************************************)
EXTENDS IocpProactor, SequenceTheorems, FiniteSetTheorems, TLAPS

(* The sizes and bounds are natural numbers. *)
LEMMA Sizes ==
    /\ BUFFER_SIZE \in Nat /\ BUFFER_SIZE > 0
    /\ MaxBytes \in Nat /\ MaxSends \in Nat /\ MaxInits \in Nat
BY IocpAssumption

-------------------------------------------------------------------------------
(* The completion queue: how many completions of a connection it holds. *)

LEMMA QueuedFinite ==
    ASSUME NEW S, NEW q \in Seq(S), NEW P \in SUBSET DOMAIN q
    PROVE  IsFiniteSet(P) /\ Cardinality(P) \in Nat
<1>1. DOMAIN q = 1..Len(q) /\ Len(q) \in Nat
  OBVIOUS
<1>2. IsFiniteSet(1..Len(q))
  BY <1>1, FS_Interval
<1>3. IsFiniteSet(P)
  BY <1>1, <1>2, FS_Subset
<1> QED
  BY <1>3, FS_CardinalityType

(* A queued completion counts once for its connection and for no other. *)
LEMMA QueuedAppend ==
    ASSUME NEW q \in Seq(Completions), NEW e \in Completions, NEW c,
           NEW p, p = Append(q, e)
    PROVE  Cardinality(Queued(p, c)) = Cardinality(Queued(q, c)) + (IF e.key = c THEN 1 ELSE 0)
<1> DEFINE Q == Queued(q, c)
           R == Queued(p, c)
<1> USE DEF Queued
<1>1. /\ DOMAIN q = 1..Len(q) /\ Len(q) \in Nat
      /\ DOMAIN p = 1..(Len(q) + 1)
      /\ \A i \in 1..Len(q) : p[i] = q[i]
      /\ p[Len(q) + 1] = e
  OBVIOUS
<1>2. IsFiniteSet(Q) /\ Cardinality(Q) \in Nat
  BY QueuedFinite
<1>3. CASE e.key = c
  <2>1. R = Q \cup {Len(q) + 1} /\ Len(q) + 1 \notin Q
    BY <1>1, <1>3
  <2> QED
    BY <1>2, <1>3, <2>1, FS_AddElement
<1>4. CASE e.key # c
  <2>1. R = Q
    BY <1>1, <1>4
  <2>2. Cardinality(R) = Cardinality(Q)
    BY <2>1, Zenon
  <2>3. ASSUME NEW n \in Nat PROVE n = n + 0
    OBVIOUS
  <2> QED
    BY <1>2, <1>4, <2>2, <2>3, Zenon
<1> QED
  BY <1>3, <1>4

(* Taking the first completion from the queue takes one from its connection. *)
LEMMA QueuedTail ==
    ASSUME NEW q \in Seq(Completions), q # <<>>, NEW c,
           NEW p, p = Tail(q)
    PROVE  Cardinality(Queued(q, c)) = Cardinality(Queued(p, c)) + (IF Head(q).key = c THEN 1 ELSE 0)
<1> USE DEF Queued
<1> DEFINE Q == Queued(q, c)
           R == Queued(p, c)
           T == Q \ {1}
           f == [i \in R |-> i + 1]
<1>1. /\ DOMAIN q = 1..Len(q) /\ Len(q) \in Nat /\ Len(q) > 0
      /\ DOMAIN p = 1..(Len(q) - 1)
      /\ \A i \in 1..(Len(q) - 1) : p[i] = q[i + 1]
      /\ Head(q) = q[1]
  BY HeadTailProperties
<1>2. IsFiniteSet(Q) /\ Cardinality(Q) \in Nat
  BY QueuedFinite
<1>3. f \in Bijection(R, T)
  <2>1. \A i \in R : i \in Nat /\ i + 1 \in T
    BY <1>1
  <2>2. \A j \in T : j - 1 \in R /\ j = (j - 1) + 1
    BY <1>1
  <2>3. f \in [R -> T]
    BY <2>1
  <2>4. \A i, j \in R : f[i] = f[j] => i = j
    BY <2>1
  <2>5. \A j \in T : \E i \in R : f[i] = j
    BY <2>2
  <2> QED
    BY <2>3, <2>4, <2>5 DEF Bijection, Injection, Surjection, IsInjective
<1>4. IsFiniteSet(R)
  <2>1. p \in Seq(Completions)
    BY HeadTailProperties
  <2> QED
    BY <2>1, QueuedFinite
<1>5. Cardinality(T) = Cardinality(R)
  <2>1. ExistsBijection(R, T)
    BY <1>3 DEF ExistsBijection
  <2> QED
    BY <1>4, <2>1, FS_Bijection
<1>6. Cardinality(T) = IF 1 \in Q THEN Cardinality(Q) - 1 ELSE Cardinality(Q)
  BY <1>2, FS_RemoveElement
<1>7. 1 \in Q <=> Head(q).key = c
  BY <1>1
<1>8. Cardinality(R) = IF Head(q).key = c THEN Cardinality(Q) - 1 ELSE Cardinality(Q)
  BY <1>5, <1>6, <1>7, Zenon
<1>9. ASSUME NEW n \in Nat PROVE n = (n - 1) + 1 /\ n = n + 0
  OBVIOUS
<1> QED
  BY <1>2, <1>8, <1>9, Zenon

-------------------------------------------------------------------------------
(* Types.  The counters of operations are natural numbers; receives take what  *)
(* was sent; the socket at hand is one that a completion has named.            *)

IoBaseTypeOK ==
    /\ sends \in [Conns -> Nat] /\ recvs \in [Conns -> Nat]
    /\ completions \in Seq(Completions)
    /\ taken \in [Conns -> Nat]

BaseTypeOK ==
    /\ LoopTypeOK /\ SockTypeOK /\ IoBaseTypeOK
    /\ PeerTypeOK /\ ConfTypeOK /\ HistTypeOK

TakenWasSent == \A c \in Conns : taken[c] <= sent[c]
CurNamed == pc = "dispatch" => cur \in Conns
AcceptedCounted == \A c \in Conns : accepted[c] <= started

BaseInv == BaseTypeOK /\ TakenWasSent /\ CurNamed /\ AcceptedCounted

LEMMA TypeFrames ==
    /\ LoopTypeOK /\ UNCHANGED loopVars => LoopTypeOK'
    /\ SockTypeOK /\ UNCHANGED sockVars => SockTypeOK'
    /\ IoBaseTypeOK /\ UNCHANGED ioVars => IoBaseTypeOK'
    /\ PeerTypeOK /\ UNCHANGED peerVars => PeerTypeOK'
    /\ ConfTypeOK /\ UNCHANGED confVars => ConfTypeOK'
    /\ HistTypeOK /\ UNCHANGED histVars => HistTypeOK'
<1>1. LoopTypeOK /\ UNCHANGED loopVars => LoopTypeOK'
  BY DEF LoopTypeOK, loopVars
<1>2. SockTypeOK /\ UNCHANGED sockVars => SockTypeOK'
  BY DEF SockTypeOK, sockVars
<1>3. IoBaseTypeOK /\ UNCHANGED ioVars => IoBaseTypeOK'
  BY DEF IoBaseTypeOK, ioVars
<1>4. PeerTypeOK /\ UNCHANGED peerVars => PeerTypeOK'
  BY DEF PeerTypeOK, peerVars
<1>5. ConfTypeOK /\ UNCHANGED confVars => ConfTypeOK'
  BY DEF ConfTypeOK, confVars
<1>6. HistTypeOK /\ UNCHANGED histVars => HistTypeOK'
  BY DEF HistTypeOK, histVars
<1> QED
  BY <1>1, <1>2, <1>3, <1>4, <1>5, <1>6

(* The bytes and the sends are counted as before while nobody touches them. *)
LEMMA CountFrames ==
    /\ TakenWasSent /\ UNCHANGED <<taken, sent>> => TakenWasSent'
    /\ AcceptedCounted /\ UNCHANGED histVars => AcceptedCounted'
BY DEF TakenWasSent, AcceptedCounted, histVars

ExitReasons == {"init", "start_server", "connect", "WSASend", "WSARecv",
                "GetQueuedCompletionStatus"}

(* handle_error, whatever the reason, ends the process and changes nothing else. *)
LEMMA HandleErrorBase ==
    ASSUME BaseInv, NEW why \in ExitReasons, handle_error(why)
    PROVE  BaseInv'
<1>1. LoopTypeOK' /\ CurNamed'
  BY DEF BaseInv, BaseTypeOK, handle_error, LoopTypeOK, CurNamed
<1>2. ConfTypeOK'
  BY DEF BaseInv, BaseTypeOK, handle_error, ConfTypeOK, ExitReasons
<1>3. UNCHANGED <<sockVars, ioVars, peerVars, histVars, taken, sent>>
  BY DEF handle_error, ioVars, peerVars
<1> QED
  BY <1>1, <1>2, <1>3, TypeFrames, CountFrames DEF BaseInv, BaseTypeOK

(* What a receive takes is there. *)
LEMMA AvailableBounds ==
    ASSUME BaseInv, NEW c \in Conns
    PROVE  /\ Available(c) \in Nat
           /\ taken[c] \in Nat /\ sent[c] \in Nat
           /\ taken[c] + Available(c) <= sent[c]
BY Sizes DEF BaseInv, BaseTypeOK, IoBaseTypeOK, PeerTypeOK, TakenWasSent, Available, Least

(* A completion is put at the end of the queue, if at all. *)
LEMMA CompleteQueue ==
    ASSUME BaseInv, NEW c \in Conns, NEW op \in {"send", "recv"}, NEW ok \in BOOLEAN,
           Complete(c, op, ok)
    PROVE  completions' \in Seq(Completions)
<1>1. completions \in Seq(Completions)
  BY DEF BaseInv, BaseTypeOK, IoBaseTypeOK
<1>2. [key |-> c, op |-> op, ok |-> ok] \in Completions
  BY DEF Completions
<1> QED
  BY <1>1, <1>2, AppendProperties DEF Complete

(* taken after a receive on c. *)
LEMMA TakenStep ==
    ASSUME BaseInv, NEW c \in Conns, UNCHANGED sent,
           taken' = [taken EXCEPT ![c] = @ + Available(c)]
    PROVE  taken' \in [Conns -> Nat] /\ TakenWasSent'
<1>1. taken \in [Conns -> Nat]
  BY DEF BaseInv, BaseTypeOK, IoBaseTypeOK
<1>2. taken'[c] = taken[c] + Available(c) /\ \A d \in Conns : d # c => taken'[d] = taken[d]
  BY <1>1
<1>3. taken' \in [Conns -> Nat]
  BY <1>1, AvailableBounds
<1> QED
  BY <1>2, <1>3, AvailableBounds DEF BaseInv, TakenWasSent

LEMMA BaseInit == Init => BaseInv
<1> SUFFICES ASSUME Init PROVE BaseInv
  OBVIOUS
<1>1. LoopTypeOK /\ SockTypeOK /\ CurNamed
  BY DEF Init, LoopTypeOK, SockTypeOK, CurNamed
<1>2. IoBaseTypeOK
  BY DEF Init, IoBaseTypeOK
<1>3. PeerTypeOK /\ TakenWasSent /\ AcceptedCounted
  BY Sizes DEF Init, PeerTypeOK, TakenWasSent, AcceptedCounted
<1>4. ConfTypeOK
  <2>1. inits \in 0..MaxInits
    BY Sizes DEF Init
  <2> QED
    BY <2>1 DEF Init, ConfTypeOK
<1>5. HistTypeOK
  BY Sizes DEF Init, HistTypeOK
<1> QED
  BY <1>1, <1>2, <1>3, <1>4, <1>5 DEF BaseInv, BaseTypeOK

LEMMA BaseStep == BaseInv /\ [Next]_vars => BaseInv'
<1> SUFFICES ASSUME BaseInv, [Next]_vars PROVE BaseInv'
  OBVIOUS
<1>0. /\ LoopTypeOK /\ SockTypeOK /\ IoBaseTypeOK /\ PeerTypeOK /\ ConfTypeOK /\ HistTypeOK
      /\ TakenWasSent /\ CurNamed /\ AcceptedCounted
  BY DEF BaseInv, BaseTypeOK
<1>e. ASSUME NEW why \in ExitReasons, handle_error(why) PROVE BaseInv'
  BY <1>e, HandleErrorBase
<1>r. /\ "init" \in ExitReasons /\ "start_server" \in ExitReasons /\ "connect" \in ExitReasons
      /\ "WSASend" \in ExitReasons /\ "WSARecv" \in ExitReasons
      /\ "GetQueuedCompletionStatus" \in ExitReasons
  BY DEF ExitReasons
<1>1. CASE proactor_tcp_iocp_init
  <2>1. CASE handle_error("init")
    BY <2>1, <1>e, <1>r
  <2>2. CASE ~handle_error("init")
    <3>1. LoopTypeOK' /\ CurNamed'
      BY <1>0, <1>1, <2>2 DEF proactor_tcp_iocp_init, LoopTypeOK, CurNamed
    <3>2. ConfTypeOK'
      <4>1. inits' \in 0..MaxInits
        BY <1>0, <1>1, <2>2, Sizes DEF proactor_tcp_iocp_init, ConfTypeOK
      <4> QED
        BY <1>0, <1>1, <2>2, <4>1 DEF proactor_tcp_iocp_init, ConfTypeOK
    <3>3. UNCHANGED <<sockVars, ioVars, peerVars, histVars, taken, sent>>
      BY <1>1, <2>2 DEF proactor_tcp_iocp_init, ioVars, peerVars
    <3> QED
      BY <1>0, <3>1, <3>2, <3>3, TypeFrames, CountFrames DEF BaseInv, BaseTypeOK
  <2> QED
    BY <2>1, <2>2
<1>2. CASE proactor_tcp_iocp_cleanup
  <2>1. LoopTypeOK' /\ CurNamed'
    BY <1>0, <1>2 DEF proactor_tcp_iocp_cleanup, LoopTypeOK, CurNamed
  <2>2. SockTypeOK' /\ IoBaseTypeOK'
    <3>1. SockTypeOK'
      BY <1>0, <1>2 DEF proactor_tcp_iocp_cleanup, SockTypeOK
    <3>2. IoBaseTypeOK'
      <4>1. completions' = <<>> /\ completions' \in Seq(Completions)
        BY <1>2 DEF proactor_tcp_iocp_cleanup
      <4> QED
        BY <1>0, <1>2, <4>1 DEF proactor_tcp_iocp_cleanup, IoBaseTypeOK
    <3> QED
      BY <3>1, <3>2
  <2>3. UNCHANGED <<peerVars, confVars, histVars, taken, sent>>
    BY <1>2 DEF proactor_tcp_iocp_cleanup, peerVars
  <2> QED
    BY <1>0, <2>1, <2>2, <2>3, TypeFrames, CountFrames DEF BaseInv, BaseTypeOK
<1>3. CASE proactor_tcp_iocp_start_server
  <2>1. CASE handle_error("start_server")
    BY <2>1, <1>e, <1>r
  <2>2. CASE ~handle_error("start_server")
    <3>1. SockTypeOK'
      BY <1>0, <1>3, <2>2 DEF proactor_tcp_iocp_start_server, SockTypeOK
    <3>2. UNCHANGED <<loopVars, ioVars, peerVars, confVars, histVars, taken, sent, pc, cur>>
      BY <1>3, <2>2 DEF proactor_tcp_iocp_start_server, loopVars, ioVars, peerVars
    <3> QED
      BY <1>0, <3>1, <3>2, TypeFrames, CountFrames DEF BaseInv, BaseTypeOK, CurNamed
  <2> QED
    BY <2>1, <2>2
<1>4. ASSUME NEW c \in Conns, proactor_tcp_iocp_connect(c) PROVE BaseInv'
  <2>1. CASE handle_error("connect")
    BY <2>1, <1>e, <1>r
  <2>2. CASE ~handle_error("connect")
    <3>1. SockTypeOK'
      BY <1>0, <1>4, <2>2 DEF proactor_tcp_iocp_connect, SockTypeOK
    <3>2. UNCHANGED <<loopVars, ioVars, peerVars, confVars, histVars, taken, sent, pc, cur>>
      BY <1>4, <2>2 DEF proactor_tcp_iocp_connect, loopVars, ioVars, peerVars
    <3> QED
      BY <1>0, <3>1, <3>2, TypeFrames, CountFrames DEF BaseInv, BaseTypeOK, CurNamed
  <2> QED
    BY <2>1, <2>2
<1>5. ASSUME NEW given \in BOOLEAN, set_receive_callback(given) PROVE BaseInv'
  <2>1. ConfTypeOK'
    BY <1>0, <1>5 DEF set_receive_callback, ConfTypeOK
  <2>2. UNCHANGED <<loopVars, sockVars, ioVars, peerVars, histVars, taken, sent, pc, cur>>
    BY <1>5 DEF set_receive_callback, loopVars, ioVars, peerVars
  <2> QED
    BY <1>0, <2>1, <2>2, TypeFrames, CountFrames DEF BaseInv, BaseTypeOK, CurNamed
<1>6. ASSUME NEW t \in Callers, proactor_tcp_iocp_stop(t) PROVE BaseInv'
  <2>1. LoopTypeOK' /\ CurNamed'
    BY <1>0, <1>6 DEF proactor_tcp_iocp_stop, LoopTypeOK, CurNamed
  <2>2. UNCHANGED <<sockVars, ioVars, peerVars, confVars, histVars, taken, sent>>
    BY <1>6 DEF proactor_tcp_iocp_stop, ioVars, peerVars
  <2> QED
    BY <1>0, <2>1, <2>2, TypeFrames, CountFrames DEF BaseInv, BaseTypeOK
<1>7. ASSUME NEW t \in Callers, NEW c \in Conns, proactor_tcp_iocp_send(t, c) PROVE BaseInv'
  <2>1. CASE handle_error("WSASend")
    BY <2>1, <1>e, <1>r
  <2>2. CASE ~handle_error("WSASend")
    <3>1. /\ sends' = [sends EXCEPT ![c] = sends[c] + 1] /\ started' = started + 1
          /\ accepted' = [accepted EXCEPT ![c] = accepted[c] + 1]
          /\ started < MaxSends
          /\ UNCHANGED <<recvs, completions, taken, delivered, sent, pc, cur>>
          /\ UNCHANGED <<loopVars, sockVars, peerVars, confVars>>
      BY <1>7, <2>2 DEF proactor_tcp_iocp_send, loopVars, peerVars
    <3>2. IoBaseTypeOK'
      BY <1>0, <3>1 DEF IoBaseTypeOK
    <3>3. HistTypeOK' /\ AcceptedCounted'
      <4>1. accepted[c] + 1 \in 0..MaxSends /\ started' \in 0..MaxSends
        BY <1>0, <3>1, Sizes DEF HistTypeOK, AcceptedCounted
      <4>2. HistTypeOK'
        BY <1>0, <3>1, <4>1 DEF HistTypeOK
      <4>3. accepted'[c] = accepted[c] + 1
            /\ \A d \in Conns : d # c => accepted'[d] = accepted[d]
        BY <1>0, <3>1 DEF HistTypeOK
      <4> QED
        BY <1>0, <3>1, <4>2, <4>3, Sizes DEF HistTypeOK, AcceptedCounted
    <3> QED
      BY <1>0, <3>1, <3>2, <3>3, TypeFrames, CountFrames DEF BaseInv, BaseTypeOK, CurNamed
  <2> QED
    BY <2>1, <2>2
<1>8. ASSUME NEW c \in Conns, send_ends(c) PROVE BaseInv'
  <2>1. PICK ok \in BOOLEAN : Complete(c, "send", ok)
    BY <1>8 DEF send_ends
  <2>2. completions' \in Seq(Completions)
    BY <2>1, CompleteQueue
  <2>3. IoBaseTypeOK'
    BY <1>0, <1>8, <2>2 DEF send_ends, IoBaseTypeOK
  <2>4. UNCHANGED <<loopVars, sockVars, peerVars, confVars, histVars, taken, sent, pc, cur>>
    BY <1>8 DEF send_ends, loopVars, peerVars
  <2> QED
    BY <1>0, <2>3, <2>4, TypeFrames, CountFrames DEF BaseInv, BaseTypeOK, CurNamed
<1>9. ASSUME NEW c \in Conns, recv_ends(c) PROVE BaseInv'
  <2>1. PICK ok \in BOOLEAN : Complete(c, "recv", ok)
    BY <1>9 DEF recv_ends
  <2>2. completions' \in Seq(Completions)
    BY <2>1, CompleteQueue
  <2>3. UNCHANGED <<loopVars, sockVars, peerVars, confVars, histVars, sent, pc, cur, sends>>
        /\ recvs[c] > 0 /\ recvs' = [recvs EXCEPT ![c] = recvs[c] - 1]
        /\ taken' = [taken EXCEPT ![c] = taken[c] + Available(c)]
    BY <1>9 DEF recv_ends, loopVars, peerVars
  <2>4. taken' \in [Conns -> Nat] /\ TakenWasSent'
    BY <2>3, TakenStep
  <2>5. IoBaseTypeOK'
    BY <1>0, <2>2, <2>3, <2>4 DEF IoBaseTypeOK
  <2> QED
    BY <1>0, <2>3, <2>4, <2>5, TypeFrames, CountFrames DEF BaseInv, BaseTypeOK, CurNamed
<1>10. CASE proactor_tcp_iocp_run \/ run_check \/ callback_return \/ other_socket
  <2>1. LoopTypeOK' /\ CurNamed'
    BY <1>0, <1>10 DEF proactor_tcp_iocp_run, run_check, callback_return, other_socket,
       LoopTypeOK, RunStates, CurNamed
  <2>2. UNCHANGED <<sockVars, ioVars, peerVars, confVars, histVars, taken, sent>>
    BY <1>10 DEF proactor_tcp_iocp_run, run_check, callback_return, other_socket, ioVars,
       peerVars
  <2> QED
    BY <1>0, <2>1, <2>2, TypeFrames, CountFrames DEF BaseInv, BaseTypeOK
<1>11. CASE GetQueuedCompletionStatus
  <2>1. CASE handle_error("GetQueuedCompletionStatus")
    BY <2>1, <1>e, <1>r
  <2>2. CASE ~handle_error("GetQueuedCompletionStatus")
    <3>1. completions \in Seq(Completions) /\ completions # <<>>
      BY <1>0, <1>11 DEF GetQueuedCompletionStatus, IoBaseTypeOK
    <3>2. Head(completions).key \in Conns /\ Tail(completions) \in Seq(Completions)
      <4>1. Head(completions) \in Completions /\ Tail(completions) \in Seq(Completions)
        BY <3>1, HeadTailProperties
      <4> QED
        BY <4>1 DEF Completions
    <3>3. LoopTypeOK' /\ CurNamed'
      BY <1>0, <1>11, <2>2, <3>2 DEF GetQueuedCompletionStatus, LoopTypeOK, RunStates, CurNamed
    <3>4. IoBaseTypeOK'
      BY <1>0, <1>11, <2>2, <3>2 DEF GetQueuedCompletionStatus, IoBaseTypeOK
    <3>5. UNCHANGED <<sockVars, peerVars, confVars, histVars, taken, sent>>
      BY <1>11, <2>2 DEF GetQueuedCompletionStatus, peerVars
    <3> QED
      BY <1>0, <3>3, <3>4, <3>5, TypeFrames, CountFrames DEF BaseInv, BaseTypeOK
  <2> QED
    BY <2>1, <2>2
<1>12. CASE handle_data_event
  <2>1. cur \in Conns
    BY <1>0, <1>12 DEF handle_data_event, CurNamed
  <2>2. CASE handle_error("WSARecv")
    BY <2>2, <1>e, <1>r
  <2>3. CASE received(cur)
    <3>1. LoopTypeOK' /\ CurNamed'
      BY <1>0, <2>3 DEF received, LoopTypeOK, RunStates, CurNamed
    <3>2. completions' \in Seq(Completions)
      BY <2>1, <2>3, CompleteQueue DEF received
    <3>3. UNCHANGED <<sockVars, peerVars, confVars, sent, sends, recvs, started, accepted>>
          /\ taken' = [taken EXCEPT ![cur] = taken[cur] + Available(cur)]
      BY <2>3 DEF received, peerVars
    <3>4. taken' \in [Conns -> Nat] /\ TakenWasSent'
      BY <2>1, <3>3, TakenStep
    <3>5. IoBaseTypeOK'
      BY <1>0, <3>2, <3>3, <3>4 DEF IoBaseTypeOK
    <3>6. HistTypeOK'
      <4>1. Positions(cur) \in Seq(Nat)
        BY <2>1, AvailableBounds DEF Positions, bytes_received
      <4>2. delivered[cur] \o Positions(cur) \in Seq(Nat)
        BY <1>0, <2>1, <4>1, ConcatProperties DEF HistTypeOK
      <4>3. delivered' \in [Conns -> Seq(Nat)]
        BY <1>0, <2>3, <4>2 DEF received, HistTypeOK
      <4> QED
        BY <1>0, <3>3, <4>3 DEF HistTypeOK
    <3>7. AcceptedCounted'
      BY <1>0, <3>3 DEF AcceptedCounted
    <3> QED
      BY <1>0, <3>1, <3>3, <3>4, <3>5, <3>6, <3>7, TypeFrames DEF BaseInv, BaseTypeOK
  <2>4. CASE pending(cur)
    <3>1. LoopTypeOK' /\ CurNamed'
      BY <1>0, <2>4 DEF pending, LoopTypeOK, RunStates, CurNamed
    <3>2. IoBaseTypeOK'
      BY <1>0, <2>1, <2>4 DEF pending, NewReceives, IoBaseTypeOK
    <3>3. UNCHANGED <<sockVars, peerVars, confVars, histVars, taken, sent>>
      BY <2>4 DEF pending, peerVars
    <3> QED
      BY <1>0, <3>1, <3>2, <3>3, TypeFrames, CountFrames DEF BaseInv, BaseTypeOK
  <2> QED
    BY <1>12, <2>2, <2>3, <2>4 DEF handle_data_event
<1>13. ASSUME NEW c \in Conns, peer_send(c) PROVE BaseInv'
  <2>1. /\ sent' = [sent EXCEPT ![c] = sent[c] + 1] /\ sent[c] < MaxBytes
        /\ UNCHANGED <<eof, loopVars, sockVars, ioVars, confVars, histVars, taken, pc, cur>>
    BY <1>13 DEF peer_send, loopVars, ioVars
  <2>2. sent[c] + 1 \in 0..MaxBytes
    BY <1>0, <2>1, Sizes DEF PeerTypeOK
  <2>3. PeerTypeOK'
    BY <1>0, <2>1, <2>2 DEF PeerTypeOK
  <2>4. TakenWasSent'
    <3>1. sent'[c] = sent[c] + 1 /\ \A d \in Conns : d # c => sent'[d] = sent[d]
      BY <1>0, <2>1 DEF PeerTypeOK
    <3>2. sent[c] \in Nat /\ taken[c] \in Nat
      BY <1>0, Sizes DEF PeerTypeOK, IoBaseTypeOK
    <3> QED
      BY <1>0, <2>1, <3>1, <3>2 DEF TakenWasSent
  <2> QED
    BY <1>0, <2>1, <2>3, <2>4, TypeFrames, CountFrames DEF BaseInv, BaseTypeOK, CurNamed
<1>14. ASSUME NEW c \in Conns, peer_close(c) PROVE BaseInv'
  <2>1. PeerTypeOK'
    BY <1>0, <1>14 DEF peer_close, PeerTypeOK
  <2>2. UNCHANGED <<sent, loopVars, sockVars, ioVars, confVars, histVars, taken, pc, cur>>
    BY <1>14 DEF peer_close, loopVars, ioVars
  <2> QED
    BY <1>0, <2>1, <2>2, TypeFrames, CountFrames DEF BaseInv, BaseTypeOK, CurNamed
<1>15. CASE UNCHANGED vars
  <2>1. UNCHANGED <<loopVars, sockVars, ioVars, peerVars, confVars, histVars, taken, sent, pc, cur>>
    BY <1>15 DEF vars, loopVars, ioVars, peerVars
  <2> QED
    BY <1>0, <2>1, TypeFrames, CountFrames DEF BaseInv, BaseTypeOK, CurNamed
<1> QED
  BY <1>1, <1>2, <1>3, <1>4, <1>5, <1>6, <1>7, <1>8, <1>9, <1>10, <1>11, <1>12, <1>13, <1>14,
     <1>15
  DEF Next, Setup, Calls, LoopStep, Kernel, Peers

LEMMA BaseInvariant == Spec => []BaseInv
BY BaseInit, BaseStep, PTL DEF Spec

-------------------------------------------------------------------------------
(* Operations in flight. *)

(* The completion at hand. *)
AtHand(c) == IF pc = "dispatch" /\ cur = c THEN 1 ELSE 0

LEMMA QueuedCount ==
    ASSUME BaseInv, NEW c \in Conns
    PROVE  Cardinality(Queued(completions, c)) \in Nat
<1>1. completions \in Seq(Completions)
  BY DEF BaseInv, BaseTypeOK, IoBaseTypeOK
<1> QED
  BY <1>1, QueuedFinite DEF Queued

(* A completion of d counts for d, if it is queued at all. *)
LEMMA CompleteAdds ==
    ASSUME BaseInv, NEW c \in Conns, NEW d \in Conns, NEW op \in {"send", "recv"},
           NEW ok \in BOOLEAN, Complete(d, op, ok)
    PROVE  \/ Cardinality(Queued(completions', c)) = Cardinality(Queued(completions, c))
           \/ d = c /\ Cardinality(Queued(completions', c)) = Cardinality(Queued(completions, c)) + 1
<1>1. completions \in Seq(Completions)
  BY DEF BaseInv, BaseTypeOK, IoBaseTypeOK
<1>2. CASE UNCHANGED completions
  BY <1>2 DEF Queued
<1>3. CASE completions' = Append(completions, [key |-> d, op |-> op, ok |-> ok])
  <2> DEFINE e == [key |-> d, op |-> op, ok |-> ok]
  <2>1. e \in Completions /\ e.key = d
    BY DEF Completions
  <2>2. completions' = Append(completions, e)
    BY <1>3
  <2> HIDE DEF e
  <2>3. Cardinality(Queued(completions', c)) = Cardinality(Queued(completions, c)) + (IF e.key = c THEN 1 ELSE 0)
    BY <1>1, <2>1, <2>2, QueuedAppend
  <2>4. Cardinality(Queued(completions, c)) \in Nat
    BY QueuedCount
  <2>5. CASE d = c
    BY <2>1, <2>3, <2>5
  <2>6. CASE d # c
    <3>1. ASSUME NEW n \in Nat PROVE n + 0 = n
      OBVIOUS
    <3> QED
      BY <2>1, <2>3, <2>4, <2>6, <3>1, Zenon
  <2> QED
    BY <2>5, <2>6
<1> QED
  BY <1>2, <1>3 DEF Complete

LEMMA InFlightStep ==
    ASSUME BaseInv, BaseInv', InFlightBySends, [Next]_vars
    PROVE  InFlightBySends'
<1> SUFFICES ASSUME NEW c \in Conns PROVE InFlight(c)' <= accepted'[c]
  BY DEF InFlightBySends
<1> DEFINE q == Cardinality(Queued(completions, c))
           r == Cardinality(Queued(completions', c))
<1>0. InFlight(c) <= accepted[c]
  BY DEF InFlightBySends
<1>1. /\ sends \in [Conns -> Nat] /\ recvs \in [Conns -> Nat] /\ accepted \in [Conns -> Nat]
      /\ completions \in Seq(Completions) /\ q \in Nat
  <2>1. q \in Nat
    BY QueuedCount
  <2> QED
    BY <2>1, Sizes DEF BaseInv, BaseTypeOK, IoBaseTypeOK, HistTypeOK
<1>2. /\ sends'[c] \in Nat /\ recvs'[c] \in Nat /\ accepted'[c] \in Nat
      /\ AtHand(c) \in 0..1 /\ AtHand(c)' \in 0..1
  BY Sizes DEF BaseInv, BaseTypeOK, IoBaseTypeOK, HistTypeOK, AtHand
<1>q. UNCHANGED completions => r = q
  BY DEF Queued
<1>n. r \in Nat
  <2>1. completions' \in Seq(Completions)
    BY DEF BaseInv, BaseTypeOK, IoBaseTypeOK
  <2> QED
    BY <2>1, QueuedFinite DEF Queued
<1>f. sends[c] + recvs[c] + q + AtHand(c) <= accepted[c]
  BY <1>0 DEF InFlight, AtHand
<1>g. ASSUME sends'[c] + recvs'[c] + r + AtHand(c)' <= accepted'[c]
      PROVE  InFlight(c)' <= accepted'[c]
  BY <1>g DEF InFlight, AtHand
<1> HIDE DEF q, r
<1>e. ASSUME NEW why, handle_error(why) PROVE InFlight(c)' <= accepted'[c]
  <2>1. UNCHANGED <<sends, recvs, completions, accepted>> /\ AtHand(c)' = 0
    BY <1>e DEF handle_error, ioVars, histVars, AtHand
  <2> QED
    BY <1>1, <1>2, <1>q, <1>f, <1>g, <2>1
<1>s. ASSUME UNCHANGED <<sends, recvs, completions, accepted>>, AtHand(c)' <= AtHand(c)
      PROVE  InFlight(c)' <= accepted'[c]
  BY <1>1, <1>2, <1>q, <1>f, <1>g, <1>s
<1>3. CASE Setup
  <2>1. CASE proactor_tcp_iocp_cleanup
    <3>1. /\ sends'[c] = 0 /\ recvs'[c] = 0 /\ completions' = <<>> /\ accepted' = accepted
          /\ AtHand(c)' = 0
      BY <2>1 DEF proactor_tcp_iocp_cleanup, histVars, AtHand
    <3>2. Queued(completions', c) = {}
      BY <3>1 DEF Queued
    <3>3. r = 0
      BY <3>2, FS_EmptySet DEF r
    <3> QED
      BY <1>1, <1>2, <1>n, <1>f, <1>g, <3>1, <3>3
  <2>2. CASE ~proactor_tcp_iocp_cleanup
    <3>1. ASSUME ~ \E why \in {"init", "start_server", "connect"} : handle_error(why)
          PROVE  UNCHANGED <<sends, recvs, completions, accepted>> /\ AtHand(c)' <= AtHand(c)
      BY <1>2, <1>3, <2>2, <3>1 DEF Setup, proactor_tcp_iocp_init, proactor_tcp_iocp_start_server,
         proactor_tcp_iocp_connect, set_receive_callback, ioVars, histVars, loopVars, AtHand
    <3> QED
      BY <1>e, <1>s, <3>1
  <2> QED
    BY <2>1, <2>2
<1>4. ASSUME NEW t \in Callers, proactor_tcp_iocp_stop(t) PROVE InFlight(c)' <= accepted'[c]
  BY <1>2, <1>4, <1>s DEF proactor_tcp_iocp_stop, ioVars, histVars, AtHand
<1>5. ASSUME NEW t \in Callers, NEW d \in Conns, proactor_tcp_iocp_send(t, d)
      PROVE  InFlight(c)' <= accepted'[c]
  <2>1. CASE handle_error("WSASend")
    BY <2>1, <1>e
  <2>2. CASE ~handle_error("WSASend")
    <3>1. /\ sends' = [sends EXCEPT ![d] = sends[d] + 1]
          /\ accepted' = [accepted EXCEPT ![d] = accepted[d] + 1]
          /\ UNCHANGED <<recvs, completions>> /\ AtHand(c)' = AtHand(c)
      BY <1>5, <2>2 DEF proactor_tcp_iocp_send, loopVars, AtHand
    <3>2. \/ sends'[c] = sends[c] /\ accepted'[c] = accepted[c]
          \/ sends'[c] = sends[c] + 1 /\ accepted'[c] = accepted[c] + 1
      BY <1>1, <3>1
    <3>3. recvs'[c] = recvs[c] /\ r = q /\ AtHand(c)' = AtHand(c)
      BY <1>q, <3>1
    <3>4. sends'[c] + recvs'[c] + r + AtHand(c)' <= accepted'[c]
      <4>1. CASE sends'[c] = sends[c] /\ accepted'[c] = accepted[c]
        BY <1>f, <3>3, <4>1
      <4>2. CASE sends'[c] = sends[c] + 1 /\ accepted'[c] = accepted[c] + 1
        BY <1>1, <1>2, <1>f, <3>3, <4>2
      <4> QED
        BY <3>2, <4>1, <4>2
    <3> QED
      BY <1>g, <3>4
  <2> QED
    BY <2>1, <2>2
<1>6. ASSUME NEW d \in Conns, send_ends(d) PROVE InFlight(c)' <= accepted'[c]
  <2>1. PICK ok \in BOOLEAN : Complete(d, "send", ok)
    BY <1>6 DEF send_ends
  <2>2. r = q \/ (d = c /\ r = q + 1)
    BY <2>1, CompleteAdds DEF q, r
  <2>3. sends'[c] = IF d = c THEN sends[c] - 1 ELSE sends[c]
    BY <1>1, <1>6 DEF send_ends
  <2>4. UNCHANGED <<recvs, accepted>> /\ AtHand(c)' = AtHand(c)
    BY <1>6 DEF send_ends, histVars, loopVars, AtHand
  <2> QED
    BY <1>1, <1>2, <1>n, <1>f, <1>g, <2>2, <2>3, <2>4
<1>7. ASSUME NEW d \in Conns, recv_ends(d) PROVE InFlight(c)' <= accepted'[c]
  <2>1. PICK ok \in BOOLEAN : Complete(d, "recv", ok)
    BY <1>7 DEF recv_ends
  <2>2. r = q \/ (d = c /\ r = q + 1)
    BY <2>1, CompleteAdds DEF q, r
  <2>3. recvs'[c] = IF d = c THEN recvs[c] - 1 ELSE recvs[c]
    BY <1>1, <1>7 DEF recv_ends
  <2>4. UNCHANGED <<sends, accepted>> /\ AtHand(c)' = AtHand(c)
    BY <1>7 DEF recv_ends, histVars, loopVars, AtHand
  <2> QED
    BY <1>1, <1>2, <1>n, <1>f, <1>g, <2>2, <2>3, <2>4
<1>8. CASE proactor_tcp_iocp_run \/ run_check \/ callback_return \/ other_socket
  <2>1. UNCHANGED <<sends, recvs, completions, accepted>> /\ AtHand(c)' = 0
    BY <1>8 DEF proactor_tcp_iocp_run, run_check, callback_return, other_socket, ioVars, histVars,
       AtHand
  <2> QED
    BY <1>2, <1>s, <2>1
<1>9. CASE GetQueuedCompletionStatus
  <2>1. CASE handle_error("GetQueuedCompletionStatus")
    BY <2>1, <1>e
  <2>2. CASE ~handle_error("GetQueuedCompletionStatus")
    <3>1. /\ completions # <<>> /\ completions' = Tail(completions)
          /\ pc = "wait" /\ pc' = "dispatch" /\ cur' = Head(completions).key
          /\ UNCHANGED <<sends, recvs, accepted>>
      BY <1>9, <2>2 DEF GetQueuedCompletionStatus, histVars
    <3>2. q = r + (IF Head(completions).key = c THEN 1 ELSE 0)
      BY <1>1, <3>1, QueuedTail DEF q, r
    <3>3. AtHand(c) = 0 /\ AtHand(c)' = IF Head(completions).key = c THEN 1 ELSE 0
      BY <3>1 DEF AtHand
    <3>4. q + AtHand(c) = r + AtHand(c)'
      BY <1>1, <1>n, <3>2, <3>3
    <3> QED
      BY <1>1, <1>2, <1>n, <1>f, <1>g, <3>1, <3>4
  <2> QED
    BY <2>1, <2>2
<1>10. CASE handle_data_event
  <2>0. cur \in Conns /\ pc = "dispatch"
    BY <1>10 DEF handle_data_event, BaseInv, CurNamed
  <2>1. CASE handle_error("WSARecv")
    BY <2>1, <1>e
  <2>2. CASE received(cur)
    <3>1. r = q \/ (cur = c /\ r = q + 1)
      BY <2>0, <2>2, CompleteAdds DEF received, q, r
    <3>2. UNCHANGED <<sends, recvs, accepted>> /\ pc' # "dispatch"
      BY <2>2 DEF received
    <3>3. AtHand(c)' = 0 /\ AtHand(c) = IF cur = c THEN 1 ELSE 0
      BY <2>0, <3>2 DEF AtHand
    <3> QED
      BY <1>1, <1>2, <1>n, <1>f, <1>g, <3>1, <3>2, <3>3
  <2>3. CASE pending(cur)
    <3>1. recvs'[c] = IF cur = c THEN recvs[c] + 1 ELSE recvs[c]
      BY <1>1, <2>0, <2>3 DEF pending, NewReceives
    <3>2. UNCHANGED <<sends, completions, accepted>> /\ pc' # "dispatch"
      BY <2>3 DEF pending, histVars
    <3>3. AtHand(c)' = 0 /\ AtHand(c) = IF cur = c THEN 1 ELSE 0
      BY <2>0, <3>2 DEF AtHand
    <3> QED
      BY <1>1, <1>2, <1>n, <1>f, <1>g, <1>q, <3>1, <3>2, <3>3
  <2> QED
    BY <1>10, <2>1, <2>2, <2>3 DEF handle_data_event
<1>11. CASE Peers \/ UNCHANGED vars
  <2>1. UNCHANGED <<sends, recvs, completions, accepted, pc, cur>>
    BY <1>11 DEF Peers, peer_send, peer_close, vars, ioVars, histVars, loopVars
  <2> QED
    BY <1>2, <1>s, <2>1 DEF AtHand
<1> QED
  BY <1>3, <1>4, <1>5, <1>6, <1>7, <1>8, <1>9, <1>10, <1>11 DEF Next, Calls, LoopStep, Kernel

(* Every operation in flight on a connection descends from a send of the       *)
(* application: however receives overlap, complete at once or late, or lose    *)
(* their completions, their number never exceeds that of the sends.            *)
THEOREM OperationsDescendFromSends == Spec => []InFlightBySends
<1>1. Init => InFlightBySends
  <2> SUFFICES ASSUME Init, NEW c \in Conns PROVE InFlight(c) <= accepted[c]
    BY DEF InFlightBySends
  <2>1. Queued(completions, c) = {}
    BY DEF Init, Queued
  <2>2. Cardinality(Queued(completions, c)) = 0
    BY <2>1, FS_EmptySet
  <2> QED
    BY <2>2 DEF Init, InFlight
<1>2. BaseInv /\ BaseInv' /\ InFlightBySends /\ [Next]_vars => InFlightBySends'
  BY InFlightStep
<1> QED
  BY BaseInvariant, <1>1, <1>2, PTL DEF Spec

(* TypeOK holds in every state of proactor_net_iocp.c's model: the operations  *)
(* in progress stay within the sends made, the bytes taken within those sent.  *)
THEOREM TypeCorrect == Spec => []TypeOK
<1>1. BaseInv /\ InFlightBySends => TypeOK
  <2> SUFFICES ASSUME BaseInv, InFlightBySends PROVE TypeOK
    OBVIOUS
  <2>1. ASSUME NEW c \in Conns
        PROVE  sends[c] \in 0..MaxSends /\ recvs[c] \in 0..MaxSends /\ taken[c] \in 0..MaxBytes
    <3>1. /\ sends[c] \in Nat /\ recvs[c] \in Nat /\ taken[c] \in Nat
          /\ accepted[c] \in 0..MaxSends /\ sent[c] \in 0..MaxBytes /\ taken[c] <= sent[c]
      BY DEF BaseInv, BaseTypeOK, IoBaseTypeOK, PeerTypeOK, HistTypeOK, TakenWasSent
    <3>2. sends[c] + recvs[c] + Cardinality(Queued(completions, c)) + AtHand(c) <= accepted[c]
      BY DEF InFlightBySends, InFlight, AtHand
    <3>3. Cardinality(Queued(completions, c)) \in Nat /\ AtHand(c) \in Nat
      BY QueuedCount DEF AtHand
    <3> QED
      BY <3>1, <3>2, <3>3, Sizes
  <2>2. IoTypeOK
    BY <2>1 DEF BaseInv, BaseTypeOK, IoBaseTypeOK, IoTypeOK
  <2> QED
    BY <2>2 DEF BaseInv, BaseTypeOK, TypeOK
<1> QED
  BY BaseInvariant, OperationsDescendFromSends, <1>1, PTL

-------------------------------------------------------------------------------
(* What the receive callback gets. *)

(* The positions s of one connection: increasing, and all of bytes taken. *)
InOrderUpTo(s, n) ==
    /\ \A i, j \in DOMAIN s : i < j => s[i] < s[j]
    /\ \A i \in DOMAIN s : s[i] \in 1..n

(* Positions that follow on the ones before them keep the order. *)
LEMMA PositionsFollow ==
    ASSUME NEW n \in Nat, NEW k \in Nat, NEW s \in Seq(Nat), InOrderUpTo(s, n),
           NEW p, p = [i \in 1..k |-> n + i]
    PROVE  InOrderUpTo(s \o p, n + k)
<1>1. p \in Seq(Nat) /\ Len(p) = k
  OBVIOUS
<1>2. /\ Len(s) \in Nat /\ DOMAIN s = 1..Len(s)
      /\ DOMAIN (s \o p) = 1..(Len(s) + k)
      /\ \A i \in 1..(Len(s) + k) : (s \o p)[i] = IF i <= Len(s) THEN s[i] ELSE p[i - Len(s)]
  BY <1>1, ConcatProperties
<1>3. \A i \in 1..Len(s) : (s \o p)[i] = s[i] /\ s[i] \in 1..n
  BY <1>2 DEF InOrderUpTo
<1>4. \A i \in (Len(s) + 1)..(Len(s) + k) : (s \o p)[i] = n + (i - Len(s))
  BY <1>2
<1>5. \A i \in 1..(Len(s) + k) : (s \o p)[i] \in 1..(n + k)
  BY <1>2, <1>3, <1>4
<1>6. ASSUME NEW i \in 1..(Len(s) + k), NEW j \in 1..(Len(s) + k), i < j
      PROVE  (s \o p)[i] < (s \o p)[j]
  <2>1. CASE j <= Len(s)
    <3>1. i \in 1..Len(s) /\ j \in 1..Len(s)
      BY <1>2, <1>6, <2>1
    <3>2. s[i] < s[j]
      BY <1>2, <1>6, <3>1 DEF InOrderUpTo
    <3> QED
      BY <1>3, <3>1, <3>2
  <2>2. CASE i <= Len(s) /\ j > Len(s)
    BY <1>2, <1>3, <1>4, <1>6, <2>2
  <2>3. CASE i > Len(s)
    BY <1>2, <1>4, <1>6, <2>3
  <2> QED
    BY <1>2, <2>1, <2>2, <2>3
<1> QED
  BY <1>2, <1>5, <1>6 DEF InOrderUpTo

(* Bytes only become taken. *)
LEMMA InOrderMore ==
    ASSUME NEW s, NEW n \in Nat, NEW m \in Nat, n <= m, InOrderUpTo(s, n)
    PROVE  InOrderUpTo(s, m)
BY DEF InOrderUpTo

LEMMA TakenGrows ==
    ASSUME BaseInv, [Next]_vars, NEW c \in Conns
    PROVE  taken'[c] \in Nat /\ taken[c] <= taken'[c]
<1>1. taken \in [Conns -> Nat]
  BY DEF BaseInv, BaseTypeOK, IoBaseTypeOK
<1>2. \/ UNCHANGED taken
      \/ \E d \in Conns : taken' = [taken EXCEPT ![d] = @ + Available(d)]
  <2>1. CASE handle_data_event
    <3>1. cur \in Conns
      BY <2>1 DEF handle_data_event, BaseInv, CurNamed
    <3> QED
      BY <2>1, <3>1 DEF handle_data_event, received, pending, handle_error, ioVars
  <2>2. CASE ~handle_data_event
    BY <2>2 DEF Next, vars, Setup, Calls, LoopStep, Kernel, Peers, proactor_tcp_iocp_init,
       proactor_tcp_iocp_cleanup, proactor_tcp_iocp_start_server, proactor_tcp_iocp_connect,
       set_receive_callback, proactor_tcp_iocp_stop, proactor_tcp_iocp_send, handle_error,
       proactor_tcp_iocp_run, run_check, GetQueuedCompletionStatus, other_socket,
       callback_return, send_ends, recv_ends, peer_send, peer_close, ioVars
  <2> QED
    BY <2>1, <2>2
<1> QED
  BY <1>1, <1>2, AvailableBounds

(* The receive callback gets bytes the peer has sent, in order, none twice,    *)
(* whichever receives complete at once and whichever wait.                     *)
THEOREM ReceivedInOrder == Spec => []DeliveredInOrder
<1> DEFINE Ordered == \A c \in Conns : InOrderUpTo(delivered[c], taken[c])
<1>0. Ordered <=> DeliveredInOrder
  BY DEF DeliveredInOrder, InOrderUpTo
<1>1. Init => Ordered
  BY DEF Init, InOrderUpTo
<1>2. BaseInv /\ Ordered /\ [Next]_vars => Ordered'
  <2> SUFFICES ASSUME BaseInv, Ordered, [Next]_vars, NEW c \in Conns
               PROVE  InOrderUpTo(delivered'[c], taken'[c])
    OBVIOUS
  <2>1. taken[c] \in Nat /\ taken'[c] \in Nat /\ taken[c] <= taken'[c]
    BY TakenGrows, AvailableBounds
  <2>2. delivered \in [Conns -> Seq(Nat)] /\ taken \in [Conns -> Nat]
    BY DEF BaseInv, BaseTypeOK, HistTypeOK, IoBaseTypeOK
  <2>3. CASE delivered'[c] = delivered[c]
    BY <2>1, <2>3, InOrderMore
  <2>4. CASE delivered'[c] # delivered[c]
    <3>1. handle_data_event /\ received(cur)
      BY <2>4 DEF Next, vars, Setup, Calls, LoopStep, Kernel, Peers, proactor_tcp_iocp_init,
         proactor_tcp_iocp_cleanup, proactor_tcp_iocp_start_server, proactor_tcp_iocp_connect,
         set_receive_callback, proactor_tcp_iocp_stop, proactor_tcp_iocp_send, handle_error,
         proactor_tcp_iocp_run, run_check, GetQueuedCompletionStatus, other_socket,
         handle_data_event, pending, callback_return, send_ends, recv_ends, peer_send,
         peer_close, histVars
    <3>2. /\ delivered' = [delivered EXCEPT ![cur] = delivered[cur] \o Positions(cur)]
          /\ taken' = [taken EXCEPT ![cur] = taken[cur] + Available(cur)]
      BY <2>4, <3>1 DEF received
    <3>3. cur = c
      BY <2>2, <2>4, <3>2
    <3>4. delivered'[c] = delivered[c] \o Positions(c) /\ taken'[c] = taken[c] + Available(c)
      BY <2>2, <3>2, <3>3
    <3>5. Positions(c) = [i \in 1..Available(c) |-> taken[c] + i]
      BY DEF Positions, bytes_received
    <3>6. Available(c) \in Nat /\ taken[c] \in Nat /\ delivered[c] \in Seq(Nat)
      BY <2>2, AvailableBounds
    <3> QED
      BY <3>4, <3>5, <3>6, PositionsFollow
  <2> QED
    BY <2>3, <2>4
<1> QED
  BY BaseInvariant, <1>0, <1>1, <1>2, PTL DEF Spec

-------------------------------------------------------------------------------
(* The event loop's contract. *)

(* run of the Windows back end keeps the safety part of EventLoop: it returns  *)
(* only after stop, and ends otherwise only with the process.                  *)
THEOREM RunReturnsOnlyAfterStop == Spec => ReturnsOnlyAfterStop
<1>1. Init => EL!Init
  BY DEF Init, EL!Init, RunStates
<1>2. [Next]_vars => [EL!Next]_(EL!vars)
  <2> SUFFICES ASSUME [Next]_vars PROVE EL!Next \/ UNCHANGED EL!vars
    OBVIOUS
  <2>a. ASSUME pc \in RunStates, pc' \in RunStates, UNCHANGED stop PROVE UNCHANGED EL!vars
    BY <2>a DEF EL!vars, RunStates
  <2>b. ASSUME UNCHANGED <<pc, stop>> PROVE UNCHANGED EL!vars
    BY <2>b DEF EL!vars
  <2>c. ASSUME pc \in {"down", "up"}, pc' \in {"down", "up"}, UNCHANGED stop
        PROVE  UNCHANGED EL!vars
    BY <2>c DEF EL!vars, RunStates
  <2>e. ASSUME NEW why, handle_error(why) PROVE EL!Next
    BY <2>e DEF handle_error, EL!Next, EL!End, RunStates
  <2>1. CASE Setup
    <3>1. CASE \E why \in {"init", "start_server", "connect"} : handle_error(why)
      BY <3>1, <2>e
    <3>2. CASE ~ \E why \in {"init", "start_server", "connect"} : handle_error(why)
      <4>1. \/ UNCHANGED <<pc, stop>>
            \/ pc \in {"down", "up"} /\ pc' \in {"down", "up"} /\ UNCHANGED stop
        BY <2>1, <3>2 DEF Setup, proactor_tcp_iocp_init, proactor_tcp_iocp_cleanup,
           proactor_tcp_iocp_start_server, proactor_tcp_iocp_connect, set_receive_callback, loopVars
      <4> QED
        BY <4>1, <2>b, <2>c
    <3> QED
      BY <3>1, <3>2
  <2>2. CASE Calls
    <3>1. CASE handle_error("WSASend")
      BY <3>1, <2>e
    <3>2. CASE ~handle_error("WSASend")
      <4>1. UNCHANGED pc /\ (stop' = TRUE \/ UNCHANGED stop)
        BY <2>2, <3>2 DEF Calls, proactor_tcp_iocp_stop, proactor_tcp_iocp_send, loopVars
      <4> QED
        BY <4>1, <2>b DEF EL!Next, EL!Stop
    <3> QED
      BY <3>1, <3>2
  <2>3. CASE proactor_tcp_iocp_run
    BY <2>3 DEF proactor_tcp_iocp_run, EL!Next, EL!Run, RunStates
  <2>4. CASE run_check
    <3>1. CASE stop
      BY <2>4, <3>1 DEF run_check, GoOn, EL!Next, EL!Return, RunStates
    <3>2. CASE ~stop
      BY <2>4, <3>2, <2>a DEF run_check, GoOn, RunStates
    <3> QED
      BY <3>1, <3>2
  <2>5. CASE GetQueuedCompletionStatus
    BY <2>5, <2>a, <2>e DEF GetQueuedCompletionStatus, RunStates
  <2>6. CASE other_socket \/ callback_return
    BY <2>6, <2>a DEF other_socket, callback_return, RunStates
  <2>7. CASE handle_data_event
    BY <2>7, <2>a, <2>e DEF handle_data_event, received, pending, RunStates
  <2>8. CASE Kernel \/ Peers \/ UNCHANGED vars
    BY <2>8, <2>b DEF Kernel, Peers, send_ends, recv_ends, peer_send, peer_close, vars, loopVars
  <2> QED
    BY <2>1, <2>2, <2>3, <2>4, <2>5, <2>6, <2>7, <2>8 DEF Next, LoopStep
<1> QED
  BY <1>1, <1>2, PTL DEF Spec, ReturnsOnlyAfterStop, EL!Safety

===============================================================================
