------------------------ MODULE SessionRegistryProofs ------------------------
(* The registry of sessions, for any number of connections, any profiles,    *)
(* intervals and delays.  Under every interleaving of the threads: nothing   *)
(* takes up the will of a client that sent DISCONNECT with reason 0, and a   *)
(* session that nobody resumed is not removed early.  With one worker        *)
(* thread: no such will is published at all, and the registry, the sessions  *)
(* and the wills stay together.                                              *)
(*                                                                           *)
(* The invariants come in layers, each proved with those before it: IInv     *)
(* (wills), Sound (types and places), RemovalsJustified; then, with one      *)
(* worker thread, OneAtATime and InOrder, SentOnce, EndsAlone, Registered,   *)
(* PresentIsRight; then, without take-over, Alone, NoneActive, WillKept.     *)
(*                                                                           *)
(* The second part is the main thread, which starts, configures and stops    *)
(* the threads that the first part is about, for any number of them and any  *)
(* configurations: MainThreadStaysInOrder from MainIInv, NamesOfBridgesLast    *)
(* from NamesIInv.  The two share no variable (MCMainRegistry checks them     *)
(* beside each other).                                                       *)
EXTENDS SessionRegistry, MainLoop, FiniteSetTheorems, SequenceTheorems, WellFoundedInduction,
        TLAPS

Begun == {"unused", "connecting", "registered"}
Ended == {"willdone", "gone"}
Stages == {"unused", "connecting", "registered", "assigned", "live", "leaving", "closed",
           "willdone", "gone"}

\* The types that the argument needs.  Which session a connection has does not
\* matter, only that it has one.
WillTypes ==
    /\ stage \in [Conns -> Stages]
    /\ connSession = [k \in Conns |-> connSession[k]]
    /\ willPublish \in [Conns -> 0..MaxConns]
    /\ clientWill \in [Conns -> BOOLEAN]
    /\ left \in [Conns -> BOOLEAN]
    /\ willsSent \in [Conns -> Nat]
    /\ removedWill \in [Conns -> 0..MaxConns]
    /\ \A p \in pendingWillMessages : p.will \in Conns

\* The will in a session is the will of a client that was assigned to it and
\* did not leave.
SessionWills ==
    \A s, k \in Conns :
        willPublish[s] = k => connSession[k] = s /\ stage[k] \notin Begun /\ ~left[k]

\* A queued will is the will of a client that is gone and did not leave.
QueuedWills == \A p \in pendingWillMessages : stage[p.will] \in Ended /\ ~left[p.will]

\* So is the will that the timer is about to send.
DueWill ==
    due # NothingDue => due.will \in Conns /\ stage[due.will] \in Ended /\ ~left[due.will]

\* A client that left has no will.
LeftWithoutWill ==
    \A k \in Conns :
        left[k] => ~clientWill[k] /\ stage[k] \in {"leaving", "closed"} \cup Ended

IInv == WillTypes /\ SessionWills /\ QueuedWills /\ DueWill /\ LeftWithoutWill

\* What a step may not do to the wills.
LeftStayUnsent ==
    \A k \in Conns : left[k] =>
        /\ willsSent'[k] > willsSent[k] => HeldByRemoval(k)
        /\ HeldByRemoval(k)' => HeldByRemoval(k)

LEMMA InitIInv == Init => IInv
<1> SUFFICES ASSUME Init PROVE IInv
    OBVIOUS
<1>1. 0 \in 0..MaxConns
    BY RegistryBounds
<1>2. WillTypes
    BY <1>1 DEF Init, WillTypes, Stages, NothingDue
<1> QED
    BY <1>2, RegistryBounds DEF Init, IInv, SessionWills, QueuedWills, DueWill, LeftWithoutWill,
       NothingDue, Conns

\* No connection moves back.
StagesGoOn ==
    /\ stage' \in [Conns -> Stages]
    /\ \A k \in Conns :
          /\ stage[k] \notin Begun => stage'[k] \notin Begun
          /\ stage[k] \in Ended => stage'[k] \in Ended
          /\ left[k] => stage'[k] \in {"leaving", "closed"} \cup Ended

\* What is added to the queue is the will of a client that is gone and did
\* not leave.
QueueGrowsRight ==
    \A p \in pendingWillMessages' :
        \/ p \in pendingWillMessages
        \/ p.will \in Conns /\ stage'[p.will] \in Ended /\ ~left[p.will]

\* A removal reads the will of its own session, or has sent it.
ReadsRight ==
    /\ removedWill' \in [Conns -> 0..MaxConns]
    /\ \A s \in Conns : removedWill'[s] \in {removedWill[s], willPublish[s], 0}

LEMMA UnreadIsRight == IInv /\ UNCHANGED removedWill => ReadsRight
  BY DEF IInv, WillTypes, ReadsRight

\* What a removal reads is never the will of a client that left.
LEMMA NoneReadAfterLeaving ==
    ASSUME IInv, ReadsRight, \A k \in Conns : left[k] /\ willsSent'[k] > willsSent[k]
                                                   => HeldByRemoval(k)
    PROVE  LeftStayUnsent
<1> SUFFICES ASSUME NEW k \in Conns, left[k], NEW s \in Conns, removedWill'[s] = k
             PROVE  HeldByRemoval(k)
    BY DEF LeftStayUnsent, HeldByRemoval
<1>1. k # 0
    BY DEF Conns
<1>2. willPublish[s] # k
    BY DEF IInv, SessionWills
<1> QED
    BY <1>1, <1>2 DEF ReadsRight, HeldByRemoval

LEMMA NoneSent ==
    ASSUME IInv, ReadsRight, UNCHANGED willsSent
    PROVE  LeftStayUnsent
<1>1. \A k \in Conns : ~(willsSent'[k] > willsSent[k])
    BY DEF IInv, WillTypes
<1> QED
    BY <1>1, NoneReadAfterLeaving

\* A step that leaves the wills alone and moves no connection back.
LEMMA WillsAlone ==
    ASSUME IInv, UNCHANGED <<willPublish, left, willsSent, connSession>>,
           StagesGoOn, QueueGrowsRight, ReadsRight, clientWill' \in [Conns -> BOOLEAN],
           \A k \in Conns : left[k] => ~clientWill'[k],
           due' = due \/ due' = NothingDue \/ \E p \in pendingWillMessages :
                                                 due' = [will |-> p.will, session |-> p.session]
    PROVE  IInv' /\ LeftStayUnsent
<1>1. WillTypes'
    BY DEF IInv, WillTypes, StagesGoOn, QueueGrowsRight, ReadsRight
<1>2. SessionWills'
    BY DEF IInv, SessionWills, StagesGoOn
<1>3. QueuedWills'
    BY DEF IInv, WillTypes, QueuedWills, StagesGoOn, QueueGrowsRight
<1>4. DueWill'
    BY DEF IInv, WillTypes, QueuedWills, DueWill, StagesGoOn
<1>5. LeftWithoutWill'
    BY DEF IInv, LeftWithoutWill, StagesGoOn
<1> QED
    BY <1>1, <1>2, <1>3, <1>4, <1>5, NoneSent DEF IInv

\* A step that publishes the will of a client that did not leave, or that a
\* removal has read.
LEMMA WillSent ==
    ASSUME IInv, NEW w \in Conns, ~left[w] \/ HeldByRemoval(w), NEW s, SendWill(w, s),
           StagesGoOn, ReadsRight, UNCHANGED <<left, connSession, clientWill, pendingWillMessages>>,
           due' = due \/ due' = NothingDue
    PROVE  IInv' /\ LeftStayUnsent
<1>1. willPublish' \in [Conns -> 0..MaxConns]
  <2>1. 0 \in 0..MaxConns
      BY RegistryBounds
  <2> QED
      BY <2>1 DEF IInv, WillTypes, SendWill
<1>2. willsSent' \in [Conns -> Nat]
  <2>1. willsSent[w] + 1 \in Nat
      BY DEF IInv, WillTypes
  <2> QED
      BY <2>1 DEF IInv, WillTypes, SendWill
<1>3. WillTypes'
    BY <1>1, <1>2 DEF IInv, WillTypes, StagesGoOn, ReadsRight
<1>4. \A x, k \in Conns : willPublish'[x] = k => willPublish[x] = k
    BY DEF IInv, WillTypes, SendWill, Conns
<1>5. SessionWills'
    BY <1>4 DEF IInv, SessionWills, StagesGoOn
<1>6. QueuedWills' /\ LeftWithoutWill'
    BY DEF IInv, WillTypes, QueuedWills, LeftWithoutWill, StagesGoOn
<1>7. DueWill'
    BY DEF IInv, DueWill, StagesGoOn
<1>8. LeftStayUnsent
  <2>1. \A k \in Conns : willsSent'[k] > willsSent[k] => k = w
      BY DEF SendWill, IInv, WillTypes
  <2> QED
      BY <2>1, NoneReadAfterLeaving
<1> QED
    BY <1>3, <1>5, <1>6, <1>7, <1>8 DEF IInv

-----------------------------------------------------------------------------
(* The actions                                                               *)

LEMMA HandleConnectKeeps ==
    ASSUME IInv, NEW k \in Conns, HandleConnect(k)
    PROVE  IInv' /\ LeftStayUnsent
<1>1. /\ UNCHANGED <<willPublish, left, willsSent, connSession, pendingWillMessages, due,
                     removedWill>>
      /\ stage' = [stage EXCEPT ![k] = "connecting"] /\ stage[k] = "unused"
      /\ \E p \in Profiles : clientWill' = [clientWill EXCEPT ![k] = p.will # NoWill]
    BY DEF HandleConnect, store, session, tasks, history
<1>2. clientWill' \in [Conns -> BOOLEAN] /\ stage' \in [Conns -> Stages]
    BY <1>1 DEF IInv, WillTypes, Stages
<1>3. ~left[k] /\ \A j \in Conns : j # k => clientWill'[j] = clientWill[j] /\ stage'[j] = stage[j]
    BY <1>1 DEF IInv, WillTypes, LeftWithoutWill, Ended
<1>4. StagesGoOn
    BY <1>1, <1>2, <1>3 DEF StagesGoOn, IInv, LeftWithoutWill, Begun, Ended
<1>5. QueueGrowsRight /\ \A j \in Conns : left[j] => ~clientWill'[j]
    BY <1>1, <1>3 DEF QueueGrowsRight, IInv, LeftWithoutWill
<1> QED
    BY <1>1, <1>2, <1>4, <1>5, UnreadIsRight, WillsAlone

LEMMA RegisterKeeps ==
    ASSUME IInv, NEW k \in Conns, RegisterClientAndKickExistingOne(k)
    PROVE  IInv' /\ LeftStayUnsent
<1>1. /\ UNCHANGED <<willPublish, left, willsSent, clientWill, pendingWillMessages, due,
                     removedWill>>
      /\ stage' = [stage EXCEPT ![k] = "registered"] /\ stage[k] = "connecting"
      /\ connSession' = [connSession EXCEPT ![k] = connSession'[k]]
    BY DEF RegisterClientAndKickExistingOne, session, tasks, IInv, WillTypes
<1>2. ~left[k]
    BY <1>1 DEF IInv, LeftWithoutWill, Ended
<1>3. \A j \in Conns : j # k => connSession'[j] = connSession[j] /\ stage'[j] = stage[j]
    BY <1>1 DEF IInv, WillTypes
<1>4. WillTypes'
  <2>1. stage' \in [Conns -> Stages]
      BY <1>1 DEF IInv, WillTypes, Stages
  <2>2. connSession' = [j \in Conns |-> connSession'[j]]
      BY <1>1 DEF IInv, WillTypes
  <2> QED
      BY <2>1, <2>2, <1>1 DEF IInv, WillTypes
<1>5. \A s \in Conns : willPublish[s] # k
    BY <1>1 DEF IInv, SessionWills, Begun
<1>6. SessionWills'
    BY <1>1, <1>3, <1>5 DEF IInv, SessionWills
<1>7. QueuedWills' /\ DueWill' /\ LeftWithoutWill'
    BY <1>1, <1>2, <1>3 DEF IInv, WillTypes, QueuedWills, DueWill, LeftWithoutWill, Ended, Conns
<1> QED
    BY <1>1, <1>4, <1>6, <1>7, UnreadIsRight, NoneSent DEF IInv

LEMMA AssignKeeps ==
    ASSUME IInv, NEW k \in Conns, AssignActiveConnection(k)
    PROVE  IInv' /\ LeftStayUnsent
<1>1. /\ UNCHANGED <<connSession, left, willsSent, clientWill, pendingWillMessages, due,
                     removedWill>>
      /\ stage' = [stage EXCEPT ![k] = "assigned"] /\ stage[k] = "registered"
      /\ willPublish' = [willPublish EXCEPT ![connSession[k]] = IF clientWill[k] THEN k ELSE 0]
    BY DEF AssignActiveConnection, store, tasks, history
<1>2. ~left[k]
    BY <1>1 DEF IInv, LeftWithoutWill, Ended
<1>3. \A j \in Conns : j # k => stage'[j] = stage[j]
    BY <1>1 DEF IInv, WillTypes
<1>4. stage' \in [Conns -> Stages] /\ stage'[k] = "assigned"
    BY <1>1 DEF IInv, WillTypes, Stages
<1>5. willPublish' \in [Conns -> 0..MaxConns]
  <2>1. 0 \in 0..MaxConns /\ k \in 0..MaxConns
      BY RegistryBounds DEF Conns
  <2> QED
      BY <2>1, <1>1 DEF IInv, WillTypes
<1>6. \A s, j \in Conns : willPublish'[s] = j => willPublish[s] = j \/ (j = k /\ s = connSession[k])
    BY <1>1 DEF IInv, WillTypes, Conns
<1>7. WillTypes'
    BY <1>1, <1>4, <1>5 DEF IInv, WillTypes
<1>8. SessionWills'
    BY <1>1, <1>2, <1>3, <1>4, <1>6 DEF IInv, SessionWills, Begun
<1>9. QueuedWills' /\ DueWill' /\ LeftWithoutWill'
    BY <1>1, <1>2, <1>3 DEF IInv, WillTypes, QueuedWills, DueWill, LeftWithoutWill, Ended, Conns
<1> QED
    BY <1>1, <1>7, <1>8, <1>9, UnreadIsRight, NoneSent DEF IInv

LEMMA SetPropertiesKeeps ==
    ASSUME IInv, NEW k \in Conns, SetSessionProperties(k)
    PROVE  IInv' /\ LeftStayUnsent
<1>1. /\ UNCHANGED <<willPublish, connSession, left, willsSent, clientWill,
                     pendingWillMessages, due,
                     removedWill>>
      /\ stage' = [stage EXCEPT ![k] = "live"] /\ stage[k] = "assigned"
    BY DEF SetSessionProperties, store, tasks, history
<1>2. stage' \in [Conns -> Stages] /\ stage'[k] = "live"
    BY <1>1 DEF IInv, WillTypes, Stages
<1>3. ~left[k] /\ \A j \in Conns : j # k => stage'[j] = stage[j]
    BY <1>1 DEF IInv, WillTypes, LeftWithoutWill, Ended
<1>4. StagesGoOn
    BY <1>1, <1>2, <1>3 DEF StagesGoOn, IInv, LeftWithoutWill, Begun, Ended
<1>5. QueueGrowsRight /\ clientWill' \in [Conns -> BOOLEAN]
        /\ \A j \in Conns : left[j] => ~clientWill'[j]
    BY <1>1 DEF QueueGrowsRight, IInv, WillTypes, LeftWithoutWill
<1> QED
    BY <1>1, <1>4, <1>5, UnreadIsRight, WillsAlone

(* DISCONNECT: the one session that could hold the will of the client is its *)
(* own, and that is cleared.                                                 *)
LEMMA HandleDisconnectKeeps ==
    ASSUME IInv, NEW k \in Conns, HandleDisconnect(k)
    PROVE  IInv' /\ LeftStayUnsent
<1>1. /\ UNCHANGED <<connSession, willsSent, pendingWillMessages, due,
                     removedWill>>
      /\ stage' = [stage EXCEPT ![k] = "leaving"] /\ stage[k] = "live"
      /\ left' = [left EXCEPT ![k] = TRUE]
      /\ clientWill' = [clientWill EXCEPT ![k] = FALSE]
      /\ willPublish' = [willPublish EXCEPT ![connSession[k]] = 0]
    BY DEF HandleDisconnect, store, tasks
<1>2. \A j \in Conns : j # k => stage'[j] = stage[j] /\ left'[j] = left[j]
                                  /\ clientWill'[j] = clientWill[j]
    BY <1>1 DEF IInv, WillTypes
<1>3. stage' \in [Conns -> Stages] /\ stage'[k] = "leaving"
    BY <1>1 DEF IInv, WillTypes, Stages
<1>4. ~clientWill'[k]
    BY <1>1 DEF IInv, WillTypes
<1>5. willPublish' \in [Conns -> 0..MaxConns]
  <2>1. 0 \in 0..MaxConns
      BY RegistryBounds
  <2> QED
      BY <2>1, <1>1 DEF IInv, WillTypes
<1>6. \A s, j \in Conns : willPublish'[s] = j => willPublish[s] = j /\ j # k
  <2> SUFFICES ASSUME NEW s \in Conns, NEW j \in Conns, willPublish'[s] = j
               PROVE  willPublish[s] = j /\ j # k
      OBVIOUS
  <2>1. s # connSession[k]
      BY <1>1 DEF IInv, WillTypes, Conns
  <2>2. willPublish[s] = j
      BY <2>1, <1>1 DEF IInv, WillTypes
  <2> QED
      BY <2>1, <2>2 DEF IInv, SessionWills
<1>7. WillTypes'
  <2>1. left' \in [Conns -> BOOLEAN] /\ clientWill' \in [Conns -> BOOLEAN]
      BY <1>1 DEF IInv, WillTypes
  <2> QED
      BY <2>1, <1>1, <1>3, <1>5 DEF IInv, WillTypes
<1>8. SessionWills'
    BY <1>1, <1>2, <1>6 DEF IInv, SessionWills
<1>9. QueuedWills' /\ DueWill'
    BY <1>1, <1>2 DEF IInv, WillTypes, QueuedWills, DueWill, Ended, Conns
<1>10. LeftWithoutWill'
    BY <1>2, <1>3, <1>4 DEF IInv, LeftWithoutWill
<1> QED
    BY <1>1, <1>7, <1>8, <1>9, <1>10, UnreadIsRight, NoneSent DEF IInv

LEMMA CloseKeeps ==
    ASSUME IInv, NEW k \in Conns, Close(k)
    PROVE  IInv' /\ LeftStayUnsent
<1>1. /\ UNCHANGED <<willPublish, connSession, left, willsSent, clientWill,
                     pendingWillMessages, due,
                     removedWill>>
      /\ stage' = [stage EXCEPT ![k] = "closed"] /\ stage[k] \in {"live", "leaving"}
    BY DEF Close, store, session, tasks
<1>2. stage' \in [Conns -> Stages] /\ stage'[k] = "closed"
    BY <1>1 DEF IInv, WillTypes, Stages
<1>3. \A j \in Conns : j # k => stage'[j] = stage[j]
    BY <1>1 DEF IInv, WillTypes
<1>4. StagesGoOn
    BY <1>1, <1>2, <1>3 DEF StagesGoOn, IInv, LeftWithoutWill, Begun, Ended
<1>5. QueueGrowsRight /\ clientWill' \in [Conns -> BOOLEAN]
        /\ \A j \in Conns : left[j] => ~clientWill'[j]
    BY <1>1 DEF QueueGrowsRight, IInv, WillTypes, LeftWithoutWill
<1> QED
    BY <1>1, <1>4, <1>5, UnreadIsRight, WillsAlone

LEMMA DisconnectWillKeeps ==
    ASSUME IInv, NEW k \in Conns, DisconnectWill(k)
    PROVE  IInv' /\ LeftStayUnsent
<1>1. /\ UNCHANGED <<connSession, left, clientWill, due, removedWill>>
      /\ stage' = [stage EXCEPT ![k] = "willdone"] /\ stage[k] = "closed"
    BY DEF DisconnectWill, tasks
<1>2. stage' \in [Conns -> Stages] /\ stage'[k] = "willdone"
    BY <1>1 DEF IInv, WillTypes, Stages
<1>3. \A j \in Conns : j # k => stage'[j] = stage[j]
    BY <1>1 DEF IInv, WillTypes
<1>4. StagesGoOn
    BY <1>1, <1>2, <1>3 DEF StagesGoOn, IInv, LeftWithoutWill, Begun, Ended
<1>5. clientWill' \in [Conns -> BOOLEAN] /\ \A j \in Conns : left[j] => ~clientWill'[j]
    BY <1>1 DEF IInv, WillTypes, LeftWithoutWill
<1>6. CASE UNCHANGED <<pendingWillMessages, willPublish, willsSent>>
  <2>1. QueueGrowsRight
      BY <1>6 DEF QueueGrowsRight
  <2> QED
      BY <2>1, <1>1, <1>4, <1>5, <1>6, UnreadIsRight, WillsAlone
<1>7. CASE /\ clientWill[k] /\ UNCHANGED <<willPublish, willsSent>>
           /\ pendingWillMessages' = pendingWillMessages \cup
                 {[at |-> now + profile[k].will, will |-> k, session |-> connSession[k]]}
  <2>1. ~left[k]
      BY <1>7 DEF IInv, LeftWithoutWill
  <2>2. QueueGrowsRight
      BY <2>1, <1>2, <1>7 DEF QueueGrowsRight, Ended
  <2> QED
      BY <2>2, <1>1, <1>4, <1>5, <1>7, UnreadIsRight, WillsAlone
<1>8. CASE clientWill[k] /\ SendWill(k, connSession[k]) /\ UNCHANGED pendingWillMessages
  <2>1. ~left[k]
      BY <1>8 DEF IInv, LeftWithoutWill
  <2> QED
      BY <2>1, <1>1, <1>4, <1>8, UnreadIsRight, WillSent
<1> QED
    BY <1>6, <1>7, <1>8 DEF DisconnectWill

LEMMA DisconnectSessionKeeps ==
    ASSUME IInv, NEW k \in Conns, DisconnectSession(k)
    PROVE  IInv' /\ LeftStayUnsent
<1>1. /\ UNCHANGED <<willPublish, connSession, left, willsSent, pendingWillMessages, due,
                     removedWill>>
      /\ stage' = [stage EXCEPT ![k] = "gone"] /\ stage[k] = "willdone"
      /\ clientWill' = [clientWill EXCEPT ![k] = FALSE]
    BY DEF DisconnectSession, history
<1>2. stage' \in [Conns -> Stages] /\ stage'[k] = "gone"
    BY <1>1 DEF IInv, WillTypes, Stages
<1>3. clientWill' \in [Conns -> BOOLEAN] /\ \A j \in Conns : clientWill'[j] => clientWill[j]
    BY <1>1 DEF IInv, WillTypes
<1>4. \A j \in Conns : j # k => stage'[j] = stage[j]
    BY <1>1 DEF IInv, WillTypes
<1>5. StagesGoOn
    BY <1>1, <1>2, <1>4 DEF StagesGoOn, IInv, LeftWithoutWill, Begun, Ended
<1>6. QueueGrowsRight /\ \A j \in Conns : left[j] => ~clientWill'[j]
    BY <1>1, <1>3 DEF QueueGrowsRight, IInv, LeftWithoutWill
<1> QED
    BY <1>1, <1>3, <1>5, <1>6, UnreadIsRight, WillsAlone

LEMMA ReadWillOfRemovedKeeps ==
    ASSUME IInv, NEW s \in Conns, ReadWillOfRemoved(s)
    PROVE  IInv' /\ LeftStayUnsent
<1>1. /\ UNCHANGED <<stage, connSession, clientWill, willPublish, left, willsSent,
                     pendingWillMessages, due>>
      /\ removedWill' = [removedWill EXCEPT ![s] = willPublish[s]]
    BY DEF ReadWillOfRemoved, store, session, clients, history
<1>2. StagesGoOn /\ QueueGrowsRight /\ clientWill' \in [Conns -> BOOLEAN]
        /\ \A j \in Conns : left[j] => ~clientWill'[j]
    BY <1>1 DEF StagesGoOn, QueueGrowsRight, IInv, WillTypes, LeftWithoutWill
<1>3. ReadsRight
    BY <1>1 DEF ReadsRight, IInv, WillTypes
<1> QED
    BY <1>1, <1>2, <1>3, WillsAlone

LEMMA SendWillOfRemovedKeeps ==
    ASSUME IInv, NEW s \in Conns, SendWillOfRemoved(s)
    PROVE  IInv' /\ LeftStayUnsent
<1>1. /\ UNCHANGED <<stage, connSession, clientWill, left, pendingWillMessages, due>>
      /\ SendWill(removedWill[s], s) /\ removedWill[s] # 0
      /\ removedWill' = [removedWill EXCEPT ![s] = 0]
    BY DEF SendWillOfRemoved, store, clients
<1>2. StagesGoOn
    BY <1>1 DEF StagesGoOn, IInv, WillTypes, LeftWithoutWill
<1>3. ReadsRight
  <2>1. 0 \in 0..MaxConns
      BY RegistryBounds
  <2> QED
      BY <2>1, <1>1 DEF ReadsRight, IInv, WillTypes
<1>4. removedWill[s] \in Conns /\ HeldByRemoval(removedWill[s])
    BY <1>1, RegistryBounds DEF IInv, WillTypes, Conns, HeldByRemoval
<1> QED
    BY <1>1, <1>2, <1>3, <1>4, WillSent

LEMMA PickDueWillKeeps ==
    ASSUME IInv, PickDueWill
    PROVE  IInv' /\ LeftStayUnsent
<1>1. UNCHANGED <<stage, connSession, clientWill, willPublish, left, willsSent, removedWill>>
    BY DEF PickDueWill, session, clients, history
<1>2. PICK p \in pendingWillMessages :
          /\ pendingWillMessages' = pendingWillMessages \ {p}
          /\ due' = IF WillStillWanted(p) THEN [will |-> p.will, session |-> p.session]
                    ELSE NothingDue
    BY DEF PickDueWill
<1>3. StagesGoOn /\ QueueGrowsRight /\ clientWill' \in [Conns -> BOOLEAN]
        /\ \A j \in Conns : left[j] => ~clientWill'[j]
    BY <1>1, <1>2 DEF StagesGoOn, QueueGrowsRight, IInv, WillTypes, LeftWithoutWill
<1> QED
    BY <1>1, <1>2, <1>3, UnreadIsRight, WillsAlone

(* sendQueuedWillMessages sends a will that it picked before: its client was *)
(* gone then, so it cannot have left since.                                  *)
LEMMA SendDueWillKeeps ==
    ASSUME IInv, SendDueWill
    PROVE  IInv' /\ LeftStayUnsent
<1>1. /\ UNCHANGED <<stage, connSession, clientWill, left, pendingWillMessages, removedWill>>
      /\ due # NothingDue /\ due' = NothingDue /\ SendWill(due.will, due.session)
    BY DEF SendDueWill, store, clients
<1>2. due.will \in Conns /\ ~left[due.will]
    BY <1>1 DEF IInv, DueWill
<1>3. StagesGoOn
    BY <1>1 DEF StagesGoOn, IInv, WillTypes, LeftWithoutWill
<1> QED
    BY <1>1, <1>2, <1>3, UnreadIsRight, WillSent

-----------------------------------------------------------------------------
(* The steps that have nothing to do with wills.                             *)

Unconcerned == UNCHANGED <<stage, connSession, clientWill, willPublish, left, willsSent,
                           pendingWillMessages, due, removedWill>>

LEMMA UnconcernedKeeps ==
    ASSUME IInv, Unconcerned
    PROVE  IInv' /\ LeftStayUnsent
<1>1. StagesGoOn /\ QueueGrowsRight /\ clientWill' \in [Conns -> BOOLEAN]
        /\ \A j \in Conns : left[j] => ~clientWill'[j]
    BY DEF Unconcerned, StagesGoOn, QueueGrowsRight, IInv, WillTypes, LeftWithoutWill
<1> QED
    BY <1>1, UnreadIsRight, WillsAlone DEF Unconcerned

LEMMA StepKeeps ==
    ASSUME IInv, [Next]_vars
    PROVE  IInv' /\ LeftStayUnsent
<1>1. CASE \E k \in Conns : HandleConnect(k) \/ ConnectStep(k) \/ HandleDisconnect(k)
                              \/ Close(k) \/ DisconnectStep(k)
    BY <1>1, HandleConnectKeeps, RegisterKeeps, AssignKeeps, SetPropertiesKeeps,
       HandleDisconnectKeeps, CloseKeeps, DisconnectWillKeeps, DisconnectSessionKeeps
       DEF ConnectStep, DisconnectStep
<1>2. CASE \E s \in Conns : FinishRemoval(s)
    BY <1>2, ReadWillOfRemovedKeeps, SendWillOfRemovedKeeps DEF FinishRemoval
<1>3. CASE WillTimer
    BY <1>3, PickDueWillKeeps, SendDueWillKeeps DEF WillTimer
<1>4. CASE RemovalTimer
  <2>1. Unconcerned
      BY <1>4 DEF RemovalTimer, CollectExpired, RemoveExpired, Unconcerned, session, clients,
         history
  <2> QED
      BY <2>1, UnconcernedKeeps
<1>5. CASE Tick
  <2>1. Unconcerned
      BY <1>5 DEF Tick, Unconcerned, store, session, clients, tasks, history
  <2> QED
      BY <2>1, UnconcernedKeeps
<1>6. CASE Finished \/ UNCHANGED vars
  <2>1. Unconcerned
      BY <1>6 DEF Finished, Unconcerned, vars, store, session, clients, tasks, history
  <2> QED
      BY <2>1, UnconcernedKeeps
<1> QED
    BY <1>1, <1>2, <1>3, <1>4, <1>5, <1>6 DEF Next

(* What leads to a will (its client, a session, the queue of delayed wills,  *)
(* the task that sends one) belongs to a client that did not leave (IInv),   *)
(* but for a removal that has read the will: its client may leave after      *)
(* that (subscriptionstore.cpp:1263).                                        *)
THEOREM WillsBelongToUnfinished == Spec => []IInv
<1>1. IInv /\ [Next]_vars => IInv'
    BY StepKeeps
<1> QED
    BY <1>1, InitIInv, PTL DEF Spec

(* NoWillAfterDisconnect, for any number of threads: handleDisconnect calls  *)
(* clearWill (client.cpp:1217), which reaches every place that the will      *)
(* could still be read from.  Only a removeSession that had read it already  *)
(* sends it (subscriptionstore.cpp:1263, 1266); a later one finds nothing.   *)
THEOREM NoWillAfterLeaving == Spec => NoWillAfterDisconnect
<1>1. IInv /\ [Next]_vars => [LeftStayUnsent]_vars
    BY StepKeeps
<1>2. Spec => [][LeftStayUnsent]_vars
    BY <1>1, WillsBelongToUnfinished, PTL DEF Spec
<1> QED
    BY <1>2 DEF NoWillAfterDisconnect, LeftStayUnsent

-----------------------------------------------------------------------------
(* Types, and where sessions are                                             *)

HasSession(k) == stage[k] \notin {"unused", "connecting"}

\* A session is of the connection that made it, and of those that took it up.
Placed ==
    /\ \A k \in Conns : HasSession(k) =>
          connSession[k] \in Conns /\ connSession[connSession[k]] = connSession[k]
    /\ \A k \in Conns : ~HasSession(k) => connSession[k] = 0
    /\ sessionsById # 0 => connSession[sessionsById] = sessionsById
    /\ \A s \in Conns : client[s] # 0 =>
          connSession[client[s]] = s /\ stage[client[s]] \notin Begun

\* Connections begin in the order of their numbers.
BegunInOrder == \A j, k \in Conns : j < k /\ stage[k] # "unused" => stage[j] # "unused"

\* A will is of the session of its client, which was assigned to it last.
WillsPlaced ==
    /\ \A p \in pendingWillMessages : p.session = connSession[p.will]
    /\ \A s, k \in Conns : willPublish[s] = k => client[s] = k
    /\ \A k \in Conns : stage[k] = "gone" => ~clientWill[k]

\* What is not over may still be queued, and comes due before the last second.
Pressing(k) == stage[k] \notin {"unused", "live", "gone"} \/ (stage[k] = "live" /\ kicked[k])
TimeLeft == \A k \in Conns : Pressing(k) => InTime

Sound == TypeOK /\ Placed /\ BegunInOrder /\ WillsPlaced /\ TimeLeft

LEMMA InitSound == Init => Sound
<1> SUFFICES ASSUME Init PROVE Sound
    OBVIOUS
<1>1. 0 \in 0..MaxConns /\ 0 \in 0..MaxTime /\ -1 \in -1..MaxTime /\ MaxInterval \in Interval
    BY RegistryBounds DEF Interval
<1>2. StoreType /\ SessionType
    BY <1>1 DEF Init, StoreType, SessionType
<1>3. ClientsType /\ TasksType /\ HistoryType
    BY <1>1 DEF Init, ClientsType, TasksType, HistoryType, NothingDue
<1>4. TypeOK
    BY <1>1, <1>2, <1>3 DEF TypeOK, Init
<1>5. Placed
    BY DEF Init, Placed, HasSession
<1>6. BegunInOrder /\ WillsPlaced /\ TimeLeft
    BY DEF Init, BegunInOrder, WillsPlaced, TimeLeft, Pressing, Conns
<1> QED
    BY <1>4, <1>5, <1>6 DEF Sound

LEMMA HandleConnectSound ==
    ASSUME IInv, Sound, NEW k \in Conns, HandleConnect(k)
    PROVE  Sound'
<1>1. /\ UNCHANGED <<now, store, session, connSession, tasks, history>>
      /\ stage[k] = "unused" /\ stage' = [stage EXCEPT ![k] = "connecting"] /\ InTime
      /\ \A j \in Conns : j < k => stage[j] # "unused"
    BY DEF HandleConnect
<1>2. PICK p \in Profiles :
          /\ profile' = [profile EXCEPT ![k] = p]
          /\ clientWill' = [clientWill EXCEPT ![k] = p.will # NoWill]
          /\ present' = [present EXCEPT ![k] =
                ~p.clean /\ sessionsById # 0 /\ ~GetDestroyOnDisconnect(sessionsById)]
    BY DEF HandleConnect
<1>3. ClientsType'
  <2>1. (p.will # NoWill) \in BOOLEAN
          /\ (~p.clean /\ sessionsById # 0 /\ ~GetDestroyOnDisconnect(sessionsById)) \in BOOLEAN
      BY Zenon
  <2>2. clientWill' \in [Conns -> BOOLEAN] /\ present' \in [Conns -> BOOLEAN]
      BY <2>1, <1>2, Zenon DEF Sound, TypeOK, ClientsType
  <2>3. profile' \in [Conns -> Profiles \cup {NoProfile}]
      BY <1>2 DEF Sound, TypeOK, ClientsType
  <2>4. stage' \in [Conns -> Stages] /\ connSession' \in [Conns -> 0..MaxConns]
      BY <1>1 DEF Sound, TypeOK, ClientsType, Stages
  <2> QED
      BY <2>2, <2>3, <2>4 DEF ClientsType, Stages
<1>4. TypeOK'
    BY <1>1, <1>3 DEF Sound, TypeOK, StoreType, SessionType, TasksType, HistoryType, store, session,
       tasks, history
<1>5. \A j \in Conns : j # k => stage'[j] = stage[j]
    BY <1>1 DEF Sound, TypeOK, ClientsType
<1>6. stage'[k] = "connecting"
    BY <1>1 DEF Sound, TypeOK, ClientsType
<1>7. \A s \in Conns : client[s] \in 0..MaxConns /\ client[s] # k
    BY <1>1 DEF Sound, TypeOK, SessionType, Placed, Begun, Conns
<1>8. Placed'
    BY <1>1, <1>5, <1>6, <1>7 DEF Sound, Placed, HasSession, store, session, Begun, Conns
<1>9. BegunInOrder'
    BY <1>1, <1>5, <1>6 DEF Sound, BegunInOrder, Conns
<1>10. WillsPlaced' /\ TimeLeft'
  <2>1. \A j \in Conns : j # k => clientWill'[j] = clientWill[j]
      BY <1>2 DEF Sound, TypeOK, ClientsType
  <2> QED
      BY <2>1, <1>1, <1>5, <1>6 DEF Sound, WillsPlaced, TimeLeft, Pressing, InTime, store, session,
         history
<1> QED
    BY <1>4, <1>8, <1>9, <1>10 DEF Sound

LEMMA RegisterSound ==
    ASSUME IInv, Sound, NEW k \in Conns, RegisterClientAndKickExistingOne(k)
    PROVE  Sound'
<1> DEFINE new == IF sessionsById = 0 \/ profile[k].clean
                       \/ GetDestroyOnDisconnect(sessionsById) THEN k ELSE sessionsById
<1>1. /\ UNCHANGED <<now, pendingWillMessages, queuedSessionRemovals, session, profile, present,
                     clientWill, tasks, left, willsSent, lastUsed>>
      /\ stage[k] = "connecting" /\ stage' = [stage EXCEPT ![k] = "registered"]
      /\ sessionsById' = new /\ connSession' = [connSession EXCEPT ![k] = new]
      /\ kicked' = IF sessionsById # 0 /\ HasActiveClient(sessionsById)
                   THEN [kicked EXCEPT ![client[sessionsById]] = TRUE] ELSE kicked
    BY DEF RegisterClientAndKickExistingOne
<1>2. connSession[k] = 0 /\ sessionsById \in 0..MaxConns
    BY <1>1 DEF Sound, Placed, HasSession, TypeOK, StoreType
<1>3. new \in Conns /\ (new = k \/ (new = sessionsById /\ connSession[new] = new /\ new # k))
    BY <1>2, RegistryBounds DEF Sound, Placed, Conns
<1> HIDE DEF new
<1>4. connSession' \in [Conns -> 0..MaxConns] /\ new \in 0..MaxConns
    BY <1>1, <1>3, RegistryBounds DEF Sound, TypeOK, ClientsType, Conns
<1>5. connSession'[k] = new /\ \A j \in Conns : j # k => connSession'[j] = connSession[j]
    BY <1>1 DEF Sound, TypeOK, ClientsType
<1>6. stage' \in [Conns -> Stages] /\ stage'[k] = "registered"
         /\ \A j \in Conns : j # k => stage'[j] = stage[j]
    BY <1>1 DEF Sound, TypeOK, ClientsType, Stages
<1>7. kicked' \in [Conns -> BOOLEAN]
    BY <1>1 DEF Sound, TypeOK, HistoryType
<1>8. TypeOK'
  <2>1. StoreType' /\ ClientsType' /\ HistoryType'
      BY <1>1, <1>4, <1>6, <1>7 DEF Sound, TypeOK, StoreType, ClientsType, HistoryType, Stages
  <2> QED
      BY <2>1, <1>1 DEF Sound, TypeOK, SessionType, TasksType, session, tasks
<1>9. \A s \in Conns : client[s] \in 0..MaxConns /\ client[s] # k
    BY <1>1 DEF Sound, TypeOK, SessionType, Placed, Begun, Conns
<1>10. Placed'
  <2>1. \A j \in Conns : HasSession(j)' =>
            connSession'[j] \in Conns /\ connSession'[connSession'[j]] = connSession'[j]
      BY <1>2, <1>3, <1>5, <1>6 DEF Sound, Placed, HasSession, Conns
  <2>2. \A j \in Conns : ~HasSession(j)' => connSession'[j] = 0
      BY <1>5, <1>6 DEF Sound, Placed, HasSession
  <2>3. connSession'[sessionsById'] = sessionsById'
      BY <1>1, <1>3, <1>5
  <2>4. \A s \in Conns : client'[s] # 0 =>
            connSession'[client'[s]] = s /\ stage'[client'[s]] \notin Begun
      BY <1>1, <1>5, <1>6, <1>9 DEF Sound, Placed, session, Conns
  <2> QED
      BY <2>1, <2>2, <2>3, <2>4 DEF Placed
<1>11. BegunInOrder'
    BY <1>1, <1>6 DEF Sound, BegunInOrder
<1>12. WillsPlaced'
  <2>1. \A q \in pendingWillMessages : q.will \in Conns /\ q.will # k
      BY <1>1 DEF IInv, WillTypes, QueuedWills, Ended
  <2> QED
      BY <2>1, <1>1, <1>5, <1>6 DEF Sound, WillsPlaced, session
<1>13. TimeLeft'
    BY <1>1, <1>6 DEF Sound, TimeLeft, Pressing, InTime
<1> QED
    BY <1>8, <1>10, <1>11, <1>12, <1>13 DEF Sound

LEMMA AssignSound ==
    ASSUME IInv, Sound, NEW k \in Conns, AssignActiveConnection(k)
    PROVE  Sound'
<1> DEFINE s == connSession[k]
           will == IF clientWill[k] THEN k ELSE 0
<1>1. /\ UNCHANGED <<now, store, destroyOnDisconnect, sessionExpiryInterval, profile, present,
                     connSession, clientWill, tasks, history>>
      /\ stage[k] = "registered" /\ stage' = [stage EXCEPT ![k] = "assigned"]
      /\ client' = [client EXCEPT ![s] = k]
      /\ willPublish' = [willPublish EXCEPT ![s] = will]
      /\ removalQueuedAt' = [removalQueuedAt EXCEPT ![s] = -1]
    BY DEF AssignActiveConnection
<1>2. s \in Conns /\ connSession[s] = s
    BY <1>1 DEF Sound, Placed, HasSession
<1>3. stage' \in [Conns -> Stages] /\ stage'[k] = "assigned"
         /\ \A j \in Conns : j # k => stage'[j] = stage[j]
    BY <1>1 DEF Sound, TypeOK, ClientsType, Stages
<1>4. client'[s] = k /\ willPublish'[s] = will
        /\ \A t \in Conns : t # s => client'[t] = client[t] /\ willPublish'[t] = willPublish[t]
    BY <1>1, <1>2 DEF Sound, TypeOK, SessionType
<1>5. SessionType'
  <2>1. k \in 0..MaxConns /\ will \in 0..MaxConns /\ -1 \in -1..MaxTime
      BY RegistryBounds DEF Conns
  <2>2. client' \in [Conns -> 0..MaxConns] /\ willPublish' \in [Conns -> 0..MaxConns]
      BY <2>1, <1>1 DEF Sound, TypeOK, SessionType
  <2>3. removalQueuedAt' \in [Conns -> -1..MaxTime]
      BY <2>1, <1>1 DEF Sound, TypeOK, SessionType
  <2> QED
      BY <2>2, <2>3, <1>1 DEF Sound, TypeOK, SessionType
<1>6. TypeOK'
    BY <1>1, <1>3, <1>5 DEF Sound, TypeOK, StoreType, ClientsType, TasksType, HistoryType, store,
       tasks, history, Stages
<1>7. Placed'
    BY <1>1, <1>2, <1>3, <1>4 DEF Sound, Placed, HasSession, store, Begun
<1>8. BegunInOrder'
    BY <1>1, <1>3 DEF Sound, BegunInOrder
<1>9. WillsPlaced'
    BY <1>1, <1>2, <1>3, <1>4 DEF Sound, WillsPlaced, store, Conns
<1>10. TimeLeft'
    BY <1>1, <1>3 DEF Sound, TimeLeft, Pressing, InTime, history
<1> QED
    BY <1>6, <1>7, <1>8, <1>9, <1>10 DEF Sound

LEMMA ProfileType ==
    ASSUME NEW p \in Profiles \cup {NoProfile}
    PROVE  p.expiry \in Interval /\ p.clean \in BOOLEAN
<1>1. CASE p = NoProfile
  <2>1. 0 \in Interval
      BY RegistryBounds DEF Interval
  <2>2. p.expiry = 0 /\ p.clean = FALSE
      BY <1>1 DEF NoProfile
  <2> QED
      BY <2>1, <2>2, Zenon
<1>2. CASE p \in Profiles
  <2>1. p \in [version : {3, 5}, clean : BOOLEAN, expiry : Interval, will : Interval \cup {NoWill}]
      BY <1>2, RegistryInputs, Zenon
  <2> QED
      BY <2>1, Zenon
<1> QED
    BY <1>1, <1>2

\* What clears a will in a session.
LEMMA ClearSound ==
    ASSUME TypeOK, NEW s, willPublish' = [willPublish EXCEPT ![s] = 0]
    PROVE  /\ willPublish' \in [Conns -> 0..MaxConns]
           /\ \A t, j \in Conns : willPublish'[t] = j => willPublish[t] = j
<1>1. 0 \in 0..MaxConns /\ \A j \in Conns : j # 0
    BY RegistryBounds DEF Conns
<1>2. willPublish \in [Conns -> 0..MaxConns]
    BY DEF TypeOK, SessionType
<1>3. willPublish' \in [Conns -> 0..MaxConns]
    BY <1>1, <1>2
<1>4. \A t \in Conns : willPublish'[t] = IF t = s THEN 0 ELSE willPublish[t]
    BY <1>2
<1> QED
    BY <1>1, <1>3, <1>4

LEMMA SetPropertiesSound ==
    ASSUME IInv, Sound, NEW k \in Conns, SetSessionProperties(k)
    PROVE  Sound'
<1> DEFINE s == connSession[k]
           p == profile[k]
<1>1. /\ UNCHANGED <<now, store, client, willPublish, removalQueuedAt, profile, present,
                     connSession, clientWill, tasks, history>>
      /\ stage[k] = "assigned" /\ stage' = [stage EXCEPT ![k] = "live"]
      /\ sessionExpiryInterval' = [sessionExpiryInterval EXCEPT ![s] = p.expiry]
      /\ destroyOnDisconnect' =
              [destroyOnDisconnect EXCEPT ![s] = IF p.version = 3 THEN p.clean ELSE p.expiry = 0]
    BY DEF SetSessionProperties
<1>2. stage' \in [Conns -> Stages] /\ stage'[k] = "live"
         /\ \A j \in Conns : j # k => stage'[j] = stage[j]
    BY <1>1 DEF Sound, TypeOK, ClientsType, Stages
<1>3. SessionType'
  <2>1. p \in Profiles \cup {NoProfile}
      BY DEF Sound, TypeOK, ClientsType
  <2>2. p.expiry \in Interval /\ p.clean \in BOOLEAN
      BY <2>1, ProfileType
  <2>3. (IF p.version = 3 THEN p.clean ELSE p.expiry = 0) \in BOOLEAN
      BY <2>2, Zenon
  <2>4. sessionExpiryInterval' \in [Conns -> Interval]
      BY <2>2, <1>1 DEF Sound, TypeOK, SessionType
  <2>5. destroyOnDisconnect' \in [Conns -> BOOLEAN]
      BY <2>3, <1>1, Zenon DEF Sound, TypeOK, SessionType
  <2> QED
      BY <2>4, <2>5, <1>1 DEF Sound, TypeOK, SessionType
<1>4. TypeOK'
    BY <1>1, <1>2, <1>3 DEF Sound, TypeOK, StoreType, ClientsType, TasksType, HistoryType, store,
       tasks, history, Stages
<1>5. Placed' /\ BegunInOrder' /\ WillsPlaced' /\ TimeLeft'
    BY <1>1, <1>2 DEF Sound, Placed, HasSession, store, Begun, BegunInOrder, WillsPlaced, TimeLeft,
       Pressing, InTime, history
<1> QED
    BY <1>4, <1>5 DEF Sound

LEMMA HandleDisconnectSound ==
    ASSUME IInv, Sound, NEW k \in Conns, HandleDisconnect(k)
    PROVE  Sound'
<1> DEFINE s == connSession[k]
<1>1. /\ UNCHANGED <<now, store, client, removalQueuedAt, profile, present, connSession, tasks,
                     kicked, willsSent, lastUsed>>
      /\ stage[k] = "live" /\ stage' = [stage EXCEPT ![k] = "leaving"] /\ InTime
      /\ clientWill' = [clientWill EXCEPT ![k] = FALSE]
      /\ willPublish' = [willPublish EXCEPT ![s] = 0]
      /\ left' = [left EXCEPT ![k] = TRUE]
    BY DEF HandleDisconnect
<1>2. stage' \in [Conns -> Stages] /\ stage'[k] = "leaving"
         /\ \A j \in Conns : j # k => stage'[j] = stage[j]
    BY <1>1 DEF Sound, TypeOK, ClientsType, Stages
<1>3. sessionExpiryInterval' \in [Conns -> Interval] /\ destroyOnDisconnect' \in [Conns -> BOOLEAN]
  <2>1. CASE UNCHANGED <<sessionExpiryInterval, destroyOnDisconnect>>
      BY <2>1 DEF Sound, TypeOK, SessionType
  <2>2. CASE \E e \in NewExpiries :
                /\ sessionExpiryInterval' = [sessionExpiryInterval EXCEPT ![s] = e]
                /\ destroyOnDisconnect' = [destroyOnDisconnect EXCEPT ![s] = e = 0]
    <3>1. PICK e \in NewExpiries :
                /\ sessionExpiryInterval' = [sessionExpiryInterval EXCEPT ![s] = e]
                /\ destroyOnDisconnect' = [destroyOnDisconnect EXCEPT ![s] = e = 0]
        BY <2>2
    <3>2. e \in Interval /\ (e = 0) \in BOOLEAN
        BY RegistryInputs, Zenon
    <3> QED
        BY <3>1, <3>2, Zenon DEF Sound, TypeOK, SessionType
  <2> QED
      BY <2>1, <2>2 DEF HandleDisconnect
<1>4. willPublish' \in [Conns -> 0..MaxConns]
        /\ \A t, j \in Conns : willPublish'[t] = j => willPublish[t] = j
    BY <1>1, ClearSound DEF Sound
<1>5. clientWill' \in [Conns -> BOOLEAN] /\ left' \in [Conns -> BOOLEAN]
        /\ \A j \in Conns : clientWill'[j] => clientWill[j]
    BY <1>1 DEF Sound, TypeOK, ClientsType, HistoryType
<1>6. TypeOK'
    BY <1>1, <1>2, <1>3, <1>4, <1>5 DEF Sound, TypeOK, StoreType, SessionType, ClientsType, TasksType,
       HistoryType, store, tasks, Stages
<1>7. Placed' /\ BegunInOrder' /\ TimeLeft'
    BY <1>1, <1>2 DEF Sound, Placed, HasSession, store, Begun, BegunInOrder, TimeLeft,
       Pressing, InTime
<1>8. WillsPlaced'
    BY <1>1, <1>2, <1>4, <1>5 DEF Sound, WillsPlaced, store
<1> QED
    BY <1>6, <1>7, <1>8 DEF Sound

LEMMA CloseSound ==
    ASSUME IInv, Sound, NEW k \in Conns, Close(k)
    PROVE  Sound'
<1>1. /\ UNCHANGED <<now, store, session, profile, present, connSession, clientWill, tasks,
                     kicked, left, willsSent>>
      /\ stage[k] \in {"live", "leaving"} /\ stage' = [stage EXCEPT ![k] = "closed"]
      /\ InTime \/ kicked[k] \/ stage[k] = "leaving"
      /\ lastUsed' = IF client[connSession[k]] = k THEN [lastUsed EXCEPT ![connSession[k]] = now]
                     ELSE lastUsed
    BY DEF Close
<1>2. stage' \in [Conns -> Stages] /\ stage'[k] = "closed"
         /\ \A j \in Conns : j # k => stage'[j] = stage[j]
    BY <1>1 DEF Sound, TypeOK, ClientsType, Stages
<1>3. lastUsed' \in [Conns -> 0..MaxTime]
    BY <1>1 DEF Sound, TypeOK, HistoryType
<1>4. InTime
    BY <1>1 DEF Sound, TimeLeft, Pressing
<1>5. TypeOK'
    BY <1>1, <1>2, <1>3 DEF Sound, TypeOK, StoreType, SessionType, ClientsType, TasksType,
       HistoryType, store, session, tasks, Stages
<1>6. Placed' /\ BegunInOrder' /\ WillsPlaced' /\ TimeLeft'
    BY <1>1, <1>2, <1>4 DEF Sound, Placed, HasSession, store, session, Begun, BegunInOrder,
       WillsPlaced, TimeLeft, Pressing, InTime
<1> QED
    BY <1>5, <1>6 DEF Sound

LEMMA SendWillSound ==
    ASSUME Sound, NEW w, NEW s, SendWill(w, s)
    PROVE  /\ willPublish' \in [Conns -> 0..MaxConns] /\ willsSent' \in [Conns -> Nat]
           /\ \A t, j \in Conns : willPublish'[t] = j => willPublish[t] = j
<1>1. \A n \in Nat : n + 1 \in Nat
    OBVIOUS
<1>2. willsSent' \in [Conns -> Nat]
  <2>1. CASE w \in Conns
      BY <1>1, <2>1 DEF SendWill, Sound, TypeOK, HistoryType
  <2>2. CASE w \notin Conns
      BY <2>2 DEF SendWill, Sound, TypeOK, HistoryType
  <2> QED
      BY <2>1, <2>2
<1> QED
    BY <1>2, ClearSound DEF SendWill, Sound

LEMMA DisconnectWillSound ==
    ASSUME IInv, Sound, NEW k \in Conns, DisconnectWill(k)
    PROVE  Sound'
<1> DEFINE entry == [at |-> now + profile[k].will, will |-> k, session |-> connSession[k]]
<1>1. /\ UNCHANGED <<now, sessionsById, queuedSessionRemovals, client, destroyOnDisconnect,
                     sessionExpiryInterval, removalQueuedAt, profile, present, connSession,
                     clientWill, tasks, kicked, left, lastUsed>>
      /\ stage[k] = "closed" /\ stage' = [stage EXCEPT ![k] = "willdone"]
    BY DEF DisconnectWill
<1>2. stage' \in [Conns -> Stages] /\ stage'[k] = "willdone"
         /\ \A j \in Conns : j # k => stage'[j] = stage[j]
    BY <1>1 DEF Sound, TypeOK, ClientsType, Stages
<1>3. InTime
    BY <1>1 DEF Sound, TimeLeft, Pressing
<1>4. /\ willPublish' \in [Conns -> 0..MaxConns] /\ willsSent' \in [Conns -> Nat]
      /\ \A t, j \in Conns : willPublish'[t] = j => willPublish[t] = j
  <2>1. CASE UNCHANGED <<willPublish, willsSent>>
      BY <2>1 DEF Sound, TypeOK, SessionType, HistoryType
  <2>2. CASE SendWill(k, connSession[k])
      BY <2>2, SendWillSound
  <2> QED
      BY <2>1, <2>2 DEF DisconnectWill
<1>5. pendingWillMessages' = pendingWillMessages
      \/ /\ pendingWillMessages' = pendingWillMessages \cup {entry}
         /\ entry \in [at : 0..MaxTime, will : Conns, session : Conns]
  <2>1. CASE profile[k].will > 0 /\ pendingWillMessages' = pendingWillMessages \cup {entry}
    <3>1. profile[k] \in Profiles \cup {NoProfile}
        BY DEF Sound, TypeOK, ClientsType
    <3>2. profile[k].will \in Interval
        BY <3>1, <2>1, RegistryInputs DEF NoProfile, NoWill
    <3>3. now + profile[k].will \in 0..MaxTime
        BY <3>2, <1>3, RegistryBounds DEF InTime, Interval, Sound, TypeOK
    <3>4. connSession[k] \in Conns
        BY <1>1 DEF Sound, Placed, HasSession
    <3>5. entry \in [at : 0..MaxTime, will : Conns, session : Conns]
        BY <3>3, <3>4
    <3> QED
        BY <3>5, <2>1
  <2> QED
      BY <2>1 DEF DisconnectWill
<1>6. entry.will = k /\ entry.session = connSession[k]
    OBVIOUS
<1> HIDE DEF entry
<1>7. pendingWillMessages' \subseteq [at : 0..MaxTime, will : Conns, session : Conns]
    BY <1>5 DEF Sound, TypeOK, StoreType
<1>8. \A p \in pendingWillMessages' :
          p \in pendingWillMessages \/ (p.will = k /\ p.session = connSession[k])
    BY <1>5, <1>6
<1>9. TypeOK'
    BY <1>1, <1>2, <1>4, <1>7 DEF Sound, TypeOK, StoreType, SessionType, ClientsType, TasksType,
       HistoryType, tasks, Stages
<1>10. Placed' /\ BegunInOrder' /\ TimeLeft'
    BY <1>1, <1>2, <1>3 DEF Sound, Placed, HasSession, Begun, BegunInOrder, TimeLeft,
       Pressing, InTime
<1>11. WillsPlaced'
    BY <1>1, <1>2, <1>4, <1>7, <1>8 DEF Sound, WillsPlaced
<1> QED
    BY <1>9, <1>10, <1>11 DEF Sound

LEMMA RemoveSessionSound ==
    ASSUME Sound, NEW s \in Conns, RemoveSession(s)
    PROVE  /\ sessionsById' \in {sessionsById, 0} /\ removing' \subseteq Conns
           /\ sessionsById' \in 0..MaxConns
  BY RegistryBounds DEF RemoveSession, Sound, TypeOK, TasksType, StoreType

LEMMA DisconnectSessionSound ==
    ASSUME IInv, Sound, NEW k \in Conns, DisconnectSession(k)
    PROVE  Sound'
<1> DEFINE s == connSession[k]
           entry == [at |-> now + sessionExpiryInterval[s], session |-> s]
<1>1. /\ UNCHANGED <<now, pendingWillMessages, client, willPublish, destroyOnDisconnect,
                     sessionExpiryInterval, profile, present, connSession, due, toRemove,
                     removedWill, history>>
      /\ stage[k] = "willdone" /\ stage' = [stage EXCEPT ![k] = "gone"]
      /\ clientWill' = [clientWill EXCEPT ![k] = FALSE]
    BY DEF DisconnectSession
<1>2. stage' \in [Conns -> Stages] /\ stage'[k] = "gone"
         /\ \A j \in Conns : j # k => stage'[j] = stage[j]
    BY <1>1 DEF Sound, TypeOK, ClientsType, Stages
<1>3. InTime /\ s \in Conns
    BY <1>1 DEF Sound, TimeLeft, Pressing, Placed, HasSession
<1>4. /\ removalQueuedAt' \in [Conns -> -1..MaxTime]
      /\ queuedSessionRemovals' \subseteq [at : 0..MaxTime, session : Conns]
      /\ sessionsById' \in {sessionsById, 0} /\ removing' \subseteq Conns
      /\ sessionsById' \in 0..MaxConns
  <2>1. CASE RemoveSession(s) /\ UNCHANGED <<removalQueuedAt, queuedSessionRemovals>>
      BY <2>1, <1>3, RemoveSessionSound DEF Sound, TypeOK, StoreType, SessionType
  <2>2. CASE /\ removalQueuedAt' = [removalQueuedAt EXCEPT ![s] = now]
             /\ queuedSessionRemovals' = queuedSessionRemovals \cup {entry}
             /\ UNCHANGED <<sessionsById, removing>>
    <3>1. entry \in [at : 0..MaxTime, session : Conns] /\ now \in -1..MaxTime
      <4>1. sessionExpiryInterval[s] \in Interval
          BY <1>3 DEF Sound, TypeOK, SessionType
      <4> QED
          BY <4>1, <1>3, RegistryBounds DEF Interval, InTime, Sound, TypeOK
    <3> QED
        BY <3>1, <2>2 DEF Sound, TypeOK, StoreType, SessionType, TasksType
  <2> QED
      BY <2>1, <2>2 DEF DisconnectSession
<1>5. clientWill' \in [Conns -> BOOLEAN] /\ ~clientWill'[k]
        /\ \A j \in Conns : clientWill'[j] => clientWill[j]
    BY <1>1 DEF Sound, TypeOK, ClientsType
<1>6. TypeOK'
    BY <1>1, <1>2, <1>4, <1>5 DEF Sound, TypeOK, StoreType, SessionType, ClientsType, TasksType,
       HistoryType, history, Stages
<1>7. Placed' /\ BegunInOrder' /\ TimeLeft'
    BY <1>1, <1>2, <1>3, <1>4 DEF Sound, Placed, HasSession, Begun, BegunInOrder, TimeLeft,
       Pressing, InTime, history
<1>8. WillsPlaced'
    BY <1>1, <1>2, <1>5 DEF Sound, WillsPlaced
<1> QED
    BY <1>6, <1>7, <1>8 DEF Sound

LEMMA FinishRemovalSound ==
    ASSUME IInv, Sound, NEW s \in Conns, FinishRemoval(s)
    PROVE  Sound'
<1>1. /\ removing' \subseteq removing
      /\ UNCHANGED <<now, store, client, destroyOnDisconnect, sessionExpiryInterval,
                     removalQueuedAt, clients, due, toRemove, kicked, left, lastUsed>>
    BY DEF FinishRemoval, ReadWillOfRemoved, SendWillOfRemoved, session, history
<1>2. /\ willPublish' \in [Conns -> 0..MaxConns] /\ willsSent' \in [Conns -> Nat]
      /\ \A t, j \in Conns : willPublish'[t] = j => willPublish[t] = j
  <2>1. CASE UNCHANGED <<willPublish, willsSent>>
      BY <2>1 DEF Sound, TypeOK, SessionType, HistoryType
  <2>2. CASE SendWill(removedWill[s], s)
      BY <2>2, SendWillSound
  <2> QED
      BY <2>1, <2>2 DEF FinishRemoval, ReadWillOfRemoved, SendWillOfRemoved, session, history
<1>3. removedWill' \in [Conns -> 0..MaxConns]
  <2>1. 0 \in 0..MaxConns /\ willPublish[s] \in 0..MaxConns
      BY RegistryBounds DEF Sound, TypeOK, SessionType
  <2> QED
      BY <2>1 DEF FinishRemoval, ReadWillOfRemoved, SendWillOfRemoved, Sound, TypeOK, TasksType
<1>4. TypeOK'
    BY <1>1, <1>2, <1>3 DEF Sound, TypeOK, StoreType, SessionType, ClientsType, TasksType,
       HistoryType, store, clients
<1>5. Placed' /\ BegunInOrder' /\ WillsPlaced' /\ TimeLeft'
    BY <1>1, <1>2 DEF Sound, Placed, HasSession, Begun, BegunInOrder, TimeLeft, WillsPlaced,
       Pressing, InTime, store, clients
<1> QED
    BY <1>4, <1>5 DEF Sound

LEMMA WillTimerSound ==
    ASSUME IInv, Sound, WillTimer
    PROVE  Sound'
<1>1. CASE PickDueWill
  <2>1. PICK p \in pendingWillMessages :
            /\ pendingWillMessages' = pendingWillMessages \ {p}
            /\ due' = IF WillStillWanted(p) THEN [will |-> p.will, session |-> p.session]
                      ELSE NothingDue
      BY <1>1 DEF PickDueWill
  <2>2. UNCHANGED <<now, sessionsById, queuedSessionRemovals, session, clients, toRemove,
                    removing, removedWill, history>>
      BY <1>1 DEF PickDueWill
  <2>3. due' \in [will : 0..MaxConns, session : 0..MaxConns]
    <3>1. p.will \in Conns /\ p.session \in Conns
        BY DEF Sound, TypeOK, StoreType
    <3> QED
        BY <3>1, <2>1, RegistryBounds DEF NothingDue, Conns
  <2>4. TypeOK'
      BY <2>1, <2>2, <2>3 DEF Sound, TypeOK, StoreType, SessionType, ClientsType, TasksType,
         HistoryType, session, clients, history
  <2> QED
      BY <2>1, <2>2, <2>4 DEF Sound, Placed, HasSession, Begun, BegunInOrder, TimeLeft, WillsPlaced,
         Pressing, InTime, session, clients, history
<1>2. CASE SendDueWill
  <2>1. /\ SendWill(due.will, due.session) /\ due' = NothingDue
        /\ UNCHANGED <<now, store, client, destroyOnDisconnect, sessionExpiryInterval,
                       removalQueuedAt, clients, toRemove, removing, removedWill, kicked,
                       left, lastUsed>>
      BY <1>2 DEF SendDueWill
  <2>2. /\ willPublish' \in [Conns -> 0..MaxConns] /\ willsSent' \in [Conns -> Nat]
        /\ \A t, j \in Conns : willPublish'[t] = j => willPublish[t] = j
      BY <2>1, SendWillSound
  <2>3. due' \in [will : 0..MaxConns, session : 0..MaxConns]
      BY <2>1, RegistryBounds DEF NothingDue
  <2>4. TypeOK'
      BY <2>1, <2>2, <2>3 DEF Sound, TypeOK, StoreType, SessionType, ClientsType, TasksType,
         HistoryType, store, clients
  <2> QED
      BY <2>1, <2>2, <2>4 DEF Sound, Placed, HasSession, Begun, BegunInOrder, TimeLeft, WillsPlaced,
         Pressing, InTime, store, clients
<1> QED
    BY <1>1, <1>2 DEF WillTimer

LEMMA RemovalTimerSound ==
    ASSUME IInv, Sound, RemovalTimer
    PROVE  Sound'
<1>1. CASE CollectExpired
  <2>1. /\ queuedSessionRemovals' \subseteq queuedSessionRemovals /\ toRemove' \subseteq Conns
        /\ UNCHANGED <<now, sessionsById, pendingWillMessages, session, clients, due, removing,
                       removedWill, history>>
      BY <1>1 DEF CollectExpired
  <2>2. TypeOK'
      BY <2>1 DEF Sound, TypeOK, StoreType, SessionType, ClientsType, TasksType,
         HistoryType, session, clients, history
  <2> QED
      BY <2>1, <2>2 DEF Sound, Placed, HasSession, Begun, BegunInOrder, TimeLeft, WillsPlaced,
         Pressing, InTime, session, clients, history
<1>2. CASE \E s \in Conns : RemoveExpired(s)
  <2>1. PICK s \in Conns : RemoveExpired(s)
      BY <1>2
  <2>2. /\ toRemove' = toRemove \ {s} /\ RemoveSession(s)
        /\ UNCHANGED <<now, pendingWillMessages, queuedSessionRemovals, session, clients, due,
                       removedWill, history>>
      BY <2>1 DEF RemoveExpired
  <2>3. /\ sessionsById' \in {sessionsById, 0} /\ removing' \subseteq Conns
        /\ sessionsById' \in 0..MaxConns
      BY <2>2, RemoveSessionSound
  <2>4. TypeOK'
      BY <2>2, <2>3 DEF Sound, TypeOK, StoreType, SessionType, ClientsType, TasksType,
         HistoryType, session, clients, history
  <2> QED
      BY <2>2, <2>3, <2>4 DEF Sound, Placed, HasSession, Begun, BegunInOrder, TimeLeft, WillsPlaced,
         Pressing, InTime, session, clients, history
<1> QED
    BY <1>1, <1>2 DEF RemovalTimer

LEMMA TickSound ==
    ASSUME IInv, Sound, Tick
    PROVE  Sound'
<1>1. /\ now < MaxTime /\ now' = now + 1 /\ UNCHANGED <<store, session, clients, tasks, history>>
      /\ now + MaxInterval < MaxTime \/ Settled
    BY DEF Tick
<1>2. now \in 0..MaxTime /\ now' \in 0..MaxTime
    BY <1>1, RegistryBounds DEF Sound, TypeOK
<1>3. TypeOK'
    BY <1>1, <1>2 DEF Sound, TypeOK, StoreType, SessionType, ClientsType, TasksType, HistoryType,
       store, session, clients, tasks, history
<1>4. Placed' /\ BegunInOrder' /\ WillsPlaced'
    BY <1>1 DEF Sound, Placed, HasSession, Begun, BegunInOrder, WillsPlaced, store, session, clients
<1>5. TimeLeft'
  <2>1. CASE Settled
      BY <2>1, <1>1 DEF Settled, TimeLeft, Pressing, clients, history
  <2>2. CASE now + MaxInterval < MaxTime
      BY <2>2, <1>1, <1>2, RegistryBounds DEF TimeLeft, InTime
  <2> QED
      BY <2>1, <2>2, <1>1
<1> QED
    BY <1>3, <1>4, <1>5 DEF Sound

LEMMA SoundUnchanged == Sound /\ UNCHANGED vars => Sound'
  BY DEF Sound, TypeOK, StoreType, SessionType, ClientsType, TasksType, HistoryType, vars,
     store, session, clients, tasks, history, Placed, HasSession, Begun, BegunInOrder, WillsPlaced,
     TimeLeft, Pressing, InTime

LEMMA StepSound == IInv /\ Sound /\ [Next]_vars => Sound'
<1> SUFFICES ASSUME IInv, Sound, [Next]_vars PROVE Sound'
    OBVIOUS
<1>1. CASE \E k \in Conns : HandleConnect(k) \/ ConnectStep(k) \/ HandleDisconnect(k)
                              \/ Close(k) \/ DisconnectStep(k)
    BY <1>1, HandleConnectSound, RegisterSound, AssignSound, SetPropertiesSound,
       HandleDisconnectSound, CloseSound, DisconnectWillSound, DisconnectSessionSound
       DEF ConnectStep, DisconnectStep
<1>2. CASE Finished \/ UNCHANGED vars
    BY <1>2, SoundUnchanged DEF Finished
<1> QED
    BY <1>1, <1>2, FinishRemovalSound, WillTimerSound, RemovalTimerSound, TickSound DEF Next

(* TypeOK: every variable keeps its type, under every interleaving.  What is *)
(* queued (subscriptionstore.cpp:504, 1449) comes due in time, because a     *)
(* connection that is told to go, or closed, still has its interval before   *)
(* it (TimeLeft).                                                            *)
THEOREM TypeCorrect == Spec => []TypeOK
<1>1. Sound => TypeOK
    BY DEF Sound
<1> QED
    BY <1>1, InitSound, StepSound, WillsBelongToUnfinished, PTL DEF Spec

-----------------------------------------------------------------------------
(* Sessions that only one connection ever had                                *)

\* A client of the session s is gone, with its disconnect actions.
GoneFrom(s) == \E j \in Conns : stage[j] = "gone" /\ connSession[j] = s

\* A removal is queued when a client is gone.
RemovalsAfterClients ==
    /\ \A q \in queuedSessionRemovals : GoneFrom(q.session)
    /\ \A s \in toRemove \cup removing : GoneFrom(s)
    /\ \A s \in Conns : removalQueuedAt[s] >= 0 => GoneFrom(s)

\* It comes due when the interval is over.
RemovalsInTime ==
    /\ \A s \in Conns : lastUsed[s] <= now
    /\ \A q \in queuedSessionRemovals :
          SoleUser(q.session) => q.at >= lastUsed[q.session] + sessionExpiryInterval[q.session]
    /\ \A s \in toRemove : SoleUser(s) => now >= lastUsed[s] + sessionExpiryInterval[s]

RemovalsJustified == RemovalsAfterClients /\ RemovalsInTime

\* What a step may not do to a session that nobody resumed.
NoneExpiresNow ==
    \A s \in Conns :
        SoleUser(s) /\ sessionsById = s /\ sessionsById' = 0 /\ ~destroyOnDisconnect[s]
            => now - lastUsed[s] >= sessionExpiryInterval[s]

\* A connection has s and is not gone.
InUse(s) == \E k \in Conns : HasSession(k) /\ stage[k] # "gone" /\ connSession[k] = s

LEMMA InitJustified == Init => RemovalsJustified
<1> SUFFICES ASSUME Init PROVE RemovalsJustified
    OBVIOUS
<1>1. RemovalsAfterClients
    BY DEF Init, RemovalsAfterClients
<1>2. RemovalsInTime
    BY DEF Init, RemovalsInTime
<1> QED
    BY <1>1, <1>2 DEF RemovalsJustified

\* The only user of a session is gone, or not.
LEMMA SoleUserGone ==
    ASSUME Sound, NEW s \in Conns, SoleUser(s), GoneFrom(s)
    PROVE  ~InUse(s)
<1>1. PICK j \in Conns : stage[j] = "gone" /\ connSession[j] = s
    BY DEF GoneFrom
<1>2. connSession[s] = s
    BY <1>1 DEF Sound, Placed, HasSession
<1>3. \A k \in Conns : connSession[k] = s => k = s
    BY <1>2 DEF SoleUser
<1> QED
    BY <1>1, <1>3 DEF InUse

\* A step that queues no removal, and leaves sessions without a client alone.
LEMMA JustifiedKept ==
    ASSUME Sound, Sound', RemovalsJustified,
           queuedSessionRemovals' \subseteq queuedSessionRemovals,
           toRemove' \subseteq toRemove, removing' \subseteq removing,
           UNCHANGED connSession, now' >= now,
           \A s \in Conns : removalQueuedAt'[s] >= 0 => removalQueuedAt[s] >= 0,
           \A k \in Conns : stage[k] = "gone" => stage'[k] = "gone",
           \A s \in Conns : lastUsed'[s] <= now',
           \A s \in Conns : \/ InUse(s)
                            \/ /\ lastUsed'[s] = lastUsed[s]
                               /\ sessionExpiryInterval'[s] = sessionExpiryInterval[s]
    PROVE  RemovalsJustified'
<1>1. \A s : GoneFrom(s) => GoneFrom(s)'
    BY DEF GoneFrom
<1>2. RemovalsAfterClients'
    BY <1>1 DEF RemovalsJustified, RemovalsAfterClients
<1>3. \A s : SoleUser(s)' => SoleUser(s)
    BY DEF SoleUser
<1>4. \A s \in Conns : SoleUser(s) /\ GoneFrom(s) =>
          lastUsed'[s] = lastUsed[s] /\ sessionExpiryInterval'[s] = sessionExpiryInterval[s]
    BY SoleUserGone
<1>5. queuedSessionRemovals \subseteq [at : 0..MaxTime, session : Conns] /\ toRemove \subseteq Conns
    BY DEF Sound, TypeOK, StoreType, TasksType
<1>6. now \in Int /\ now' \in Int
         /\ \A s \in Conns : lastUsed[s] \in Int /\ sessionExpiryInterval[s] \in Int
    BY RegistryBounds DEF Sound, TypeOK, SessionType, HistoryType, Interval
<1>7. \A q \in queuedSessionRemovals' : SoleUser(q.session)' =>
          q.at >= lastUsed'[q.session] + sessionExpiryInterval'[q.session]
  <2> SUFFICES ASSUME NEW q \in queuedSessionRemovals', SoleUser(q.session)'
               PROVE  q.at >= lastUsed'[q.session] + sessionExpiryInterval'[q.session]
      OBVIOUS
  <2>1. q \in queuedSessionRemovals /\ q.session \in Conns
      BY <1>5
  <2>2. GoneFrom(q.session) /\ SoleUser(q.session)
      BY <2>1, <1>3 DEF RemovalsJustified, RemovalsAfterClients
  <2> QED
      BY <2>1, <2>2, <1>4 DEF RemovalsJustified, RemovalsInTime
<1>8. \A s \in toRemove' : SoleUser(s)' => now' >= lastUsed'[s] + sessionExpiryInterval'[s]
  <2> SUFFICES ASSUME NEW s \in toRemove', SoleUser(s)'
               PROVE  now' >= lastUsed'[s] + sessionExpiryInterval'[s]
      OBVIOUS
  <2>1. s \in toRemove /\ s \in Conns
      BY <1>5
  <2>2. GoneFrom(s) /\ SoleUser(s)
      BY <2>1, <1>3 DEF RemovalsJustified, RemovalsAfterClients
  <2>3. now >= lastUsed[s] + sessionExpiryInterval[s]
      BY <2>1, <2>2 DEF RemovalsJustified, RemovalsInTime
  <2> QED
      BY <2>1, <2>2, <2>3, <1>4, <1>6
<1> QED
    BY <1>2, <1>7, <1>8 DEF RemovalsJustified, RemovalsInTime

\* A step of the connection k that changes at most its session, while it has one.
LEMMA ConnectionJustified ==
    ASSUME Sound, Sound', RemovalsJustified, NEW k \in Conns,
           HasSession(k), stage[k] # "gone",
           \A j \in Conns : j # k => stage'[j] = stage[j],
           UNCHANGED <<now, queuedSessionRemovals, tasks, connSession>>,
           \A s \in Conns : removalQueuedAt'[s] >= 0 => removalQueuedAt[s] >= 0,
           \A s \in Conns : s # connSession[k] =>
                               /\ lastUsed'[s] = lastUsed[s]
                               /\ sessionExpiryInterval'[s] = sessionExpiryInterval[s],
           lastUsed'[connSession[k]] \in {lastUsed[connSession[k]], now}
    PROVE  RemovalsJustified'
<1>1. InUse(connSession[k])
    BY DEF InUse
<1>2. connSession[k] \in Conns
    BY DEF Sound, Placed
<1>3. now \in Int /\ now' = now
    BY RegistryBounds DEF Sound, TypeOK
<1>4. \A s \in Conns : lastUsed'[s] <= now'
    BY <1>2, <1>3 DEF RemovalsJustified, RemovalsInTime
<1>5. now' >= now
    BY <1>3
<1>6. \A j \in Conns : stage[j] = "gone" => stage'[j] = "gone"
    OBVIOUS
<1>7. \A s \in Conns : \/ InUse(s)
                       \/ /\ lastUsed'[s] = lastUsed[s]
                          /\ sessionExpiryInterval'[s] = sessionExpiryInterval[s]
    BY <1>1
<1> QED
    BY <1>4, <1>5, <1>6, <1>7, JustifiedKept DEF tasks

LEMMA HandleConnectJustified ==
    ASSUME Sound, Sound', RemovalsJustified, NEW k \in Conns, HandleConnect(k)
    PROVE  RemovalsJustified' /\ NoneExpiresNow
<1>1. /\ UNCHANGED <<now, store, session, connSession, tasks, history>>
      /\ stage[k] = "unused" /\ stage' = [stage EXCEPT ![k] = "connecting"]
    BY DEF HandleConnect
<1>2. \A j \in Conns : stage[j] = "gone" => stage'[j] = "gone"
    BY <1>1 DEF Sound, TypeOK, ClientsType
<1>3. now' >= now
    BY <1>1, RegistryBounds DEF Sound, TypeOK
<1>4. \A s \in Conns : lastUsed'[s] <= now'
    BY <1>1 DEF RemovalsJustified, RemovalsInTime, history
<1>5. NoneExpiresNow
    BY <1>1 DEF NoneExpiresNow, store, Conns
<1> QED
    BY <1>1, <1>2, <1>3, <1>4, <1>5, JustifiedKept DEF store, session, tasks, history

LEMMA RegisterJustified ==
    ASSUME Sound, Sound', RemovalsJustified, NEW k \in Conns,
           RegisterClientAndKickExistingOne(k)
    PROVE  RemovalsJustified' /\ NoneExpiresNow
<1> DEFINE new == IF sessionsById = 0 \/ profile[k].clean
                       \/ GetDestroyOnDisconnect(sessionsById) THEN k ELSE sessionsById
<1>1. /\ UNCHANGED <<now, queuedSessionRemovals, session, tasks, lastUsed>>
      /\ stage[k] = "connecting" /\ stage' = [stage EXCEPT ![k] = "registered"]
      /\ sessionsById' = new /\ connSession' = [connSession EXCEPT ![k] = new]
    BY DEF RegisterClientAndKickExistingOne
<1>2. new # 0
    BY DEF Conns
<1> HIDE DEF new
<1>3. NoneExpiresNow
    BY <1>1, <1>2 DEF NoneExpiresNow
<1>4. connSession[k] = 0 /\ \A j \in Conns : j # k => connSession'[j] = connSession[j]
    BY <1>1 DEF Sound, TypeOK, ClientsType, Placed, HasSession
<1>5. \A j \in Conns : j # k => stage'[j] = stage[j]
    BY <1>1 DEF Sound, TypeOK, ClientsType
<1>6. \A s \in Conns : GoneFrom(s) => GoneFrom(s)' /\ (SoleUser(s)' => SoleUser(s))
  <2> SUFFICES ASSUME NEW s \in Conns, GoneFrom(s) PROVE GoneFrom(s)' /\ (SoleUser(s)' => SoleUser(s))
      OBVIOUS
  <2>1. PICK j \in Conns : stage[j] = "gone" /\ connSession[j] = s
      BY DEF GoneFrom
  <2>2. connSession[s] = s /\ s # 0
      BY <2>1 DEF Sound, Placed, HasSession, Conns
  <2>3. GoneFrom(s)'
      BY <2>1, <1>1, <1>4, <1>5 DEF GoneFrom
  <2>4. SoleUser(s)' => SoleUser(s)
      BY <2>2, <1>4 DEF SoleUser
  <2> QED
      BY <2>3, <2>4
<1>7. /\ \A q \in queuedSessionRemovals : q.session \in Conns
      /\ toRemove \subseteq Conns /\ removing \subseteq Conns
    BY DEF Sound, TypeOK, StoreType, TasksType
<1>8. RemovalsAfterClients'
    BY <1>1, <1>6, <1>7 DEF RemovalsJustified, RemovalsAfterClients, session, tasks
<1>9. RemovalsInTime'
    BY <1>1, <1>6, <1>7 DEF RemovalsJustified, RemovalsInTime, RemovalsAfterClients, session, tasks
<1> QED
    BY <1>3, <1>8, <1>9 DEF RemovalsJustified

LEMMA AssignJustified ==
    ASSUME Sound, Sound', RemovalsJustified, NEW k \in Conns, AssignActiveConnection(k)
    PROVE  RemovalsJustified' /\ NoneExpiresNow
<1> DEFINE s == connSession[k]
<1>1. /\ UNCHANGED <<now, store, sessionExpiryInterval, connSession, tasks, history>>
      /\ stage[k] = "registered" /\ stage' = [stage EXCEPT ![k] = "assigned"]
      /\ removalQueuedAt' = [removalQueuedAt EXCEPT ![s] = -1]
    BY DEF AssignActiveConnection
<1>2. \A j \in Conns : j # k => stage'[j] = stage[j]
    BY <1>1 DEF Sound, TypeOK, ClientsType
<1>3. \A t \in Conns : removalQueuedAt'[t] >= 0 => removalQueuedAt[t] >= 0
    BY <1>1 DEF Sound, TypeOK, SessionType
<1>4. NoneExpiresNow
    BY <1>1 DEF NoneExpiresNow, store, Conns
<1> QED
    BY <1>1, <1>2, <1>3, <1>4, ConnectionJustified DEF HasSession, store, history

LEMMA SetPropertiesJustified ==
    ASSUME Sound, Sound', RemovalsJustified, NEW k \in Conns, SetSessionProperties(k)
    PROVE  RemovalsJustified' /\ NoneExpiresNow
<1>1. /\ UNCHANGED <<now, store, removalQueuedAt, connSession, tasks, history>>
      /\ stage[k] = "assigned" /\ stage' = [stage EXCEPT ![k] = "live"]
      /\ sessionExpiryInterval' =
            [sessionExpiryInterval EXCEPT ![connSession[k]] = profile[k].expiry]
    BY DEF SetSessionProperties
<1>2. \A j \in Conns : j # k => stage'[j] = stage[j]
    BY <1>1 DEF Sound, TypeOK, ClientsType
<1>3. \A t \in Conns : t # connSession[k] => sessionExpiryInterval'[t] = sessionExpiryInterval[t]
    BY <1>1 DEF Sound, TypeOK, SessionType
<1>4. NoneExpiresNow
    BY <1>1 DEF NoneExpiresNow, store, Conns
<1> QED
    BY <1>1, <1>2, <1>3, <1>4, ConnectionJustified DEF HasSession, store, history

LEMMA HandleDisconnectJustified ==
    ASSUME Sound, Sound', RemovalsJustified, NEW k \in Conns, HandleDisconnect(k)
    PROVE  RemovalsJustified' /\ NoneExpiresNow
<1>1. /\ UNCHANGED <<now, store, removalQueuedAt, connSession, tasks, lastUsed>>
      /\ stage[k] = "live" /\ stage' = [stage EXCEPT ![k] = "leaving"]
    BY DEF HandleDisconnect
<1>2. \A j \in Conns : j # k => stage'[j] = stage[j]
    BY <1>1 DEF Sound, TypeOK, ClientsType
<1>3. \A t \in Conns : t # connSession[k] => sessionExpiryInterval'[t] = sessionExpiryInterval[t]
  <2>1. \/ UNCHANGED sessionExpiryInterval
        \/ \E e : sessionExpiryInterval' = [sessionExpiryInterval EXCEPT ![connSession[k]] = e]
      BY DEF HandleDisconnect
  <2> QED
      BY <2>1 DEF Sound, TypeOK, SessionType
<1>4. NoneExpiresNow
    BY <1>1 DEF NoneExpiresNow, store, Conns
<1> QED
    BY <1>1, <1>2, <1>3, <1>4, ConnectionJustified DEF HasSession, store

LEMMA CloseJustified ==
    ASSUME Sound, Sound', RemovalsJustified, NEW k \in Conns, Close(k)
    PROVE  RemovalsJustified' /\ NoneExpiresNow
<1>1. /\ UNCHANGED <<now, store, session, connSession, tasks>>
      /\ stage[k] \in {"live", "leaving"} /\ stage' = [stage EXCEPT ![k] = "closed"]
      /\ lastUsed' = IF client[connSession[k]] = k THEN [lastUsed EXCEPT ![connSession[k]] = now]
                     ELSE lastUsed
    BY DEF Close
<1>2. \A j \in Conns : j # k => stage'[j] = stage[j]
    BY <1>1 DEF Sound, TypeOK, ClientsType
<1>3. connSession[k] \in Conns
    BY <1>1 DEF Sound, Placed, HasSession
<1>4. /\ \A t \in Conns : t # connSession[k] => lastUsed'[t] = lastUsed[t]
      /\ lastUsed'[connSession[k]] \in {lastUsed[connSession[k]], now}
    BY <1>1, <1>3 DEF Sound, TypeOK, HistoryType
<1>5. NoneExpiresNow
    BY <1>1 DEF NoneExpiresNow, store, Conns
<1> QED
    BY <1>1, <1>2, <1>4, <1>5, ConnectionJustified DEF HasSession, store, session

LEMMA DisconnectWillJustified ==
    ASSUME Sound, Sound', RemovalsJustified, NEW k \in Conns, DisconnectWill(k)
    PROVE  RemovalsJustified' /\ NoneExpiresNow
<1>1. /\ UNCHANGED <<now, sessionsById, queuedSessionRemovals, sessionExpiryInterval,
                     removalQueuedAt, connSession, tasks, lastUsed>>
      /\ stage[k] = "closed" /\ stage' = [stage EXCEPT ![k] = "willdone"]
    BY DEF DisconnectWill
<1>2. \A j \in Conns : j # k => stage'[j] = stage[j]
    BY <1>1 DEF Sound, TypeOK, ClientsType
<1>3. NoneExpiresNow
    BY <1>1 DEF NoneExpiresNow, Conns
<1> QED
    BY <1>1, <1>2, <1>3, ConnectionJustified DEF HasSession

LEMMA DisconnectSessionJustified ==
    ASSUME Sound, Sound', RemovalsJustified, NEW k \in Conns, DisconnectSession(k)
    PROVE  RemovalsJustified' /\ NoneExpiresNow
<1> DEFINE s == connSession[k]
           entry == [at |-> now + sessionExpiryInterval[s], session |-> s]
<1>1. /\ UNCHANGED <<now, sessionExpiryInterval, connSession, toRemove, history>>
      /\ stage[k] = "willdone" /\ stage' = [stage EXCEPT ![k] = "gone"]
    BY DEF DisconnectSession
<1>2. s \in Conns /\ connSession[s] = s
    BY <1>1 DEF Sound, Placed, HasSession
<1>3. GoneFrom(s)' /\ \A t : GoneFrom(t) => GoneFrom(t)'
    BY <1>1 DEF GoneFrom, Sound, TypeOK, ClientsType
<1>4. \A t : SoleUser(t)' => SoleUser(t)
    BY <1>1 DEF SoleUser
<1>5. now \in Int /\ sessionExpiryInterval[s] \in Int /\ lastUsed[s] \in Int /\ removalQueuedAt[s] \in Int
    BY <1>2, RegistryBounds DEF Sound, TypeOK, SessionType, HistoryType, Interval
<1>6. lastUsed[s] <= now
    BY <1>2 DEF RemovalsJustified, RemovalsInTime
<1>7. CASE GetDestroyOnDisconnect(s)
  <2>1. RemoveSession(s) /\ UNCHANGED <<removalQueuedAt, queuedSessionRemovals>>
      BY <1>7 DEF DisconnectSession
  <2>2. removing' \subseteq removing \cup {s} /\ (sessionsById' = sessionsById \/ sessionsById = s)
      BY <2>1 DEF RemoveSession
  <2>3. RemovalsAfterClients'
      BY <2>1, <2>2, <1>1, <1>3 DEF RemovalsJustified, RemovalsAfterClients
  <2>4. RemovalsInTime'
      BY <2>1, <1>1, <1>4 DEF RemovalsJustified, RemovalsInTime, history
  <2>5. SoleUser(s) /\ ~destroyOnDisconnect[s] => now - lastUsed[s] >= sessionExpiryInterval[s]
    <3> SUFFICES ASSUME SoleUser(s), ~destroyOnDisconnect[s]
                 PROVE  now - lastUsed[s] >= sessionExpiryInterval[s]
        OBVIOUS
    <3>1. InUse(s)
        BY <1>1 DEF InUse, HasSession
    <3>2. ~GoneFrom(s)
        BY <3>1, <1>2, SoleUserGone
    <3>3. ~(removalQueuedAt[s] >= 0)
        BY <3>2, <1>2 DEF RemovalsJustified, RemovalsAfterClients
    <3>4. sessionExpiryInterval[s] = 0
        BY <3>3, <1>7 DEF GetDestroyOnDisconnect, ExpireNow
    <3> QED
        BY <3>4, <1>5, <1>6
  <2>6. NoneExpiresNow
      BY <2>2, <2>5 DEF NoneExpiresNow, Conns
  <2> QED
      BY <2>3, <2>4, <2>6 DEF RemovalsJustified
<1>8. CASE ~GetDestroyOnDisconnect(s)
  <2>1. /\ removalQueuedAt' = [removalQueuedAt EXCEPT ![s] = now]
        /\ queuedSessionRemovals' = queuedSessionRemovals \cup {entry}
        /\ UNCHANGED <<sessionsById, removing>>
      BY <1>8 DEF DisconnectSession
  <2>2. \A t \in Conns : removalQueuedAt'[t] >= 0 => t = s \/ removalQueuedAt[t] >= 0
      BY <2>1 DEF Sound, TypeOK, SessionType
  <2>3. entry.session = s /\ entry.at >= lastUsed[s] + sessionExpiryInterval[s]
      BY <1>5, <1>6
  <2> HIDE DEF entry
  <2>4. RemovalsAfterClients'
      BY <2>1, <2>2, <2>3, <1>1, <1>3 DEF RemovalsJustified, RemovalsAfterClients
  <2>5. \A q \in queuedSessionRemovals' : SoleUser(q.session)' =>
            q.at >= lastUsed'[q.session] + sessionExpiryInterval'[q.session]
      BY <2>1, <2>3, <1>1, <1>4 DEF RemovalsJustified, RemovalsInTime, history
  <2>6. RemovalsInTime'
      BY <2>5, <1>1, <1>4 DEF RemovalsJustified, RemovalsInTime, history
  <2>7. NoneExpiresNow
      BY <2>1 DEF NoneExpiresNow, Conns
  <2> QED
      BY <2>4, <2>6, <2>7 DEF RemovalsJustified
<1> QED
    BY <1>7, <1>8

LEMMA FinishRemovalJustified ==
    ASSUME Sound, Sound', RemovalsJustified, NEW r \in Conns, FinishRemoval(r)
    PROVE  RemovalsJustified' /\ NoneExpiresNow
<1>1. /\ UNCHANGED <<now, store, sessionExpiryInterval, removalQueuedAt, clients, toRemove, lastUsed>>
      /\ removing' \subseteq removing
    BY DEF FinishRemoval, ReadWillOfRemoved, SendWillOfRemoved, session, history
<1>2. now' >= now /\ \A s \in Conns : lastUsed'[s] <= now'
    BY <1>1, RegistryBounds DEF RemovalsJustified, RemovalsInTime, Sound, TypeOK
<1>3. NoneExpiresNow
    BY <1>1 DEF NoneExpiresNow, store, Conns
<1> QED
    BY <1>1, <1>2, <1>3, JustifiedKept DEF store, clients

LEMMA WillTimerJustified ==
    ASSUME Sound, Sound', RemovalsJustified, WillTimer
    PROVE  RemovalsJustified' /\ NoneExpiresNow
<1>1. UNCHANGED <<now, sessionsById, queuedSessionRemovals, sessionExpiryInterval, removalQueuedAt,
                  clients, toRemove, removing, lastUsed>>
    BY DEF WillTimer, PickDueWill, SendDueWill, session, store, history
<1>2. now' >= now /\ \A s \in Conns : lastUsed'[s] <= now'
    BY <1>1, RegistryBounds DEF RemovalsJustified, RemovalsInTime, Sound, TypeOK
<1>3. NoneExpiresNow
    BY <1>1 DEF NoneExpiresNow, Conns
<1> QED
    BY <1>1, <1>2, <1>3, JustifiedKept DEF clients

LEMMA CollectExpiredJustified ==
    ASSUME Sound, Sound', RemovalsJustified, CollectExpired
    PROVE  RemovalsJustified' /\ NoneExpiresNow
<1>1. /\ UNCHANGED <<now, sessionsById, session, clients, removing, history>>
      /\ queuedSessionRemovals' \subseteq queuedSessionRemovals
      /\ \A s \in toRemove' : s \in Conns /\
            \E q \in queuedSessionRemovals : q.at <= now /\ q.session = s
    BY DEF CollectExpired
<1>2. \A s : (GoneFrom(s) => GoneFrom(s)') /\ (SoleUser(s)' => SoleUser(s))
    BY <1>1 DEF GoneFrom, SoleUser, clients
<1>3. RemovalsAfterClients'
    BY <1>1, <1>2 DEF RemovalsJustified, RemovalsAfterClients, session
<1>4. \A s \in toRemove' : SoleUser(s)' => now' >= lastUsed'[s] + sessionExpiryInterval'[s]
  <2> SUFFICES ASSUME NEW s \in toRemove', SoleUser(s)'
               PROVE  now >= lastUsed[s] + sessionExpiryInterval[s]
      BY <1>1 DEF session, history
  <2>1. PICK q \in queuedSessionRemovals : q.at <= now /\ q.session = s
      BY <1>1
  <2>2. q.at >= lastUsed[s] + sessionExpiryInterval[s]
      BY <2>1, <1>2 DEF RemovalsJustified, RemovalsInTime
  <2>3. /\ q.at \in Int /\ now \in Int /\ lastUsed[s] \in Int /\ sessionExpiryInterval[s] \in Int
      BY <1>1, RegistryBounds DEF Sound, TypeOK, StoreType, SessionType, HistoryType, Interval
  <2> QED
      BY <2>1, <2>2, <2>3
<1>5. RemovalsInTime'
    BY <1>1, <1>2, <1>4 DEF RemovalsJustified, RemovalsInTime, session, history
<1>6. NoneExpiresNow
    BY <1>1 DEF NoneExpiresNow, Conns
<1> QED
    BY <1>3, <1>5, <1>6 DEF RemovalsJustified

LEMMA RemoveExpiredJustified ==
    ASSUME Sound, Sound', RemovalsJustified, NEW r \in Conns, RemoveExpired(r)
    PROVE  RemovalsJustified' /\ NoneExpiresNow
<1>1. /\ r \in toRemove /\ toRemove' = toRemove \ {r} /\ RemoveSession(r)
      /\ UNCHANGED <<now, pendingWillMessages, queuedSessionRemovals, session, clients, due, history>>
    BY DEF RemoveExpired
<1>2. removing' \subseteq removing \cup {r} /\ (sessionsById' = sessionsById \/ sessionsById = r)
    BY <1>1 DEF RemoveSession
<1>3. \A s : (GoneFrom(s) => GoneFrom(s)') /\ (SoleUser(s)' => SoleUser(s))
    BY <1>1 DEF GoneFrom, SoleUser, clients
<1>4. RemovalsAfterClients'
    BY <1>1, <1>2, <1>3 DEF RemovalsJustified, RemovalsAfterClients, session
<1>5. RemovalsInTime'
    BY <1>1, <1>3 DEF RemovalsJustified, RemovalsInTime, session, history
<1>6. SoleUser(r) => now - lastUsed[r] >= sessionExpiryInterval[r]
  <2>1. now \in Int /\ lastUsed[r] \in Int /\ sessionExpiryInterval[r] \in Int
      BY RegistryBounds DEF Sound, TypeOK, SessionType, HistoryType, Interval
  <2>2. SoleUser(r) => now >= lastUsed[r] + sessionExpiryInterval[r]
      BY <1>1 DEF RemovalsJustified, RemovalsInTime
  <2> QED
      BY <2>1, <2>2
<1>7. NoneExpiresNow
    BY <1>2, <1>6 DEF NoneExpiresNow, Conns
<1> QED
    BY <1>4, <1>5, <1>7 DEF RemovalsJustified

LEMMA TickJustified ==
    ASSUME Sound, Sound', RemovalsJustified, Tick
    PROVE  RemovalsJustified' /\ NoneExpiresNow
<1>1. now' = now + 1 /\ UNCHANGED <<store, session, clients, tasks, history>>
    BY DEF Tick
<1>2. /\ now' >= now /\ now \in Int
      /\ \A s \in Conns : lastUsed[s] \in Int
    BY <1>1, RegistryBounds DEF Sound, TypeOK, HistoryType
<1>3. \A s \in Conns : lastUsed'[s] <= now'
    BY <1>1, <1>2 DEF RemovalsJustified, RemovalsInTime, history
<1>4. NoneExpiresNow
    BY <1>1 DEF NoneExpiresNow, store, Conns
<1> QED
    BY <1>1, <1>2, <1>3, <1>4, JustifiedKept DEF store, session, clients, tasks, history

LEMMA UnchangedJustified ==
    ASSUME Sound, Sound', RemovalsJustified, UNCHANGED vars
    PROVE  RemovalsJustified' /\ NoneExpiresNow
<1>1. now' >= now /\ \A s \in Conns : lastUsed'[s] <= now'
    BY RegistryBounds DEF RemovalsJustified, RemovalsInTime, Sound, TypeOK, vars, history
<1>2. NoneExpiresNow
    BY DEF NoneExpiresNow, vars, store, Conns
<1> QED
    BY <1>1, <1>2, JustifiedKept DEF vars, store, session, clients, tasks, history

LEMMA StepJustified ==
    Sound /\ Sound' /\ RemovalsJustified /\ [Next]_vars => RemovalsJustified' /\ NoneExpiresNow
<1> SUFFICES ASSUME Sound, Sound', RemovalsJustified, [Next]_vars
             PROVE  RemovalsJustified' /\ NoneExpiresNow
    OBVIOUS
<1>1. CASE \E k \in Conns : HandleConnect(k) \/ ConnectStep(k) \/ HandleDisconnect(k)
                              \/ Close(k) \/ DisconnectStep(k)
    BY <1>1, HandleConnectJustified, RegisterJustified, AssignJustified, SetPropertiesJustified,
       HandleDisconnectJustified, CloseJustified, DisconnectWillJustified,
       DisconnectSessionJustified DEF ConnectStep, DisconnectStep
<1>2. CASE Finished \/ UNCHANGED vars
    BY <1>2, UnchangedJustified DEF Finished
<1>3. CASE RemovalTimer
    BY <1>3, CollectExpiredJustified, RemoveExpiredJustified DEF RemovalTimer
<1> QED
    BY <1>1, <1>2, <1>3, FinishRemovalJustified, WillTimerJustified, TickJustified DEF Next

(* NotExpiredEarly: removeExpiredSessionsClients (subscriptionstore.cpp:1311)*)
(* does not remove a session that only one connection ever had before its    *)
(* interval is over, under every interleaving: a removal is queued only when *)
(* a client is gone (RemovalsAfterClients), for the time when the interval   *)
(* is over (RemovalsInTime).                                                 *)
THEOREM NoneExpiresEarly == Spec => NotExpiredEarly
<1>1. Sound /\ Sound' /\ RemovalsJustified /\ [Next]_vars => [NoneExpiresNow]_vars
    BY StepJustified
<1>2. [][NoneExpiresNow]_vars <=> NotExpiredEarly
    BY PTL DEF NoneExpiresNow, NotExpiredEarly
<1> QED
    BY <1>1, <1>2, InitSound, StepSound, InitJustified, StepJustified, WillsBelongToUnfinished, PTL
       DEF Spec

-----------------------------------------------------------------------------
(* One worker thread                                                         *)

Underway(k) == stage[k] \in {"connecting", "registered", "assigned", "willdone"}

\* One handler or task is in progress, of one connection or of a timer.
OneAtATime ==
    /\ \A j, k \in Conns : Underway(j) /\ Underway(k) => j = k
    /\ (\E k \in Conns : Underway(k)) => due = NothingDue /\ toRemove = {} /\ removing = {}
    /\ due # NothingDue => toRemove = {} /\ removing = {}

\* A step of the connection k begins.
LEMMA BeginsAlone ==
    ASSUME SingleThread, ThreadFree, NEW k \in Conns,
           \A j \in Conns : j # k => stage'[j] = stage[j], UNCHANGED tasks
    PROVE  OneAtATime'
<1>1. /\ due = NothingDue /\ toRemove = {} /\ removing = {}
      /\ \A j \in Conns : ~Underway(j)
    BY DEF ThreadFree, Busy, Underway
<1> QED
    BY <1>1 DEF OneAtATime, Underway, tasks

\* A handler of the connection k goes on.
LEMMA GoesOnAlone ==
    ASSUME OneAtATime, NEW k \in Conns, Underway(k),
           \A j \in Conns : j # k => stage'[j] = stage[j], UNCHANGED tasks
    PROVE  OneAtATime'
  BY DEF OneAtATime, Underway, tasks

LEMMA StepOneAtATime ==
    ASSUME SingleThread, Sound, OneAtATime, [Next]_vars
    PROVE  OneAtATime'
<1>0. \A k \in Conns : \A v : stage' = [stage EXCEPT ![k] = v]
                                  => \A j \in Conns : j # k => stage'[j] = stage[j]
    BY DEF Sound, TypeOK, ClientsType
<1>1. ASSUME NEW k \in Conns, HandleConnect(k) \/ HandleDisconnect(k) \/ Close(k) \/ DisconnectWill(k)
      PROVE  OneAtATime'
  <2>1. ThreadFree /\ UNCHANGED tasks /\ \E v : stage' = [stage EXCEPT ![k] = v]
      BY <1>1 DEF HandleConnect, HandleDisconnect, Close, DisconnectWill
  <2> QED
      BY <2>1, <1>0, BeginsAlone
<1>2. ASSUME NEW k \in Conns, ConnectStep(k)
      PROVE  OneAtATime'
  <2>1. Underway(k) /\ UNCHANGED tasks /\ \E v : stage' = [stage EXCEPT ![k] = v]
      BY <1>2 DEF ConnectStep, RegisterClientAndKickExistingOne, AssignActiveConnection,
         SetSessionProperties, Underway
  <2> QED
      BY <2>1, <1>0, GoesOnAlone
<1>3. ASSUME NEW k \in Conns, DisconnectSession(k)
      PROVE  OneAtATime'
  <2>1. stage[k] = "willdone" /\ stage' = [stage EXCEPT ![k] = "gone"] /\ UNCHANGED <<due, toRemove>>
      BY <1>3 DEF DisconnectSession
  <2>2. due = NothingDue /\ toRemove = {} /\ \A j \in Conns : Underway(j) => j = k
      BY <2>1 DEF OneAtATime, Underway
  <2>3. stage'[k] = "gone"
      BY <2>1 DEF Sound, TypeOK, ClientsType
  <2>4. \A j \in Conns : ~Underway(j)'
      BY <2>1, <2>2, <2>3, <1>0 DEF Underway
  <2> QED
      BY <2>1, <2>2, <2>4 DEF OneAtATime
<1>4. ASSUME NEW s \in Conns, FinishRemoval(s) \/ RemoveExpired(s)
      PROVE  OneAtATime'
  <2>1. UNCHANGED <<stage, due>> /\ (toRemove # {} \/ removing # {})
      BY <1>4 DEF FinishRemoval, ReadWillOfRemoved, SendWillOfRemoved, RemoveExpired, clients
  <2> QED
      BY <2>1 DEF OneAtATime, Underway
<1>5. CASE PickDueWill \/ CollectExpired
  <2>1. ThreadFree /\ UNCHANGED <<stage, removing>>
          /\ (UNCHANGED due \/ UNCHANGED toRemove)
      BY <1>5 DEF PickDueWill, CollectExpired, clients
  <2>2. /\ due = NothingDue /\ toRemove = {} /\ removing = {}
        /\ \A j \in Conns : ~Underway(j)
      BY <2>1 DEF ThreadFree, Busy, Underway
  <2> QED
      BY <2>1, <2>2 DEF OneAtATime, Underway
<1>6. CASE SendDueWill
  <2>1. due' = NothingDue /\ UNCHANGED <<stage, toRemove, removing>>
      BY <1>6 DEF SendDueWill, clients
  <2> QED
      BY <2>1 DEF OneAtATime, Underway
<1>7. CASE Tick \/ Finished \/ UNCHANGED vars
  <2>1. UNCHANGED <<stage, tasks>>
      BY <1>7 DEF Tick, Finished, vars, clients
  <2> QED
      BY <2>1 DEF OneAtATime, Underway, tasks
<1> QED
    BY <1>1, <1>2, <1>3, <1>4, <1>5, <1>6, <1>7 DEF Next, DisconnectStep, WillTimer, RemovalTimer

LEMMA InitOneAtATime == Init => OneAtATime
  BY DEF Init, OneAtATime, Underway

\* A session's client is the last one that was assigned to it.
Connecting(k) == stage[k] \in {"connecting", "registered", "assigned"}

LastIsClient ==
    /\ \A k \in Conns : Connecting(k) => \A j \in Conns : j > k => stage[j] = "unused"
    /\ \A s, j \in Conns :
          client[s] # 0 /\ connSession[j] = s /\ stage[j] # "registered" => j <= client[s]

\* The will that is about to be sent is still the one of its session.
DueIsLast ==
    due # NothingDue => due.session = connSession[due.will] /\ willPublish[due.session] = due.will

\* So is the will that removeSession read.
RemovedIsLast ==
    \A s \in Conns : removedWill[s] # 0 => s \in removing /\ willPublish[s] = removedWill[s]

InOrder == LastIsClient /\ DueIsLast /\ RemovedIsLast

LEMMA InitInOrder == Init => InOrder
  BY DEF Init, InOrder, LastIsClient, DueIsLast, RemovedIsLast, Connecting

LEMMA StepLastIsClient ==
    ASSUME SingleThread, IInv, Sound, OneAtATime, LastIsClient, [Next]_vars
    PROVE  LastIsClient'
<1>0. \A k \in Conns : \A v : stage' = [stage EXCEPT ![k] = v]
                                  => \A j \in Conns : j # k => stage'[j] = stage[j]
    BY DEF Sound, TypeOK, ClientsType
<1>1. ASSUME NEW k \in Conns, HandleConnect(k)
      PROVE  LastIsClient'
  <2>1. /\ stage[k] = "unused" /\ stage' = [stage EXCEPT ![k] = "connecting"]
        /\ UNCHANGED <<client, connSession>> /\ ThreadFree
      BY <1>1 DEF HandleConnect, session
  <2>2. stage'[k] = "connecting" /\ \A j \in Conns : j # k => stage'[j] = stage[j]
      BY <2>1, <1>0 DEF Sound, TypeOK, ClientsType
  <2>3. \A j \in Conns : ~Connecting(j)
      BY <2>1 DEF ThreadFree, Busy, Connecting
  <2>4. \A j \in Conns : j > k => stage[j] = "unused"
      BY <2>1 DEF Sound, BegunInOrder, Conns
  <2>5. connSession[k] = 0
      BY <2>1 DEF Sound, Placed, HasSession
  <2>6. \A j, i \in Conns : Connecting(j)' /\ i > j => stage'[i] = "unused"
      BY <2>2, <2>3, <2>4 DEF Connecting, Conns
  <2>7. \A s, j \in Conns :
            client'[s] # 0 /\ connSession'[j] = s /\ stage'[j] # "registered" => j <= client'[s]
      BY <2>1, <2>2, <2>5 DEF LastIsClient, Conns
  <2> QED
      BY <2>6, <2>7 DEF LastIsClient
<1>2. ASSUME NEW k \in Conns, RegisterClientAndKickExistingOne(k)
      PROVE  LastIsClient'
  <2>1. /\ stage[k] = "connecting" /\ stage' = [stage EXCEPT ![k] = "registered"]
        /\ UNCHANGED client /\ \E v : connSession' = [connSession EXCEPT ![k] = v]
      BY <1>2 DEF RegisterClientAndKickExistingOne, session
  <2>2. /\ stage'[k] = "registered"
        /\ \A j \in Conns : j # k => stage'[j] = stage[j] /\ connSession'[j] = connSession[j]
      BY <2>1, <1>0 DEF Sound, TypeOK, ClientsType
  <2> QED
      BY <2>1, <2>2 DEF LastIsClient, Connecting
<1>3. ASSUME NEW k \in Conns, AssignActiveConnection(k)
      PROVE  LastIsClient'
  <2>1. /\ stage[k] = "registered" /\ stage' = [stage EXCEPT ![k] = "assigned"]
        /\ client' = [client EXCEPT ![connSession[k]] = k] /\ UNCHANGED connSession
      BY <1>3 DEF AssignActiveConnection
  <2>2. connSession[k] \in Conns
      BY <2>1 DEF Sound, Placed, HasSession
  <2>3. /\ client'[connSession[k]] = k
        /\ \A s \in Conns : s # connSession[k] => client'[s] = client[s]
      BY <2>1, <2>2 DEF Sound, TypeOK, SessionType
  <2>4. stage'[k] = "assigned" /\ \A j \in Conns : j # k => stage'[j] = stage[j]
      BY <2>1, <1>0 DEF Sound, TypeOK, ClientsType
  <2>5. \A j \in Conns : j > k => stage[j] = "unused" /\ connSession[j] = 0
      BY <2>1 DEF LastIsClient, Connecting, Sound, Placed, HasSession
  <2>6. \A j, i \in Conns : Connecting(j)' /\ i > j => stage'[i] = "unused"
      BY <2>1, <2>4, <2>5 DEF LastIsClient, Connecting, Conns
  <2>7. \A s, j \in Conns :
            client'[s] # 0 /\ connSession'[j] = s /\ stage'[j] # "registered" => j <= client'[s]
    <3> SUFFICES ASSUME NEW s \in Conns, NEW j \in Conns, client'[s] # 0, connSession'[j] = s,
                        stage'[j] # "registered"
                 PROVE  j <= client'[s]
        OBVIOUS
    <3>1. CASE s = connSession[k]
        BY <3>1, <2>1, <2>3, <2>5 DEF Conns
    <3>2. CASE s # connSession[k]
        BY <3>2, <2>1, <2>3, <2>4 DEF LastIsClient
    <3> QED
        BY <3>1, <3>2
  <2> QED
      BY <2>6, <2>7 DEF LastIsClient
<1>4. ASSUME UNCHANGED <<client, connSession>>,
             \A j \in Conns : stage'[j] = stage[j] \/ (~Connecting(j)' /\ stage[j] # "unused"
                                                          /\ stage[j] # "registered")
      PROVE  LastIsClient'
  <2>1. \A j \in Conns : (Connecting(j)' => Connecting(j)) /\ (stage[j] = "unused" => stage'[j] = "unused")
      BY <1>4 DEF Connecting
  <2> QED
      BY <2>1, <1>4 DEF LastIsClient
<1>5. ASSUME NEW k \in Conns, SetSessionProperties(k) \/ HandleDisconnect(k) \/ Close(k) \/ DisconnectStep(k)
      PROVE  LastIsClient'
  <2>1. /\ stage[k] # "unused" /\ stage[k] # "registered" /\ UNCHANGED <<client, connSession>>
        /\ \E v \in {"live", "leaving", "closed", "willdone", "gone"} : stage' = [stage EXCEPT ![k] = v]
      BY <1>5 DEF SetSessionProperties, HandleDisconnect, Close, DisconnectStep, DisconnectWill,
         DisconnectSession, session
  <2>2. ~Connecting(k)' /\ \A j \in Conns : j # k => stage'[j] = stage[j]
      BY <2>1, <1>0 DEF Sound, TypeOK, ClientsType, Connecting
  <2> QED
      BY <2>1, <2>2, <1>4
<1>6. CASE \/ \E s \in Conns : FinishRemoval(s)
           \/ WillTimer \/ RemovalTimer \/ Tick \/ Finished \/ UNCHANGED vars
  <2>1. UNCHANGED <<client, connSession, stage>>
      BY <1>6 DEF FinishRemoval, ReadWillOfRemoved, SendWillOfRemoved, WillTimer, PickDueWill,
          SendDueWill, RemovalTimer, CollectExpired,
         RemoveExpired, Tick, Finished, vars, clients, session
  <2> QED
      BY <2>1, <1>4
<1> QED
    BY <1>1, <1>2, <1>3, <1>5, <1>6 DEF Next, ConnectStep

LEMMA StepDueIsLast ==
    ASSUME SingleThread, IInv, Sound, OneAtATime, InOrder, [Next]_vars
    PROVE  DueIsLast'
<1>1. ASSUME UNCHANGED <<connSession, willPublish, due>>
      PROVE  DueIsLast'
    BY <1>1 DEF InOrder, DueIsLast
<1>2. ASSUME due' = NothingDue
      PROVE  DueIsLast'
    BY <1>2 DEF DueIsLast
<1>3. ASSUME NEW k \in Conns, HandleConnect(k) \/ Close(k) \/ SetSessionProperties(k) \/ DisconnectSession(k)
      PROVE  DueIsLast'
    BY <1>1, <1>3 DEF HandleConnect, Close, SetSessionProperties, DisconnectSession, session, tasks
<1>4. ASSUME NEW k \in Conns, RegisterClientAndKickExistingOne(k) \/ AssignActiveConnection(k)
      PROVE  DueIsLast'
  <2>1. Underway(k) /\ UNCHANGED due
      BY <1>4 DEF RegisterClientAndKickExistingOne, AssignActiveConnection, Underway, tasks
  <2> QED
      BY <2>1, <1>2 DEF OneAtATime
<1>5. ASSUME NEW k \in Conns, HandleDisconnect(k) \/ DisconnectWill(k)
      PROVE  DueIsLast'
  <2>1. ThreadFree /\ UNCHANGED due
      BY <1>5 DEF HandleDisconnect, DisconnectWill, tasks
  <2> QED
      BY <2>1, <1>2 DEF ThreadFree, Busy
<1>6. ASSUME NEW s \in Conns, FinishRemoval(s)
      PROVE  DueIsLast'
  <2>1. removing # {} /\ UNCHANGED due
      BY <1>6 DEF FinishRemoval, ReadWillOfRemoved, SendWillOfRemoved
  <2> QED
      BY <2>1, <1>2 DEF OneAtATime
<1>7. CASE PickDueWill
  <2>1. PICK p \in pendingWillMessages :
            due' = IF WillStillWanted(p) THEN [will |-> p.will, session |-> p.session] ELSE NothingDue
      BY <1>7 DEF PickDueWill
  <2>2. UNCHANGED <<connSession, willPublish>> /\ due = NothingDue /\ ~Busy
      BY <1>7 DEF PickDueWill, session, clients, ThreadFree
  <2>3. p.will \in Conns /\ stage[p.will] \in Ended /\ p.session = connSession[p.will]
      BY DEF IInv, WillTypes, QueuedWills, Sound, WillsPlaced
  <2>4. ASSUME WillStillWanted(p)
        PROVE  willPublish[p.session] = p.will
    <3>1. ~clientWill[p.will]
        BY <2>2, <2>3 DEF Busy, Ended, Sound, WillsPlaced
    <3>2. due.will # p.will
        BY <2>2, <2>3 DEF NothingDue, Conns
    <3>5. \A s \in Conns : removedWill[s] # p.will
        BY <2>2, <2>3 DEF Busy, InOrder, RemovedIsLast, Conns
    <3>3. PICK s \in Conns : willPublish[s] = p.will
        BY <2>4, <3>1, <3>2, <3>5 DEF WillStillWanted, WillAlive
    <3>4. connSession[p.will] = s
        BY <3>3, <2>3 DEF IInv, SessionWills
    <3> QED
        BY <3>3, <3>4, <2>3
  <2>5. CASE WillStillWanted(p)
      BY <2>1, <2>2, <2>3, <2>4, <2>5 DEF DueIsLast
  <2>6. CASE ~WillStillWanted(p)
      BY <2>1, <2>6, <1>2
  <2> QED
      BY <2>5, <2>6
<1>8. CASE SendDueWill
    BY <1>8, <1>2 DEF SendDueWill
<1>9. CASE RemovalTimer \/ Tick \/ Finished \/ UNCHANGED vars
    BY <1>9, <1>1 DEF RemovalTimer, CollectExpired, RemoveExpired, Tick, Finished, vars, clients,
       session, tasks
<1> QED
    BY <1>3, <1>4, <1>5, <1>6, <1>7, <1>8, <1>9 DEF Next, ConnectStep, DisconnectStep, WillTimer

LEMMA StepRemovedIsLast ==
    ASSUME SingleThread, Sound, OneAtATime, InOrder, [Next]_vars
    PROVE  RemovedIsLast'
<1>1. ASSUME UNCHANGED <<removedWill, willPublish>>, removing \subseteq removing'
      PROVE  RemovedIsLast'
    BY <1>1 DEF InOrder, RemovedIsLast
<1>2. ASSUME removing = {}, UNCHANGED removedWill
      PROVE  RemovedIsLast'
    BY <1>2 DEF InOrder, RemovedIsLast
<1>3. ASSUME NEW k \in Conns, HandleConnect(k) \/ Close(k) \/ SetSessionProperties(k)
                                \/ DisconnectSession(k) \/ RegisterClientAndKickExistingOne(k)
      PROVE  RemovedIsLast'
    BY <1>1, <1>3 DEF HandleConnect, Close, SetSessionProperties, DisconnectSession, RemoveSession,
       RegisterClientAndKickExistingOne, session, tasks
<1>4. ASSUME NEW k \in Conns, AssignActiveConnection(k)
      PROVE  RemovedIsLast'
  <2>1. Underway(k) /\ UNCHANGED removedWill
      BY <1>4 DEF AssignActiveConnection, Underway, tasks
  <2> QED
      BY <2>1, <1>2 DEF OneAtATime
<1>5. ASSUME NEW k \in Conns, HandleDisconnect(k) \/ DisconnectWill(k)
      PROVE  RemovedIsLast'
  <2>1. ThreadFree /\ UNCHANGED removedWill
      BY <1>5 DEF HandleDisconnect, DisconnectWill, tasks
  <2> QED
      BY <2>1, <1>2 DEF ThreadFree, Busy
<1>6. ASSUME NEW s \in Conns, ReadWillOfRemoved(s)
      PROVE  RemovedIsLast'
  <2>1. /\ s \in removing /\ UNCHANGED willPublish
        /\ removedWill' = [removedWill EXCEPT ![s] = willPublish[s]]
        /\ removing' = IF willPublish[s] = 0 THEN removing \ {s} ELSE removing
      BY <1>6 DEF ReadWillOfRemoved, session
  <2>2. removedWill'[s] = willPublish[s] /\ \A t \in Conns : t # s => removedWill'[t] = removedWill[t]
      BY <2>1 DEF Sound, TypeOK, TasksType
  <2> QED
      BY <2>1, <2>2 DEF InOrder, RemovedIsLast
<1>7. ASSUME NEW s \in Conns, SendWillOfRemoved(s)
      PROVE  RemovedIsLast'
  <2>1. /\ removing' = removing \ {s} /\ removedWill' = [removedWill EXCEPT ![s] = 0]
        /\ willPublish' = [willPublish EXCEPT ![s] = 0]
      BY <1>7 DEF SendWillOfRemoved, SendWill
  <2>2. removedWill'[s] = 0 /\ \A t \in Conns : t # s => removedWill'[t] = removedWill[t]
                                                       /\ willPublish'[t] = willPublish[t]
      BY <2>1 DEF Sound, TypeOK, TasksType, SessionType
  <2> QED
      BY <2>1, <2>2 DEF InOrder, RemovedIsLast
<1>8. CASE SendDueWill
    BY <1>8, <1>2 DEF SendDueWill, OneAtATime
<1>9. CASE PickDueWill \/ RemovalTimer \/ Tick \/ Finished \/ UNCHANGED vars
    BY <1>9, <1>1 DEF PickDueWill, RemovalTimer, CollectExpired, RemoveExpired, RemoveSession, Tick,
       Finished, vars, session, tasks
<1> QED
    BY <1>3, <1>4, <1>5, <1>6, <1>7, <1>8, <1>9
       DEF Next, ConnectStep, DisconnectStep, FinishRemoval, WillTimer

\* What a step may not do to the will of a client that left or whose session
\* was resumed.
UnwantedStayUnsent ==
    \A k \in Conns : willsSent'[k] > willsSent[k] =>
        /\ ~left[k]
        /\ profile[k].will > 0 => ~Resumed(k)

LEMMA SendWillIsSent ==
    ASSUME Sound, NEW w, NEW s, SendWill(w, s), NEW k \in Conns, k # w
    PROVE  willsSent'[k] = willsSent[k]
  BY DEF SendWill, Sound, TypeOK, HistoryType

LEMMA LastIsNotResumed ==
    ASSUME Sound, LastIsClient, NEW k \in Conns, NEW s \in Conns, willPublish[s] = k
    PROVE  ~Resumed(k)
<1>1. client[s] = k /\ k # 0 /\ connSession[k] = s
    BY DEF Sound, WillsPlaced, Placed, Conns
<1>2. \A j \in Conns : connSession[j] = s /\ stage[j] # "registered" => j <= k
    BY <1>1 DEF LastIsClient
<1> QED
    BY <1>1, <1>2 DEF Resumed, Conns

LEMMA StepUnwanted ==
    ASSUME SingleThread, IInv, Sound, OneAtATime, InOrder, [Next]_vars
    PROVE  UnwantedStayUnsent
<1>1. \A n \in Nat : ~(n > n)
    OBVIOUS
<1>2. willsSent \in [Conns -> Nat]
    BY DEF Sound, TypeOK, HistoryType
<1>3. ASSUME UNCHANGED willsSent
      PROVE  UnwantedStayUnsent
    BY <1>1, <1>2, <1>3 DEF UnwantedStayUnsent
<1>4. ASSUME NEW w \in Conns, NEW s, SendWill(w, s), ~left[w],
             ~Resumed(w) \/ ~(profile[w].will > 0)
      PROVE  UnwantedStayUnsent
    BY <1>1, <1>2, <1>4, SendWillIsSent DEF UnwantedStayUnsent
<1>5. ASSUME NEW k \in Conns, DisconnectWill(k)
      PROVE  UnwantedStayUnsent
  <2>1. CASE UNCHANGED willsSent
      BY <2>1, <1>3
  <2>2. CASE clientWill[k] /\ profile[k].will = 0 /\ SendWill(k, connSession[k])
      BY <2>2, <1>4 DEF IInv, LeftWithoutWill
  <2> QED
      BY <2>1, <2>2, <1>5 DEF DisconnectWill
<1>6. ASSUME NEW s \in Conns, FinishRemoval(s)
      PROVE  UnwantedStayUnsent
  <2>1. CASE UNCHANGED willsSent
      BY <2>1, <1>3
  <2>2. CASE SendWillOfRemoved(s)
    <3>1. willPublish[s] \in Conns /\ SendWill(willPublish[s], s)
        BY <2>2, RegistryBounds DEF SendWillOfRemoved, InOrder, RemovedIsLast, Sound, TypeOK,
           SessionType, Conns
    <3>2. ~Resumed(willPublish[s]) /\ ~left[willPublish[s]]
        BY <3>1, LastIsNotResumed DEF InOrder, IInv, SessionWills
    <3> QED
        BY <3>1, <3>2, <1>4
  <2> QED
      BY <2>1, <2>2, <1>6 DEF FinishRemoval, ReadWillOfRemoved, history
<1>7. CASE SendDueWill
  <2>1. due # NothingDue /\ SendWill(due.will, due.session)
      BY <1>7 DEF SendDueWill
  <2>2. due.will \in Conns /\ stage[due.will] \in Ended /\ ~left[due.will]
      BY <2>1 DEF IInv, DueWill
  <2>3. due.session \in Conns /\ willPublish[due.session] = due.will
      BY <2>1, <2>2 DEF InOrder, DueIsLast, Sound, Placed, HasSession, Ended
  <2>4. ~Resumed(due.will)
      BY <2>2, <2>3, LastIsNotResumed DEF InOrder
  <2> QED
      BY <2>1, <2>2, <2>4, <1>4
<1>8. CASE UNCHANGED willsSent
    BY <1>8, <1>3
<1>9. \/ UNCHANGED willsSent \/ SendDueWill \/ \E s \in Conns : FinishRemoval(s)
      \/ \E k \in Conns : DisconnectWill(k)
    BY DEF Next, ConnectStep, DisconnectStep, WillTimer, PickDueWill, RemovalTimer, CollectExpired,
       RemoveExpired, Tick, Finished, vars, history, HandleConnect, HandleDisconnect, Close,
       DisconnectSession, RegisterClientAndKickExistingOne, AssignActiveConnection,
       SetSessionProperties
<1> QED
    BY <1>5, <1>6, <1>7, <1>8, <1>9

(* With one worker thread a handler or a timed task runs to its end before   *)
(* the next, so a session's client is the last that was assigned to it and   *)
(* the will that sendQueuedWillMessages is about to send                     *)
(* (subscriptionstore.cpp:434), or removeSession (:1266), is still the one   *)
(* in the session.                                                           *)
THEOREM OneThreadInOrder ==
    ASSUME SingleThread
    PROVE  Spec => [](OneAtATime /\ InOrder)
<1>1. IInv /\ Sound /\ OneAtATime /\ InOrder /\ [Next]_vars => OneAtATime' /\ InOrder'
    BY StepOneAtATime, StepLastIsClient, StepDueIsLast, StepRemovedIsLast DEF InOrder
<1> QED
    BY <1>1, InitSound, StepSound, InitOneAtATime, InitInOrder, WillsBelongToUnfinished, PTL DEF Spec

(* NoUnwantedWill: with one worker thread no will is published after         *)
(* DISCONNECT, as clearWill (client.cpp:1217) reaches every place that leads *)
(* to it and no removal is between its read and its send; and the delayed    *)
(* will of a client whose session was resumed is not sent, neither by the    *)
(* timer (subscriptionstore.cpp:434) nor when the session is removed,        *)
(* because assignActiveConnection overwrote it.                              *)
THEOREM UnwantedWillsAreNotSent ==
    ASSUME SingleThread
    PROVE  Spec => NoUnwantedWill
<1>1. IInv /\ Sound /\ OneAtATime /\ InOrder /\ [Next]_vars => [UnwantedStayUnsent]_vars
    BY StepUnwanted
<1>2. [][UnwantedStayUnsent]_vars <=> NoUnwantedWill
    BY PTL DEF UnwantedStayUnsent, NoUnwantedWill
<1> QED
    BY <1>1, <1>2, InitSound, StepSound, OneThreadInOrder, WillsBelongToUnfinished, PTL DEF Spec

\* The will of a client whose session nobody resumed was published once, when
\* the client was gone, and is no longer in its session.
SentOnce ==
    \A k \in Conns : willsSent[k] > 0 =>
        /\ stage[k] \notin Begun
        /\ SoleUser(k) => /\ willsSent[k] = 1 /\ stage[k] \in Ended
                          /\ willPublish[connSession[k]] # k

LEMMA InitSentOnce == Init => SentOnce
  BY DEF Init, SentOnce

\* A connection that has its session had no more company before the step.
LEMMA SoleUserBefore ==
    ASSUME IInv, Sound, [Next]_vars, NEW k \in Conns, stage[k] \notin Begun
    PROVE  connSession'[k] = connSession[k] /\ (SoleUser(k)' => SoleUser(k))
<1>1. connSession[k] \in Conns /\ connSession[k] # 0
    BY DEF Sound, Placed, HasSession, Begun, Conns
<1>2. CASE UNCHANGED connSession
    BY <1>2 DEF SoleUser
<1>3. ASSUME NEW i \in Conns, RegisterClientAndKickExistingOne(i)
      PROVE  connSession'[k] = connSession[k] /\ (SoleUser(k)' => SoleUser(k))
  <2>1. stage[i] = "connecting" /\ \E v : connSession' = [connSession EXCEPT ![i] = v]
      BY <1>3 DEF RegisterClientAndKickExistingOne
  <2>2. i # k /\ connSession[i] = 0 /\ \A j \in Conns : j # i => connSession'[j] = connSession[j]
      BY <2>1 DEF Begun, Sound, TypeOK, ClientsType, Placed, HasSession
  <2> QED
      BY <2>2, <1>1 DEF SoleUser
<1>4. UNCHANGED connSession \/ \E i \in Conns : RegisterClientAndKickExistingOne(i)
    BY DEF Next, ConnectStep, DisconnectStep, WillTimer, PickDueWill, SendDueWill, RemovalTimer,
       CollectExpired, RemoveExpired, FinishRemoval, ReadWillOfRemoved, SendWillOfRemoved,
       Tick, Finished, vars, clients,
       HandleConnect, HandleDisconnect, Close, DisconnectWill, DisconnectSession,
       AssignActiveConnection, SetSessionProperties
<1> QED
    BY <1>2, <1>3, <1>4

\* A step that publishes no will and puts none into a session.
LEMMA SentOnceKept ==
    ASSUME IInv, Sound, SentOnce, [Next]_vars, UNCHANGED willsSent, StagesGoOn,
           \A s, j \in Conns : willPublish'[s] = j => willPublish[s] = j
    PROVE  SentOnce'
<1> SUFFICES ASSUME NEW k \in Conns, willsSent'[k] > 0
             PROVE  /\ stage'[k] \notin Begun
                    /\ SoleUser(k)' => /\ willsSent'[k] = 1 /\ stage'[k] \in Ended
                                       /\ willPublish'[connSession'[k]] # k
    BY DEF SentOnce
<1>1. stage[k] \notin Begun /\ connSession[k] \in Conns
    BY DEF SentOnce, Sound, Placed, HasSession, Begun
<1>2. connSession'[k] = connSession[k] /\ (SoleUser(k)' => SoleUser(k))
    BY <1>1, SoleUserBefore
<1> QED
    BY <1>1, <1>2 DEF SentOnce, StagesGoOn

\* A step that publishes the will of w, for the first time if it is alone.
LEMMA SentOnceSent ==
    ASSUME IInv, Sound, SentOnce, [Next]_vars, NEW w \in Conns, StagesGoOn,
           SendWill(w, connSession[w]), stage'[w] \notin Begun, stage[w] \notin Begun,
           SoleUser(w) => willsSent[w] = 0 /\ stage'[w] \in Ended
    PROVE  SentOnce'
<1>1. willsSent \in [Conns -> Nat] /\ willPublish \in [Conns -> 0..MaxConns]
    BY DEF Sound, TypeOK, HistoryType, SessionType
<1>2. willsSent'[w] = willsSent[w] + 1 /\ \A j \in Conns : j # w => willsSent'[j] = willsSent[j]
    BY <1>1 DEF SendWill
<1>3. connSession[w] \in Conns
    BY DEF Sound, Placed, HasSession, Begun
<1>4. willPublish'[connSession[w]] = 0 /\ \A s, j \in Conns : willPublish'[s] = j => willPublish[s] = j
    BY <1>1, <1>3, SendWillSound DEF SendWill
<1> SUFFICES ASSUME NEW k \in Conns, willsSent'[k] > 0
             PROVE  /\ stage'[k] \notin Begun
                    /\ SoleUser(k)' => /\ willsSent'[k] = 1 /\ stage'[k] \in Ended
                                       /\ willPublish'[connSession'[k]] # k
    BY DEF SentOnce
<1>5. CASE k = w
  <2>1. connSession'[w] = connSession[w] /\ (SoleUser(w)' => SoleUser(w))
      BY SoleUserBefore
  <2>2. 0 # w
      BY DEF Conns
  <2> QED
      BY <1>2, <1>4, <1>5, <2>1, <2>2
<1>6. CASE k # w
  <2>1. stage[k] \notin Begun /\ connSession[k] \in Conns
      BY <1>2, <1>6 DEF SentOnce, Sound, Placed, HasSession, Begun
  <2>2. connSession'[k] = connSession[k] /\ (SoleUser(k)' => SoleUser(k))
      BY <2>1, SoleUserBefore
  <2> QED
      BY <1>2, <1>4, <1>6, <2>1, <2>2 DEF SentOnce, StagesGoOn
<1> QED
    BY <1>5, <1>6

\* A will that is in its session was not published, if the client is alone.
LEMMA UnsentInSession ==
    ASSUME Sound, SentOnce, NEW w \in Conns, willPublish[connSession[w]] = w, SoleUser(w)
    PROVE  willsSent[w] = 0
  BY DEF SentOnce, Sound, TypeOK, HistoryType

LEMMA StepStagesGoOn ==
    ASSUME IInv, [Next]_vars
    PROVE  StagesGoOn
<1>1. IInv'
    BY StepKeeps
<1>2. ASSUME NEW k \in Conns, NEW v, stage' = [stage EXCEPT ![k] = v],
             stage[k] \in Begun \/ v \in Ended \/ (v \notin Begun /\ stage[k] \notin Ended)
      PROVE  \A j \in Conns : /\ stage[j] \notin Begun => stage'[j] \notin Begun
                              /\ stage[j] \in Ended => stage'[j] \in Ended
    BY <1>2 DEF IInv, WillTypes, Begun, Ended
<1>3. \A j \in Conns : /\ stage[j] \notin Begun => stage'[j] \notin Begun
                       /\ stage[j] \in Ended => stage'[j] \in Ended
  <2>1. ASSUME NEW k \in Conns, HandleConnect(k) \/ ConnectStep(k) \/ HandleDisconnect(k) \/ Close(k)
                                   \/ DisconnectStep(k)
        PROVE  \E v : /\ stage' = [stage EXCEPT ![k] = v]
                      /\ stage[k] \in Begun \/ v \in Ended \/ (v \notin Begun /\ stage[k] \notin Ended)
    <3>1. CASE HandleConnect(k) \/ ConnectStep(k)
        BY <3>1 DEF HandleConnect, ConnectStep, RegisterClientAndKickExistingOne,
           AssignActiveConnection, SetSessionProperties, Begun, Ended
    <3>2. CASE HandleDisconnect(k) \/ Close(k) \/ DisconnectStep(k)
        BY <3>2 DEF HandleDisconnect, Close, DisconnectStep, DisconnectWill, DisconnectSession,
           Begun, Ended
    <3> QED
        BY <2>1, <3>1, <3>2
  <2>2. CASE UNCHANGED stage
      BY <2>2
  <2>3. UNCHANGED stage \/ \E k \in Conns : HandleConnect(k) \/ ConnectStep(k) \/ HandleDisconnect(k)
                                               \/ Close(k) \/ DisconnectStep(k)
      BY DEF Next, WillTimer, PickDueWill, SendDueWill, RemovalTimer, CollectExpired, RemoveExpired,
         FinishRemoval, ReadWillOfRemoved, SendWillOfRemoved, Tick, Finished, vars, clients
  <2> QED
      BY <2>1, <2>2, <2>3, <1>2
<1>4. \A k \in Conns : left[k] => stage'[k] \in {"leaving", "closed"} \cup Ended
  <2>1. \A k \in Conns : left[k] => left'[k]
    <3>1. UNCHANGED left \/ \E k \in Conns : left' = [left EXCEPT ![k] = TRUE]
        BY DEF Next, ConnectStep, DisconnectStep, WillTimer, PickDueWill, SendDueWill, RemovalTimer,
           CollectExpired, RemoveExpired, FinishRemoval, ReadWillOfRemoved, SendWillOfRemoved,
           Tick, Finished, vars, history,
           HandleConnect, HandleDisconnect, Close, DisconnectWill, DisconnectSession,
           RegisterClientAndKickExistingOne, AssignActiveConnection, SetSessionProperties
    <3> QED
        BY <3>1 DEF IInv, WillTypes
  <2> QED
      BY <2>1, <1>1 DEF IInv, LeftWithoutWill
<1> QED
    BY <1>1, <1>3, <1>4 DEF StagesGoOn, IInv, WillTypes

LEMMA StepSentOnce ==
    ASSUME SingleThread, IInv, Sound, OneAtATime, InOrder, RemovalsJustified, SentOnce, [Next]_vars
    PROVE  SentOnce'
<1>0. StagesGoOn
    BY StepStagesGoOn
<1>1. ASSUME UNCHANGED <<willPublish, willsSent>>
      PROVE  SentOnce'
    BY <1>0, <1>1, SentOnceKept
<1>2. ASSUME NEW k \in Conns, AssignActiveConnection(k)
      PROVE  SentOnce'
  <2>1. /\ stage[k] = "registered" /\ UNCHANGED <<willsSent, connSession>>
        /\ \E v \in {0, k} : willPublish' = [willPublish EXCEPT ![connSession[k]] = v]
      BY <1>2 DEF AssignActiveConnection, history
  <2>2. ASSUME NEW j \in Conns, willsSent'[j] > 0
        PROVE  /\ stage'[j] \notin Begun
               /\ SoleUser(j)' => /\ willsSent'[j] = 1 /\ stage'[j] \in Ended
                                  /\ willPublish'[connSession'[j]] # j
    <3>1. stage[j] \notin Begun /\ j # k /\ connSession[j] \in Conns
        BY <2>1, <2>2 DEF SentOnce, Begun, Sound, Placed, HasSession
    <3>2. SoleUser(j)' => SoleUser(j) /\ connSession[j] # connSession[k]
        BY <2>1, <3>1 DEF SoleUser
    <3>3. connSession[j] # connSession[k] => willPublish'[connSession[j]] = willPublish[connSession[j]]
        BY <2>1, <3>1 DEF Sound, TypeOK, SessionType
    <3> QED
        BY <1>0, <2>1, <2>2, <3>1, <3>2, <3>3 DEF SentOnce, StagesGoOn
  <2> QED
      BY <2>2 DEF SentOnce
<1>3. ASSUME NEW k \in Conns, HandleDisconnect(k)
      PROVE  SentOnce'
  <2>1. UNCHANGED willsSent /\ willPublish' = [willPublish EXCEPT ![connSession[k]] = 0]
      BY <1>3 DEF HandleDisconnect
  <2>2. \A s, j \in Conns : willPublish'[s] = j => willPublish[s] = j
      BY <2>1, ClearSound DEF Sound
  <2> QED
      BY <1>0, <2>1, <2>2, SentOnceKept
<1>4. ASSUME NEW k \in Conns, DisconnectWill(k)
      PROVE  SentOnce'
  <2>1. CASE UNCHANGED <<willPublish, willsSent>>
      BY <1>1, <2>1
  <2>2. CASE SendWill(k, connSession[k])
    <3>1. stage[k] = "closed" /\ stage' = [stage EXCEPT ![k] = "willdone"]
        BY <1>4 DEF DisconnectWill
    <3>2. stage'[k] = "willdone"
        BY <3>1 DEF Sound, TypeOK, ClientsType
    <3>3. SoleUser(k) => willsSent[k] = 0
        BY <3>1 DEF SentOnce, Ended, Sound, TypeOK, HistoryType
    <3> QED
        BY <1>0, <2>2, <3>1, <3>2, <3>3, SentOnceSent DEF Begun, Ended
  <2> QED
      BY <1>4, <2>1, <2>2 DEF DisconnectWill
<1>5. ASSUME NEW s \in Conns, FinishRemoval(s)
      PROVE  SentOnce'
  <2>1. CASE UNCHANGED <<willPublish, willsSent>>
      BY <1>1, <2>1
  <2>2. CASE SendWillOfRemoved(s)
    <3> DEFINE w == willPublish[s]
    <3>1. w \in Conns /\ SendWill(w, s)
        BY <2>2, RegistryBounds DEF SendWillOfRemoved, InOrder, RemovedIsLast, Sound, TypeOK,
           SessionType, Conns
    <3>2. connSession[w] = s /\ stage[w] \notin Begun
        BY <3>1 DEF IInv, SessionWills
    <3>3. s \in removing /\ UNCHANGED stage
        BY <2>2 DEF SendWillOfRemoved, clients
    <3>4. SoleUser(w) => willsSent[w] = 0
        BY <3>1, <3>2, UnsentInSession
    <3>5. SoleUser(w) => stage[w] \in Ended
      <4>1. PICK j \in Conns : stage[j] = "gone" /\ connSession[j] = s
          BY <3>3 DEF RemovalsJustified, RemovalsAfterClients, GoneFrom
      <4> QED
          BY <4>1, <3>1, <3>2 DEF SoleUser, Ended
    <3> HIDE DEF w
    <3>6. SendWill(w, connSession[w])
        BY <3>1, <3>2 DEF w
    <3> QED
        BY <1>0, <3>1, <3>2, <3>3, <3>4, <3>5, <3>6, SentOnceSent
  <2> QED
      BY <1>5, <2>1, <2>2 DEF FinishRemoval, ReadWillOfRemoved, session, history
<1>6. CASE SendDueWill
  <2> DEFINE w == due.will
  <2>1. due # NothingDue /\ SendWill(w, due.session) /\ UNCHANGED stage
      BY <1>6 DEF SendDueWill, clients
  <2>2. w \in Conns /\ stage[w] \in Ended
      BY <2>1 DEF IInv, DueWill
  <2>3. due.session = connSession[w] /\ willPublish[connSession[w]] = w
      BY <2>1 DEF InOrder, DueIsLast
  <2> HIDE DEF w
  <2>4. SoleUser(w) => willsSent[w] = 0
      BY <2>2, <2>3, UnsentInSession
  <2>5. stage[w] \notin Begun
      BY <2>2 DEF Ended, Begun
  <2> QED
      BY <1>0, <2>1, <2>2, <2>3, <2>4, <2>5, SentOnceSent
<1>7. \/ UNCHANGED <<willPublish, willsSent>> \/ SendDueWill \/ \E s \in Conns : FinishRemoval(s)
      \/ \E k \in Conns : AssignActiveConnection(k) \/ HandleDisconnect(k) \/ DisconnectWill(k)
    BY DEF Next, ConnectStep, DisconnectStep, WillTimer, PickDueWill, RemovalTimer, CollectExpired,
       RemoveExpired, Tick, Finished, vars, history, session, HandleConnect, Close,
       DisconnectSession, RegisterClientAndKickExistingOne, SetSessionProperties
<1> QED
    BY <1>1, <1>2, <1>3, <1>4, <1>5, <1>6, <1>7

(* WillAtMostOnce, the part of RegistryIsSound about wills: sendWill clears  *)
(* the will in the session (subscriptionstore.cpp:398), and whatever sends a *)
(* will later finds it there or not at all.                                  *)
THEOREM WillSentOnce ==
    ASSUME SingleThread
    PROVE  Spec => []WillAtMostOnce
<1>1. SentOnce /\ Sound => WillAtMostOnce
  <2> SUFFICES ASSUME SentOnce, Sound, NEW k \in Conns, SoleUser(k) PROVE willsSent[k] <= 1
      BY DEF WillAtMostOnce
  <2> QED
      BY DEF SentOnce, Sound, TypeOK, HistoryType
<1>2. IInv /\ Sound /\ OneAtATime /\ InOrder /\ RemovalsJustified /\ SentOnce /\ [Next]_vars => SentOnce'
    BY StepSentOnce
<1>3. Sound /\ Sound' /\ RemovalsJustified /\ [Next]_vars => RemovalsJustified'
    BY StepJustified
<1> QED
    BY <1>1, <1>2, <1>3, InitSound, StepSound, InitSentOnce, InitJustified, OneThreadInOrder,
       WillsBelongToUnfinished, PTL DEF Spec

-----------------------------------------------------------------------------
(* Who has a session that ends with its connection                           *)

\* No client takes a session up and asks that it ends with the connection.
Stays == 0 \notin NewExpiries /\ \A p \in Profiles : p.expiry = 0 => p.clean

Ends(s) == destroyOnDisconnect[s] \/ sessionExpiryInterval[s] = 0

\* A session that ends with its connection has only the client that made it.
EndsAlone ==
    /\ \A k \in Conns : stage[k] # "unused" => profile[k] \in Profiles
    /\ \A k \in Conns : connSession[k] <= k
    /\ \A k \in Conns : HasSession(k) /\ profile[k].clean => connSession[k] = k
    /\ \A s, j \in Conns : Ends(s) /\ connSession[j] = s => j = s

LEMMA InitEndsAlone == Init => EndsAlone
  BY DEF Init, EndsAlone, Ends, HasSession, Conns

\* A step that no connection's session and profile depend on.
LEMMA EndsAloneKept ==
    ASSUME EndsAlone, UNCHANGED <<connSession, profile>>,
           \A k \in Conns : (stage[k] = "unused" => stage'[k] = "unused")
                              /\ (HasSession(k)' => HasSession(k)),
           \A s \in Conns : Ends(s)' => Ends(s)
    PROVE  EndsAlone'
  BY DEF EndsAlone

LEMMA StepEndsAlone ==
    ASSUME SingleThread, Stays, Sound, InOrder, EndsAlone, [Next]_vars
    PROVE  EndsAlone'
<1>0. \A k \in Conns : \A v : stage' = [stage EXCEPT ![k] = v]
                                  => stage'[k] = v /\ \A j \in Conns : j # k => stage'[j] = stage[j]
    BY DEF Sound, TypeOK, ClientsType
<1>1. ASSUME NEW k \in Conns, HandleConnect(k)
      PROVE  EndsAlone'
  <2>1. /\ stage[k] = "unused" /\ stage' = [stage EXCEPT ![k] = "connecting"]
        /\ UNCHANGED <<connSession, session>>
        /\ \E p \in Profiles : profile' = [profile EXCEPT ![k] = p]
      BY <1>1 DEF HandleConnect
  <2>2. stage'[k] = "connecting" /\ \A j \in Conns : j # k => stage'[j] = stage[j]
      BY <2>1, <1>0
  <2>3. profile'[k] \in Profiles /\ \A j \in Conns : j # k => profile'[j] = profile[j]
      BY <2>1 DEF Sound, TypeOK, ClientsType
  <2> QED
      BY <2>1, <2>2, <2>3 DEF EndsAlone, HasSession, Ends, session
<1>2. ASSUME NEW k \in Conns, RegisterClientAndKickExistingOne(k)
      PROVE  EndsAlone'
  <2> DEFINE new == IF sessionsById = 0 \/ profile[k].clean
                         \/ GetDestroyOnDisconnect(sessionsById) THEN k ELSE sessionsById
  <2>1. /\ stage[k] = "connecting" /\ stage' = [stage EXCEPT ![k] = "registered"]
        /\ UNCHANGED <<profile, session>> /\ connSession' = [connSession EXCEPT ![k] = new]
      BY <1>2 DEF RegisterClientAndKickExistingOne
  <2>2. stage'[k] = "registered" /\ \A j \in Conns : j # k => stage'[j] = stage[j]
      BY <2>1, <1>0
  <2>3. connSession[k] = 0 /\ sessionsById \in 0..MaxConns
      BY <2>1 DEF Sound, Placed, HasSession, TypeOK, StoreType
  <2>4. sessionsById \in Conns => sessionsById < k
    <3> SUFFICES ASSUME sessionsById \in Conns PROVE sessionsById < k
        OBVIOUS
    <3>1. connSession[sessionsById] = sessionsById /\ sessionsById # 0 /\ sessionsById # k
        BY <2>3 DEF Sound, Placed, Conns
    <3>2. stage[sessionsById] # "unused"
        BY <3>1 DEF Sound, Placed, HasSession
    <3>3. ~(sessionsById > k)
        BY <2>1, <3>2 DEF InOrder, LastIsClient, Connecting
    <3> QED
        BY <3>1, <3>3 DEF Conns
  <2>5. \/ new = k
        \/ new \in Conns /\ new < k /\ ~profile[k].clean /\ ~Ends(new)
    <3>1. CASE sessionsById = 0 \/ profile[k].clean \/ GetDestroyOnDisconnect(sessionsById)
        BY <3>1
    <3>2. CASE ~(sessionsById = 0 \/ profile[k].clean \/ GetDestroyOnDisconnect(sessionsById))
      <4>1. new = sessionsById /\ sessionsById \in Conns
          BY <3>2, <2>3, RegistryBounds DEF Conns
      <4> QED
          BY <4>1, <3>2, <2>4 DEF GetDestroyOnDisconnect, ExpireNow, Ends
    <3> QED
        BY <3>1, <3>2
  <2> HIDE DEF new
  <2>6. connSession'[k] = new /\ \A j \in Conns : j # k => connSession'[j] = connSession[j]
      BY <2>1 DEF Sound, TypeOK, ClientsType
  <2>7. \A s : Ends(s)' <=> Ends(s)
      BY <2>1 DEF Ends, session
  <2>8. \A j \in Conns : connSession[j] # k
      BY <2>3 DEF Sound, Placed, Conns
  <2>9. \A j \in Conns : connSession'[j] <= j
      BY <2>5, <2>6 DEF EndsAlone, Conns
  <2>10. \A s, j \in Conns : Ends(s)' /\ connSession'[j] = s => j = s
      BY <2>5, <2>6, <2>7, <2>8 DEF EndsAlone
  <2> QED
      BY <2>1, <2>2, <2>5, <2>6, <2>9, <2>10 DEF EndsAlone, HasSession
<1>3. ASSUME NEW k \in Conns, SetSessionProperties(k)
      PROVE  EndsAlone'
  <2> DEFINE s == connSession[k]
             p == profile[k]
  <2>1. /\ stage[k] = "assigned" /\ stage' = [stage EXCEPT ![k] = "live"]
        /\ UNCHANGED <<profile, connSession>>
        /\ sessionExpiryInterval' = [sessionExpiryInterval EXCEPT ![s] = p.expiry]
        /\ destroyOnDisconnect' =
              [destroyOnDisconnect EXCEPT ![s] = IF p.version = 3 THEN p.clean ELSE p.expiry = 0]
      BY <1>3 DEF SetSessionProperties
  <2>2. stage'[k] = "live" /\ \A j \in Conns : j # k => stage'[j] = stage[j]
      BY <2>1, <1>0
  <2>3. s \in Conns /\ p \in Profiles
      BY <2>1 DEF Sound, Placed, HasSession, EndsAlone
  <2>4. /\ sessionExpiryInterval'[s] = p.expiry
        /\ destroyOnDisconnect'[s] = IF p.version = 3 THEN p.clean ELSE p.expiry = 0
        /\ \A t \in Conns : t # s => /\ sessionExpiryInterval'[t] = sessionExpiryInterval[t]
                                     /\ destroyOnDisconnect'[t] = destroyOnDisconnect[t]
      BY <2>1, <2>3 DEF Sound, TypeOK, SessionType
  <2>5. Ends(s)' => p.clean
    <3>1. p.expiry = 0 => p.clean
        BY <2>3 DEF Stays
    <3>2. destroyOnDisconnect'[s] => p.clean
        BY <2>4, <3>1, Zenon
    <3>3. sessionExpiryInterval'[s] = 0 => p.clean
        BY <2>4, <3>1
    <3> QED
        BY <2>1, <3>2, <3>3 DEF Ends
  <2>6. Ends(s)' => s = k
      BY <2>1, <2>5 DEF EndsAlone, HasSession
  <2>7. \A j \in Conns : Ends(s)' /\ connSession[j] = s => j = s
    <3> SUFFICES ASSUME NEW j \in Conns, connSession[j] = k, s = k PROVE j = k
        BY <2>6
    <3>1. k <= j
        BY DEF EndsAlone
    <3>2. ~(j > k)
        BY <2>1 DEF InOrder, LastIsClient, Connecting, Sound, Placed, HasSession, Conns
    <3> QED
        BY <3>1, <3>2 DEF Conns
  <2>8. \A t \in Conns : t # s /\ Ends(t)' => Ends(t)
      BY <2>4, Zenon DEF Ends
  <2>9. \A t, j \in Conns : Ends(t)' /\ connSession[j] = t => j = t
    <3> SUFFICES ASSUME NEW t \in Conns, NEW j \in Conns, Ends(t)', connSession[j] = t
                 PROVE  j = t
        OBVIOUS
    <3>1. CASE t = s
        BY <2>1, <2>7, <3>1
    <3>2. CASE t # s
        BY <2>8, <3>2 DEF EndsAlone
    <3> QED
        BY <3>1, <3>2
  <2> HIDE DEF s, p
  <2> QED
      BY <2>1, <2>2, <2>9 DEF EndsAlone, HasSession
<1>4. ASSUME NEW k \in Conns, HandleDisconnect(k)
      PROVE  EndsAlone'
  <2>1. /\ stage[k] = "live" /\ stage' = [stage EXCEPT ![k] = "leaving"]
        /\ UNCHANGED <<profile, connSession>>
      BY <1>4 DEF HandleDisconnect
  <2>2. stage'[k] = "leaving" /\ \A j \in Conns : j # k => stage'[j] = stage[j]
      BY <2>1, <1>0
  <2>3. \A t \in Conns : Ends(t)' => Ends(t)
    <3>1. CASE UNCHANGED <<sessionExpiryInterval, destroyOnDisconnect>>
        BY <3>1 DEF Ends
    <3>2. CASE \E e \in NewExpiries :
                 /\ sessionExpiryInterval' = [sessionExpiryInterval EXCEPT ![connSession[k]] = e]
                 /\ destroyOnDisconnect' = [destroyOnDisconnect EXCEPT ![connSession[k]] = e = 0]
      <4>1. PICK e \in NewExpiries :
                 /\ sessionExpiryInterval' = [sessionExpiryInterval EXCEPT ![connSession[k]] = e]
                 /\ destroyOnDisconnect' = [destroyOnDisconnect EXCEPT ![connSession[k]] = e = 0]
          BY <3>2
      <4>2. e # 0
          BY DEF Stays
      <4>3. \A t \in Conns :
                /\ sessionExpiryInterval'[t] = IF t = connSession[k] THEN e ELSE sessionExpiryInterval[t]
                /\ destroyOnDisconnect'[t] = IF t = connSession[k] THEN e = 0 ELSE destroyOnDisconnect[t]
          BY <4>1 DEF Sound, TypeOK, SessionType
      <4> QED
          BY <4>2, <4>3 DEF Ends
    <3> QED
        BY <1>4, <3>1, <3>2 DEF HandleDisconnect
  <2> QED
      BY <2>1, <2>2, <2>3, EndsAloneKept DEF HasSession
<1>5. ASSUME NEW k \in Conns, AssignActiveConnection(k) \/ Close(k) \/ DisconnectStep(k)
      PROVE  EndsAlone'
  <2>1. /\ HasSession(k) /\ stage[k] # "unused" /\ \E v : stage' = [stage EXCEPT ![k] = v]
        /\ UNCHANGED <<profile, connSession, destroyOnDisconnect, sessionExpiryInterval>>
      BY <1>5 DEF AssignActiveConnection, Close, DisconnectStep, DisconnectWill, DisconnectSession,
         HasSession, session
  <2>2. \A j \in Conns : j # k => stage'[j] = stage[j]
      BY <2>1, <1>0
  <2> QED
      BY <2>1, <2>2, EndsAloneKept DEF HasSession, Ends
<1>6. CASE \/ \E s \in Conns : FinishRemoval(s)
           \/ WillTimer \/ RemovalTimer \/ Tick \/ Finished \/ UNCHANGED vars
  <2>1. UNCHANGED <<stage, profile, connSession, destroyOnDisconnect, sessionExpiryInterval>>
      BY <1>6 DEF FinishRemoval, ReadWillOfRemoved, SendWillOfRemoved, WillTimer, PickDueWill,
          SendDueWill, RemovalTimer, CollectExpired,
         RemoveExpired, Tick, Finished, vars, clients, session
  <2> QED
      BY <2>1, EndsAloneKept DEF HasSession, Ends
<1> QED
    BY <1>1, <1>2, <1>3, <1>4, <1>5, <1>6 DEF Next, ConnectStep

-----------------------------------------------------------------------------
(* The registry has the session of the connected client                      *)

Registered ==
    /\ \A k \in Conns : Current(k) => sessionsById = connSession[k] /\ client[connSession[k]] = k
    /\ \A k \in Conns : stage[k] \in {"registered", "assigned"} =>
          sessionsById = connSession[k] /\ \A j \in Conns : ~Current(j)
    /\ \A k \in Conns : stage[k] = "assigned" => client[connSession[k]] = k
    /\ \A s \in toRemove : ~HasActiveClient(s)

LEMMA InitRegistered == Init => Registered
  BY DEF Init, Registered, Current

\* A step of a connection that is over, or alone.
LEMMA RegisteredKept ==
    ASSUME Registered, UNCHANGED <<sessionsById, client, connSession, kicked>>, toRemove' = {},
           \A j \in Conns : stage'[j] \in {"live", "registered", "assigned"} => stage'[j] = stage[j]
    PROVE  Registered'
  BY DEF Registered, Current

LEMMA StepRegistered ==
    ASSUME SingleThread, IInv, Sound, OneAtATime, EndsAlone, Registered, [Next]_vars
    PROVE  Registered'
<1>0. \A k \in Conns : \A v : stage' = [stage EXCEPT ![k] = v]
                                  => stage'[k] = v /\ \A j \in Conns : j # k => stage'[j] = stage[j]
    BY DEF Sound, TypeOK, ClientsType
<1>1. ASSUME NEW k \in Conns, HandleConnect(k) \/ HandleDisconnect(k) \/ Close(k) \/ DisconnectWill(k)
      PROVE  Registered'
  <2>1. /\ \E v \in {"connecting", "leaving", "closed", "willdone"} : stage' = [stage EXCEPT ![k] = v]
        /\ UNCHANGED <<sessionsById, client, connSession, kicked, toRemove>> /\ ThreadFree
      BY <1>1 DEF HandleConnect, HandleDisconnect, Close, DisconnectWill, store, session, tasks, history
  <2>2. \A j \in Conns : stage'[j] \in {"live", "registered", "assigned"} => stage'[j] = stage[j]
      BY <2>1, <1>0
  <2>3. toRemove' = {}
      BY <2>1 DEF ThreadFree, Busy
  <2> QED
      BY <2>1, <2>2, <2>3, RegisteredKept
<1>2. ASSUME NEW k \in Conns, RegisterClientAndKickExistingOne(k)
      PROVE  Registered'
  <2> DEFINE was == sessionsById
             new == IF was = 0 \/ profile[k].clean \/ GetDestroyOnDisconnect(was) THEN k ELSE was
  <2>1. /\ stage[k] = "connecting" /\ stage' = [stage EXCEPT ![k] = "registered"]
        /\ UNCHANGED <<client, toRemove>>
        /\ sessionsById' = new /\ connSession' = [connSession EXCEPT ![k] = new]
        /\ kicked' = IF was # 0 /\ HasActiveClient(was) THEN [kicked EXCEPT ![client[was]] = TRUE]
                     ELSE kicked
      BY <1>2 DEF RegisterClientAndKickExistingOne, session, tasks
  <2> HIDE DEF new
  <2>2. stage'[k] = "registered" /\ \A j \in Conns : j # k => stage'[j] = stage[j]
      BY <2>1, <1>0
  <2>3. connSession'[k] = new
      BY <2>1 DEF Sound, TypeOK, ClientsType
  <2>4. toRemove' = {} /\ \A j \in Conns : j # k => ~Underway(j)
      BY <2>1 DEF OneAtATime, Underway
  <2>5. ASSUME NEW j \in Conns
        PROVE  ~Current(j)'
    <3>1. CASE Current(j)
      <4>1. was = connSession[j] /\ client[was] = j /\ stage[j] = "live"
          BY <3>1 DEF Registered, Current
      <4>2. was # 0 /\ HasActiveClient(was)
          BY <4>1 DEF Sound, Placed, HasSession, HasActiveClient, Exists, Conns
      <4>3. kicked'[j]
          BY <2>1, <4>1, <4>2 DEF Sound, TypeOK, HistoryType
      <4> QED
          BY <4>3 DEF Current
    <3>2. CASE ~Current(j)
      <4>1. kicked[j] => kicked'[j]
          BY <2>1 DEF Sound, TypeOK, HistoryType
      <4> QED
          BY <3>2, <4>1, <2>2 DEF Current
    <3> QED
        BY <3>1, <3>2
  <2>6. \A j \in Conns : stage'[j] \in {"registered", "assigned"} => j = k
      BY <2>2, <2>4 DEF Underway
  <2> QED
      BY <2>1, <2>2, <2>3, <2>4, <2>5, <2>6 DEF Registered
<1>3. ASSUME NEW k \in Conns, AssignActiveConnection(k)
      PROVE  Registered'
  <2>1. /\ stage[k] = "registered" /\ stage' = [stage EXCEPT ![k] = "assigned"]
        /\ UNCHANGED <<sessionsById, connSession, kicked, toRemove>>
        /\ client' = [client EXCEPT ![connSession[k]] = k]
      BY <1>3 DEF AssignActiveConnection, store, tasks, history
  <2>2. stage'[k] = "assigned" /\ \A j \in Conns : j # k => stage'[j] = stage[j]
      BY <2>1, <1>0
  <2>3. client'[connSession[k]] = k
      BY <2>1 DEF Sound, TypeOK, SessionType, Placed, HasSession
  <2>4. toRemove' = {} /\ \A j \in Conns : j # k => ~Underway(j)
      BY <2>1 DEF OneAtATime, Underway
  <2>5. sessionsById = connSession[k] /\ \A j \in Conns : ~Current(j)
      BY <2>1 DEF Registered
  <2>6. \A j \in Conns : ~Current(j)'
      BY <2>1, <2>2, <2>5 DEF Current
  <2>7. \A j \in Conns : stage'[j] \in {"registered", "assigned"} => j = k
      BY <2>2, <2>4 DEF Underway
  <2> QED
      BY <2>1, <2>3, <2>4, <2>5, <2>6, <2>7 DEF Registered
<1>4. ASSUME NEW k \in Conns, SetSessionProperties(k)
      PROVE  Registered'
  <2>1. /\ stage[k] = "assigned" /\ stage' = [stage EXCEPT ![k] = "live"]
        /\ UNCHANGED <<sessionsById, connSession, client, kicked, toRemove>>
      BY <1>4 DEF SetSessionProperties, store, tasks, history
  <2>2. stage'[k] = "live" /\ \A j \in Conns : j # k => stage'[j] = stage[j]
      BY <2>1, <1>0
  <2>3. toRemove' = {} /\ \A j \in Conns : j # k => ~Underway(j)
      BY <2>1 DEF OneAtATime, Underway
  <2>4. sessionsById = connSession[k] /\ client[connSession[k]] = k /\ \A j \in Conns : ~Current(j)
      BY <2>1 DEF Registered
  <2>5. \A j \in Conns : Current(j)' => j = k
      BY <2>1, <2>2, <2>4 DEF Current
  <2>6. \A j \in Conns : stage'[j] \notin {"registered", "assigned"}
      BY <2>2, <2>3 DEF Underway
  <2> QED
      BY <2>1, <2>3, <2>4, <2>5, <2>6 DEF Registered
<1>5. ASSUME NEW k \in Conns, DisconnectSession(k)
      PROVE  Registered'
  <2> DEFINE s == connSession[k]
  <2>1. /\ stage[k] = "willdone" /\ stage' = [stage EXCEPT ![k] = "gone"]
        /\ UNCHANGED <<connSession, client, kicked, toRemove>>
      BY <1>5 DEF DisconnectSession, history
  <2>2. \A j \in Conns : stage'[j] \in {"live", "registered", "assigned"} => stage'[j] = stage[j]
      BY <2>1, <1>0
  <2>3. toRemove' = {} /\ \A j \in Conns : stage[j] \notin {"registered", "assigned"}
      BY <2>1 DEF OneAtATime, Underway
  <2>4. CASE UNCHANGED sessionsById
      BY <2>1, <2>2, <2>3, <2>4, RegisteredKept
  <2>5. CASE sessionsById = s /\ GetDestroyOnDisconnect(s)
    <3>1. ASSUME NEW j \in Conns, Current(j)
          PROVE  FALSE
      <4>1. connSession[j] = s /\ client[s] = j /\ stage[j] = "live"
          BY <2>5, <3>1 DEF Registered, Current
      <4>2. HasActiveClient(s)
          BY <4>1 DEF HasActiveClient, Exists, Conns
      <4>3. s \in Conns
          BY <2>1 DEF Sound, Placed, HasSession
      <4>4. Ends(s)
          BY <2>5, <4>2 DEF GetDestroyOnDisconnect, ExpireNow, Ends
      <4>5. j = s /\ k = s
          BY <4>1, <4>3, <4>4 DEF EndsAlone
      <4> QED
          BY <2>1, <4>1, <4>5
    <3>2. \A j \in Conns : ~Current(j)'
        BY <3>1, <2>1, <2>2 DEF Current
    <3> QED
        BY <3>2, <2>2, <2>3 DEF Registered
  <2>6. UNCHANGED sessionsById \/ (sessionsById = s /\ GetDestroyOnDisconnect(s))
      BY <1>5 DEF DisconnectSession, RemoveSession
  <2> QED
      BY <2>4, <2>5, <2>6
<1>6. CASE CollectExpired
  <2>1. /\ UNCHANGED <<sessionsById, client, connSession, kicked, stage>>
        /\ \A s \in toRemove' : MayRemove(s)
      BY <1>6 DEF CollectExpired, session, clients, history
  <2>2. \A s \in toRemove' : ~HasActiveClient(s)'
      BY <2>1 DEF MayRemove, HasActiveClient, Exists
  <2> QED
      BY <2>1, <2>2 DEF Registered, Current
<1>7. ASSUME NEW s \in Conns, RemoveExpired(s)
      PROVE  Registered'
  <2>1. /\ s \in toRemove /\ toRemove' \subseteq toRemove
        /\ UNCHANGED <<client, connSession, kicked, stage>>
        /\ UNCHANGED sessionsById \/ sessionsById = s
      BY <1>7 DEF RemoveExpired, RemoveSession, session, clients, history
  <2>2. \A j \in Conns : ~Underway(j)
      BY <2>1 DEF OneAtATime
  <2>3. \A t : HasActiveClient(t)' <=> HasActiveClient(t)
      BY <2>1 DEF HasActiveClient, Exists
  <2>4. \A j \in Conns : Current(j) => sessionsById # s
      BY <2>1 DEF Registered, Current, HasActiveClient, Exists, Conns
  <2> QED
      BY <2>1, <2>2, <2>3, <2>4 DEF Registered, Current, Underway
<1>8. CASE \/ \E s \in Conns : FinishRemoval(s)
           \/ WillTimer \/ Tick \/ Finished \/ UNCHANGED vars
  <2>1. UNCHANGED <<sessionsById, client, connSession, kicked, stage, toRemove>>
      BY <1>8 DEF FinishRemoval, ReadWillOfRemoved, SendWillOfRemoved, WillTimer, PickDueWill,
          SendDueWill, Tick, Finished, vars,
         store, session, clients, tasks, history
  <2>2. \A t : HasActiveClient(t)' <=> HasActiveClient(t)
      BY <2>1 DEF HasActiveClient, Exists
  <2> QED
      BY <2>1, <2>2 DEF Registered, Current
<1> QED
    BY <1>1, <1>2, <1>3, <1>4, <1>5, <1>6, <1>7, <1>8 DEF Next, ConnectStep, DisconnectStep,
       RemovalTimer

\* What handleConnect announces when it runs before the next handler.
Announced(k) ==
    ~profile[k].clean /\ sessionsById # 0 /\ ~GetDestroyOnDisconnect(sessionsById)

PresentIsRight ==
    /\ \A k \in Conns : stage[k] = "connecting" => (present[k] <=> Announced(k))
    /\ \A k \in Conns : HasSession(k) => (present[k] <=> connSession[k] # k)

LEMMA InitPresent == Init => PresentIsRight
  BY DEF Init, PresentIsRight, HasSession

LEMMA ConnectGoesOn ==
    ASSUME SingleThread, OneAtATime, [Next]_vars, NEW k \in Conns, stage[k] = "connecting"
    PROVE  RegisterClientAndKickExistingOne(k) \/ UNCHANGED vars
<1>1. Underway(k) /\ Busy /\ ~ThreadFree
    BY DEF Underway, Busy, ThreadFree
<1>2. due = NothingDue /\ toRemove = {} /\ removing = {} /\ \A j \in Conns : Underway(j) => j = k
    BY <1>1 DEF OneAtATime
<1>3. \A j \in Conns : ~HandleConnect(j) /\ ~HandleDisconnect(j) /\ ~Close(j) /\ ~DisconnectWill(j)
    BY <1>1 DEF HandleConnect, HandleDisconnect, Close, DisconnectWill
<1>4. \A j \in Conns : ~AssignActiveConnection(j) /\ ~SetSessionProperties(j) /\ ~DisconnectSession(j)
    BY <1>2 DEF AssignActiveConnection, SetSessionProperties, DisconnectSession, Underway
<1>5. \A s \in Conns : ~FinishRemoval(s) /\ ~RemoveExpired(s)
    BY <1>2 DEF FinishRemoval, ReadWillOfRemoved, SendWillOfRemoved, RemoveExpired
<1>6. ~PickDueWill /\ ~SendDueWill /\ ~CollectExpired /\ ~Tick
    BY <1>1, <1>2 DEF PickDueWill, SendDueWill, CollectExpired, Tick
<1>7. \A j \in Conns : RegisterClientAndKickExistingOne(j) => j = k
    BY <1>2 DEF RegisterClientAndKickExistingOne, Underway
<1> QED
    BY <1>3, <1>4, <1>5, <1>6, <1>7 DEF Next, ConnectStep, DisconnectStep, WillTimer, RemovalTimer,
       Finished

LEMMA StepPresent ==
    ASSUME SingleThread, Sound, OneAtATime, PresentIsRight, [Next]_vars
    PROVE  PresentIsRight'
<1>0. \A k \in Conns : \A v : stage' = [stage EXCEPT ![k] = v]
                                  => stage'[k] = v /\ \A j \in Conns : j # k => stage'[j] = stage[j]
    BY DEF Sound, TypeOK, ClientsType
<1>1. ASSUME NEW k \in Conns, HandleConnect(k)
      PROVE  PresentIsRight'
  <2>1. /\ stage[k] = "unused" /\ stage' = [stage EXCEPT ![k] = "connecting"] /\ ThreadFree
        /\ UNCHANGED <<now, store, session, connSession>>
      BY <1>1 DEF HandleConnect
  <2>2. PICK p \in Profiles :
            /\ profile' = [profile EXCEPT ![k] = p]
            /\ present' = [present EXCEPT ![k] =
                  ~p.clean /\ sessionsById # 0 /\ ~GetDestroyOnDisconnect(sessionsById)]
      BY <1>1 DEF HandleConnect
  <2>3. stage'[k] = "connecting" /\ \A j \in Conns : j # k => stage'[j] = stage[j]
      BY <2>1, <1>0
  <2>4. profile'[k] = p
      BY <2>2 DEF Sound, TypeOK, ClientsType
  <2>5. present \in [Conns -> BOOLEAN]
      BY DEF Sound, TypeOK, ClientsType
  <2>6. present'[k] = (~p.clean /\ sessionsById # 0 /\ ~GetDestroyOnDisconnect(sessionsById))
          /\ \A j \in Conns : j # k => present'[j] = present[j]
      BY <2>2, <2>5, Zenon
  <2>7. Exists(k) <=> FALSE
      BY <2>1 DEF Exists
  <2>8. \A s \in Conns : HasActiveClient(s)' <=> HasActiveClient(s)
    <3> SUFFICES ASSUME NEW s \in Conns PROVE HasActiveClient(s)' <=> HasActiveClient(s)
        OBVIOUS
    <3>1. client[s] \in 0..MaxConns /\ client'[s] = client[s]
        BY <2>1 DEF Sound, TypeOK, SessionType, session
    <3>2. client[s] # k
        BY <2>1 DEF Sound, Placed, Begun, Conns
    <3> QED
        BY <3>1, <3>2, <2>3 DEF HasActiveClient, Exists, Conns
  <2>9. sessionsById # 0 =>
            (GetDestroyOnDisconnect(sessionsById)' <=> GetDestroyOnDisconnect(sessionsById))
    <3>1. sessionsById # 0 => sessionsById \in Conns
        BY RegistryBounds DEF Sound, TypeOK, StoreType, Conns
    <3>2. UNCHANGED <<sessionsById, now, destroyOnDisconnect, sessionExpiryInterval, removalQueuedAt>>
        BY <2>1 DEF store, session
    <3> QED
        BY <3>1, <3>2, <2>8 DEF GetDestroyOnDisconnect, ExpireNow
  <2>10. present'[k] <=> Announced(k)'
    <3>1. UNCHANGED sessionsById
        BY <2>1 DEF store
    <3> QED
        BY <2>4, <2>6, <2>9, <3>1 DEF Announced
  <2>11. \A j \in Conns : stage'[j] = "connecting" => j = k
      BY <2>1, <2>3 DEF ThreadFree, Busy
  <2>12. \A j \in Conns : HasSession(j)' => j # k /\ HasSession(j)
      BY <2>3 DEF HasSession
  <2> QED
      BY <2>1, <2>6, <2>10, <2>11, <2>12 DEF PresentIsRight
<1>2. ASSUME NEW k \in Conns, RegisterClientAndKickExistingOne(k)
      PROVE  PresentIsRight'
  <2> DEFINE new == IF sessionsById = 0 \/ profile[k].clean
                         \/ GetDestroyOnDisconnect(sessionsById) THEN k ELSE sessionsById
  <2>1. /\ stage[k] = "connecting" /\ stage' = [stage EXCEPT ![k] = "registered"]
        /\ UNCHANGED present /\ connSession' = [connSession EXCEPT ![k] = new]
      BY <1>2 DEF RegisterClientAndKickExistingOne
  <2>2. stage'[k] = "registered" /\ \A j \in Conns : j # k => stage'[j] = stage[j]
      BY <2>1, <1>0
  <2>3. connSession'[k] = new /\ \A j \in Conns : j # k => connSession'[j] = connSession[j]
      BY <2>1 DEF Sound, TypeOK, ClientsType
  <2>4. sessionsById # 0 => sessionsById # k
      BY <2>1 DEF Sound, Placed, HasSession
  <2>5. new # k <=> Announced(k)
      BY <2>4 DEF Announced
  <2> HIDE DEF new
  <2>6. present[k] <=> Announced(k)
      BY <2>1 DEF PresentIsRight
  <2>7. \A j \in Conns : stage'[j] = "connecting" => j = k
      BY <2>1, <2>2 DEF OneAtATime, Underway
  <2>8. \A j \in Conns : HasSession(j)' => j = k \/ HasSession(j)
      BY <2>2 DEF HasSession
  <2> QED
      BY <2>1, <2>2, <2>3, <2>5, <2>6, <2>7, <2>8 DEF PresentIsRight
<1>3. ASSUME UNCHANGED <<present, connSession>>,
             \A j \in Conns : /\ stage'[j] # "connecting" \/ stage'[j] = stage[j]
                              /\ HasSession(j)' => HasSession(j)
      PROVE  PresentIsRight'
  <2>1. ASSUME NEW k \in Conns, stage'[k] = "connecting"
        PROVE  present'[k] <=> Announced(k)'
    <3>1. stage[k] = "connecting"
        BY <1>3, <2>1
    <3>2. UNCHANGED vars
        BY <1>0, <2>1, <3>1, ConnectGoesOn DEF RegisterClientAndKickExistingOne
    <3>3. Announced(k)' <=> Announced(k)
        BY <3>2 DEF vars, store, session, clients, Announced, GetDestroyOnDisconnect, ExpireNow,
           HasActiveClient, Exists
    <3> QED
        BY <1>3, <3>1, <3>3 DEF PresentIsRight
  <2> QED
      BY <1>3, <2>1 DEF PresentIsRight
<1>4. ASSUME NEW k \in Conns,
             AssignActiveConnection(k) \/ SetSessionProperties(k) \/ HandleDisconnect(k) \/ Close(k)
                \/ DisconnectStep(k)
      PROVE  PresentIsRight'
  <2>1. /\ HasSession(k) /\ UNCHANGED <<present, connSession>>
        /\ \E v \in {"assigned", "live", "leaving", "closed", "willdone", "gone"} :
              stage' = [stage EXCEPT ![k] = v]
      BY <1>4 DEF AssignActiveConnection, SetSessionProperties, HandleDisconnect, Close,
         DisconnectStep, DisconnectWill, DisconnectSession, HasSession
  <2>2. /\ stage'[k] # "connecting" /\ \A j \in Conns : j # k => stage'[j] = stage[j]
      BY <2>1, <1>0
  <2> QED
      BY <2>1, <2>2, <1>3 DEF HasSession
<1>5. CASE \/ \E s \in Conns : FinishRemoval(s)
           \/ WillTimer \/ RemovalTimer \/ Tick \/ Finished \/ UNCHANGED vars
  <2>1. UNCHANGED <<present, connSession, stage>>
      BY <1>5 DEF FinishRemoval, ReadWillOfRemoved, SendWillOfRemoved, WillTimer, PickDueWill,
          SendDueWill, RemovalTimer, CollectExpired,
         RemoveExpired, Tick, Finished, vars, clients
  <2> QED
      BY <2>1, <1>3 DEF HasSession
<1> QED
    BY <1>1, <1>2, <1>4, <1>5 DEF Next, ConnectStep

(* RegistryIsSound, with one worker thread and clients that do not take up a *)
(* session only to end it: two clients with one id are never both connected  *)
(* for good, the registry has the session of the connected one               *)
(* (subscriptionstore.cpp:310-372), its CONNACK told the truth about it, and *)
(* a will that belongs to one client is published once.  Without Stays the   *)
(* code breaks OneClientPerId: destroyOnDisconnect is a property of the      *)
(* session, and an old client that goes away removes it from under the new.  *)
THEOREM RegistryStaysSound ==
    ASSUME SingleThread, Stays
    PROVE  Spec => []RegistryIsSound
<1>1. Sound /\ Registered /\ PresentIsRight /\ WillAtMostOnce => RegistryIsSound
  <2> SUFFICES ASSUME Sound, Registered, PresentIsRight, WillAtMostOnce
               PROVE  RegistryIsSound
      OBVIOUS
  <2>1. OneClientPerId
      BY DEF OneClientPerId, Registered
  <2>2. CurrentSessionIsRegistered
      BY DEF CurrentSessionIsRegistered, Registered
  <2>3. SessionPresentIsTrue
      BY DEF SessionPresentIsTrue, PresentIsRight, HasSession, Current
  <2> QED
      BY <2>1, <2>2, <2>3 DEF RegistryIsSound, Sound
<1>2. Sound /\ OneAtATime /\ InOrder /\ EndsAlone /\ [Next]_vars => EndsAlone'
    BY StepEndsAlone
<1>3. IInv /\ Sound /\ OneAtATime /\ EndsAlone /\ Registered /\ [Next]_vars => Registered'
    BY StepRegistered
<1>4. Sound /\ OneAtATime /\ PresentIsRight /\ [Next]_vars => PresentIsRight'
    BY StepPresent
<1>5. Spec => []Sound
    BY InitSound, StepSound, WillsBelongToUnfinished, PTL DEF Spec
<1>6. Spec => [](OneAtATime /\ InOrder) /\ []WillAtMostOnce
    BY OneThreadInOrder, WillSentOnce
<1>7. Spec => []EndsAlone
    BY <1>2, <1>5, <1>6, InitEndsAlone, PTL DEF Spec
<1>8. Spec => []Registered
    BY <1>3, <1>5, <1>6, <1>7, InitRegistered, WillsBelongToUnfinished, PTL DEF Spec
<1>9. Spec => []PresentIsRight
    BY <1>4, <1>5, <1>6, InitPresent, PTL DEF Spec
<1> QED
    BY <1>1, <1>5, <1>6, <1>8, <1>9, PTL

-----------------------------------------------------------------------------
(* One connection after the other                                            *)

\* The connections before are over, with their disconnect actions.
Alone == \A j, k \in Conns : j < k /\ stage[k] # "unused" => stage[j] = "gone"

\* What a timer or a removal is about to end has no client.
NoneActive ==
    /\ \A s \in toRemove \cup removing : ~HasActiveClient(s)
    /\ due # NothingDue => ~HasActiveClient(due.session)

WillKept ==
    \A k \in Conns :
        stage[k] \in {"assigned", "live"} /\ clientWill[k] => willPublish[connSession[k]] = k

LEMMA InitAlone == Init => Alone /\ NoneActive /\ WillKept
  BY DEF Init, Alone, NoneActive, WillKept

LEMMA StepAlone ==
    ASSUME ~Takeover, Sound, Alone, [Next]_vars
    PROVE  Alone'
<1>0. \A k \in Conns : \A v : stage' = [stage EXCEPT ![k] = v]
                                  => stage'[k] = v /\ \A j \in Conns : j # k => stage'[j] = stage[j]
    BY DEF Sound, TypeOK, ClientsType
<1>1. ASSUME NEW k \in Conns, HandleConnect(k)
      PROVE  Alone'
  <2>1. /\ stage[k] = "unused" /\ stage' = [stage EXCEPT ![k] = "connecting"]
        /\ \A j \in Conns : j < k => stage[j] = "gone"
      BY <1>1 DEF HandleConnect
  <2>2. \A j \in Conns : j > k => stage[j] = "unused"
      BY <2>1 DEF Sound, BegunInOrder, Conns
  <2> QED
      BY <2>1, <2>2, <1>0 DEF Alone, Conns
<1>2. ASSUME NEW k \in Conns, ConnectStep(k) \/ HandleDisconnect(k) \/ Close(k) \/ DisconnectStep(k)
      PROVE  Alone'
  <2>1. stage[k] # "unused" /\ stage[k] # "gone" /\ \E v : stage' = [stage EXCEPT ![k] = v]
      BY <1>2 DEF ConnectStep, RegisterClientAndKickExistingOne, AssignActiveConnection,
         SetSessionProperties, HandleDisconnect, Close, DisconnectStep, DisconnectWill,
         DisconnectSession
  <2>2. \A j \in Conns : j # k => stage'[j] = stage[j]
      BY <2>1, <1>0
  <2> QED
      BY <2>1, <2>2 DEF Alone, Conns
<1>3. CASE \/ \E s \in Conns : FinishRemoval(s)
           \/ WillTimer \/ RemovalTimer \/ Tick \/ Finished \/ UNCHANGED vars
  <2>1. UNCHANGED stage
      BY <1>3 DEF FinishRemoval, ReadWillOfRemoved, SendWillOfRemoved, WillTimer, PickDueWill,
          SendDueWill, RemovalTimer, CollectExpired,
         RemoveExpired, Tick, Finished, vars, clients
  <2> QED
      BY <2>1 DEF Alone
<1> QED
    BY <1>1, <1>2, <1>3 DEF Next

\* Two connections are not both begun and not over.
LEMMA OnlyOne ==
    ASSUME Alone, NEW j \in Conns, NEW k \in Conns,
           stage[j] \notin {"unused", "gone"}, stage[k] \notin {"unused", "gone"}
    PROVE  j = k
  BY DEF Alone, Conns

LEMMA StepNoneActive ==
    ASSUME SingleThread, Sound, OneAtATime, Alone, NoneActive, [Next]_vars
    PROVE  NoneActive'
<1>0. \A k \in Conns : \A v : stage' = [stage EXCEPT ![k] = v]
                                  => stage'[k] = v /\ \A j \in Conns : j # k => stage'[j] = stage[j]
    BY DEF Sound, TypeOK, ClientsType
<1>1. ASSUME due' = NothingDue, toRemove' = {}, removing' = {}
      PROVE  NoneActive'
    BY <1>1 DEF NoneActive
<1>2. ASSUME NEW k \in Conns, HandleConnect(k) \/ HandleDisconnect(k) \/ Close(k) \/ DisconnectWill(k)
      PROVE  NoneActive'
  <2>1. ThreadFree /\ UNCHANGED tasks
      BY <1>2 DEF HandleConnect, HandleDisconnect, Close, DisconnectWill
  <2> QED
      BY <2>1, <1>1 DEF ThreadFree, Busy, tasks
<1>3. ASSUME NEW k \in Conns, ConnectStep(k)
      PROVE  NoneActive'
  <2>1. Underway(k) /\ UNCHANGED tasks
      BY <1>3 DEF ConnectStep, RegisterClientAndKickExistingOne, AssignActiveConnection,
         SetSessionProperties, Underway
  <2> QED
      BY <2>1, <1>1 DEF OneAtATime, tasks
<1>4. ASSUME NEW k \in Conns, DisconnectSession(k)
      PROVE  NoneActive'
  <2>1. /\ stage[k] = "willdone" /\ stage' = [stage EXCEPT ![k] = "gone"]
        /\ UNCHANGED <<client, due, toRemove>>
      BY <1>4 DEF DisconnectSession
  <2>2. due' = NothingDue /\ toRemove' = {} /\ removing = {}
      BY <2>1 DEF OneAtATime, Underway
  <2>3. \A j \in Conns : ~Exists(j)'
    <3>1. \A j \in Conns : stage[j] \notin {"unused", "gone"} => j = k
        BY <2>1, OnlyOne
    <3>2. stage'[k] = "gone" /\ \A j \in Conns : j # k => stage'[j] \in {"unused", "gone"}
        BY <2>1, <3>1, <1>0
    <3> QED
        BY <3>2 DEF Exists
  <2>4. removing' \subseteq {connSession[k]}
      BY <1>4, <2>2 DEF DisconnectSession, RemoveSession
  <2>5. ~HasActiveClient(connSession[k])'
    <3>1. UNCHANGED connSession /\ connSession[k] \in Conns
        BY <1>4, <2>1 DEF DisconnectSession, Sound, Placed, HasSession
    <3>2. client'[connSession[k]] \in 0..MaxConns
        BY <2>1, <3>1 DEF Sound, TypeOK, SessionType
    <3> QED
        BY <2>3, <3>1, <3>2, RegistryBounds DEF HasActiveClient, Conns
  <2>6. UNCHANGED connSession
      BY <1>4 DEF DisconnectSession
  <2> QED
      BY <2>2, <2>4, <2>5, <2>6 DEF NoneActive
<1>5. ASSUME UNCHANGED <<client, stage>>
      PROVE  \A s : HasActiveClient(s)' <=> HasActiveClient(s)
    BY <1>5 DEF HasActiveClient, Exists
<1>6. ASSUME NEW s \in Conns, FinishRemoval(s)
      PROVE  NoneActive'
  <2>1. UNCHANGED <<client, stage, due, toRemove>> /\ removing' \subseteq removing
      BY <1>6 DEF FinishRemoval, ReadWillOfRemoved, SendWillOfRemoved, clients, session
  <2> QED
      BY <2>1, <1>5 DEF NoneActive
<1>7. CASE PickDueWill
  <2>1. UNCHANGED <<client, stage, toRemove, removing>>
      BY <1>7 DEF PickDueWill, session, clients
  <2>2. PICK p \in pendingWillMessages :
            due' = IF WillStillWanted(p) THEN [will |-> p.will, session |-> p.session] ELSE NothingDue
      BY <1>7 DEF PickDueWill
  <2>3. due' # NothingDue => ~HasActiveClient(due'.session)
      BY <2>2 DEF WillStillWanted
  <2>4. \A s : HasActiveClient(s)' <=> HasActiveClient(s)
      BY <2>1, <1>5
  <2>5. due' # NothingDue => ~HasActiveClient(due.session)'
      BY <2>1, <2>3 DEF HasActiveClient, Exists
  <2> QED
      BY <2>1, <2>4, <2>5 DEF NoneActive
<1>8. CASE SendDueWill
  <2>1. UNCHANGED <<client, stage, toRemove, removing>> /\ due' = NothingDue
      BY <1>8 DEF SendDueWill, clients
  <2> QED
      BY <2>1, <1>5 DEF NoneActive
<1>9. CASE CollectExpired
  <2>1. /\ UNCHANGED <<client, stage, due, removing>>
        /\ \A s \in toRemove' : ~HasActiveClient(s)
      BY <1>9 DEF CollectExpired, MayRemove, session, clients
  <2> QED
      BY <2>1, <1>5 DEF NoneActive
<1>10. ASSUME NEW s \in Conns, RemoveExpired(s)
       PROVE  NoneActive'
  <2>1. /\ UNCHANGED <<client, stage, due>> /\ s \in toRemove
        /\ toRemove' \subseteq toRemove /\ removing' \subseteq removing \cup {s}
      BY <1>10 DEF RemoveExpired, RemoveSession, session, clients
  <2> QED
      BY <2>1, <1>5 DEF NoneActive
<1>11. CASE Tick \/ Finished \/ UNCHANGED vars
  <2>1. UNCHANGED <<client, stage, tasks>>
      BY <1>11 DEF Tick, Finished, vars, session, clients
  <2> QED
      BY <2>1, <1>5 DEF NoneActive, tasks
<1> QED
    BY <1>2, <1>3, <1>4, <1>6, <1>7, <1>8, <1>9, <1>10, <1>11 DEF Next, DisconnectStep, WillTimer,
       RemovalTimer

\* The will of a session without a client is not that of a connected one.
LEMMA WillOfConnected ==
    ASSUME Sound, WillKept, NEW s \in Conns, ~HasActiveClient(s), NEW k \in Conns,
           stage[k] \in {"assigned", "live"}, clientWill[k]
    PROVE  connSession[k] # s
<1> SUFFICES ASSUME connSession[k] = s PROVE FALSE
    OBVIOUS
<1>1. client[s] = k
    BY DEF WillKept, Sound, WillsPlaced
<1> QED
    BY <1>1 DEF HasActiveClient, Exists, Conns

\* A step that takes wills only from sessions without a client.
LEMMA WillKeptByTask ==
    ASSUME Sound, WillKept, UNCHANGED clients, NEW s \in Conns, ~HasActiveClient(s),
           \A t \in Conns : t # s => willPublish'[t] = willPublish[t]
    PROVE  WillKept'
<1>1. \A k \in Conns : stage[k] \in {"assigned", "live"} /\ clientWill[k] => connSession[k] # s
    BY WillOfConnected
<1>2. \A k \in Conns : stage[k] \in {"assigned", "live"} => connSession[k] \in Conns
    BY DEF Sound, Placed, HasSession
<1> QED
    BY <1>1, <1>2 DEF WillKept, clients

LEMMA StepWillKept ==
    ASSUME IInv, Sound, Alone, NoneActive, WillKept, [Next]_vars
    PROVE  WillKept'
<1>0. \A k \in Conns : \A v : stage' = [stage EXCEPT ![k] = v]
                                  => stage'[k] = v /\ \A j \in Conns : j # k => stage'[j] = stage[j]
    BY DEF Sound, TypeOK, ClientsType
<1>1. ASSUME NEW k \in Conns, HandleConnect(k)
      PROVE  WillKept'
  <2>1. /\ stage' = [stage EXCEPT ![k] = "connecting"] /\ UNCHANGED <<connSession, willPublish>>
        /\ \E v : clientWill' = [clientWill EXCEPT ![k] = v]
      BY <1>1 DEF HandleConnect, session
  <2>2. \A j \in Conns : j # k => clientWill'[j] = clientWill[j]
      BY <2>1 DEF Sound, TypeOK, ClientsType
  <2>3. stage'[k] = "connecting" /\ \A j \in Conns : j # k => stage'[j] = stage[j]
      BY <2>1, <1>0
  <2> QED
      BY <2>1, <2>2, <2>3 DEF WillKept
<1>2. ASSUME NEW k \in Conns, RegisterClientAndKickExistingOne(k)
      PROVE  WillKept'
  <2>1. /\ stage' = [stage EXCEPT ![k] = "registered"] /\ UNCHANGED <<willPublish, clientWill>>
        /\ \E v : connSession' = [connSession EXCEPT ![k] = v]
      BY <1>2 DEF RegisterClientAndKickExistingOne, session
  <2>2. \A j \in Conns : j # k => connSession'[j] = connSession[j]
      BY <2>1 DEF Sound, TypeOK, ClientsType
  <2>3. stage'[k] = "registered" /\ \A j \in Conns : j # k => stage'[j] = stage[j]
      BY <2>1, <1>0
  <2> QED
      BY <2>1, <2>2, <2>3 DEF WillKept
<1>3. ASSUME NEW k \in Conns, AssignActiveConnection(k)
      PROVE  WillKept'
  <2>1. /\ stage[k] = "registered" /\ stage' = [stage EXCEPT ![k] = "assigned"]
        /\ UNCHANGED <<connSession, clientWill>>
        /\ willPublish' = [willPublish EXCEPT ![connSession[k]] = IF clientWill[k] THEN k ELSE 0]
      BY <1>3 DEF AssignActiveConnection
  <2>2. connSession[k] \in Conns
      BY <2>1 DEF Sound, Placed, HasSession
  <2>3. clientWill[k] => willPublish'[connSession[k]] = k
      BY <2>1, <2>2 DEF Sound, TypeOK, SessionType
  <2>4. \A j \in Conns : stage[j] \in {"assigned", "live"} => j = k
      BY <2>1, OnlyOne
  <2> QED
      BY <2>1, <2>3, <2>4, <1>0 DEF WillKept
<1>4. ASSUME NEW k \in Conns, HandleDisconnect(k) \/ DisconnectWill(k) \/ Close(k) \/ DisconnectSession(k)
      PROVE  WillKept'
  <2>1. /\ stage[k] \notin {"unused", "gone"}
        /\ \E v \in {"leaving", "closed", "willdone", "gone"} : stage' = [stage EXCEPT ![k] = v]
      BY <1>4 DEF HandleDisconnect, DisconnectWill, Close, DisconnectSession
  <2>2. \A j \in Conns : stage[j] \in {"assigned", "live"} => j = k
      BY <2>1, OnlyOne
  <2>3. \A j \in Conns : stage'[j] \notin {"assigned", "live"}
      BY <2>1, <2>2, <1>0
  <2> QED
      BY <2>3 DEF WillKept
<1>5. ASSUME NEW k \in Conns, SetSessionProperties(k)
      PROVE  WillKept'
  <2>1. /\ stage[k] = "assigned" /\ stage' = [stage EXCEPT ![k] = "live"]
        /\ UNCHANGED <<connSession, clientWill, willPublish>>
      BY <1>5 DEF SetSessionProperties
  <2> QED
      BY <2>1, <1>0 DEF WillKept
<1>6. ASSUME NEW s \in Conns, FinishRemoval(s)
      PROVE  WillKept'
  <2>1. /\ UNCHANGED clients /\ s \in removing
        /\ UNCHANGED willPublish \/ willPublish' = [willPublish EXCEPT ![s] = 0]
      BY <1>6 DEF FinishRemoval, ReadWillOfRemoved, SendWillOfRemoved, SendWill, session
  <2>2. ~HasActiveClient(s) /\ \A t \in Conns : t # s => willPublish'[t] = willPublish[t]
      BY <2>1 DEF NoneActive, Sound, TypeOK, SessionType
  <2> QED
      BY <2>1, <2>2, WillKeptByTask
<1>7. CASE SendDueWill
  <2>1. /\ UNCHANGED clients /\ due # NothingDue
        /\ willPublish' = [willPublish EXCEPT ![due.session] = 0]
      BY <1>7 DEF SendDueWill, SendWill
  <2>2. ~HasActiveClient(due.session)
      BY <2>1 DEF NoneActive
  <2>3. \A t \in Conns : t # due.session => willPublish'[t] = willPublish[t]
      BY <2>1 DEF Sound, TypeOK, SessionType
  <2>4. CASE due.session \in Conns
      BY <2>1, <2>2, <2>3, <2>4, WillKeptByTask
  <2>5. CASE due.session \notin Conns
      BY <2>1, <2>3, <2>5 DEF WillKept, clients, Sound, Placed, HasSession
  <2> QED
      BY <2>4, <2>5
<1>8. CASE PickDueWill \/ RemovalTimer \/ Tick \/ Finished \/ UNCHANGED vars
  <2>1. UNCHANGED <<stage, connSession, clientWill, willPublish>>
      BY <1>8 DEF PickDueWill, RemovalTimer, CollectExpired, RemoveExpired, Tick, Finished, vars,
         session, clients
  <2> QED
      BY <2>1 DEF WillKept
<1> QED
    BY <1>1, <1>2, <1>3, <1>4, <1>5, <1>6, <1>7, <1>8 DEF Next, ConnectStep, DisconnectStep, WillTimer

(* SessionKeepsItsWill, with one worker thread and connections that come one *)
(* after the other: what assignActiveConnection gave to the session stays,   *)
(* because a timer and a removal take wills only from sessions without a     *)
(* client (NoneActive), so the weak pointer of a queued will stays valid.    *)
THEOREM SessionHoldsItsWill ==
    ASSUME SingleThread, ~Takeover
    PROVE  Spec => []SessionKeepsItsWill
<1>1. WillKept => SessionKeepsItsWill
    BY DEF WillKept, SessionKeepsItsWill, Current
<1>2. Sound /\ Alone /\ [Next]_vars => Alone'
    BY StepAlone
<1>3. Sound /\ OneAtATime /\ Alone /\ NoneActive /\ [Next]_vars => NoneActive'
    BY StepNoneActive
<1>4. IInv /\ Sound /\ Alone /\ NoneActive /\ WillKept /\ [Next]_vars => WillKept'
    BY StepWillKept
<1>5. Spec => []Sound
    BY InitSound, StepSound, WillsBelongToUnfinished, PTL DEF Spec
<1> QED
    BY <1>1, <1>2, <1>3, <1>4, <1>5, InitAlone, OneThreadInOrder, WillsBelongToUnfinished, PTL DEF Spec
-----------------------------------------------------------------------------
(* The main thread: the inductive invariant.                                 *)

IsList(s) == s \in Seq(Range(s))
AreSettings(s) ==
    /\ DOMAIN s = {"root", "plugin", "listeners", "bridges"}
    /\ IsList(s.listeners) /\ IsList(s.bridges)

\* Nothing runs beside the first load, and workers are told nothing before they start.
FirstLoad == step \in Loading /\ ~reload
AsAtFirst ==
    /\ step = "start" => ~reload
    /\ FirstLoad \/ step = "start" =>
          ~started /\ \A t \in MainThreads : ready[t] = "none" /\ inbox[t] = <<>>
    /\ FirstLoad => flags = {} /\ taskQueue = 0

MainShape ==
    /\ step \in Loading \cup {"failed", "others", "start", "count", "wait", "batch", "asked", "left"}
    /\ reload \in BOOLEAN /\ env \in DOMAIN Situation
    /\ AreSettings(parser) /\ AreSettings(active)
    /\ wake \in BOOLEAN /\ signalling \in BOOLEAN /\ started \in BOOLEAN
    /\ taskQueue \in Nat /\ flags \subseteq {"reload", "reopen", "quit"}
    /\ ready \in [MainThreads -> {"none", "starting", "running", "failed"}]
    /\ DOMAIN inbox = MainThreads /\ DOMAIN workerSettings = MainThreads
    /\ \A t \in MainThreads : IsList(inbox[t])

\* Where settings are as the last load left them.
AfterLoad ==
    step \in {"count", "wait", "batch", "asked", "others"}
    \/ (reload /\ step \in {"test", "real", "listen"})
Passing == step \in {"bridges", "threads"}

WorkersTold ==
    AfterLoad /\ torn # "now" => \A t \in MainThreads : ready[t] # "failed" =>
        active = IF inbox[t] = <<>> THEN workerSettings[t] ELSE Last(inbox[t])
TimersMade == started /\ torn = "never" => timers = TimersOf(IF Passing THEN old ELSE active)
SocketFits(f) ==
    /\ DOMAIN sockets[f] = {"listener", "protocol", "listening"} /\ sockets[f].listening \in BOOLEAN
    /\ sockets[f] # NoSocket => /\ sockets[f].listener \in DOMAIN active.listeners
                                /\ started => sockets[f].listening
SocketsFit == torn # "now" \/ Passing => \A f \in DOMAIN sockets : SocketFits(f)

\* Whoever has a bridge is its owner, and when all was passed on every owner has it.
OwnersKnown ==
    /\ DOMAIN assigned = MainThreads /\ IsFiniteSet(DOMAIN bridgeMap)
    /\ \A p \in DOMAIN bridgeMap :
          /\ DOMAIN bridgeMap[p] = {"config", "doomed", "owner"}
          /\ bridgeMap[p].owner = {} \/ \E t \in MainThreads : bridgeMap[p].owner = {t}
    /\ \A t \in MainThreads : \A p \in assigned[t] :
          p \in DOMAIN bridgeMap /\ bridgeMap[p].owner = {t}
OwnersHave ==
    \/ AfterLoad /\ step # "count" /\ torn # "now"
    \/ reload /\ step = "bridges" /\ torn # "now"
    \/ reload /\ step = "threads"
    => \A p \in DOMAIN bridgeMap : \E t \in MainThreads : p \in assigned[t]

\* How many of a listener's turns were a worker's: it was given them, or they were closed.
Turns(n, t) ==
    (n \div Cardinality(MainThreads)) + (IF t < n % Cardinality(MainThreads) THEN 1 ELSE 0)
TurnsFit(l) ==
    /\ l.turn \in Nat /\ l.closed \in Nat /\ l.given \in [MainThreads -> Nat]
    /\ \A t \in MainThreads :
          l.given[t] <= Turns(l.turn, t) /\ Turns(l.turn, t) <= l.given[t] + l.closed
AllTurnsFit == \A i \in DOMAIN serving : TurnsFit(serving[i])

MainIInv ==
    /\ MainShape /\ AsAtFirst /\ RequestsAreSeen /\ WorkersTold /\ TimersMade /\ SocketsFit
    /\ OwnersKnown /\ OwnersHave /\ AllTurnsFit
-----------------------------------------------------------------------------
LEMMA WorkersAreMany ==
    /\ Cardinality(MainThreads) \in Nat \ {0}
    /\ MainThreads = 0..(Cardinality(MainThreads) - 1)
<1>1. Cardinality(MainThreads) \in Nat
    BY MainAssumption, FS_CardinalityType
<1> QED
    BY <1>1, MainAssumption

LEMMA MainStarts == MainInit => MainIInv
<1> SUFFICES ASSUME MainInit PROVE MainIInv
    OBVIOUS
<1>1. AreSettings(NoSettings)
    BY EmptySeq DEF AreSettings, NoSettings, IsList
<1>2. MainShape
    BY <1>1, EmptySeq DEF MainInit, MainShape, Loading, IsList
<1>3. IsFiniteSet({}) /\ DOMAIN <<>> = {}
    BY FS_EmptySet
<1>4. /\ AsAtFirst /\ RequestsAreSeen /\ WorkersTold /\ TimersMade /\ SocketsFit
      /\ OwnersHave /\ AllTurnsFit
    BY <1>3 DEF MainInit, AsAtFirst, FirstLoad, Loading, RequestsAreSeen, WorkersTold, TimersMade,
           SocketsFit, Passing, AfterLoad, OwnersHave, AllTurnsFit
<1>5. OwnersKnown
    BY <1>3 DEF MainInit, OwnersKnown
<1> QED
    BY <1>2, <1>4, <1>5 DEF MainIInv

-----------------------------------------------------------------------------
(* Lists                                                                     *)

LEMMA ListFacts ==
    ASSUME NEW s, IsList(s)
    PROVE  /\ Len(s) \in Nat /\ DOMAIN s = 1..Len(s)
           /\ \A S : (\A i \in 1..Len(s) : s[i] \in S) => s \in Seq(S)
<1>1. Len(s) \in Nat /\ DOMAIN s = 1..Len(s) /\ s = [i \in 1..Len(s) |-> s[i]]
    BY LenProperties DEF IsList
<1>2. ASSUME NEW S, \A i \in 1..Len(s) : s[i] \in S
      PROVE  s \in Seq(S)
    <2>1. [i \in 1..Len(s) |-> s[i]] \in Seq(S)
        BY <1>1, <1>2, IsASeq
    <2> QED
        BY <1>1, <2>1
<1> QED
    BY <1>1, <1>2

LEMMA ListOfElements ==
    ASSUME NEW S, NEW s \in Seq(S)
    PROVE  IsList(s)
<1>1. Len(s) \in Nat /\ DOMAIN s = 1..Len(s) /\ s = [i \in 1..Len(s) |-> s[i]]
    BY LenProperties
<1>2. \A i \in 1..Len(s) : s[i] \in Range(s)
    BY <1>1 DEF Range
<1>3. [i \in 1..Len(s) |-> s[i]] \in Seq(Range(s))
    BY <1>1, <1>2, IsASeq
<1> QED
    BY <1>1, <1>3 DEF IsList

LEMMA OneMoreInList ==
    ASSUME NEW s, NEW x, IsList(s)
    PROVE  IsList(Append(s, x)) /\ Append(s, x) # <<>> /\ Last(Append(s, x)) = x
<1> DEFINE S == Range(s) \cup {x}
<1>1. s \in Seq(S) /\ x \in S
    <2>1. \A i \in 1..Len(s) : s[i] \in S
        BY ListFacts DEF Range
    <2> QED
        BY <2>1, ListFacts
<1> HIDE DEF S
<1>2. /\ Append(s, x) \in Seq(S) /\ Append(s, x) # <<>>
      /\ Len(Append(s, x)) = Len(s) + 1 /\ Append(s, x)[Len(s) + 1] = x
    BY <1>1, AppendProperties
<1>3. IsList(Append(s, x))
    BY <1>2, ListOfElements
<1> QED
    BY <1>2, <1>3 DEF Last

LEMMA OneLessInList ==
    ASSUME NEW s, IsList(s), s # <<>>
    PROVE  /\ IsList(Tail(s))
           /\ Last(s) = IF Tail(s) = <<>> THEN Head(s) ELSE Last(Tail(s))
<1> DEFINE t == Tail(s)
<1>1. s \in Seq(Range(s))
    BY DEF IsList
<1>2. /\ t \in Seq(Range(s)) /\ Head(s) = s[1]
      /\ Len(t) = Len(s) - 1 /\ Len(s) \in Nat \ {0}
      /\ \A i \in 1..Len(t) : t[i] = s[i + 1]
    BY <1>1, HeadTailProperties, EmptySeq, LenProperties
<1> HIDE DEF t
<1>3. IsList(t)
    BY <1>2, ListOfElements
<1>4. ASSUME Len(s) = 1
      PROVE  t = <<>> /\ Last(s) = Head(s)
    <2>1. Len(t) = 0
        BY <1>2, <1>4
    <2>2. t = <<>>
        BY <1>2, <2>1, EmptySeq
    <2> QED
        BY <1>2, <1>4, <2>2 DEF Last
<1>5. ASSUME Len(s) > 1
      PROVE  t # <<>> /\ Last(s) = Last(t)
    <2>1. Len(t) \in 1..Len(t) /\ Len(t) + 1 = Len(s) /\ Len(t) # 0
        BY <1>2, <1>5
    <2>2. t # <<>>
        BY <2>1, EmptySeq
    <2>3. t[Len(t)] = s[Len(s)]
        BY <1>2, <2>1
    <2> QED
        BY <2>2, <2>3 DEF Last
<1>6. Len(s) = 1 \/ Len(s) > 1
    BY <1>2
<1>7. IsList(t) /\ Last(s) = IF t = <<>> THEN Head(s) ELSE Last(t)
    BY <1>3, <1>4, <1>5, <1>6
<1> QED
    BY <1>7 DEF t

LEMMA LowestNumber ==
    ASSUME NEW T, T \subseteq Nat, T # {}
    PROVE  \E m \in T : \A k \in T : ~(k < m)
<1>1. PICK m \in T : \A k \in T : ~ (<<k, m>> \in OpToRel(<, Nat))
    BY NatLessThanWellFounded, WFMin
<1> QED
    BY <1>1 DEF OpToRel

\* The recursion of FlattenSeq, for the first n of some lists.
Flattens(f, s, n) == f = [i \in 1..n |-> IF i = 1 THEN s[i] ELSE f[i - 1] \o s[i]]

LEMMA FlattenExists ==
    ASSUME NEW s, NEW n \in Nat
    PROVE  \E f : Flattens(f, s, n)
<1> DEFINE T == {m \in Nat : ~\E f : Flattens(f, s, m)}
<1>1. SUFFICES ASSUME T # {} PROVE FALSE
    OBVIOUS
<1>2. PICK m \in T : \A k \in T : ~(k < m)
    BY <1>1, LowestNumber
<1>3. CASE m = 0
    <2>1. Flattens(<<>>, s, 0)
        BY DEF Flattens
    <2> QED
        BY <1>2, <1>3, <2>1
<1>4. CASE m # 0
    <2>1. m - 1 \in Nat /\ m \in Nat /\ m - 1 \notin T
        BY <1>2, <1>4
    <2>2. PICK f : Flattens(f, s, m - 1)
        BY <2>1
    <2> DEFINE next == IF m = 1 THEN s[m] ELSE f[m - 1] \o s[m]
               g == [i \in 1..m |-> IF i = m THEN next ELSE f[i]]
    <2>3. f = [i \in 1..(m - 1) |-> IF i = 1 THEN s[i] ELSE f[i - 1] \o s[i]]
        BY <2>2 DEF Flattens
    <2>4. ASSUME NEW i \in 1..m
          PROVE  g[i] = IF i = 1 THEN s[i] ELSE g[i - 1] \o s[i]
        <3>1. CASE i = m /\ m = 1
            BY <3>1
        <3>2. CASE i = m /\ m # 1
            <4>1. i - 1 \in 1..m /\ i - 1 # m
                BY <2>1, <3>2
            <4>2. g[i - 1] = f[m - 1]
                BY <3>2, <4>1
            <4> QED
                BY <3>2, <4>2
        <3>3. CASE i # m /\ i = 1
            <4>1. i \in 1..(m - 1)
                BY <2>1, <3>3
            <4>2. f[i] = s[i]
                BY <2>3, <3>3, <4>1
            <4> QED
                BY <3>3, <4>2
        <3>4. CASE i # m /\ i # 1
            <4>1. i \in 1..(m - 1) /\ i - 1 \in 1..m /\ i - 1 # m
                BY <2>1, <3>4
            <4>2. f[i] = f[i - 1] \o s[i]
                BY <2>3, <3>4, <4>1
            <4>3. g[i] = f[i] /\ g[i - 1] = f[i - 1]
                BY <3>4, <4>1
            <4> QED
                BY <3>4, <4>2, <4>3
        <3> QED
            BY <3>1, <3>2, <3>3, <3>4
    <2>5. g = [i \in 1..m |-> g[i]]
        OBVIOUS
    <2> HIDE DEF g
    <2>6. Flattens(g, s, m)
        BY <2>4, <2>5 DEF Flattens
    <2> QED
        BY <1>2, <2>6
<1> QED
    BY <1>2, <1>3, <1>4

LEMMA FlattenIsList ==
    ASSUME NEW S, NEW s \in Seq(Seq(S))
    PROVE  FlattenSeq(s) \in Seq(S)
<1> DEFINE n == Len(s)
           f == CHOOSE h : Flattens(h, s, n)
           T == {i \in 1..n : f[i] \notin Seq(S)}
<1>1. n \in Nat /\ \A i \in 1..n : s[i] \in Seq(S)
    BY LenProperties
<1>2. Flattens(f, s, n)
    BY <1>1, FlattenExists
<1>3. \A i \in 1..n : f[i] = IF i = 1 THEN s[i] ELSE f[i - 1] \o s[i]
    BY <1>2 DEF Flattens
<1>4. FlattenSeq(s) = IF n = 0 THEN s ELSE f[n]
    BY DEF FlattenSeq, Flattens
<1> HIDE DEF f, n
<1>5. T = {}
    <2> SUFFICES ASSUME T # {} PROVE FALSE
        OBVIOUS
    <2>1. T \subseteq Nat
        BY <1>1
    <2>2. PICK m \in T : \A k \in T : ~(k < m)
        BY <2>1, LowestNumber
    <2>3. m \in 1..n /\ f[m] \notin Seq(S)
        BY <2>2
    <2>4. m # 1
        BY <1>1, <1>3, <2>3
    <2>5. m - 1 \in 1..n /\ m - 1 < m
        BY <1>1, <2>3, <2>4
    <2>6. f[m - 1] \in Seq(S)
        BY <2>2, <2>5
    <2>7. f[m - 1] \o s[m] \in Seq(S)
        BY <1>1, <2>3, <2>6, ConcatProperties
    <2> QED
        BY <1>3, <2>3, <2>4, <2>7
<1>6. CASE n = 0
    BY <1>4, <1>6, EmptySeq DEF n
<1>7. CASE n # 0
    <2>1. n \in 1..n
        BY <1>1, <1>7
    <2> QED
        BY <1>4, <1>5, <1>7, <2>1
<1> QED
    BY <1>6, <1>7

-----------------------------------------------------------------------------
(* Settings, and where everything is                                        *)

LEMMA ListOfLists ==
    ASSUME NEW s, Len(s) \in Nat, DOMAIN s = 1..Len(s), s = [i \in 1..Len(s) |-> s[i]],
           \A i \in 1..Len(s) : IsList(s[i])
    PROVE  /\ IsList(FlattenSeq(s))
           /\ \A x \in Range(FlattenSeq(s)) : \E i \in 1..Len(s) : x \in Range(s[i])
<1> DEFINE S == UNION {Range(s[i]) : i \in 1..Len(s)}
<1>1. ASSUME NEW i \in 1..Len(s)
      PROVE  s[i] \in Seq(S)
    <2>1. IsList(s[i]) /\ Range(s[i]) \subseteq S
        OBVIOUS
    <2>2. \A j \in 1..Len(s[i]) : s[i][j] \in S
        BY <2>1, ListFacts DEF Range
    <2> QED
        BY <2>1, <2>2, ListFacts
<1> HIDE DEF S
<1>2. [i \in 1..Len(s) |-> s[i]] \in Seq(Seq(S))
    BY <1>1, IsASeq
<1>3. FlattenSeq(s) \in Seq(S)
    BY <1>2, FlattenIsList
<1>4. Range(FlattenSeq(s)) \subseteq S
    BY <1>3, LenProperties DEF Range
<1> QED
    BY <1>3, <1>4, ListOfElements DEF S

LEMMA ListByIndex ==
    ASSUME NEW n \in Nat, NEW s, s = [i \in 1..n |-> s[i]]
    PROVE  IsList(s) /\ Len(s) = n
<1>1. \A i \in 1..n : s[i] \in Range(s)
    BY DEF Range
<1>2. [i \in 1..n |-> s[i]] \in Seq(Range(s))
    BY <1>1, IsASeq
<1>3. DOMAIN s = 1..n
    OBVIOUS
<1>4. Len(s) = n
    <2>1. Len(s) \in Nat /\ 1..Len(s) = 1..n
        BY <1>2, <1>3, LenProperties
    <2>2. \A a, b \in Nat : 1..a = 1..b => a <= b
        <3> SUFFICES ASSUME NEW a \in Nat, NEW b \in Nat, 1..a = 1..b, a # 0 PROVE a <= b
            OBVIOUS
        <3>1. a \in 1..a
            OBVIOUS
        <3> QED
            BY <3>1
    <2> QED
        BY <2>1, <2>2
<1> QED
    BY <1>2, <1>4 DEF IsList

LEMMA MultipliedIsList ==
    ASSUME NEW b, NEW name, CountOf(b)[2] \in Nat
    PROVE  IsList(Multiply(b, name))
<1> DEFINE m == Multiply(b, name)
           n == CountOf(b)[2]
<1>1. m = [i \in 1..n |-> m[i]]
    BY DEF Multiply
<1> HIDE DEF m, n
<1>2. IsList(m)
    BY <1>1, ListByIndex DEF n
<1> QED
    BY <1>2 DEF m

LEMMA LoadedAreSettings ==
    ASSUME env \in DOMAIN Situation, NEW l \in LoadedNow(FALSE)
    PROVE  AreSettings(l.settings)
<1> DEFINE parsed == ParsedFile(ConfigPath, Now.disk)
<1>0. PICK p \in parsed : \E names : l = Loaded(p, names, shareFile, FALSE)
    BY DEF LoadedNow, loadFile
<1>1. PICK names : l = Loaded(p, names, shareFile, FALSE)
    BY <1>0
<1>2. /\ IsList(p.listeners) /\ IsList(p.bridges)
      /\ \A i \in DOMAIN p.bridges : CountOf(p.bridges[i])[2] \in Nat
    BY <1>1, ParsedAssumption DEF Now, IsList
<1> HIDE DEF parsed
<1> DEFINE all == [i \in DOMAIN p.bridges |-> Multiply(p.bridges[i], names[PrefixOf(p.bridges[i])])]
<1>3. /\ DOMAIN l.settings = {"root", "plugin", "listeners", "bridges"}
      /\ l.settings.listeners = p.listeners /\ l.settings.bridges = FlattenSeq(all)
    BY <1>1 DEF Loaded
<1>4. \A i \in DOMAIN p.bridges : IsList(all[i])
    BY <1>2, MultipliedIsList
<1>5. all = [i \in 1..Len(p.bridges) |-> all[i]] /\ Len(p.bridges) \in Nat
      /\ DOMAIN p.bridges = 1..Len(p.bridges)
    BY <1>2, ListFacts
<1> HIDE DEF all
<1>6. IsList(all) /\ Len(all) = Len(p.bridges) /\ DOMAIN all = 1..Len(all)
    BY <1>5, ListByIndex
<1>7. IsList(FlattenSeq(all))
    BY <1>4, <1>5, <1>6, ListOfLists
<1> QED
    BY <1>2, <1>3, <1>7 DEF AreSettings

LEMMA ListenersGiven ==
    ASSUME NEW s, AreSettings(s)
    PROVE  AreSettings(WithListeners(s)) /\ AreSettings([s EXCEPT !.bridges = <<>>])
<1>1. IsList(<<>>) /\ IsList(<<WithPort(<<>>, 1883)>>)
    <2> DEFINE x == WithPort(<<>>, 1883)
    <2> HIDE DEF x
    <2>1. <<>> \in Seq({})
        BY EmptySeq
    <2>2. [i \in 1..1 |-> x] \in Seq({x})
        BY IsASeq
    <2>3. <<x>> = [i \in 1..1 |-> x]
        OBVIOUS
    <2>4. IsList(<<>>) /\ IsList(<<x>>)
        BY <2>1, <2>2, <2>3, ListOfElements
    <2> QED
        BY <2>4 DEF x
<1> QED
    BY <1>1 DEF AreSettings, WithListeners

LEMMA TasksWake ==
    ASSUME taskQueue \in Nat, wake \in BOOLEAN, queueThreadInitDecrement
    PROVE  /\ taskQueue' \in Nat /\ wake' \in BOOLEAN /\ taskQueue' > 0
           /\ wake => wake'
           /\ taskQueue = 0 => wake'
<1>1. CASE wake = TRUE \/ taskQueue = 0
    <2>1. wake' = TRUE
        BY <1>1, Zenon DEF queueThreadInitDecrement
    <2> QED
        BY <2>1 DEF queueThreadInitDecrement
<1>2. CASE wake = FALSE /\ taskQueue # 0
    <2>1. wake' = FALSE
        BY <1>2, Zenon DEF queueThreadInitDecrement
    <2> QED
        BY <1>2, <2>1 DEF queueThreadInitDecrement
<1> QED
    BY <1>1, <1>2

LEMMA MainShapeHolds == MainIInv /\ [MainNext]_mainLoopVars => MainShape'
<1> SUFFICES ASSUME MainIInv, [MainNext]_mainLoopVars PROVE MainShape'
    OBVIOUS
<1> USE DEF MainIInv, MainShape, Loading, loadVars, netVars, threadVars, askVars, lifeVars
<1>1. CASE TestLoad
    BY <1>1 DEF TestLoad, Thrown, TakeLoaded
<1>2. CASE RealLoad
    <2>1. AreSettings(parser)'
        <3>1. CASE parser' = parser
            BY <3>1
        <3>2. CASE \E l \in LoadedNow(FALSE) : parser' = l.settings
            BY <3>2, LoadedAreSettings
        <3> QED
            BY <1>2, <3>1, <3>2 DEF RealLoad
    <2> QED
        BY <1>2, <2>1 DEF RealLoad, Thrown, TakeLoaded
<1>3. CASE Listen
    <2>1. AreSettings(active)'
        BY <1>3, ListenersGiven DEF Listen
    <2> QED
        BY <1>3, <2>1 DEF Listen, ThrownHalfWay, Thrown
<1>4. CASE LoadBridges
    <2>1. AreSettings(active)'
        BY <1>4, ListenersGiven DEF LoadBridges
    <2> QED
        BY <1>4, <2>1 DEF LoadBridges, ThrownHalfWay, Thrown
<1>5. CASE TellThreads
    <2>1. DOMAIN inbox' = MainThreads /\ \A t \in MainThreads : IsList(inbox'[t])
        BY <1>5, OneMoreInList DEF TellThreads
    <2> QED
        BY <1>5, <2>1 DEF TellThreads
<1>6. CASE StartThreads \/ CountThreads \/ EpollWait \/ ReadEvent \/ ReloadIfAsked \/ CloseLate
           \/ LeaveLoop \/ WakeUpThread
    BY <1>6 DEF StartThreads, CountThreads, EpollWait, ReadEvent, ReloadIfAsked, CloseLate, LeaveLoop,
           WakeUpThread
<1>7. CASE Accept
    BY <1>7 DEF Accept, Handled
<1>8. CASE DoTheRest
    BY <1>8 DEF DoTheRest, Handled, DoListen
<1>9. ASSUME NEW t \in MainThreads, InitThread(t)
      PROVE  MainShape'
    <2>1. CASE queueThreadInitDecrement
        BY <1>9, <2>1, TasksWake DEF InitThread
    <2>2. CASE UNCHANGED <<taskQueue, wake>>
        BY <1>9, <2>2 DEF InitThread
    <2> QED
        BY <1>9, <2>1, <2>2 DEF InitThread
<1>10. ASSUME NEW t \in MainThreads, ReloadThread(t)
       PROVE  MainShape'
    BY <1>10, OneLessInList DEF ReloadThread
<1>11. CASE Edit
    BY <1>11, MainAssumption DEF Edit
<1>12. CASE Restart
    BY <1>12, MainStarts, ListenersGiven, EmptySeq DEF Restart, AreSettings, NoSettings, IsList
<1>13. ASSUME NEW f \in {"reload", "reopen", "quit"}, Signal(f)
       PROVE  MainShape'
    BY <1>13 DEF Signal
<1>14. ASSUME NEW f \in DOMAIN sockets, Arrive(f)
       PROVE  MainShape'
    BY <1>14 DEF Arrive
<1>15. CASE UNCHANGED mainLoopVars
    BY <1>15 DEF mainLoopVars
<1> QED
    BY <1>1, <1>2, <1>3, <1>4, <1>5, <1>6, <1>7, <1>8, <1>9, <1>10, <1>11, <1>12, <1>13, <1>14, <1>15
    DEF MainNext, LoadStep, LoopStep, WorkerStep, RestsOrIsOver

-----------------------------------------------------------------------------
(* What is asked for, and what was told                                      *)

LEMMA FirstLoadHolds == MainIInv /\ [MainNext]_mainLoopVars => AsAtFirst'
<1> SUFFICES ASSUME MainIInv, [MainNext]_mainLoopVars PROVE AsAtFirst'
    OBVIOUS
<1> USE DEF MainIInv, MainShape, AsAtFirst, FirstLoad, Loading, loadVars, netVars, threadVars, askVars,
        lifeVars
<1>1. CASE TestLoad
    BY <1>1 DEF TestLoad, Thrown
<1>2. CASE RealLoad
    BY <1>2 DEF RealLoad, Thrown
<1>3. CASE Listen
    BY <1>3 DEF Listen, ThrownHalfWay, Thrown
<1>4. CASE LoadBridges
    BY <1>4 DEF LoadBridges, ThrownHalfWay, Thrown
<1>5. CASE TellThreads
    BY <1>5 DEF TellThreads
<1>6. CASE \/ StartThreads \/ CountThreads \/ EpollWait \/ ReadEvent \/ ReloadIfAsked \/ CloseLate
           \/ LeaveLoop \/ WakeUpThread
    <2>1. CASE StartThreads
        BY <2>1 DEF StartThreads
    <2>2. CASE CountThreads \/ EpollWait \/ ReadEvent
        BY <2>2 DEF CountThreads, EpollWait, ReadEvent
    <2>3. CASE ReloadIfAsked
        BY <2>3 DEF ReloadIfAsked
    <2>4. CASE CloseLate
        BY <2>4 DEF CloseLate
    <2>5. CASE LeaveLoop
        BY <2>5 DEF LeaveLoop
    <2>6. CASE WakeUpThread
        BY <2>6 DEF WakeUpThread
    <2> QED
        BY <1>6, <2>1, <2>2, <2>3, <2>4, <2>5, <2>6
<1>7. CASE Accept \/ DoTheRest
    BY <1>7 DEF Accept, DoTheRest, Handled
<1>9. ASSUME NEW t \in MainThreads, InitThread(t)
      PROVE  AsAtFirst'
    BY <1>9 DEF InitThread, queueThreadInitDecrement
<1>10. ASSUME NEW t \in MainThreads, ReloadThread(t)
       PROVE  AsAtFirst'
    BY <1>10 DEF ReloadThread
<1>11. CASE Edit
    BY <1>11 DEF Edit
<1>12. CASE Restart
    BY <1>12 DEF Restart
<1>13. ASSUME NEW f \in {"reload", "reopen", "quit"}, Signal(f)
       PROVE  AsAtFirst'
    BY <1>13 DEF Signal
<1>14. ASSUME NEW f \in DOMAIN sockets, Arrive(f)
       PROVE  AsAtFirst'
    BY <1>14 DEF Arrive
<1>15. CASE UNCHANGED mainLoopVars
    BY <1>15 DEF mainLoopVars
<1> QED
    BY <1>1, <1>2, <1>3, <1>4, <1>5, <1>6, <1>7, <1>9, <1>10, <1>11, <1>12, <1>13, <1>14, <1>15
    DEF MainNext, LoadStep, LoopStep, WorkerStep, RestsOrIsOver

LEMMA RequestsHold == MainIInv /\ [MainNext]_mainLoopVars => RequestsAreSeen'
<1> SUFFICES ASSUME MainIInv, [MainNext]_mainLoopVars PROVE RequestsAreSeen'
    OBVIOUS
<1> USE DEF MainIInv, MainShape, AsAtFirst, FirstLoad, RequestsAreSeen, Handling, Loading, loadVars,
        netVars, threadVars, askVars, lifeVars
<1>1. CASE TestLoad
    BY <1>1 DEF TestLoad, Thrown
<1>2. CASE RealLoad
    BY <1>2 DEF RealLoad, Thrown
<1>3. CASE Listen
    BY <1>3 DEF Listen, ThrownHalfWay, Thrown
<1>4. CASE LoadBridges
    BY <1>4 DEF LoadBridges, ThrownHalfWay, Thrown
<1>5. CASE TellThreads
    BY <1>5 DEF TellThreads
<1>6. CASE \/ StartThreads \/ CountThreads \/ EpollWait \/ ReadEvent \/ ReloadIfAsked \/ CloseLate
           \/ LeaveLoop \/ WakeUpThread
    <2>1. CASE StartThreads
        BY <2>1 DEF StartThreads
    <2>2. CASE CountThreads \/ EpollWait \/ ReadEvent
        BY <2>2 DEF CountThreads, EpollWait, ReadEvent
    <2>3. CASE ReloadIfAsked
        BY <2>3 DEF ReloadIfAsked
    <2>4. CASE CloseLate
        BY <2>4 DEF CloseLate
    <2>5. CASE LeaveLoop
        BY <2>5 DEF LeaveLoop
    <2>6. CASE WakeUpThread
        BY <2>6 DEF WakeUpThread
    <2> QED
        BY <1>6, <2>1, <2>2, <2>3, <2>4, <2>5, <2>6
<1>7. CASE Accept
    BY <1>7 DEF Accept, Handled
<1>8. CASE DoTheRest
    <2>1. step = "others" /\ step' \in {"wait", "batch"} /\ taskQueue' = 0 /\ signalling' = signalling
        BY <1>8 DEF DoTheRest, Handled
    <2>2. "reload" \in flags => wake \/ signalling
        BY <2>1
    <2>3. \/ flags' = (flags \ {"reopen"}) \union {"quit"} /\ wake' = TRUE
          \/ flags' = flags \ {"reopen", "quit"} /\ wake' = wake
        BY <1>8 DEF DoTheRest, DoListen
    <2>4. "reload" \in flags' => "reload" \in flags
        BY <2>3
    <2>5. flags' \ {"reload"} # {} => wake' = TRUE
        BY <2>3
    <2> QED
        BY <2>1, <2>2, <2>3, <2>4, <2>5
<1>9. ASSUME NEW t \in MainThreads, InitThread(t)
      PROVE  RequestsAreSeen'
    <2>1. step' = step /\ signalling' = signalling /\ flags' \subseteq flags
        BY <1>9 DEF InitThread
    <2>2. CASE queueThreadInitDecrement
        BY <2>1, <2>2, TasksWake
    <2>3. CASE UNCHANGED <<taskQueue, wake>>
        BY <2>1, <2>3
    <2> QED
        BY <1>9, <2>2, <2>3 DEF InitThread
<1>10. ASSUME NEW t \in MainThreads, ReloadThread(t)
       PROVE  RequestsAreSeen'
    BY <1>10 DEF ReloadThread
<1>11. CASE Edit
    BY <1>11 DEF Edit
<1>12. CASE Restart
    BY <1>12 DEF Restart
<1>13. ASSUME NEW f \in {"reload", "reopen", "quit"}, Signal(f)
       PROVE  RequestsAreSeen'
    BY <1>13 DEF Signal
<1>14. ASSUME NEW f \in DOMAIN sockets, Arrive(f)
       PROVE  RequestsAreSeen'
    BY <1>14 DEF Arrive
<1>15. CASE UNCHANGED mainLoopVars
    BY <1>15 DEF mainLoopVars
<1> QED
    BY <1>1, <1>2, <1>3, <1>4, <1>5, <1>6, <1>7, <1>8, <1>9, <1>10, <1>11, <1>12, <1>13, <1>14, <1>15
    DEF MainNext, LoadStep, LoopStep, WorkerStep, RestsOrIsOver

LEMMA WorkersToldHolds == MainIInv /\ [MainNext]_mainLoopVars => WorkersTold'
<1> SUFFICES ASSUME MainIInv, [MainNext]_mainLoopVars PROVE WorkersTold'
    OBVIOUS
<1> USE DEF MainIInv, MainShape, AsAtFirst, FirstLoad, WorkersTold, AfterLoad, Loading, loadVars,
        netVars, threadVars, askVars, lifeVars
<1>1. CASE TestLoad
    BY <1>1 DEF TestLoad, Thrown
<1>2. CASE RealLoad
    BY <1>2 DEF RealLoad, Thrown
<1>3. CASE Listen
    BY <1>3 DEF Listen, ThrownHalfWay, Thrown
<1>4. CASE LoadBridges
    BY <1>4 DEF LoadBridges, ThrownHalfWay, Thrown
<1>5. CASE TellThreads
    <2>1. CASE reload
        <3>1. ASSUME NEW t \in MainThreads
              PROVE  inbox'[t] # <<>> /\ Last(inbox'[t]) = active
            <4>1. inbox'[t] = Append(inbox[t], active) /\ IsList(inbox[t])
                BY <1>5, <2>1 DEF TellThreads
            <4> QED
                BY ONLY <4>1, OneMoreInList, Zenon
        <3> QED
            BY <1>5, <2>1, <3>1 DEF TellThreads
    <2> QED
        BY <1>5, <2>1 DEF TellThreads
<1>6. CASE \/ StartThreads \/ CountThreads \/ EpollWait \/ ReadEvent \/ ReloadIfAsked \/ CloseLate
           \/ LeaveLoop \/ WakeUpThread
    <2>1. CASE StartThreads
        BY <2>1 DEF StartThreads
    <2>2. CASE CountThreads \/ EpollWait \/ ReadEvent
        BY <2>2 DEF CountThreads, EpollWait, ReadEvent
    <2>3. CASE ReloadIfAsked
        BY <2>3 DEF ReloadIfAsked
    <2>4. CASE CloseLate
        BY <2>4 DEF CloseLate
    <2>5. CASE LeaveLoop
        BY <2>5 DEF LeaveLoop
    <2>6. CASE WakeUpThread
        BY <2>6 DEF WakeUpThread
    <2> QED
        BY <1>6, <2>1, <2>2, <2>3, <2>4, <2>5, <2>6
<1>7. CASE Accept \/ DoTheRest
    BY <1>7 DEF Accept, DoTheRest, Handled
<1>9. ASSUME NEW t \in MainThreads, InitThread(t)
      PROVE  WorkersTold'
    BY <1>9 DEF InitThread
<1>10. ASSUME NEW t \in MainThreads, ReloadThread(t)
       PROVE  WorkersTold'
    <2>1. Last(inbox[t]) = IF inbox'[t] = <<>> THEN workerSettings'[t] ELSE Last(inbox'[t])
        BY <1>10, OneLessInList DEF ReloadThread
    <2>2. \A u \in MainThreads \ {t} : inbox'[u] = inbox[u] /\ workerSettings'[u] = workerSettings[u]
        BY <1>10 DEF ReloadThread
    <2> QED
        BY <1>10, <2>1, <2>2 DEF ReloadThread
<1>11. CASE Edit
    BY <1>11 DEF Edit
<1>12. CASE Restart
    BY <1>12 DEF Restart
<1>13. ASSUME NEW f \in {"reload", "reopen", "quit"}, Signal(f)
       PROVE  WorkersTold'
    BY <1>13 DEF Signal
<1>14. ASSUME NEW f \in DOMAIN sockets, Arrive(f)
       PROVE  WorkersTold'
    BY <1>14 DEF Arrive
<1>15. CASE UNCHANGED mainLoopVars
    BY <1>15 DEF mainLoopVars
<1> QED
    BY <1>1, <1>2, <1>3, <1>4, <1>5, <1>6, <1>7, <1>9, <1>10, <1>11, <1>12, <1>13, <1>14, <1>15
    DEF MainNext, LoadStep, LoopStep, WorkerStep, RestsOrIsOver

LEMMA TimersHold == MainIInv /\ [MainNext]_mainLoopVars => TimersMade'
<1> SUFFICES ASSUME MainIInv, [MainNext]_mainLoopVars PROVE TimersMade'
    OBVIOUS
<1> USE DEF MainIInv, MainShape, AsAtFirst, FirstLoad, TimersMade, Passing, Loading, loadVars,
        netVars, threadVars, askVars, lifeVars
<1>1. CASE TestLoad
    BY <1>1 DEF TestLoad, Thrown
<1>2. CASE RealLoad
    BY <1>2 DEF RealLoad, Thrown
<1>3. CASE Listen
    BY <1>3 DEF Listen, ThrownHalfWay, Thrown
<1>4. CASE LoadBridges
    BY <1>4 DEF LoadBridges, ThrownHalfWay, Thrown, TimersOf, AreSettings
<1>5. CASE TellThreads
    BY <1>5 DEF TellThreads, ReloadTimers
<1>6. CASE \/ StartThreads \/ CountThreads \/ EpollWait \/ ReadEvent \/ ReloadIfAsked \/ CloseLate
           \/ LeaveLoop \/ WakeUpThread
    <2>1. CASE StartThreads
        BY <2>1 DEF StartThreads
    <2>2. CASE CountThreads \/ EpollWait \/ ReadEvent
        BY <2>2 DEF CountThreads, EpollWait, ReadEvent
    <2>3. CASE ReloadIfAsked
        BY <2>3 DEF ReloadIfAsked
    <2>4. CASE CloseLate
        BY <2>4 DEF CloseLate
    <2>5. CASE LeaveLoop
        BY <2>5 DEF LeaveLoop
    <2>6. CASE WakeUpThread
        BY <2>6 DEF WakeUpThread
    <2> QED
        BY <1>6, <2>1, <2>2, <2>3, <2>4, <2>5, <2>6
<1>7. CASE Accept
    BY <1>7 DEF Accept, Handled
<1>8. CASE DoTheRest
    BY <1>8 DEF DoTheRest, Handled, DoListen, ReloadTimers
<1>9. ASSUME NEW t \in MainThreads, InitThread(t)
      PROVE  TimersMade'
    BY <1>9 DEF InitThread
<1>10. ASSUME NEW t \in MainThreads, ReloadThread(t)
       PROVE  TimersMade'
    BY <1>10 DEF ReloadThread
<1>11. CASE Edit
    BY <1>11 DEF Edit
<1>12. CASE Restart
    BY <1>12 DEF Restart
<1>13. ASSUME NEW f \in {"reload", "reopen", "quit"}, Signal(f)
       PROVE  TimersMade'
    BY <1>13 DEF Signal
<1>14. ASSUME NEW f \in DOMAIN sockets, Arrive(f)
       PROVE  TimersMade'
    BY <1>14 DEF Arrive
<1>15. CASE UNCHANGED mainLoopVars
    BY <1>15 DEF mainLoopVars
<1> QED
    BY <1>1, <1>2, <1>3, <1>4, <1>5, <1>6, <1>7, <1>8, <1>9, <1>10, <1>11, <1>12, <1>13, <1>14, <1>15
    DEF MainNext, LoadStep, LoopStep, WorkerStep, RestsOrIsOver

-----------------------------------------------------------------------------
(* Sockets                                                                   *)

LEMMA SocketsOfOne ==
    ASSUME NEW s, NEW i
    PROVE  /\ IsList(SocketsOf(s, i))
           /\ \A x \in Range(SocketsOf(s, i)) :
                 \E p : x = [listener |-> i, protocol |-> p, listening |-> reload]
<1> DEFINE b == s.listeners[i]
           protocols == IF Given(b, "inet_protocol", "ip4_ip6") = "ip4_ip6" THEN <<"ip4", "ip6">>
                        ELSE <<b.inet_protocol>>
           m == SocketsOf(s, i)
<1>1. DOMAIN protocols = 1..2 \/ DOMAIN protocols = 1..1
    OBVIOUS
<1>2. m = <<>> \/ m = [j \in DOMAIN protocols |->
                           [listener |-> i, protocol |-> protocols[j], listening |-> reload]]
    BY DEF SocketsOf
<1> HIDE DEF protocols, m
<1>3. CASE m = <<>>
    <2>1. m \in Seq({}) /\ Range(m) = {}
        BY <1>3, EmptySeq DEF Range
    <2> QED
        BY <2>1, ListOfElements DEF m
<1>4. CASE m # <<>>
    <2>1. PICK n \in {1, 2} : DOMAIN protocols = 1..n
        BY <1>1
    <2>2. m = [j \in 1..n |-> m[j]]
        BY <1>2, <1>4, <2>1
    <2>3. IsList(m)
        BY <2>2, ListByIndex
    <2>4. \A x \in Range(m) : \E p : x = [listener |-> i, protocol |-> p, listening |-> reload]
        BY <1>2, <1>4 DEF Range
    <2> QED
        BY <2>3, <2>4 DEF m
<1> QED
    BY <1>3, <1>4

LEMMA SocketsOfSome ==
    ASSUME NEW s, NEW n \in Nat, NEW f \in DOMAIN SocketsUpTo(s, n)
    PROVE  \E i \in 1..n : \E p :
               SocketsUpTo(s, n)[f] = [listener |-> i, protocol |-> p, listening |-> reload]
<1> DEFINE all == [i \in 1..n |-> SocketsOf(s, i)]
<1>1. all = [i \in 1..n |-> all[i]] /\ \A i \in 1..n : all[i] = SocketsOf(s, i)
    OBVIOUS
<1>2. SocketsUpTo(s, n) = FlattenSeq(all)
    BY DEF SocketsUpTo
<1> HIDE DEF all
<1>3. IsList(all) /\ Len(all) = n /\ DOMAIN all = 1..n
    BY <1>1, ListByIndex
<1>4. \A i \in 1..n : IsList(all[i])
    BY <1>1, SocketsOfOne
<1>5. \A x \in Range(FlattenSeq(all)) : \E i \in 1..n : x \in Range(all[i])
    BY <1>1, <1>3, <1>4, ListOfLists
<1>6. SocketsUpTo(s, n)[f] \in Range(FlattenSeq(all))
    BY <1>2 DEF Range
<1>7. PICK i \in 1..n : SocketsUpTo(s, n)[f] \in Range(all[i])
    BY <1>5, <1>6
<1> QED
    BY <1>1, <1>7, SocketsOfOne

LEMMA SocketsHold == MainIInv /\ [MainNext]_mainLoopVars => SocketsFit'
<1> SUFFICES ASSUME MainIInv, [MainNext]_mainLoopVars PROVE SocketsFit'
    OBVIOUS
<1> USE DEF MainIInv, MainShape, AsAtFirst, FirstLoad, SocketsFit, SocketFits, Passing, Loading,
        loadVars, netVars, threadVars, askVars, lifeVars
<1>1. CASE TestLoad
    BY <1>1 DEF TestLoad, Thrown
<1>2. CASE RealLoad
    BY <1>2 DEF RealLoad, Thrown
<1>3. CASE Listen
    <2> DEFINE s == WithListeners(parser)
               all == Len(s.listeners)
    <2>1. active' = s /\ AreSettings(s) /\ UNCHANGED <<started, reload>> /\ (started => reload)
        BY <1>3, ListenersGiven DEF Listen
    <2>2. all \in Nat /\ DOMAIN s.listeners = 1..all
        BY <2>1, ListFacts DEF AreSettings
    <2>3. (torn' = "now" /\ ~Passing') \/ sockets' = SocketsUpTo(s, all)
        BY <1>3 DEF Listen, ThrownHalfWay, Thrown
    <2> HIDE DEF s, all
    <2>5. ASSUME sockets' = SocketsUpTo(s, all), NEW f \in DOMAIN sockets'
          PROVE  SocketFits(f)'
        <3>1. PICK i \in 1..all : \E p :
                  sockets'[f] = [listener |-> i, protocol |-> p, listening |-> reload]
            BY <2>2, <2>5, SocketsOfSome
        <3>2. /\ DOMAIN sockets'[f] = {"listener", "protocol", "listening"}
              /\ sockets'[f].listening = reload /\ sockets'[f].listener = i
            BY <3>1
        <3>3. i \in DOMAIN active'.listeners
            BY <2>1, <2>2, <3>1
        <3> QED
            BY <2>1, <3>2, <3>3
    <2> QED
        BY <2>3, <2>5
<1>4. CASE LoadBridges
    <2>1. active'.listeners = active.listeners
        BY <1>4 DEF LoadBridges, AreSettings
    <2>2. sockets' = sockets /\ started' = started /\ step = "bridges"
        BY <1>4 DEF LoadBridges
    <2>3. torn' = "now" \/ step' = "threads"
        BY <1>4 DEF LoadBridges, ThrownHalfWay
    <2> QED
        BY <2>1, <2>2
<1>5. CASE TellThreads
    BY <1>5 DEF TellThreads
<1>6. CASE \/ StartThreads \/ CountThreads \/ EpollWait \/ ReadEvent \/ ReloadIfAsked \/ CloseLate
           \/ LeaveLoop \/ WakeUpThread
    <2>1. CASE StartThreads \/ CountThreads \/ EpollWait \/ ReadEvent \/ ReloadIfAsked
        BY <2>1 DEF StartThreads, CountThreads, EpollWait, ReadEvent, ReloadIfAsked
    <2>2. CASE CloseLate \/ WakeUpThread
        BY <2>2 DEF CloseLate, WakeUpThread
    <2>3. CASE LeaveLoop
        BY <2>3 DEF LeaveLoop
    <2> QED
        BY <1>6, <2>1, <2>2, <2>3
<1>7. CASE Accept
    <2>1. UNCHANGED <<torn, active, started>> /\ step' \in {"wait", "batch"} /\ step = "batch"
        BY <1>7 DEF Accept, Handled
    <2>2. CASE UNCHANGED sockets
        BY <2>1, <2>2
    <2> DEFINE fd == Head(batch)
    <2>3. \/ UNCHANGED sockets
          \/ /\ fd \notin DOMAIN sockets
             /\ sockets' = [f \in {fd} \cup DOMAIN sockets |-> IF f = fd THEN NoSocket ELSE sockets[f]]
        BY <1>7 DEF Accept
    <2> HIDE DEF fd
    <2>4. CASE /\ fd \notin DOMAIN sockets
               /\ sockets' = [f \in {fd} \cup DOMAIN sockets |-> IF f = fd THEN NoSocket ELSE sockets[f]]
        <3>1. /\ DOMAIN sockets' = {fd} \cup DOMAIN sockets /\ sockets'[fd] = NoSocket
              /\ \A f \in DOMAIN sockets : sockets'[f] = sockets[f]
            BY <2>4
        <3>2. DOMAIN NoSocket = {"listener", "protocol", "listening"} /\ NoSocket.listening \in BOOLEAN
            BY DEF NoSocket
        <3> QED
            BY <2>1, <3>1, <3>2
    <2> QED
        BY <2>2, <2>3, <2>4
<1>8. CASE DoTheRest
    <2>1. UNCHANGED <<torn, active>> /\ step' \in {"wait", "batch"} /\ step = "others"
        BY <1>8 DEF DoTheRest, Handled
    <2>2. CASE UNCHANGED <<sockets, started>>
        BY <2>1, <2>2
    <2>3. CASE /\ NoSocket \notin Range(sockets)
               /\ sockets' = [f \in DOMAIN sockets |-> [sockets[f] EXCEPT !.listening = TRUE]]
        <3>1. SUFFICES ASSUME torn # "now", NEW f \in DOMAIN sockets PROVE SocketFits(f)'
            BY <2>1, <2>3
        <3>2. SocketFits(f) /\ sockets[f] # NoSocket
            BY <2>1, <2>3, <3>1 DEF Range
        <3>3. /\ DOMAIN sockets'[f] = DOMAIN sockets[f] /\ sockets'[f].listening = TRUE
              /\ sockets'[f].listener = sockets[f].listener
            BY <2>3, <3>2
        <3> QED
            BY <2>1, <3>2, <3>3
    <2>4. CASE \E done \in SUBSET {f \in DOMAIN sockets : sockets[f] # NoSocket} :
                   /\ sockets' = [f \in DOMAIN sockets |->
                                     [sockets[f] EXCEPT !.listening = @ \/ f \in done]]
                   /\ started' = started
        <3>1. PICK done \in SUBSET {f \in DOMAIN sockets : sockets[f] # NoSocket} :
                   /\ sockets' = [f \in DOMAIN sockets |->
                                     [sockets[f] EXCEPT !.listening = @ \/ f \in done]]
                   /\ started' = started
            BY <2>4
        <3>2. SUFFICES ASSUME torn # "now", NEW f \in DOMAIN sockets PROVE SocketFits(f)'
            BY <2>1, <3>1
        <3>3. SocketFits(f)
            BY <2>1, <3>2
        <3>4. /\ DOMAIN sockets'[f] = DOMAIN sockets[f]
              /\ sockets'[f].listener = sockets[f].listener
              /\ sockets'[f].protocol = sockets[f].protocol
            BY <3>1, <3>2, <3>3
        <3>5. sockets'[f].listening = (sockets[f].listening \/ f \in done)
            BY <3>1, <3>2, <3>3
        <3>6. sockets'[f].listening \in BOOLEAN /\ (sockets[f].listening => sockets'[f].listening)
            <4>1. CASE sockets[f].listening \/ f \in done
                BY <3>5, <4>1
            <4>2. CASE ~(sockets[f].listening \/ f \in done)
                BY <3>5, <4>2
            <4> QED
                BY <4>1, <4>2
        <3>7. sockets[f] = NoSocket => sockets'[f] = NoSocket
            <4>1. SUFFICES ASSUME sockets[f] = NoSocket PROVE sockets'[f] = NoSocket
                OBVIOUS
            <4>2. f \notin done
                BY <4>1
            <4>3. sockets[f].listening = FALSE
                BY <4>1 DEF NoSocket
            <4>4. (sockets[f].listening \/ f \in done) = FALSE
                BY <4>2, <4>3, Zenon
            <4>5. sockets'[f] = [sockets[f] EXCEPT !.listening = FALSE]
                BY <3>1, <3>2, <4>4, Zenon
            <4>6. sockets'[f] = [NoSocket EXCEPT !.listening = FALSE]
                BY <4>1, <4>5, Zenon
            <4> QED
                BY <4>6 DEF NoSocket
        <3> QED
            BY <2>1, <3>1, <3>3, <3>4, <3>6, <3>7
    <2> QED
        BY <1>8, <2>2, <2>3, <2>4 DEF DoTheRest, DoListen
<1>9. ASSUME NEW t \in MainThreads, InitThread(t) \/ ReloadThread(t)
      PROVE  SocketsFit'
    BY <1>9 DEF InitThread, ReloadThread
<1>11. CASE Edit
    BY <1>11 DEF Edit
<1>12. CASE Restart
    BY <1>12 DEF Restart
<1>13. ASSUME NEW f \in {"reload", "reopen", "quit"}, Signal(f)
       PROVE  SocketsFit'
    BY <1>13 DEF Signal
<1>14. ASSUME NEW f \in DOMAIN sockets, Arrive(f)
       PROVE  SocketsFit'
    BY <1>14 DEF Arrive
<1>15. CASE UNCHANGED mainLoopVars
    BY <1>15 DEF mainLoopVars
<1> QED
    BY <1>1, <1>2, <1>3, <1>4, <1>5, <1>6, <1>7, <1>8, <1>9, <1>11, <1>12, <1>13, <1>14, <1>15
    DEF MainNext, LoadStep, LoopStep, WorkerStep, RestsOrIsOver

-----------------------------------------------------------------------------
(* Bridges                                                                   *)

LEMMA ListOfSet ==
    ASSUME NEW S, IsFiniteSet(S), NEW x \in S
    PROVE  \E i \in DOMAIN SetToSeq(S) : SetToSeq(S)[i] = x /\ i \in Nat \ {0}
<1> DEFINE n == Cardinality(S)
           f == SetToSeq(S)
<1>1. n \in Nat /\ \E g \in [1..n -> S] : IsInjective(g)
    BY FS_CardinalityType DEF ExistsBijection, Bijection, Injection
<1>2. f \in [1..n -> S] /\ IsInjective(f)
    BY <1>1 DEF SetToSeq
<1>3. f \in Injection(1..n, S)
    BY <1>2 DEF Injection
<1>4. Cardinality(1..n) = n
    BY <1>1, FS_Interval
<1> HIDE DEF n, f
<1>5. Cardinality(1..n) = Cardinality(S)
    BY <1>4 DEF n
<1>6. f \in Surjection(1..n, S)
    BY <1>3, <1>5, FS_Injection
<1>7. PICK i \in 1..n : f[i] = x
    BY <1>6 DEF Surjection
<1>8. i \in DOMAIN f /\ i \in Nat \ {0}
    BY <1>1, <1>2, <1>7
<1> QED
    BY <1>7, <1>8 DEF f

FitsOwner(b) ==
    /\ DOMAIN b = {"config", "doomed", "owner"}
    /\ b.owner = {} \/ \E t \in MainThreads : b.owner = {t}

LEMMA ConfiguredFits ==
    ASSUME NEW s, AreSettings(s)
    PROVE  /\ IsFiniteSet(DOMAIN Configured(s))
           /\ \A p \in DOMAIN Configured(s) :
                 /\ DOMAIN Configured(s)[p] = {"config", "doomed", "owner"}
                 /\ Configured(s)[p].owner = IF p \in DOMAIN bridgeMap THEN bridgeMap[p].owner ELSE {}
<1>1. Len(s.bridges) \in Nat /\ DOMAIN s.bridges = 1..Len(s.bridges)
    BY ListFacts DEF AreSettings
<1> DEFINE n == Len(s.bridges)
           P == {s.bridges[i].prefix : i \in 1..n}
           f == [i \in 1..n |-> s.bridges[i].prefix]
<1>2. DOMAIN Configured(s) = P
    BY <1>1 DEF Configured, ConfiguredWith
<1>3. \A p \in P :
         /\ DOMAIN Configured(s)[p] = {"config", "doomed", "owner"}
         /\ Configured(s)[p].owner = IF p \in DOMAIN bridgeMap THEN bridgeMap[p].owner ELSE {}
    BY <1>1 DEF Configured, ConfiguredWith
<1>4. f \in Surjection(1..n, P)
    BY DEF Surjection
<1>5. IsFiniteSet(1..n)
    BY <1>1, FS_Interval
<1> HIDE DEF f, P
<1>6. IsFiniteSet(P)
    BY <1>4, <1>5, FS_Surjection
<1> QED
    BY <1>2, <1>3, <1>6

LEMMA EachHasOwner ==
    ASSUME NEW map, IsFiniteSet(DOMAIN map), \A p \in DOMAIN map : FitsOwner(map[p])
    PROVE  /\ DOMAIN WithOwner(map) = DOMAIN map
           /\ \A p \in DOMAIN map :
                 /\ DOMAIN WithOwner(map)[p] = {"config", "doomed", "owner"}
                 /\ map[p].owner # {} => WithOwner(map)[p] = map[p]
                 /\ \E t \in MainThreads : WithOwner(map)[p].owner = {t}
<1>1. DOMAIN WithOwner(map) = DOMAIN map
    BY DEF WithOwner
<1>2. ASSUME NEW p \in DOMAIN map, map[p].owner # {}
      PROVE  WithOwner(map)[p] = map[p]
    BY <1>2 DEF WithOwner
<1>3. ASSUME NEW p \in DOMAIN map, map[p].owner = {}
      PROVE  /\ DOMAIN WithOwner(map)[p] = {"config", "doomed", "owner"}
             /\ \E t \in MainThreads : WithOwner(map)[p].owner = {t}
    <2> DEFINE T == {q \in DOMAIN map : map[q].owner = {} /\ map[q].config.group = map[p].config.group}
               k == (CHOOSE i \in DOMAIN SetToSeq(T) : SetToSeq(T)[i] = p) - 1
               N == Cardinality(MainThreads)
    <2>1. IsFiniteSet(T) /\ p \in T
        BY <1>3, FS_Subset
    <2>2. WithOwner(map)[p] = [map[p] EXCEPT !.owner = {k % N}]
        BY <1>3 DEF WithOwner
    <2> HIDE DEF T
    <2>3. k \in Nat
        <3>1. \E i \in DOMAIN SetToSeq(T) : SetToSeq(T)[i] = p
            BY <2>1, ListOfSet
        <3> DEFINE j == CHOOSE i \in DOMAIN SetToSeq(T) : SetToSeq(T)[i] = p
        <3>2. j \in DOMAIN SetToSeq(T)
            BY <3>1
        <3>3. DOMAIN SetToSeq(T) \subseteq Nat \ {0}
            <4>1. Cardinality(T) \in Nat /\ \E g \in [1..Cardinality(T) -> T] : IsInjective(g)
                BY <2>1, FS_CardinalityType DEF ExistsBijection, Bijection, Injection
            <4>2. SetToSeq(T) \in [1..Cardinality(T) -> T]
                BY <4>1 DEF SetToSeq
            <4> QED
                BY <4>1, <4>2
        <3> HIDE DEF j
        <3>4. j \in Nat \ {0}
            BY <3>2, <3>3
        <3>5. k = j - 1
            BY DEF j
        <3> QED
            BY <3>4, <3>5
    <2> HIDE DEF k, N
    <2>4. k % N \in MainThreads
        <3>1. N \in Nat \ {0} /\ MainThreads = 0..(N - 1)
            BY WorkersAreMany DEF N
        <3> QED
            BY <2>3, <3>1
    <2>5. "owner" \in DOMAIN map[p] /\ DOMAIN map[p] = {"config", "doomed", "owner"}
        BY DEF FitsOwner
    <2> QED
        BY <2>2, <2>4, <2>5
<1> QED
    BY <1>1, <1>2, <1>3 DEF FitsOwner

LEMMA SentToOwners ==
    ASSUME NEW map, IsFiniteSet(DOMAIN map), \A p \in DOMAIN map : FitsOwner(map[p]),
           DOMAIN assigned = MainThreads,
           \A t \in MainThreads : \A p \in assigned[t] : p \in DOMAIN map /\ map[p].owner = {t},
           SendBridgesToThreads(map)
    PROVE  /\ OwnersKnown'
           /\ \A p \in DOMAIN bridgeMap' : \E t \in MainThreads : p \in assigned'[t]
<1> DEFINE owned == WithOwner(map)
           toGive(t) == {p \in DOMAIN owned : owned[p].owner = {t} /\ ~owned[p].doomed}
           dropping(t) == {p \in DOMAIN owned : owned[p].owner = {t} /\ owned[p].doomed}
<1>1. /\ DOMAIN owned = DOMAIN map
      /\ \A p \in DOMAIN map :
            /\ DOMAIN owned[p] = {"config", "doomed", "owner"}
            /\ map[p].owner # {} => owned[p] = map[p]
            /\ \E t \in MainThreads : owned[p].owner = {t}
    BY EachHasOwner
<1>2. /\ DOMAIN bridgeMap' = {p \in DOMAIN owned : ~owned[p].doomed}
      /\ \A p \in DOMAIN bridgeMap' : bridgeMap'[p] = owned[p]
      /\ DOMAIN assigned' = MainThreads
      /\ \A t \in MainThreads : assigned'[t] = (assigned[t] \ dropping(t)) \union toGive(t)
    BY DEF SendBridgesToThreads, Restrict
<1> HIDE DEF owned
<1>3. IsFiniteSet(DOMAIN bridgeMap')
    BY <1>1, <1>2, FS_Subset
<1>4. ASSUME NEW t \in MainThreads, NEW p \in assigned'[t]
      PROVE  p \in DOMAIN bridgeMap' /\ bridgeMap'[p].owner = {t}
    <2>1. CASE p \in toGive(t)
        BY <1>2, <2>1
    <2>2. CASE p \in assigned[t] /\ p \notin dropping(t)
        <3>1. p \in DOMAIN owned /\ owned[p].owner = {t}
            BY <1>1, <2>2
        <3>2. ~owned[p].doomed
            BY <2>2, <3>1
        <3> QED
            BY <1>2, <3>1, <3>2
    <2> QED
        BY <1>2, <1>4, <2>1, <2>2
<1>5. ASSUME NEW p \in DOMAIN bridgeMap'
      PROVE  \E t \in MainThreads : p \in assigned'[t]
    <2>1. p \in DOMAIN owned /\ ~owned[p].doomed
        BY <1>2
    <2>2. PICK t \in MainThreads : owned[p].owner = {t}
        BY <1>1, <2>1
    <2>3. p \in toGive(t)
        BY <2>1, <2>2
    <2> QED
        BY <1>2, <2>3
<1> QED
    BY <1>1, <1>2, <1>3, <1>4, <1>5 DEF OwnersKnown

LEMMA OwnersHold == MainIInv /\ [MainNext]_mainLoopVars => (OwnersKnown /\ OwnersHave)'
<1> SUFFICES ASSUME MainIInv, [MainNext]_mainLoopVars PROVE (OwnersKnown /\ OwnersHave)'
    OBVIOUS
<1>0. MainShape /\ AsAtFirst /\ OwnersKnown /\ OwnersHave
    BY DEF MainIInv
<1>u. UNCHANGED <<assigned, bridgeMap>> => OwnersKnown'
    BY <1>0 DEF OwnersKnown
<1> USE DEF MainShape, AsAtFirst, FirstLoad, AfterLoad, Loading, loadVars, netVars, threadVars,
        askVars, lifeVars
<1>1. CASE TestLoad
    BY <1>0, <1>u, <1>1 DEF TestLoad, Thrown, OwnersHave
<1>2. CASE RealLoad
    BY <1>0, <1>u, <1>2 DEF RealLoad, Thrown, OwnersHave
<1>3. CASE Listen
    BY <1>0, <1>u, <1>3 DEF Listen, ThrownHalfWay, Thrown, OwnersHave
<1>4. CASE LoadBridges
    <2> DEFINE doomed == [p \in DOMAIN bridgeMap |-> [bridgeMap[p] EXCEPT !.doomed = TRUE]]
               listed == Configured(active)
               new == [p \in DOMAIN listed \union DOMAIN bridgeMap |->
                          IF p \in DOMAIN listed THEN listed[p] ELSE doomed[p]]
    <2>1. /\ step = "bridges" /\ UNCHANGED reload
          /\ \/ /\ torn' = "now" /\ step' # "threads" /\ step' # "bridges"
                /\ bridgeMap' = doomed /\ UNCHANGED assigned
             \/ /\ step' = "threads" /\ IF reload THEN SendBridgesToThreads(new)
                                         ELSE bridgeMap' = new /\ UNCHANGED assigned
        BY <1>4 DEF LoadBridges, ThrownHalfWay, Thrown
    <2>3. /\ IsFiniteSet(DOMAIN bridgeMap) /\ DOMAIN assigned = MainThreads
          /\ \A p \in DOMAIN bridgeMap : FitsOwner(bridgeMap[p])
          /\ \A t \in MainThreads : \A p \in assigned[t] :
                p \in DOMAIN bridgeMap /\ bridgeMap[p].owner = {t}
        BY <1>0 DEF OwnersKnown, FitsOwner
    <2>4. /\ DOMAIN doomed = DOMAIN bridgeMap
          /\ \A p \in DOMAIN bridgeMap :
                 FitsOwner(doomed[p]) /\ doomed[p].owner = bridgeMap[p].owner
        BY <2>3 DEF FitsOwner
    <2> HIDE DEF doomed
    <2>5. /\ IsFiniteSet(DOMAIN listed)
          /\ \A p \in DOMAIN listed :
                /\ FitsOwner(listed[p])
                /\ p \in DOMAIN bridgeMap => listed[p].owner = bridgeMap[p].owner
        BY <1>0, <2>3, ConfiguredFits DEF FitsOwner
    <2> HIDE DEF listed
    <2>6. /\ DOMAIN new = DOMAIN listed \cup DOMAIN bridgeMap
          /\ \A p \in DOMAIN new : new[p] = IF p \in DOMAIN listed THEN listed[p] ELSE doomed[p]
        OBVIOUS
    <2> HIDE DEF new
    <2>7. IsFiniteSet(DOMAIN new)
        <3>1. IsFiniteSet(DOMAIN listed \cup DOMAIN bridgeMap)
            BY <2>3, <2>5, FS_Union
        <3> QED
            BY <2>6, <3>1
    <2>8. \A p \in DOMAIN new : FitsOwner(new[p])
        BY <2>4, <2>5, <2>6
    <2>9. \A t \in MainThreads : \A p \in assigned[t] : p \in DOMAIN new /\ new[p].owner = {t}
        BY <2>3, <2>4, <2>5, <2>6
    <2>10. CASE /\ torn' = "now" /\ step' # "threads" /\ step' # "bridges"
                /\ bridgeMap' = doomed /\ UNCHANGED assigned
        <3>1. OwnersKnown'
            BY <2>3, <2>4, <2>10 DEF OwnersKnown, FitsOwner
        <3> QED
            BY <2>10, <3>1 DEF OwnersHave
    <2>11. CASE step' = "threads" /\ reload /\ SendBridgesToThreads(new)
        <3>1. OwnersKnown' /\ \A p \in DOMAIN bridgeMap' : \E t \in MainThreads : p \in assigned'[t]
            BY <2>3, <2>7, <2>8, <2>9, <2>11, SentToOwners
        <3> QED
            BY <3>1 DEF OwnersHave
    <2>12. CASE step' = "threads" /\ ~reload /\ bridgeMap' = new /\ UNCHANGED assigned
        <3>1. OwnersKnown'
            BY <2>3, <2>7, <2>8, <2>9, <2>12 DEF OwnersKnown, FitsOwner
        <3> QED
            BY <2>1, <2>12, <3>1 DEF OwnersHave
    <2> QED
        BY <2>1, <2>10, <2>11, <2>12
<1>5. CASE TellThreads
    BY <1>0, <1>u, <1>5 DEF TellThreads, OwnersHave
<1>6. CASE CountThreads
    <2>1. SendBridgesToThreads(bridgeMap)
        BY <1>6 DEF CountThreads
    <2>2. OwnersKnown' /\ \A p \in DOMAIN bridgeMap' : \E t \in MainThreads : p \in assigned'[t]
        BY <1>0, <2>1, SentToOwners DEF OwnersKnown, FitsOwner
    <2> QED
        BY <2>2 DEF OwnersHave
<1>7. CASE StartThreads \/ EpollWait \/ ReadEvent \/ ReloadIfAsked
    BY <1>0, <1>u, <1>7 DEF StartThreads, EpollWait, ReadEvent, ReloadIfAsked, OwnersHave
<1>8. CASE CloseLate \/ WakeUpThread \/ LeaveLoop
    <2>1. UNCHANGED <<assigned, bridgeMap, torn, reload>> /\ (step' = step \/ step' = "left")
        BY <1>8 DEF CloseLate, WakeUpThread, LeaveLoop
    <2> QED
        BY <1>0, <1>u, <2>1 DEF OwnersHave
<1>9. CASE Accept \/ DoTheRest
    <2>1. /\ UNCHANGED <<assigned, bridgeMap, torn, reload>>
          /\ step \in {"batch", "others"} /\ step' \in {"batch", "wait"}
        BY <1>9 DEF Accept, DoTheRest, Handled
    <2> QED
        BY <1>0, <1>u, <2>1 DEF OwnersHave
<1>10. ASSUME NEW t \in MainThreads, InitThread(t) \/ ReloadThread(t)
       PROVE  (OwnersKnown /\ OwnersHave)'
    BY <1>0, <1>u, <1>10 DEF InitThread, ReloadThread, OwnersHave
<1>11. CASE Edit
    BY <1>0, <1>u, <1>11 DEF Edit, OwnersHave
<1>12. CASE Restart
    <2>1. OwnersKnown'
        BY <1>12, FS_EmptySet DEF Restart, OwnersKnown
    <2> QED
        BY <1>12, <2>1 DEF Restart, OwnersHave
<1>13. ASSUME NEW f \in {"reload", "reopen", "quit"}, Signal(f)
       PROVE  (OwnersKnown /\ OwnersHave)'
    BY <1>0, <1>u, <1>13 DEF Signal, OwnersHave
<1>14. ASSUME NEW f \in DOMAIN sockets, Arrive(f)
       PROVE  (OwnersKnown /\ OwnersHave)'
    BY <1>0, <1>u, <1>14 DEF Arrive, OwnersHave
<1>15. CASE UNCHANGED mainLoopVars
    BY <1>0, <1>u, <1>15 DEF mainLoopVars, OwnersHave
<1> QED
    BY <1>1, <1>2, <1>3, <1>4, <1>5, <1>6, <1>7, <1>8, <1>9, <1>10, <1>11, <1>12, <1>13, <1>14, <1>15
    DEF MainNext, LoadStep, LoopStep, WorkerStep, RestsOrIsOver

-----------------------------------------------------------------------------
(* Turns                                                                     *)

LEMMA DivisionIs ==
    ASSUME NEW a \in Int, NEW n \in Nat \ {0}, NEW q \in Int, NEW r \in 0..(n - 1),
           a = n * q + r
    PROVE  a % n = r /\ a \div n = q
<1>1. /\ a % n \in 0..(n - 1) /\ a \div n \in Int
      /\ a = n * (a \div n) + (a % n)
    BY SMT
<1> DEFINE d == q - (a \div n)
<1>2. d \in Int /\ n * d = (a % n) - r
    BY <1>1, SMT
<1>3. d = 0
    <2>1. ~(d >= 1)
        <3>1. \A x \in Int : x >= 1 => n * x >= n
            BY SMT
        <3> QED
            BY <1>1, <1>2, <3>1
    <2>2. ~(d <= -1)
        <3>1. \A x \in Int : x <= -1 => n * x <= -n
            BY SMT
        <3> QED
            BY <1>1, <1>2, <3>1
    <2> QED
        BY <1>2, <2>1, <2>2
<1> QED
    BY <1>1, <1>2, <1>3, SMT

LEMMA NextTurn ==
    ASSUME NEW k \in Nat, NEW t \in MainThreads
    PROVE  /\ k % Cardinality(MainThreads) \in MainThreads
           /\ Turns(k, t) \in Nat
           /\ Turns(k + 1, t) = Turns(k, t) + IF t = k % Cardinality(MainThreads) THEN 1 ELSE 0
           /\ \A u \in MainThreads : Turns(k, t) <= Turns(k, u) + 1
<1> DEFINE n == Cardinality(MainThreads)
           q == k \div n
           r == k % n
<1>1. n \in Nat \ {0} /\ MainThreads = 0..(n - 1)
    BY WorkersAreMany
<1> HIDE DEF n
<1>2. q \in Nat /\ r \in 0..(n - 1) /\ k = n * q + r
    BY <1>1, SMT
<1>3. Turns(k, t) = q + IF t < r THEN 1 ELSE 0
    BY DEF Turns, n
<1>4. \A u \in MainThreads : Turns(k, u) = q + IF u < r THEN 1 ELSE 0
    BY DEF Turns, n
<1>5. Turns(k + 1, t) = ((k + 1) \div n) + IF t < (k + 1) % n THEN 1 ELSE 0
    BY DEF Turns, n
<1>6. r = k % Cardinality(MainThreads)
    BY DEF n
<1>9. q \in Nat /\ r \in 0..(n - 1)
    BY <1>2
<1> HIDE DEF q, r
<1>7. CASE r + 1 < n
    <2>1. k + 1 = n * q + (r + 1) /\ r + 1 \in 0..(n - 1) /\ k + 1 \in Int /\ q \in Int
        BY <1>1, <1>2, <1>7
    <2>2. (k + 1) % n = r + 1 /\ (k + 1) \div n = q
        BY <1>1, <2>1, DivisionIs
    <2> QED
        BY <1>1, <1>9, <1>7, <1>3, <1>4, <1>5, <1>6, <2>2
<1>8. CASE r + 1 = n
    <2>1. n * (q + 1) = n * q + n
        BY <1>1, <1>2, SMT
    <2>2. k + 1 = n * (q + 1) + 0 /\ 0 \in 0..(n - 1) /\ k + 1 \in Int /\ q + 1 \in Int
        BY <1>1, <1>2, <1>8, <2>1
    <2>3. (k + 1) % n = 0 /\ (k + 1) \div n = q + 1
        BY <1>1, <2>2, DivisionIs
    <2> QED
        BY <1>1, <1>9, <1>3, <1>4, <1>5, <1>6, <1>8, <2>3
<1> QED
    BY <1>1, <1>2, <1>7, <1>8

LEMMA NoTurnsYet ==
    ASSUME NEW t \in MainThreads
    PROVE  Turns(0, t) = 0
<1> DEFINE n == Cardinality(MainThreads)
<1>1. n \in Nat \ {0} /\ MainThreads = 0..(n - 1)
    BY WorkersAreMany
<1>2. Turns(0, t) = (0 \div n) + IF t < 0 % n THEN 1 ELSE 0
    BY DEF Turns
<1> HIDE DEF n
<1>3. n * 0 = 0
    BY <1>1, SMT
<1>4. 0 = n * 0 + 0 /\ 0 \in 0..(n - 1)
    BY <1>1, <1>3
<1>5. 0 \div n = 0 /\ 0 % n = 0
    BY <1>1, <1>4, DivisionIs
<1> QED
    BY <1>1, <1>2, <1>5

LEMMA TurnTaken ==
    ASSUME NEW i, TurnsFit(serving[i]), i \in DOMAIN serving, NEW how \in {"give", "close", "refuse"},
           TakenFrom(i, how)
    PROVE  TurnsFit(serving'[i]) /\ DOMAIN serving' = DOMAIN serving
           /\ \A j \in DOMAIN serving \ {i} : serving'[j] = serving[j]
<1> DEFINE l == serving[i]
           t == l.turn % Cardinality(MainThreads)
           m == serving'[i]
<1>1. /\ l.turn \in Nat /\ l.closed \in Nat /\ l.given \in [MainThreads -> Nat]
      /\ \A u \in MainThreads :
            l.given[u] <= Turns(l.turn, u) /\ Turns(l.turn, u) <= l.given[u] + l.closed
    BY DEF TurnsFit
<1>2. /\ t \in MainThreads
      /\ \A u \in MainThreads : /\ Turns(l.turn, u) \in Nat
                               /\ Turns(l.turn + 1, u) = Turns(l.turn, u) + IF u = t THEN 1 ELSE 0
    <2>1. PICK u \in MainThreads : TRUE
        BY MainAssumption
    <2>2. t \in MainThreads
        BY <1>1, <2>1, NextTurn
    <2> QED
        BY <1>1, <2>2, NextTurn
<1>3. /\ how = "refuse" => m = l
      /\ how = "close" => m = [turn |-> l.turn + 1, given |-> l.given, closed |-> l.closed + 1]
      /\ how = "give" => m = [turn |-> l.turn + 1, given |-> [l.given EXCEPT ![t] = @ + 1],
                             closed |-> l.closed]
      /\ DOMAIN serving' = DOMAIN serving /\ \A j \in DOMAIN serving \ {i} : serving'[j] = serving[j]
    BY DEF TakenFrom
<1> HIDE DEF l, t, m
<1>4. CASE how = "refuse"
    <2>1. TurnsFit(m)
        BY <1>3, <1>4 DEF l
    <2> QED
        BY <1>3, <2>1 DEF m
<1>5. CASE how = "close"
    <2>1. m.turn = l.turn + 1 /\ m.given = l.given /\ m.closed = l.closed + 1
        BY <1>3, <1>5
    <2>2. ASSUME NEW u \in MainThreads
          PROVE  m.given[u] <= Turns(m.turn, u) /\ Turns(m.turn, u) <= m.given[u] + m.closed
        <3>1. /\ l.given[u] \in Nat /\ Turns(l.turn, u) \in Nat /\ l.closed \in Nat
              /\ l.given[u] <= Turns(l.turn, u) /\ Turns(l.turn, u) <= l.given[u] + l.closed
              /\ Turns(m.turn, u) = Turns(l.turn, u) + IF u = t THEN 1 ELSE 0
            BY <1>1, <1>2, <2>1
        <3> QED
            BY <2>1, <3>1
    <2>3. TurnsFit(m)
        BY <1>1, <2>1, <2>2 DEF TurnsFit
    <2> QED
        BY <1>3, <2>3 DEF m
<1>6. CASE how = "give"
    <2>1. /\ m.turn = l.turn + 1 /\ m.given = [l.given EXCEPT ![t] = @ + 1] /\ m.closed = l.closed
          /\ m.given \in [MainThreads -> Nat]
        BY <1>1, <1>3, <1>6
    <2>2. ASSUME NEW u \in MainThreads
          PROVE  m.given[u] <= Turns(m.turn, u) /\ Turns(m.turn, u) <= m.given[u] + m.closed
        <3>1. /\ l.given[u] \in Nat /\ Turns(l.turn, u) \in Nat /\ l.closed \in Nat
              /\ l.given[u] <= Turns(l.turn, u) /\ Turns(l.turn, u) <= l.given[u] + l.closed
              /\ Turns(m.turn, u) = Turns(l.turn, u) + IF u = t THEN 1 ELSE 0
            BY <1>1, <1>2, <2>1
        <3>2. m.given[u] = l.given[u] + IF u = t THEN 1 ELSE 0
            BY <1>1, <2>1
        <3> QED
            BY <2>1, <3>1, <3>2
    <2>3. TurnsFit(m)
        BY <1>1, <2>1, <2>2 DEF TurnsFit
    <2> QED
        BY <1>3, <2>3 DEF m
<1> QED
    BY <1>4, <1>5, <1>6

LEMMA TurnsGoOn == MainIInv /\ [MainNext]_mainLoopVars => AllTurnsFit'
<1> SUFFICES ASSUME MainIInv, [MainNext]_mainLoopVars PROVE AllTurnsFit'
    OBVIOUS
<1>0. AllTurnsFit
    BY DEF MainIInv
<1>u. UNCHANGED serving => AllTurnsFit'
    BY <1>0 DEF AllTurnsFit
<1> USE DEF loadVars, netVars, threadVars, askVars, lifeVars
<1>1. CASE Listen
    <2> DEFINE s == WithListeners(parser)
    <2>1. serving' = NewListeners(s)
        BY <1>1 DEF Listen
    <2> HIDE DEF s
    <2>2. ASSUME NEW i \in DOMAIN NewListeners(s)
          PROVE  TurnsFit(NewListeners(s)[i])
        <3>1. NewListeners(s)[i] = [turn |-> 0, given |-> [t \in MainThreads |-> 0], closed |-> 0]
            BY DEF NewListeners
        <3> QED
            BY <3>1, NoTurnsYet DEF TurnsFit
    <2> QED
        BY <2>1, <2>2 DEF AllTurnsFit
<1>2. CASE Accept
    <2>1. UNCHANGED serving \/ \E i \in DOMAIN serving : \E how \in {"give", "close", "refuse"} :
                                    TakenFrom(i, how)
        BY <1>2 DEF Accept
    <2>2. ASSUME NEW i \in DOMAIN serving, NEW how \in {"give", "close", "refuse"}, TakenFrom(i, how)
          PROVE  AllTurnsFit'
        BY <1>0, <2>2, TurnTaken DEF AllTurnsFit
    <2> QED
        BY <1>u, <2>1, <2>2
<1>3. CASE Restart
    BY <1>3 DEF Restart, AllTurnsFit
<1>4. CASE TestLoad \/ RealLoad \/ LoadBridges \/ TellThreads
    BY <1>u, <1>4 DEF TestLoad, RealLoad, LoadBridges, TellThreads
<1>5. CASE StartThreads \/ CountThreads \/ EpollWait \/ ReadEvent \/ ReloadIfAsked \/ DoTheRest
    BY <1>u, <1>5 DEF StartThreads, CountThreads, EpollWait, ReadEvent, ReloadIfAsked, DoTheRest
<1>6. CASE LeaveLoop \/ CloseLate \/ WakeUpThread \/ Edit
    BY <1>u, <1>6 DEF LeaveLoop, CloseLate, WakeUpThread, Edit
<1>7. ASSUME NEW t \in MainThreads, InitThread(t) \/ ReloadThread(t)
      PROVE  AllTurnsFit'
    BY <1>u, <1>7 DEF InitThread, ReloadThread
<1>8. ASSUME NEW f \in {"reload", "reopen", "quit"}, Signal(f)
      PROVE  AllTurnsFit'
    BY <1>u, <1>8 DEF Signal
<1>9. ASSUME NEW f \in DOMAIN sockets, Arrive(f)
      PROVE  AllTurnsFit'
    BY <1>u, <1>9 DEF Arrive
<1>10. CASE UNCHANGED mainLoopVars
    BY <1>u, <1>10 DEF mainLoopVars
<1> QED
    BY <1>1, <1>2, <1>3, <1>4, <1>5, <1>6, <1>7, <1>8, <1>9, <1>10
    DEF MainNext, LoadStep, LoopStep, WorkerStep, RestsOrIsOver

-----------------------------------------------------------------------------
LEMMA MainGoesOn == MainIInv /\ [MainNext]_mainLoopVars => MainIInv'
BY MainShapeHolds, FirstLoadHolds, RequestsHold, WorkersToldHolds, TimersHold, SocketsHold, OwnersHold,
   TurnsGoOn DEF MainIInv

LEMMA MainThreadIsOrdered ==
    MainIInv => SettingsAgree /\ BridgesHaveOneOwner /\ WorkersTakeTurns
<1> SUFFICES ASSUME MainIInv PROVE SettingsAgree /\ BridgesHaveOneOwner /\ WorkersTakeTurns
    OBVIOUS
<1> USE DEF MainIInv
<1>1. SettingsAgree
    <2>1. SUFFICES ASSUME Idle, torn # "now"
                   PROVE  /\ \A t \in MainThreads : ready[t] # "failed" =>
                                 active = IF inbox[t] = <<>> THEN workerSettings[t] ELSE Last(inbox[t])
                          /\ started /\ torn = "never" => timers = TimersOf(active)
                          /\ \A f \in DOMAIN sockets : sockets[f] # NoSocket =>
                                /\ sockets[f].listener \in DOMAIN active.listeners
                                /\ started => sockets[f].listening
        BY DEF SettingsAgree
    <2>2. AfterLoad /\ ~Passing
        BY <2>1 DEF Idle, AfterLoad, Passing
    <2>3. \A t \in MainThreads : ready[t] # "failed" =>
              active = IF inbox[t] = <<>> THEN workerSettings[t] ELSE Last(inbox[t])
        BY <2>1, <2>2 DEF WorkersTold
    <2>4. started /\ torn = "never" => timers = TimersOf(active)
        BY <2>2 DEF TimersMade
    <2>5. \A f \in DOMAIN sockets : SocketFits(f)
        BY <2>1 DEF SocketsFit
    <2> QED
        BY <2>3, <2>4, <2>5 DEF SocketFits
<1>2. BridgesHaveOneOwner
    <2>1. ASSUME NEW t \in MainThreads, NEW u \in MainThreads, assigned[t] \cap assigned[u] # {}
          PROVE  t = u
        <3>1. PICK p : p \in assigned[t] /\ p \in assigned[u]
            BY <2>1
        <3>2. bridgeMap[p].owner = {t} /\ bridgeMap[p].owner = {u}
            BY <3>1 DEF OwnersKnown
        <3> QED
            BY <3>2
    <2>2. ASSUME Idle, torn # "now"
          PROVE  UNION Range(assigned) = DOMAIN bridgeMap
        <3>1. Range(assigned) = {assigned[t] : t \in MainThreads}
            BY DEF OwnersKnown, Range
        <3>2. \A p \in DOMAIN bridgeMap : \E t \in MainThreads : p \in assigned[t]
            BY <2>2 DEF Idle, OwnersHave, AfterLoad
        <3>3. \A t \in MainThreads : assigned[t] \subseteq DOMAIN bridgeMap
            BY DEF OwnersKnown
        <3> QED
            BY <3>1, <3>2, <3>3
    <2> QED
        BY <2>1, <2>2 DEF BridgesHaveOneOwner
<1>3. WorkersTakeTurns
    <2>1. SUFFICES ASSUME NEW i \in DOMAIN serving, NEW t \in MainThreads, NEW u \in MainThreads
                   PROVE  serving[i].given[t] <= serving[i].given[u] + 1 + serving[i].closed
        BY DEF WorkersTakeTurns
    <2> DEFINE l == serving[i]
    <2>2. TurnsFit(l)
        BY DEF AllTurnsFit
    <2> HIDE DEF l
    <2>3. /\ l.turn \in Nat /\ l.closed \in Nat /\ l.given[t] \in Nat /\ l.given[u] \in Nat
          /\ l.given[t] <= Turns(l.turn, t) /\ Turns(l.turn, u) <= l.given[u] + l.closed
        BY <2>2 DEF TurnsFit
    <2>4. /\ Turns(l.turn, t) \in Nat /\ Turns(l.turn, u) \in Nat
          /\ Turns(l.turn, t) <= Turns(l.turn, u) + 1
        BY <2>3, NextTurn
    <2>5. l.given[t] <= l.given[u] + 1 + l.closed
        BY <2>3, <2>4
    <2> QED
        BY <2>5 DEF l
<1> QED
    BY <1>1, <1>2, <1>3

\* Over any reloads, edits of the file, loads that throw, signals, connections and restarts: no
\* request is forgotten, between two loads everything has the same settings unless one threw
\* half way, each bridge has one worker, and workers take turns (mainapp.cpp:388,
\* 765, 946, 1068, 1314).
THEOREM MainThreadStaysInOrder ==
    MainSpec => [](RequestsAreSeen /\ SettingsAgree /\ BridgesHaveOneOwner /\ WorkersTakeTurns)
<1>1. MainInit => MainIInv
    BY MainStarts
<1>2. MainIInv /\ [MainNext]_mainLoopVars => MainIInv'
    BY MainGoesOn
<1>3. MainIInv => RequestsAreSeen /\ SettingsAgree /\ BridgesHaveOneOwner /\ WorkersTakeTurns
    BY MainThreadIsOrdered DEF MainIInv
<1> QED
    BY <1>1, <1>2, <1>3, PTL DEF MainSpec
-----------------------------------------------------------------------------
(* The names of bridges                                                      *)

\* Nobody who edits the file gives the broker a place to store things, or takes it away.
ParsedIn(e) == ParsedFile(ConfigPath, Situation[e].disk)
EditsOf(e) == IF e \in Edits THEN Edits ELSE {e}
StorageStays ==
    \A e \in DOMAIN Situation : \A c, d \in EditsOf(e) : \A p \in ParsedIn(c), q \in ParsedIn(d) :
        HasStorage(p.root) <=> HasStorage(q.root)

\* Where the first names are kept: on disk, or as long as the program runs.
Stored == \E e \in EditsOf(env) : \E p \in ParsedIn(e) : HasStorage(p.root)
Kept == IF Stored THEN shareFile.names ELSE shareNames
Includes(g, f) == \A x \in DOMAIN f : x \in DOMAIN g /\ g[x] = f[x]

NamesIInv ==
    /\ env \in DOMAIN Situation
    /\ Includes(Kept, firstNames)
    /\ ~Stored => shareFile = NoFile
    /\ ShareNamesLast

LEMMA FirstComesFirst ==
    ASSUME NEW f, NEW g
    PROVE  /\ Includes(FirstOf(f, g), f)
           /\ DOMAIN FirstOf(f, g) = DOMAIN f \union DOMAIN g
           /\ \A x \in DOMAIN g \ DOMAIN f : FirstOf(f, g)[x] = g[x]
    BY DEF FirstOf, Includes

LEMMA MultipliedHasName ==
    ASSUME NEW b, NEW name, CountOf(b)[2] \in Nat, NEW x \in Range(Multiply(b, name)), x.group
    PROVE  x.share = name /\ PrefixOf(x.config) = PrefixOf(b)
<1> DEFINE m == Multiply(b, name)
           count == CountOf(b)[2]
           group == count > 1
           of(i) == IF group THEN PrefixOf(b) \o "_" \o ToString(i - 1) ELSE PrefixOf(b)
           one(i) == [config |-> FirstOf([connection_count |-> Small(1)], b), prefix |-> of(i),
                      share |-> IF group THEN name ELSE "", group |-> group]
<1>a. m = [i \in 1..count |-> one(i)]
    BY DEF Multiply
<1>b. PICK i \in 1..count : x = one(i)
    <2> HIDE DEF m, count, one
    <2> QED
        BY <1>a DEF Range, m
<1>1. x.share = name /\ x.config = FirstOf([connection_count |-> Small(1)], b)
    <2> HIDE DEF of, group
    <2> QED
        BY <1>b
<1>2. DOMAIN [connection_count |-> Small(1)] = {"connection_count"}
    OBVIOUS
<1>3. PrefixOf(x.config) = PrefixOf(b)
    BY <1>1, <1>2 DEF PrefixOf, Given, FirstOf
<1> QED
    BY <1>1, <1>3

LEMMA NamesGiven ==
    ASSUME NEW names, NEW bridges, NEW next
    PROVE  /\ Includes(WithShareNames(names, bridges, next), names)
           /\ \A i \in DOMAIN bridges :
                 PrefixOf(bridges[i]) \in DOMAIN WithShareNames(names, bridges, next)
<1> DEFINE new == {i \in DOMAIN bridges : PrefixOf(bridges[i]) \notin DOMAIN names}
           number(p) == next + Cardinality({j \in new : \E i \in new : j <= i /\ PrefixOf(bridges[i]) = p})
           f == [p \in {PrefixOf(bridges[i]) : i \in new} |-> "share" \o ToString(number(p))]
<1>1. WithShareNames(names, bridges, next) = FirstOf(names, f)
    BY DEF WithShareNames
<1>2. DOMAIN f = {PrefixOf(bridges[i]) : i \in new}
    OBVIOUS
<1> HIDE DEF f
<1>3. DOMAIN FirstOf(names, f) = DOMAIN names \union DOMAIN f /\ Includes(FirstOf(names, f), names)
    BY FirstComesFirst
<1> QED
    BY <1>1, <1>2, <1>3

\* Each bridge of a file has a name after it was loaded, and its connections have this name.
LEMMA LoadedNames ==
    ASSUME env \in DOMAIN Situation, NEW test \in BOOLEAN, NEW l \in LoadedNow(test)
    PROVE  \E p \in ParsedIn(env) :
              /\ HasStorage(p.root) /\ ~test => Includes(l.names, shareFile.names)
              /\ ~HasStorage(p.root) \/ test => Includes(l.names, shareNames)
              /\ l.file = IF ~test /\ HasStorage(p.root) THEN [state |-> "good", names |-> l.names]
                          ELSE shareFile
              /\ \A i \in DOMAIN l.settings.bridges : l.settings.bridges[i].group =>
                    /\ PrefixOf(l.settings.bridges[i].config) \in DOMAIN l.names
                    /\ l.settings.bridges[i].share = l.names[PrefixOf(l.settings.bridges[i].config)]
<1> DEFINE known(p) == IF HasStorage(p.root) /\ ~test THEN FirstOf(shareFile.names, shareNames)
                       ELSE shareNames
           all(p, n) == [i \in DOMAIN p.bridges |-> Multiply(p.bridges[i], n[PrefixOf(p.bridges[i])])]
<1>1. PICK p \in ParsedIn(env) :
          l = Loaded(p, WithShareNames(known(p), p.bridges, drawn), shareFile, test)
    BY DEF LoadedNow, loadFile, loadShareNames, ParsedIn, Now
<1> DEFINE n == WithShareNames(known(p), p.bridges, drawn)
           each == all(p, n)
<1>2. /\ l.names = n /\ l.settings.bridges = FlattenSeq(each)
      /\ l.file = IF ~test /\ HasStorage(p.root) THEN [state |-> "good", names |-> n] ELSE shareFile
    BY <1>1 DEF Loaded
<1>3. /\ IsList(p.bridges)
      /\ \A i \in DOMAIN p.bridges : CountOf(p.bridges[i])[2] \in Nat
    BY ParsedAssumption DEF ParsedIn, IsList
<1>4. /\ Includes(n, known(p))
      /\ \A i \in DOMAIN p.bridges : PrefixOf(p.bridges[i]) \in DOMAIN n
    BY NamesGiven
<1>5. Includes(known(p), shareNames) \/ (HasStorage(p.root) /\ ~test)
    BY DEF Includes
<1>6. HasStorage(p.root) /\ ~test => Includes(known(p), shareFile.names)
    BY FirstComesFirst
<1>7. \A f : Includes(known(p), f) => Includes(n, f)
    BY <1>4 DEF Includes
<1> HIDE DEF n, known
<1>8. \A i \in DOMAIN p.bridges : IsList(each[i])
    BY <1>3, MultipliedIsList
<1>9. /\ each = [i \in 1..Len(p.bridges) |-> each[i]] /\ Len(p.bridges) \in Nat
      /\ DOMAIN p.bridges = 1..Len(p.bridges)
    BY <1>3, ListFacts
<1>10. ASSUME NEW x \in Range(FlattenSeq(each)), x.group
       PROVE  PrefixOf(x.config) \in DOMAIN n /\ x.share = n[PrefixOf(x.config)]
    <2> HIDE DEF each
    <2>1. IsList(each) /\ Len(each) = Len(p.bridges) /\ DOMAIN each = 1..Len(each)
        BY <1>9, ListByIndex
    <2>2. PICK i \in 1..Len(each) : x \in Range(each[i])
        BY <1>8, <1>9, <2>1, ListOfLists
    <2>3. i \in DOMAIN p.bridges /\ CountOf(p.bridges[i])[2] \in Nat
        BY <1>3, <1>9, <2>1
    <2>4. x \in Range(Multiply(p.bridges[i], n[PrefixOf(p.bridges[i])]))
        BY <2>2, <2>3 DEF each
    <2>5. x.share = n[PrefixOf(p.bridges[i])] /\ PrefixOf(x.config) = PrefixOf(p.bridges[i])
        BY <1>10, <2>3, <2>4, MultipliedHasName
    <2> QED
        BY <1>4, <2>3, <2>5
<1> HIDE DEF each
<1>11. \A i \in DOMAIN l.settings.bridges : l.settings.bridges[i] \in Range(FlattenSeq(each))
    BY <1>2 DEF Range
<1> QED
    BY <1>2, <1>5, <1>6, <1>7, <1>10, <1>11

\* The first name of a group is one that a bridge of the group has.
LEMMA GroupsAreNamed ==
    ASSUME NEW s, NEW n,
           \A i \in DOMAIN s.bridges : s.bridges[i].group =>
               /\ PrefixOf(s.bridges[i].config) \in DOMAIN n
               /\ s.bridges[i].share = n[PrefixOf(s.bridges[i].config)]
    PROVE  /\ Includes(n, GroupNames(s))
           /\ \A i \in DOMAIN s.bridges : s.bridges[i].group =>
                 PrefixOf(s.bridges[i].config) \in DOMAIN GroupNames(s)
<1> DEFINE groups == {i \in DOMAIN s.bridges : s.bridges[i].group}
           of(p) == CHOOSE i \in groups : PrefixOf(s.bridges[i].config) = p
<1>1. DOMAIN GroupNames(s) = {PrefixOf(s.bridges[i].config) : i \in groups}
    BY DEF GroupNames
<1>2. ASSUME NEW p \in DOMAIN GroupNames(s)
      PROVE  p \in DOMAIN n /\ n[p] = GroupNames(s)[p]
    <2>1. of(p) \in groups /\ PrefixOf(s.bridges[of(p)].config) = p
        BY <1>1
    <2>2. GroupNames(s)[p] = s.bridges[of(p)].share
        BY <1>1 DEF GroupNames
    <2> HIDE DEF of
    <2> QED
        BY <2>1, <2>2
<1> QED
    BY <1>1, <1>2 DEF Includes

LEMMA NamesHold == StorageStays /\ NamesIInv /\ [MainNext]_mainLoopVars => NamesIInv'
<1> SUFFICES ASSUME StorageStays, NamesIInv, [MainNext]_mainLoopVars
             PROVE  NamesIInv'
    OBVIOUS
<1> USE DEF NamesIInv
<1>0. EditsOf(env') = EditsOf(env) => Stored' = Stored
    BY DEF Stored, ParsedIn, HasStorage
<1>1. CASE TestLoad
    <2>1. env' = env /\ firstNames' = firstNames /\ parser' = parser
        BY <1>1 DEF TestLoad
    <2>2. CASE UNCHANGED <<shareNames, shareFile>>
        BY <1>0, <2>1, <2>2 DEF Kept, ShareNamesLast
    <2>3. CASE \E l \in LoadedNow(TRUE) : TakeLoaded(l)
        <3>1. PICK l \in LoadedNow(TRUE) : TakeLoaded(l)
            BY <2>3
        <3>2. Includes(l.names, shareNames) /\ l.file = shareFile
            BY LoadedNames
        <3>3. shareFile' = shareFile /\ shareNames' = l.names
            BY <3>1, <3>2 DEF TakeLoaded
        <3> QED
            BY <1>0, <2>1, <3>2, <3>3 DEF Kept, ShareNamesLast, Includes
    <2> QED
        BY <1>1, <2>2, <2>3 DEF TestLoad
<1>2. CASE RealLoad
    <2>1. env' = env
        BY <1>2 DEF RealLoad
    <2>2. CASE UNCHANGED <<shareNames, shareFile, parser, firstNames>>
        BY <1>0, <2>1, <2>2 DEF Kept, ShareNamesLast
    <2>3. CASE \E l \in LoadedNow(FALSE) : /\ TakeLoaded(l) /\ parser' = l.settings
                                          /\ firstNames' = FirstOf(firstNames, GroupNames(l.settings))
        <3>1. PICK l \in LoadedNow(FALSE) :
                 /\ TakeLoaded(l) /\ parser' = l.settings
                 /\ firstNames' = FirstOf(firstNames, GroupNames(l.settings))
            BY <2>3
        <3>2. PICK p \in ParsedIn(env) :
                 /\ HasStorage(p.root) => Includes(l.names, shareFile.names)
                 /\ ~HasStorage(p.root) => Includes(l.names, shareNames)
                 /\ l.file = IF HasStorage(p.root) THEN [state |-> "good", names |-> l.names]
                             ELSE shareFile
                 /\ \A i \in DOMAIN l.settings.bridges : l.settings.bridges[i].group =>
                       /\ PrefixOf(l.settings.bridges[i].config) \in DOMAIN l.names
                       /\ l.settings.bridges[i].share = l.names[PrefixOf(l.settings.bridges[i].config)]
            BY LoadedNames
        <3>3. HasStorage(p.root) <=> Stored
            <4>1. env \in EditsOf(env)
                BY DEF EditsOf
            <4> QED
                BY <4>1 DEF StorageStays, Stored
        <3>4. shareNames' = l.names /\ shareFile' = l.file
            BY <3>1 DEF TakeLoaded
        <3>5. Includes(l.names, Kept) /\ Kept' = l.names
            <4>1. Stored' = Stored
                BY <1>0, <2>1
            <4>2. CASE Stored
                <5>1. Kept = shareFile.names /\ Kept' = l.file.names /\ l.file.names = l.names
                    BY <3>2, <3>3, <3>4, <4>1, <4>2 DEF Kept
                <5> QED
                    BY <3>2, <3>3, <4>2, <5>1
            <4>3. CASE ~Stored
                <5>1. Kept = shareNames /\ Kept' = l.names
                    BY <3>4, <4>1, <4>3 DEF Kept
                <5> QED
                    BY <3>2, <3>3, <4>3, <5>1
            <4> QED
                BY <4>2, <4>3
        <3>6. Includes(l.names, firstNames)
            BY <3>5 DEF Includes
        <3>7. /\ Includes(l.names, GroupNames(l.settings))
              /\ \A i \in DOMAIN l.settings.bridges : l.settings.bridges[i].group =>
                    PrefixOf(l.settings.bridges[i].config) \in DOMAIN GroupNames(l.settings)
            BY <3>2, GroupsAreNamed
        <3>8. Includes(l.names, firstNames')
            BY <3>1, <3>6, <3>7 DEF Includes, FirstOf
        <3>9. ShareNamesLast'
            <4> SUFFICES ASSUME NEW i \in DOMAIN l.settings.bridges, l.settings.bridges[i].group
                         PROVE  l.settings.bridges[i].share =
                                    firstNames'[PrefixOf(l.settings.bridges[i].config)]
                BY <3>1 DEF ShareNamesLast, PrefixOf, Given, Text
            <4> DEFINE x == PrefixOf(l.settings.bridges[i].config)
            <4>1. x \in DOMAIN firstNames'
                <5>1. x \in DOMAIN GroupNames(l.settings)
                    BY <3>7
                <5>2. DOMAIN firstNames' = DOMAIN firstNames \union DOMAIN GroupNames(l.settings)
                    BY <3>1, FirstComesFirst
                <5> QED
                    BY <5>1, <5>2
            <4>2. l.names[x] = firstNames'[x]
                BY <3>8, <4>1 DEF Includes
            <4> QED
                BY <3>2, <4>2
        <3> QED
            BY <1>0, <2>1, <3>2, <3>3, <3>4, <3>5, <3>8, <3>9
    <2> QED
        BY <1>2, <2>2, <2>3 DEF RealLoad
<1>3. CASE Restart
    <2>1. /\ env' = env /\ shareFile' = shareFile /\ firstNames' = shareFile.names
          /\ parser' = NoSettings
        BY <1>3 DEF Restart
    <2>2. Includes(Kept', firstNames')
        <3>1. CASE Stored
            BY <1>0, <2>1, <3>1 DEF Kept, Includes
        <3>2. CASE ~Stored
            BY <2>1, <3>2 DEF NoFile, Includes
        <3> QED
            BY <3>1, <3>2
    <2>3. ShareNamesLast'
        BY <2>1 DEF ShareNamesLast, NoSettings
    <2> QED
        BY <1>0, <2>1, <2>2, <2>3
<1>4. CASE Edit
    <2>1. /\ UNCHANGED <<shareFile, shareNames, firstNames, parser>> /\ env' \in DOMAIN Situation
          /\ EditsOf(env') = EditsOf(env)
        BY <1>4, MainAssumption DEF Edit, EditsOf
    <2> QED
        BY <1>0, <2>1 DEF Kept, ShareNamesLast, Includes
<1>5. ASSUME UNCHANGED loadVars
      PROVE  NamesIInv'
    <2>1. UNCHANGED <<env, shareFile, shareNames, firstNames, parser>>
        BY <1>5 DEF loadVars
    <2> QED
        BY <1>0, <2>1 DEF Kept, ShareNamesLast, Includes
<1>6. \/ TestLoad \/ RealLoad \/ Restart \/ Edit
      \/ UNCHANGED loadVars
    <2>1. LoadStep => TestLoad \/ RealLoad \/ UNCHANGED loadVars
        BY DEF LoadStep, Listen, LoadBridges, TellThreads
    <2>2. LoopStep => UNCHANGED loadVars
        BY DEF LoopStep, StartThreads, CountThreads, EpollWait, Accept, ReadEvent, ReloadIfAsked, DoTheRest,
               LeaveLoop
    <2>3. WorkerStep => UNCHANGED loadVars
        BY DEF WorkerStep, InitThread, ReloadThread
    <2>4. WakeUpThread \/ CloseLate \/ RestsOrIsOver \/ UNCHANGED mainLoopVars => UNCHANGED loadVars
        BY DEF WakeUpThread, CloseLate, RestsOrIsOver, mainLoopVars
    <2>5. /\ \A f \in {"reload", "reopen", "quit"} : Signal(f) => UNCHANGED loadVars
          /\ \A f \in DOMAIN sockets : Arrive(f) => UNCHANGED loadVars
        BY DEF Signal, Arrive
    <2> QED
        BY <2>1, <2>2, <2>3, <2>4, <2>5 DEF MainNext
<1> QED
    BY <1>1, <1>2, <1>3, <1>4, <1>5, <1>6

\* The connections of a bridge keep the name of their shared subscriptions, and so their sessions
\* at the other end, over any reloads, edits and restarts (bridgeconfig.h:35;
\* configfileparser.cpp:1446).
THEOREM NamesOfBridgesLast ==
    ASSUME StorageStays
    PROVE  MainSpec => []ShareNamesLast
<1>1. MainInit => NamesIInv
    BY DEF MainInit, NamesIInv, Kept, Includes, ShareNamesLast, NoSettings, NoFile
<1>2. NamesIInv /\ [MainNext]_mainLoopVars => NamesIInv'
    BY NamesHold
<1>3. NamesIInv => ShareNamesLast
    BY DEF NamesIInv
<1> QED
    BY <1>1, <1>2, <1>3, PTL DEF MainSpec

=============================================================================
