------------------------ MODULE IncomingCall_proofs -------------------------
(***************************************************************************)
(* Proofs about IncomingCall for every set of clients, agents and media    *)
(* sessions, and both values of the switches.                              *)
(***************************************************************************)
EXTENDS IncomingCall, TLAPS

-----------------------------------------------------------------------------
(* What the operators shared by the handlers do to the types *)

(* Telling clients keeps ui a function to what a client can be told. *)
LEMMA TellType ==
  ASSUME TypeOK, NEW S, NEW what \in Told, Tell(S, what)
  PROVE  ui' \in [Clients -> Told]
BY DEF TypeOK, Tell

(* A loser is told a legal state. *)
LEMMA TellStateType ==
  ASSUME TypeOK, NEW c \in Clients, TellState(c)
  PROVE  ui' \in [Clients -> Told]
BY DEF TypeOK, TellState, Tell, Told

(* Binding and unbinding keep the server's routing tables well typed. *)
LEMMA BindType ==
  ASSUME TypeOK, NEW c \in Clients, NEW s \in Sids, Bind(c, s)
  PROVE  /\ owned' \in [Clients -> SUBSET Sids] /\ pending' \subseteq Clients
         /\ cur' \in [Clients -> Sids \cup {None}] /\ bound' \in [Sids -> Clients \cup {None}]
BY DEF TypeOK, Bind

(* Unbinding does so too, whichever session becomes current. *)
LEMMA UnbindType ==
  ASSUME TypeOK, NEW c \in Clients, NEW s \in Sids, Unbind(c, s)
  PROVE  /\ owned' \in [Clients -> SUBSET Sids] /\ pending' \subseteq Clients
         /\ cur' \in [Clients -> Sids \cup {None}] /\ bound' \in [Sids -> Clients \cup {None}]
<1> DEFINE rest == owned[c] \ {s}
<1>1. rest \subseteq Sids BY DEF TypeOK
<1>2. PICK t \in IF cur[c] # s THEN {cur[c]} ELSE IF rest # {} THEN rest ELSE {None} :
        cur' = [cur EXCEPT ![c] = t]
  BY DEF Unbind
<1>3. t \in Sids \cup {None} BY <1>1, <1>2 DEF TypeOK
<1> QED BY <1>1, <1>2, <1>3 DEF TypeOK, Unbind

(* Ending a session and notifying about it. *)
LEMMA EndAndNotifyType ==
  ASSUME TypeOK, NEW s \in Sids, EndAndNotify(s)
  PROVE  /\ state' \in [Sids -> States] /\ ui' \in [Clients -> Told]
         /\ owned' \in [Clients -> SUBSET Sids] /\ pending' \subseteq Clients
         /\ cur' \in [Clients -> Sids \cup {None}] /\ bound' \in [Sids -> Clients \cup {None}]
<1>1. state' \in [Sids -> States] BY DEF TypeOK, EndAndNotify, SetState, States
<1>2. CASE UNCHANGED <<owned, pending, cur, bound, ui>>
  BY <1>1, <1>2 DEF TypeOK
<1>3. ASSUME NEW c \in Targets(s), TellOf(s, c, "stopped"), Unbind(c, s)
      PROVE  /\ ui' \in [Clients -> Told]
             /\ owned' \in [Clients -> SUBSET Sids] /\ pending' \subseteq Clients
             /\ cur' \in [Clients -> Sids \cup {None}] /\ bound' \in [Sids -> Clients \cup {None}]
  <2>1. c \in Clients BY <1>3 DEF Targets, TypeOK
  <2>2. ui' \in [Clients -> Told] BY <1>3 DEF TellOf, Tell, TypeOK, Told
  <2> QED BY <1>3, <2>1, <2>2, UnbindType
<1> QED BY <1>1, <1>2, <1>3 DEF EndAndNotify

(* Activating a session and notifying about it. *)
LEMMA ActivateAndNotifyType ==
  ASSUME TypeOK, NEW s \in Sids, ActivateAndNotify(s)
  PROVE  dialog' \subseteq Sids /\ state' \in [Sids -> States] /\ ui' \in [Clients -> Told]
BY DEF TypeOK, ActivateAndNotify, SetState, States, Tell, Told

(* Deleting a session. *)
LEMMA DeleteType ==
  ASSUME TypeOK, NEW s, Delete(s)
  PROVE  mgr' \subseteq Sids /\ state' \in [Sids -> States]
BY DEF TypeOK, Delete, SetState, States

(* Refusing the call, whether the response went out or not. *)
LEMMA RejectSentType ==
  ASSUME TypeOK, NEW s \in Sids, RejectSent(s)
  PROVE  /\ state' \in [Sids -> States] /\ ui' \in [Clients -> Told]
         /\ owned' \in [Clients -> SUBSET Sids] /\ pending' \subseteq Clients
         /\ cur' \in [Clients -> Sids \cup {None}] /\ bound' \in [Sids -> Clients \cup {None}]
         /\ invite' \subseteq Sids
         /\ tx' \in {"none", "pending", "answered", "rejected", "cancelled"}
         /\ finals' \in 0..2
<1>1. EndAndNotify(s) BY DEF RejectSent
<1>2. tx' \in {"none", "pending", "answered", "rejected", "cancelled"} /\ finals' \in 0..2
  BY DEF RejectSent, Respond, TypeOK
<1>3. invite' \subseteq Sids BY DEF RejectSent, TypeOK
<1> QED BY <1>1, <1>2, <1>3, EndAndNotifyType

(* The same when the response may have failed. *)
LEMMA RejectCallType ==
  ASSUME TypeOK, NEW s \in Sids, RejectCall(s)
  PROVE  /\ state' \in [Sids -> States] /\ ui' \in [Clients -> Told]
         /\ owned' \in [Clients -> SUBSET Sids] /\ pending' \subseteq Clients
         /\ cur' \in [Clients -> Sids \cup {None}] /\ bound' \in [Sids -> Clients \cup {None}]
         /\ invite' \subseteq Sids
         /\ tx' \in {"none", "pending", "answered", "rejected", "cancelled"}
         /\ finals' \in 0..2
BY RejectSentType DEF RejectCall, RejectFails, TypeOK

-----------------------------------------------------------------------------
(* The inductive step, one lemma per part of IInv *)

(* Every step keeps the types. *)
LEMMA TypeStep ==
  ASSUME TypeOK, Targeted, [Next]_vars
  PROVE  TypeOK'
<1> USE NameAssumption DEF Procs, System, Sids, sessVars, apiVars, sipVars, ctlVars, histVars
<1>1. CASE InviteArrives \/ CallerCancels
  BY <1>1 DEF TypeOK, Goto, SetState, States, Labels, InviteArrives, CallerCancels
<1>3. CASE CallerAcks
  BY <1>3, ActivateAndNotifyType DEF TypeOK, CallerAcks, Labels
<1>4. CASE CallerByes
  BY <1>4, EndAndNotifyType, SMTT(40) DEF TypeOK, CallerByes, Goto, Labels
<1>5. CASE Admit \/ Presented \/ Refuse
  BY <1>5 DEF TypeOK, Goto, Labels, Admit, Presented, Refuse
<1>8. CASE RefuseBegin
  BY <1>8 DEF TypeOK, RefuseBegin, Goto, Labels
<1>9. CASE RefuseSend
  BY <1>9, RejectCallType DEF TypeOK, RefuseSend, Goto, Labels
<1>10. CASE RefuseDelete
  BY <1>10, DeleteType DEF TypeOK, RefuseDelete, Goto, Labels
<1>11. CASE TimerCheck
  BY <1>11 DEF TypeOK, TimerCheck, Goto, Labels
<1>12. CASE TimerBegin \/ TimerFanout
  BY <1>12 DEF TypeOK, Goto, Labels, Tell, Fanout, Told, TimerBegin, TimerFanout
<1>14. CASE TimerSend
  BY <1>14, RejectCallType DEF TypeOK, TimerSend, Goto, Labels
<1>15. CASE TimerDelete
  BY <1>15, DeleteType DEF TypeOK, TimerDelete, Goto, Labels
<1>16. CASE CancelCheck
  BY <1>16 DEF TypeOK, Targeted, CancelCheck, Goto, Return, Ending, Accepting, OnTgt, Labels
<1>17. CASE CancelBegin
  BY <1>17 DEF TypeOK, Targeted, CancelBegin, Goto, Return, Ending, Accepting, OnTgt, Labels
<1>18. CASE Cancel487
  BY <1>18 DEF TypeOK, Targeted, Cancel487, Goto, Respond, Ending, Accepting, OnTgt, Labels
<1>19. CASE CancelFanout
  BY <1>19 DEF TypeOK, CancelFanout, Goto, Tell, Fanout, Told, Labels
<1>20. CASE CancelEnd
  BY <1>20, EndAndNotifyType DEF TypeOK, Targeted, CancelEnd, Goto, Return, Ending, Accepting,
      OnTgt, Labels
<1>21. CASE ByeDelete
  BY <1>21, DeleteType DEF TypeOK, Targeted, ByeDelete, Goto, Return, Ending, Accepting, OnTgt,
      Labels
<1>22. ASSUME NEW c \in Clients, Present(c) PROVE TypeOK'
  BY <1>22 DEF TypeOK, Present, Tell, Told, Labels
<1>23. ASSUME NEW c \in Clients, Connect(c) PROVE TypeOK'
  BY <1>23 DEF TypeOK, Connect, Goto, Labels
<1>24. ASSUME NEW c \in Clients, Offer(c) PROVE TypeOK'
  BY <1>24, BindType DEF TypeOK, Offer, Goto, Tell, Told, Labels
<1>25. ASSUME NEW c \in Clients, AcceptAsk(c) PROVE TypeOK'
  BY <1>25, SMTT(40) DEF TypeOK, AcceptAsk, Goto, Tell, Told, Labels
<1>26. ASSUME NEW c \in Clients, RejectAsk(c) PROVE TypeOK'
  BY <1>26, TellStateType DEF TypeOK, RejectAsk, Goto, Labels
<1>27. ASSUME NEW c \in Clients, Disconnect(c) PROVE TypeOK'
  <2>1. bound' \in [Sids -> Clients \cup {None}]
    BY <1>27 DEF TypeOK, Disconnect
  <2>2. ui' \in [Clients -> Told]
    BY <1>27 DEF TypeOK, Disconnect, Told
  <2>3. pc' \in [Procs -> Labels]
    BY <1>27 DEF TypeOK, Disconnect, Goto, Labels
  <2>4. todo' \in [Procs -> SUBSET Sids]
    BY <1>27 DEF TypeOK, Disconnect
  <2>5. owned' \in [Clients -> SUBSET Sids] /\ cur' \in [Clients -> Sids \cup {None}]
    BY <1>27, SMTT(40) DEF TypeOK, Disconnect
  <2>6. conn' \subseteq Clients /\ pending' \subseteq Clients
    BY <1>27 DEF TypeOK, Disconnect
  <2> QED BY <1>27, <2>1, <2>2, <2>3, <2>4, <2>5, <2>6 DEF TypeOK, Disconnect
<1>28. ASSUME NEW c \in Clients, Replay(c) PROVE TypeOK'
  BY <1>28 DEF TypeOK, Replay, Goto, Tell, Told, Labels
<1>29. ASSUME NEW c \in Clients, Offered(c) PROVE TypeOK'
  BY <1>29 DEF TypeOK, Offered, Goto, SetState, States, Labels
<1>30. ASSUME NEW c \in Clients, AcceptCheck(c) PROVE TypeOK'
  BY <1>30, TellStateType DEF TypeOK, AcceptCheck, Goto, Labels
<1>31. ASSUME NEW c \in Clients, AcceptBegin(c) PROVE TypeOK'
  BY <1>31 DEF TypeOK, AcceptBegin, Goto, Return, Tell, Told, Labels
<1>32. ASSUME NEW c \in Clients, AcceptLost(c) PROVE TypeOK'
  BY <1>32, TellStateType DEF TypeOK, AcceptLost, Goto, Return, Labels
<1>33. ASSUME NEW c \in Clients, AcceptClaim(c) PROVE TypeOK'
  BY <1>33 DEF TypeOK, AcceptClaim, ClearTerminalAction, Goto, Return, Tell, Told, Labels
<1>34. ASSUME NEW c \in Clients, AcceptTransfer(c) PROVE TypeOK'
  BY <1>34, BindType DEF TypeOK, Targeted, AcceptTransfer, Goto, Ending, Accepting, OnTgt, Labels
<1>35. ASSUME NEW c \in Clients, Accept200(c) PROVE TypeOK'
  BY <1>35 DEF TypeOK, Targeted, Accept200, Goto, Respond, Ending, Accepting, OnTgt, Labels
<1>36. ASSUME NEW c \in Clients, AcceptActive(c) PROVE TypeOK'
  BY <1>36, ActivateAndNotifyType DEF TypeOK, Targeted, AcceptActive, Goto, Ending, Accepting,
      OnTgt, Labels
<1>37. ASSUME NEW c \in Clients, AcceptFinish(c) PROVE TypeOK'
  BY <1>37, DeleteType DEF TypeOK, Targeted, AcceptFinish, ClearTerminalAction, Goto, Tell, Told,
      Ending, Accepting, OnTgt, Labels
<1>38. ASSUME NEW c \in Clients, AcceptFanout(c) \/ RejectBegin(c) PROVE TypeOK'
  BY <1>38 DEF TypeOK, Goto, Return, Tell, Fanout, Told, Labels, AcceptFanout, RejectBegin
<1>40. ASSUME NEW c \in Clients, RejectSend(c) PROVE TypeOK'
  BY <1>40, RejectSentType, SMTT(40) DEF TypeOK, RejectSend, Goto, RejectFails, Labels
<1>41. ASSUME NEW c \in Clients, RejectEnd(c) PROVE TypeOK'
  BY <1>41 DEF TypeOK, RejectEnd, Goto, Tell, SetState, Told, States, Labels
<1>42. ASSUME NEW c \in Clients, HangupCheck(c) PROVE TypeOK'
  BY <1>42 DEF TypeOK, Targeted, HangupCheck, Goto, ActionFor, Ending, Accepting, OnTgt, Labels
<1>43. ASSUME NEW c \in Clients, EndBegin(c) PROVE TypeOK'
  <2>1. tgt[c] \in Sids /\ back[c] \in Labels
    BY <1>43 DEF EndBegin, Targeted, Ending, TypeOK, Labels
  <2>2. CASE CanBegin(tgt[c])
    BY <1>43, <2>1, <2>2 DEF TypeOK, EndBegin, Goto, Labels
  <2>3. CASE ~CanBegin(tgt[c])
    <3>1. /\ pc' = [pc EXCEPT ![c] = back[c]] /\ tgt' = [tgt EXCEPT ![c] = None]
          /\ act' = [act EXCEPT ![c] = "none"] /\ back' = [back EXCEPT ![c] = "idle"]
      BY <1>43, <2>3 DEF EndBegin, EndReturn, Return, Goto
    <3>2. UNCHANGED <<mgr, state, claim, invite, callID, dialog, apiVars, sipVars, todo, histVars,
                      term>>
      BY <1>43, <2>3 DEF EndBegin
    <3> QED BY <2>1, <3>1, <3>2 DEF TypeOK, Labels
  <2> QED BY <2>2, <2>3
<1>44. ASSUME NEW c \in Clients, EndSend(c) PROVE TypeOK'
  <2>1. tgt[c] \in Sids
    BY <1>44 DEF EndSend, Targeted, Ending
  <2>2. pc' \in [Procs -> Labels] /\ caller' \in {"none", "calling", "cancelled", "confirmed",
      "gone"}
    BY <1>44 DEF TypeOK, EndSend, Goto, Labels
  <2>3. CASE RejectCall(tgt[c])
    BY <1>44, <2>1, <2>2, <2>3, RejectCallType DEF TypeOK, EndSend
  <2>4. CASE UNCHANGED <<state, invite, owned, pending, cur, bound, ui, tx, finals>>
    BY <1>44, <2>2, <2>4 DEF TypeOK, EndSend
  <2>5. CASE EndAndNotify(tgt[c]) /\ UNCHANGED <<invite, sipVars, finals>>
    BY <1>44, <2>1, <2>2, <2>5, EndAndNotifyType DEF TypeOK, EndSend
  <2>6. CASE SetState(tgt[c], "ended") /\ UNCHANGED <<invite, owned, pending, cur, bound, ui,
      sipVars, finals>>
    <3>1. state' \in [Sids -> States] BY <2>6 DEF TypeOK, SetState, States
    <3> QED BY <1>44, <2>2, <2>6, <3>1 DEF TypeOK, EndSend
  <2> QED BY <1>44, <2>3, <2>4, <2>5, <2>6 DEF EndSend
<1>45. ASSUME NEW c \in Clients, EndBye(c) PROVE TypeOK'
  BY <1>45, EndAndNotifyType DEF TypeOK, Targeted, EndBye, Goto, Ending, Accepting, OnTgt, Labels
<1>46. ASSUME NEW c \in Clients, EndDelete(c) PROVE TypeOK'
  <2>1. tgt[c] \in Sids
    BY <1>46 DEF EndDelete, Targeted, Ending
  <2>2. mgr' \subseteq Sids /\ state' \in [Sids -> States]
    BY <1>46, DeleteType DEF EndDelete
  <2>3. /\ owned' \in [Clients -> SUBSET Sids] /\ pending' \subseteq Clients
        /\ cur' \in [Clients -> Sids \cup {None}] /\ bound' \in [Sids -> Clients \cup {None}]
    <3>1. CASE back[c] = "idle" BY <1>46, <2>1, <3>1, UnbindType DEF EndDelete
    <3>2. CASE back[c] # "idle" BY <1>46, <3>2 DEF EndDelete, TypeOK
    <3> QED BY <3>1, <3>2
  <2>4. /\ pc' = [pc EXCEPT ![c] = back[c]] /\ tgt' = [tgt EXCEPT ![c] = None]
        /\ act' = [act EXCEPT ![c] = "none"] /\ back' = [back EXCEPT ![c] = "idle"]
    BY <1>46 DEF EndDelete, EndReturn, Return, Goto
  <2>5. pc' \in [Procs -> Labels]
    BY <2>4 DEF TypeOK, Labels
  <2>6. UNCHANGED <<term, claim, invite, callID, dialog, conn, ui, sipVars, todo, histVars>>
    BY <1>46 DEF EndDelete
  <2>7. tgt' \in [Procs -> Sids \cup {None}]
    BY <2>4 DEF TypeOK
  <2> QED BY <2>2, <2>3, <2>4, <2>5, <2>6, <2>7 DEF TypeOK, Labels
<1>47. ASSUME NEW c \in Clients, Sweep(c) \/ Swept(c) PROVE TypeOK'
  BY <1>47, SMTT(40) DEF TypeOK, Goto, Labels, Sweep, Swept
<1>49. ASSUME NEW c \in Clients, NEW s \in Sids, HangupAsk(c, s) \/ ForceEnd(c, s) PROVE TypeOK'
  BY <1>49, SMTT(40) DEF TypeOK, Goto, Tell, TellOf, Told, Labels, ActionFor, HangupAsk, ForceEnd
<1>51. CASE UNCHANGED vars
  BY <1>51 DEF vars, TypeOK
<1> QED
  BY <1>1, <1>3, <1>4, <1>5, <1>8, <1>9, <1>10, <1>11, <1>12, <1>14, <1>15, <1>16, <1>17, <1>18,
      <1>19, <1>20, <1>21, <1>22, <1>23, <1>24, <1>25, <1>26, <1>27, <1>28, <1>29, <1>30, <1>31,
      <1>32, <1>33, <1>34, <1>35, <1>36, <1>37, <1>38, <1>40, <1>41, <1>42, <1>43, <1>44, <1>45,
      <1>46, <1>47, <1>49, <1>51 DEF Next, FarEnd, InviteRuns, TimerRuns, CancelRuns,
      ClientStarts, ClientRuns

-----------------------------------------------------------------------------
(* What the shared operators do to the state, the map and the transaction *)

(* EndAndNotify ends the session. *)
LEMMA EndEffect ==
  ASSUME NEW s, EndAndNotify(s)
  PROVE  state' = [state EXCEPT ![s] = "ended"]
BY DEF EndAndNotify, SetState

(* ActivateAndNotify activates it. *)
LEMMA ActivateEffect ==
  ASSUME NEW s, ActivateAndNotify(s)
  PROVE  state' = [state EXCEPT ![s] = "active"]
BY DEF ActivateAndNotify, SetState

(* A refusal that went out ends the session and decides a pending INVITE. *)
LEMMA RejectSentEffect ==
  ASSUME NEW s, RejectSent(s)
  PROVE  /\ state' = [state EXCEPT ![s] = "ended"]
         /\ tx' = IF tx = "pending" THEN "rejected" ELSE tx
BY EndEffect DEF RejectSent, Respond

(* A refusal that failed changes neither. *)
LEMMA RejectEffect ==
  ASSUME NEW s, RejectCall(s)
  PROVE  \/ UNCHANGED <<state, tx>>
         \/ /\ state' = [state EXCEPT ![s] = "ended"]
            /\ tx' = IF tx = "pending" THEN "rejected" ELSE tx
BY RejectSentEffect DEF RejectCall, RejectFails

(* Delete takes a session out of the map and ends it, or finds none. *)
LEMMA DeleteEffect ==
  ASSUME NEW s, Delete(s)
  PROVE  IF s \in mgr THEN mgr' = mgr \ {s} /\ state' = [state EXCEPT ![s] = "ended"]
         ELSE UNCHANGED <<mgr, state>>
BY DEF Delete, SetState

(* Taking a free guard, or doing without it, leaves it with its holder when only
   one goroutine moves. *)
LEMMA TakeGuard ==
  ASSUME TerminalMutex, NEW p \in Procs, term[Inc] = None, term'[Inc] = p,
         \A q \in Procs \ {p} : pc'[q] = pc[q] /\ tgt'[q] = tgt[q]
  PROVE  TerminalMutex'
<1>1. None \notin Procs BY NameAssumption DEF Procs, System
<1>2. \A q \in Procs \ {p} : ~Holding(q)' BY <1>1 DEF TerminalMutex, Holding
<1> QED BY <1>2 DEF TerminalMutex

(* The same when the guard of the presented session is left alone. *)
LEMMA KeepGuard ==
  ASSUME TerminalMutex, NEW p \in Procs, term'[Inc] = term[Inc], ~Holding(p)',
         \A q \in Procs \ {p} : pc'[q] = pc[q] /\ tgt'[q] = tgt[q]
  PROVE  TerminalMutex'
BY DEF TerminalMutex, Holding

(* Every step keeps the terminal guard with the goroutine that uses it. *)
LEMMA MutexStep ==
  ASSUME TypeOK, Targeted, TerminalMutex, [Next]_vars
  PROVE  TerminalMutex'
<1> USE NameAssumption DEF Procs, System, Sids, sessVars, apiVars, sipVars, ctlVars, histVars
<1>1. CASE InviteArrives
  BY <1>1 DEF TypeOK, Targeted, TerminalMutex, Holding, OnInc, OnTgt, Ending, Accepting,
      InviteArrives, Goto, SetState
<1>2. CASE CallerCancels
  BY <1>2 DEF TypeOK, Targeted, TerminalMutex, Holding, OnInc, OnTgt, Ending, Accepting,
      CallerCancels, Goto
<1>3. CASE CallerAcks
  BY <1>3 DEF TypeOK, Targeted, TerminalMutex, Holding, OnInc, OnTgt, Ending, Accepting,
      CallerAcks
<1>4. CASE CallerByes
  BY <1>4 DEF TypeOK, Targeted, TerminalMutex, Holding, OnInc, OnTgt, Ending, Accepting,
      CallerByes, Goto
<1>5. CASE Admit
  BY <1>5 DEF TypeOK, Targeted, TerminalMutex, Holding, OnInc, OnTgt, Ending, Accepting, Admit,
      Goto
<1>6. CASE Presented
  BY <1>6 DEF TypeOK, Targeted, TerminalMutex, Holding, OnInc, OnTgt, Ending, Accepting, Presented
<1>7. CASE Refuse
  BY <1>7 DEF TypeOK, Targeted, TerminalMutex, Holding, OnInc, OnTgt, Ending, Accepting, Refuse,
      Goto
<1>8. CASE RefuseBegin
  <2>1. \A q \in Procs \ {InviteP} : pc'[q] = pc[q] /\ tgt'[q] = tgt[q]
    BY <1>8 DEF TypeOK, RefuseBegin, Goto
  <2>2. CASE CanBegin(Inc)
    <3>1. term'[Inc] = InviteP BY <1>8, <2>2 DEF TypeOK, RefuseBegin, Goto, CanBegin
    <3> QED BY <2>1, <2>2, <3>1, TakeGuard DEF CanBegin
  <2>3. CASE ~CanBegin(Inc)
    <3>1. term' = term BY <1>8, <2>3 DEF TypeOK, RefuseBegin, Goto
    <3>2. ~Holding(InviteP)' BY <1>8, <2>3 DEF TypeOK, RefuseBegin, Goto, Holding, OnInc, OnTgt
    <3> QED BY <2>1, <3>1, <3>2, KeepGuard
  <2> QED BY <2>2, <2>3
<1>9. CASE RefuseSend
  BY <1>9 DEF TypeOK, Targeted, TerminalMutex, Holding, OnInc, OnTgt, Ending, Accepting,
      RefuseSend, Goto
<1>10. CASE RefuseDelete
  BY <1>10 DEF TypeOK, Targeted, TerminalMutex, Holding, OnInc, OnTgt, Ending, Accepting,
      RefuseDelete, Goto
<1>11. CASE TimerCheck
  BY <1>11 DEF TypeOK, Targeted, TerminalMutex, Holding, OnInc, OnTgt, Ending, Accepting,
      TimerCheck, Goto
<1>12. CASE TimerBegin
  <2>1. \A q \in Procs \ {TimerP} : pc'[q] = pc[q] /\ tgt'[q] = tgt[q]
    BY <1>12 DEF TypeOK, TimerBegin, Goto
  <2>2. CASE CanBeginIncoming(Inc)
    <3>1. term'[Inc] = TimerP BY <1>12, <2>2 DEF TypeOK, TimerBegin, Goto, CanBeginIncoming
    <3> QED BY <2>1, <2>2, <3>1, TakeGuard DEF CanBeginIncoming
  <2>3. CASE ~CanBeginIncoming(Inc)
    <3>1. term' = term BY <1>12, <2>3 DEF TypeOK, TimerBegin, Goto
    <3>2. ~Holding(TimerP)' BY <1>12, <2>3 DEF TypeOK, TimerBegin, Goto, Holding, OnInc, OnTgt
    <3> QED BY <2>1, <3>1, <3>2, KeepGuard
  <2> QED BY <2>2, <2>3
<1>13. CASE TimerFanout
  BY <1>13 DEF TypeOK, Targeted, TerminalMutex, Holding, OnInc, OnTgt, Ending, Accepting,
      TimerFanout, Goto
<1>14. CASE TimerSend
  BY <1>14 DEF TypeOK, Targeted, TerminalMutex, Holding, OnInc, OnTgt, Ending, Accepting,
      TimerSend, Goto
<1>15. CASE TimerDelete
  BY <1>15 DEF TypeOK, Targeted, TerminalMutex, Holding, OnInc, OnTgt, Ending, Accepting,
      TimerDelete, Goto
<1>16. CASE CancelCheck
  BY <1>16 DEF TypeOK, Targeted, TerminalMutex, Holding, OnInc, OnTgt, Ending, Accepting,
      CancelCheck, Goto, Return
<1>17. CASE CancelBegin
  <2>1. \A q \in Procs \ {CancelP} : pc'[q] = pc[q] /\ tgt'[q] = tgt[q]
    BY <1>17 DEF TypeOK, CancelBegin, Goto, Return
  <2>2. tgt[CancelP] \in Sids
    BY <1>17 DEF CancelBegin, Targeted, Ending
  <2>3. CASE CanBeginIncoming(tgt[CancelP]) /\ tgt[CancelP] = Inc
    <3>1. term[Inc] = None /\ term'[Inc] = CancelP BY <1>17, <2>3 DEF TypeOK, CancelBegin, Goto,
        Return, CanBeginIncoming
    <3> QED BY <2>1, <3>1, TakeGuard
  <2>4. CASE CanBeginIncoming(tgt[CancelP]) /\ tgt[CancelP] # Inc
    <3>1. term'[Inc] = term[Inc] BY <1>17, <2>2, <2>4 DEF TypeOK, CancelBegin, Goto, Return
    <3>2. ~Holding(CancelP)' BY <1>17, <2>4 DEF TypeOK, CancelBegin, Goto, Return, Holding,
        OnInc, OnTgt
    <3> QED BY <2>1, <3>1, <3>2, KeepGuard
  <2>5. CASE ~CanBeginIncoming(tgt[CancelP])
    <3>1. term' = term BY <1>17, <2>5 DEF TypeOK, CancelBegin, Goto, Return
    <3>2. ~Holding(CancelP)' BY <1>17, <2>5 DEF TypeOK, CancelBegin, Goto, Return, Holding,
        OnInc, OnTgt
    <3> QED BY <2>1, <3>1, <3>2, KeepGuard
  <2> QED BY <2>3, <2>4, <2>5
<1>18. CASE Cancel487
  BY <1>18 DEF TypeOK, Targeted, TerminalMutex, Holding, OnInc, OnTgt, Ending, Accepting,
      Cancel487, Goto, Respond
<1>19. CASE CancelFanout
  BY <1>19 DEF TypeOK, Targeted, TerminalMutex, Holding, OnInc, OnTgt, Ending, Accepting,
      CancelFanout, Goto
<1>20. CASE CancelEnd
  BY <1>20 DEF TypeOK, Targeted, TerminalMutex, Holding, OnInc, OnTgt, Ending, Accepting,
      CancelEnd, Goto, Return
<1>21. CASE ByeDelete
  BY <1>21 DEF TypeOK, Targeted, TerminalMutex, Holding, OnInc, OnTgt, Ending, Accepting,
      ByeDelete, Goto, Return
<1>22. ASSUME NEW c \in Clients, Present(c) PROVE TerminalMutex'
  BY <1>22 DEF TypeOK, Targeted, TerminalMutex, Holding, OnInc, OnTgt, Ending, Accepting,
      Present, CanBeginIncoming
<1>23. ASSUME NEW c \in Clients, Connect(c) PROVE TerminalMutex'
  BY <1>23 DEF TypeOK, Targeted, TerminalMutex, Holding, OnInc, OnTgt, Ending, Accepting,
      Connect, Goto
<1>24. ASSUME NEW c \in Clients, Offer(c) PROVE TerminalMutex'
  BY <1>24 DEF TypeOK, Targeted, TerminalMutex, Holding, OnInc, OnTgt, Ending, Accepting, Offer,
      CanClaim, Goto
<1>25. ASSUME NEW c \in Clients, AcceptAsk(c) PROVE TerminalMutex'
  BY <1>25 DEF TypeOK, Targeted, TerminalMutex, Holding, OnInc, OnTgt, Ending, Accepting,
      AcceptAsk, ClaimedByOther, Goto
<1>26. ASSUME NEW c \in Clients, RejectAsk(c) PROVE TerminalMutex'
  BY <1>26 DEF TypeOK, Targeted, TerminalMutex, Holding, OnInc, OnTgt, Ending, Accepting,
      RejectAsk, Goto
<1>27. ASSUME NEW c \in Clients, Disconnect(c) PROVE TerminalMutex'
  BY <1>27 DEF TypeOK, Targeted, TerminalMutex, Holding, OnInc, OnTgt, Ending, Accepting,
      Disconnect, Goto
<1>28. ASSUME NEW c \in Clients, Replay(c) PROVE TerminalMutex'
  BY <1>28 DEF TypeOK, Targeted, TerminalMutex, Holding, OnInc, OnTgt, Ending, Accepting, Replay,
      CanBeginIncoming, Goto
<1>29. ASSUME NEW c \in Clients, Offered(c) PROVE TerminalMutex'
  BY <1>29 DEF TypeOK, Targeted, TerminalMutex, Holding, OnInc, OnTgt, Ending, Accepting,
      Offered, Goto, SetState
<1>30. ASSUME NEW c \in Clients, AcceptCheck(c) PROVE TerminalMutex'
  BY <1>30 DEF TypeOK, Targeted, TerminalMutex, Holding, OnInc, OnTgt, Ending, Accepting,
      AcceptCheck, Goto
<1>31. ASSUME NEW c \in Clients, AcceptBegin(c) PROVE TerminalMutex'
  <2>1. \A q \in Procs \ {c} : pc'[q] = pc[q] /\ tgt'[q] = tgt[q]
    BY <1>31 DEF TypeOK, AcceptBegin, Return, Goto
  <2>2. CASE CanBegin(Inc)
    <3>1. term'[Inc] = c BY <1>31, <2>2 DEF TypeOK, AcceptBegin, Return, Goto, CanBegin
    <3> QED BY <2>1, <2>2, <3>1, TakeGuard DEF CanBegin
  <2>3. CASE ~CanBegin(Inc)
    <3>1. term' = term BY <1>31, <2>3 DEF TypeOK, AcceptBegin, Return, Goto
    <3>2. ~Holding(c)' BY <1>31, <2>3 DEF TypeOK, AcceptBegin, Return, Goto, Holding, OnInc, OnTgt
    <3> QED BY <2>1, <3>1, <3>2, KeepGuard
  <2> QED BY <2>2, <2>3
<1>32. ASSUME NEW c \in Clients, AcceptLost(c) PROVE TerminalMutex'
  BY <1>32 DEF TypeOK, Targeted, TerminalMutex, Holding, OnInc, OnTgt, Ending, Accepting,
      AcceptLost, Goto, Return
<1>33. ASSUME NEW c \in Clients, AcceptClaim(c) PROVE TerminalMutex'
  BY <1>33 DEF TypeOK, Targeted, TerminalMutex, Holding, OnInc, OnTgt, Ending, Accepting,
      AcceptClaim, ClearTerminalAction, CanClaim, Goto, Return
<1>34. ASSUME NEW c \in Clients, AcceptTransfer(c) PROVE TerminalMutex'
  BY <1>34 DEF TypeOK, Targeted, TerminalMutex, Holding, OnInc, OnTgt, Ending, Accepting,
      AcceptTransfer, Goto
<1>35. ASSUME NEW c \in Clients, Accept200(c) PROVE TerminalMutex'
  BY <1>35 DEF TypeOK, Targeted, TerminalMutex, Holding, OnInc, OnTgt, Ending, Accepting,
      Accept200, Goto, Respond
<1>36. ASSUME NEW c \in Clients, AcceptActive(c) PROVE TerminalMutex'
  BY <1>36 DEF TypeOK, Targeted, TerminalMutex, Holding, OnInc, OnTgt, Ending, Accepting,
      AcceptActive, Goto
<1>37. ASSUME NEW c \in Clients, AcceptFinish(c) PROVE TerminalMutex'
  BY <1>37 DEF TypeOK, Targeted, TerminalMutex, Holding, OnInc, OnTgt, Ending, Accepting,
      AcceptFinish, ClearTerminalAction, Goto
<1>38. ASSUME NEW c \in Clients, AcceptFanout(c) PROVE TerminalMutex'
  BY <1>38 DEF TypeOK, Targeted, TerminalMutex, Holding, OnInc, OnTgt, Ending, Accepting,
      AcceptFanout, Goto, Return
<1>39. ASSUME NEW c \in Clients, RejectBegin(c) PROVE TerminalMutex'
  <2>1. \A q \in Procs \ {c} : pc'[q] = pc[q] /\ tgt'[q] = tgt[q]
    BY <1>39 DEF TypeOK, RejectBegin, Goto
  <2>2. CASE CanBeginIncoming(Inc)
    <3>1. term'[Inc] = c BY <1>39, <2>2 DEF TypeOK, RejectBegin, Goto, CanBeginIncoming
    <3> QED BY <2>1, <2>2, <3>1, TakeGuard DEF CanBeginIncoming
  <2>3. CASE ~CanBeginIncoming(Inc)
    <3>1. term' = term BY <1>39, <2>3 DEF TypeOK, RejectBegin, Goto
    <3>2. ~Holding(c)' BY <1>39, <2>3 DEF TypeOK, RejectBegin, Goto, Holding, OnInc, OnTgt
    <3> QED BY <2>1, <3>1, <3>2, KeepGuard
  <2> QED BY <2>2, <2>3
<1>40. ASSUME NEW c \in Clients, RejectSend(c) PROVE TerminalMutex'
  BY <1>40 DEF TypeOK, Targeted, TerminalMutex, Holding, OnInc, OnTgt, Ending, Accepting,
      RejectSend, Goto, RejectFails
<1>41. ASSUME NEW c \in Clients, RejectEnd(c) PROVE TerminalMutex'
  BY <1>41 DEF TypeOK, Targeted, TerminalMutex, Holding, OnInc, OnTgt, Ending, Accepting,
      RejectEnd, Goto, SetState
<1>42. ASSUME NEW c \in Clients, HangupCheck(c) PROVE TerminalMutex'
  BY <1>42 DEF TypeOK, Targeted, TerminalMutex, Holding, OnInc, OnTgt, Ending, Accepting,
      HangupCheck, Goto, ActionFor
<1>43. ASSUME NEW c \in Clients, EndBegin(c) PROVE TerminalMutex'
  <2>1. \A q \in Procs \ {c} : pc'[q] = pc[q] /\ tgt'[q] = tgt[q]
    BY <1>43 DEF TypeOK, EndBegin, Goto, Return, EndReturn
  <2>2. tgt[c] \in Sids
    BY <1>43 DEF EndBegin, Targeted, Ending
  <2>3. CASE CanBegin(tgt[c]) /\ tgt[c] = Inc
    <3>1. term[Inc] = None /\ term'[Inc] = c BY <1>43, <2>3 DEF TypeOK, EndBegin, Goto, Return,
        EndReturn, CanBegin
    <3> QED BY <2>1, <3>1, TakeGuard
  <2>4. CASE CanBegin(tgt[c]) /\ tgt[c] # Inc
    <3>1. term'[Inc] = term[Inc] BY <1>43, <2>2, <2>4 DEF TypeOK, EndBegin, Goto, Return,
        EndReturn
    <3>2. ~Holding(c)' BY <1>43, <2>4 DEF TypeOK, EndBegin, Goto, Return, EndReturn, Holding,
        OnInc, OnTgt
    <3> QED BY <2>1, <3>1, <3>2, KeepGuard
  <2>5. CASE ~CanBegin(tgt[c])
    <3>1. term' = term BY <1>43, <2>5 DEF TypeOK, EndBegin, Goto, Return, EndReturn
    <3>2. ~Holding(c)' BY <1>43, <2>5 DEF TypeOK, EndBegin, Goto, Return, EndReturn, Holding,
        OnInc, OnTgt
    <3> QED BY <2>1, <3>1, <3>2, KeepGuard
  <2> QED BY <2>3, <2>4, <2>5
<1>44. ASSUME NEW c \in Clients, EndSend(c) PROVE TerminalMutex'
  BY <1>44 DEF TypeOK, Targeted, TerminalMutex, Holding, OnInc, OnTgt, Ending, Accepting,
      EndSend, Goto, SetState
<1>45. ASSUME NEW c \in Clients, EndBye(c) PROVE TerminalMutex'
  BY <1>45 DEF TypeOK, Targeted, TerminalMutex, Holding, OnInc, OnTgt, Ending, Accepting, EndBye,
      Goto
<1>46. ASSUME NEW c \in Clients, EndDelete(c) PROVE TerminalMutex'
  BY <1>46 DEF TypeOK, Targeted, TerminalMutex, Holding, OnInc, OnTgt, Ending, Accepting,
      EndDelete, Goto, Return, EndReturn
<1>47. ASSUME NEW c \in Clients, Sweep(c) PROVE TerminalMutex'
  BY <1>47 DEF TypeOK, Targeted, TerminalMutex, Holding, OnInc, OnTgt, Ending, Accepting, Sweep,
      Goto
<1>48. ASSUME NEW c \in Clients, Swept(c) PROVE TerminalMutex'
  BY <1>48 DEF TypeOK, Targeted, TerminalMutex, Holding, OnInc, OnTgt, Ending, Accepting, Swept,
      Goto
<1>49. ASSUME NEW c \in Clients, NEW s \in Sids, HangupAsk(c, s) PROVE TerminalMutex'
  BY <1>49 DEF TypeOK, Targeted, TerminalMutex, Holding, OnInc, OnTgt, Ending, Accepting,
      HangupAsk, ClaimedByOther, Goto
<1>50. ASSUME NEW c \in Clients, NEW s \in Sids, ForceEnd(c, s) PROVE TerminalMutex'
  BY <1>50 DEF TypeOK, Targeted, TerminalMutex, Holding, OnInc, OnTgt, Ending, Accepting,
      ForceEnd, Goto, ActionFor
<1>51. CASE UNCHANGED vars
  BY <1>51 DEF vars, TerminalMutex, Holding
<1> QED
  BY <1>1, <1>2, <1>3, <1>4, <1>5, <1>6, <1>7, <1>8, <1>9, <1>10, <1>11, <1>12, <1>13, <1>14,
      <1>15, <1>16, <1>17, <1>18, <1>19, <1>20, <1>21, <1>22, <1>23, <1>24, <1>25, <1>26, <1>27,
      <1>28, <1>29, <1>30, <1>31, <1>32, <1>33, <1>34, <1>35, <1>36, <1>37, <1>38, <1>39, <1>40,
      <1>41, <1>42, <1>43, <1>44, <1>45, <1>46, <1>47, <1>48, <1>49, <1>50, <1>51 DEF Next,
      FarEnd, InviteRuns, TimerRuns, CancelRuns, ClientStarts, ClientRuns

(* Every step leaves a goroutine with the session it works on. *)
LEMMA TargetedStep ==
  ASSUME TypeOK, Targeted, OnlyIncRings, [Next]_vars
  PROVE  Targeted'
<1> USE NameAssumption DEF Procs, System, Sids, sessVars, apiVars, sipVars, ctlVars, histVars
<1>1. CASE InviteArrives
  BY <1>1 DEF TypeOK, Targeted, OnlyIncRings, OnTgt, Ending, Accepting, InviteArrives, Goto,
      SetState
<1>2. CASE CallerCancels
  BY <1>2 DEF TypeOK, Targeted, OnlyIncRings, OnTgt, Ending, Accepting, CallerCancels, Goto
<1>3. CASE CallerAcks
  BY <1>3 DEF TypeOK, Targeted, OnlyIncRings, OnTgt, Ending, Accepting, CallerAcks
<1>4. CASE CallerByes
  BY <1>4 DEF TypeOK, Targeted, OnlyIncRings, OnTgt, Ending, Accepting, CallerByes, Goto
<1>5. CASE Admit \/ Presented \/ Refuse
  BY <1>5 DEF TypeOK, Targeted, OnlyIncRings, OnTgt, Ending, Accepting, Goto, Admit, Presented,
      Refuse
<1>8. CASE RefuseBegin
  BY <1>8 DEF TypeOK, Targeted, OnlyIncRings, OnTgt, Ending, Accepting, RefuseBegin, CanBegin,
      Goto
<1>9. CASE RefuseSend
  BY <1>9 DEF TypeOK, Targeted, OnlyIncRings, OnTgt, Ending, Accepting, RefuseSend, Goto
<1>10. CASE RefuseDelete
  BY <1>10 DEF TypeOK, Targeted, OnlyIncRings, OnTgt, Ending, Accepting, RefuseDelete, Goto
<1>11. CASE TimerCheck
  BY <1>11 DEF TypeOK, Targeted, OnlyIncRings, OnTgt, Ending, Accepting, TimerCheck, Goto
<1>12. CASE TimerBegin
  BY <1>12 DEF TypeOK, Targeted, OnlyIncRings, OnTgt, Ending, Accepting, TimerBegin,
      CanBeginIncoming, Goto
<1>13. CASE TimerFanout
  BY <1>13 DEF TypeOK, Targeted, OnlyIncRings, OnTgt, Ending, Accepting, TimerFanout, Goto
<1>14. CASE TimerSend
  BY <1>14 DEF TypeOK, Targeted, OnlyIncRings, OnTgt, Ending, Accepting, TimerSend, Goto
<1>15. CASE TimerDelete
  BY <1>15 DEF TypeOK, Targeted, OnlyIncRings, OnTgt, Ending, Accepting, TimerDelete, Goto
<1>16. CASE CancelCheck
  BY <1>16 DEF TypeOK, Targeted, OnlyIncRings, OnTgt, Ending, Accepting, CancelCheck, Goto, Return
<1>17. CASE CancelBegin
  BY <1>17 DEF TypeOK, Targeted, OnlyIncRings, OnTgt, Ending, Accepting, CancelBegin,
      CanBeginIncoming, Goto, Return
<1>18. CASE Cancel487
  BY <1>18 DEF TypeOK, Targeted, OnlyIncRings, OnTgt, Ending, Accepting, Cancel487, Goto, Respond
<1>19. CASE CancelFanout
  BY <1>19 DEF TypeOK, Targeted, OnlyIncRings, OnTgt, Ending, Accepting, CancelFanout, Goto
<1>20. CASE CancelEnd
  BY <1>20 DEF TypeOK, Targeted, OnlyIncRings, OnTgt, Ending, Accepting, CancelEnd, Goto, Return
<1>21. CASE ByeDelete
  BY <1>21 DEF TypeOK, Targeted, OnlyIncRings, OnTgt, Ending, Accepting, ByeDelete, Goto, Return
<1>22. ASSUME NEW c \in Clients, Present(c) PROVE Targeted'
  BY <1>22 DEF TypeOK, Targeted, OnlyIncRings, OnTgt, Ending, Accepting, Present, CanBeginIncoming
<1>23. ASSUME NEW c \in Clients, Connect(c) PROVE Targeted'
  BY <1>23 DEF TypeOK, Targeted, OnlyIncRings, OnTgt, Ending, Accepting, Connect, Goto
<1>24. ASSUME NEW c \in Clients, Offer(c) PROVE Targeted'
  BY <1>24 DEF TypeOK, Targeted, OnlyIncRings, OnTgt, Ending, Accepting, Offer, CanClaim, Goto
<1>25. ASSUME NEW c \in Clients, AcceptAsk(c) PROVE Targeted'
  BY <1>25 DEF TypeOK, Targeted, OnlyIncRings, OnTgt, Ending, Accepting, AcceptAsk,
      ClaimedByOther, Goto
<1>26. ASSUME NEW c \in Clients, RejectAsk(c) PROVE Targeted'
  BY <1>26 DEF TypeOK, Targeted, OnlyIncRings, OnTgt, Ending, Accepting, RejectAsk, Goto
<1>27. ASSUME NEW c \in Clients, Disconnect(c) PROVE Targeted'
  <2>1. UNCHANGED <<tgt, act>> /\ pc[c] = "idle"
    BY <1>27 DEF Disconnect
  <2>2. pc'[c] \in {"own", "gone"} /\ \A q \in Procs \ {c} : pc'[q] = pc[q]
    BY <1>27 DEF TypeOK, Disconnect, Goto
  <2>3. act[c] # "reject"
    BY <2>1 DEF Targeted, Ending
  <2> QED BY <2>1, <2>2, <2>3 DEF Targeted, Ending, Accepting, OnTgt
<1>28. ASSUME NEW c \in Clients, Replay(c) PROVE Targeted'
  BY <1>28 DEF TypeOK, Targeted, OnlyIncRings, OnTgt, Ending, Accepting, Replay,
      CanBeginIncoming, Goto
<1>29. ASSUME NEW c \in Clients, Offered(c) PROVE Targeted'
  BY <1>29 DEF TypeOK, Targeted, OnlyIncRings, OnTgt, Ending, Accepting, Offered, Goto, SetState
<1>30. ASSUME NEW c \in Clients, AcceptCheck(c) PROVE Targeted'
  BY <1>30 DEF TypeOK, Targeted, OnlyIncRings, OnTgt, Ending, Accepting, AcceptCheck, Goto
<1>31. ASSUME NEW c \in Clients, AcceptBegin(c) PROVE Targeted'
  BY <1>31 DEF TypeOK, Targeted, OnlyIncRings, OnTgt, Ending, Accepting, AcceptBegin, CanBegin,
      ClaimedByOther, Goto, Return
<1>32. ASSUME NEW c \in Clients, AcceptLost(c) PROVE Targeted'
  BY <1>32 DEF TypeOK, Targeted, OnlyIncRings, OnTgt, Ending, Accepting, AcceptLost, Goto, Return
<1>33. ASSUME NEW c \in Clients, AcceptClaim(c) PROVE Targeted'
  BY <1>33, SMTT(40) DEF TypeOK, Targeted, OnlyIncRings, OnTgt, Ending, Accepting, AcceptClaim,
      ClearTerminalAction, CanClaim, Goto, Return
<1>34. ASSUME NEW c \in Clients, AcceptTransfer(c) PROVE Targeted'
  BY <1>34 DEF TypeOK, Targeted, OnlyIncRings, OnTgt, Ending, Accepting, AcceptTransfer, Goto
<1>35. ASSUME NEW c \in Clients, Accept200(c) PROVE Targeted'
  BY <1>35 DEF TypeOK, Targeted, OnlyIncRings, OnTgt, Ending, Accepting, Accept200, Goto, Respond
<1>36. ASSUME NEW c \in Clients, AcceptActive(c) PROVE Targeted'
  BY <1>36 DEF TypeOK, Targeted, OnlyIncRings, OnTgt, Ending, Accepting, AcceptActive, Goto
<1>37. ASSUME NEW c \in Clients, AcceptFinish(c) PROVE Targeted'
  BY <1>37 DEF TypeOK, Targeted, OnlyIncRings, OnTgt, Ending, Accepting, AcceptFinish,
      ClearTerminalAction, Goto
<1>38. ASSUME NEW c \in Clients, AcceptFanout(c) PROVE Targeted'
  BY <1>38 DEF TypeOK, Targeted, OnlyIncRings, OnTgt, Ending, Accepting, AcceptFanout, Goto,
      Return
<1>39. ASSUME NEW c \in Clients, RejectBegin(c) PROVE Targeted'
  BY <1>39 DEF TypeOK, Targeted, OnlyIncRings, OnTgt, Ending, Accepting, RejectBegin,
      CanBeginIncoming, Goto
<1>40. ASSUME NEW c \in Clients, RejectSend(c) PROVE Targeted'
  <2>1. pc' = [pc EXCEPT ![c] = "rej_end"] \/ pc' = [pc EXCEPT ![c] = "idle"]
    BY <1>40 DEF RejectSend, Goto
  <2>2. UNCHANGED <<tgt, act>> /\ pc[c] = "rej_send"
    BY <1>40 DEF RejectSend
  <2> QED BY <2>1, <2>2 DEF TypeOK, Targeted, OnTgt, Ending, Accepting
<1>41. ASSUME NEW c \in Clients, RejectEnd(c) PROVE Targeted'
  BY <1>41 DEF TypeOK, Targeted, OnlyIncRings, OnTgt, Ending, Accepting, RejectEnd, Goto, SetState
<1>42. ASSUME NEW c \in Clients, HangupCheck(c) PROVE Targeted'
  BY <1>42 DEF TypeOK, Targeted, OnlyIncRings, OnTgt, Ending, Accepting, HangupCheck, Goto,
      ActionFor
<1>43. ASSUME NEW c \in Clients, EndBegin(c) PROVE Targeted'
  BY <1>43, SMTT(40) DEF TypeOK, Targeted, OnlyIncRings, OnTgt, Ending, Accepting, EndBegin, CanBegin,
      Goto, Return, EndReturn
<1>44. ASSUME NEW c \in Clients, EndSend(c) PROVE Targeted'
  BY <1>44 DEF TypeOK, Targeted, OnlyIncRings, OnTgt, Ending, Accepting, EndSend, Goto, SetState
<1>45. ASSUME NEW c \in Clients, EndBye(c) PROVE Targeted'
  BY <1>45 DEF TypeOK, Targeted, OnlyIncRings, OnTgt, Ending, Accepting, EndBye, Goto
<1>46. ASSUME NEW c \in Clients, EndDelete(c) PROVE Targeted'
  BY <1>46 DEF TypeOK, Targeted, OnlyIncRings, OnTgt, Ending, Accepting, EndDelete, Goto, Return,
      EndReturn
<1>47. ASSUME NEW c \in Clients, Sweep(c) \/ Swept(c) PROVE Targeted'
  BY <1>47 DEF TypeOK, Targeted, OnlyIncRings, OnTgt, Ending, Accepting, Goto, Sweep, Swept
<1>49. ASSUME NEW c \in Clients, NEW s \in Sids, HangupAsk(c, s) PROVE Targeted'
  <2>1. act' = act /\ pc[c] = "idle" /\ \A q \in Procs \ {c} : pc'[q] = pc[q] /\ tgt'[q] = tgt[q]
    BY <1>49 DEF TypeOK, HangupAsk, Goto
  <2>2. act[c] # "reject"
    BY <2>1 DEF Targeted, Ending
  <2>3. pc'[c] = "idle" \/ (pc'[c] = "hup_check" /\ tgt'[c] \in Sids)
    BY <1>49 DEF TypeOK, HangupAsk, Goto
  <2>4. \A q \in Procs \ {c} : pc'[q] = pc[q] /\ tgt'[q] = tgt[q] /\ act'[q] = act[q]
    BY <2>1
  <2>5. ASSUME NEW q \in Procs PROVE
          /\ pc'[q] \in Accepting \cup Ending \cup OnTgt \cup {"hup_check", "cxl_check",
              "cxl_begin"} => tgt'[q] \in Sids
          /\ pc'[q] \in {"cxl_487", "cxl_fanout", "cxl_end"} => tgt'[q] = Inc
    <3>1. CASE q = c BY <2>3, <3>1 DEF Ending, Accepting, OnTgt
    <3>2. CASE q # c BY <2>4, <3>2 DEF Targeted
    <3> QED BY <3>1, <3>2
  <2>6. ASSUME NEW d \in Clients, act'[d] = "reject" PROVE tgt'[d] = Inc /\ pc'[d] \in Ending
    BY <2>1, <2>2, <2>4, <2>6 DEF Targeted
  <2>7. Accepting' = Accepting /\ Ending' = Ending /\ OnTgt' = OnTgt
    BY DEF Accepting, Ending, OnTgt
  <2> QED BY <2>5, <2>6, <2>7, Zenon DEF Targeted
<1>50. ASSUME NEW c \in Clients, NEW s \in Sids, ForceEnd(c, s) PROVE Targeted'
  <2>1. CASE ~(s \in mgr /\ state[s] # "ended")
    BY <1>50, <2>1 DEF ForceEnd, Targeted, Ending, Accepting, OnTgt
  <2>2. CASE s \in mgr /\ state[s] # "ended"
    <3>1. tgt' = [tgt EXCEPT ![c] = s] /\ act' = [act EXCEPT ![c] = ActionFor(s)] /\ pc' = [pc
        EXCEPT ![c] = "end_begin"]
      BY <1>50, <2>2 DEF ForceEnd, Goto
    <3>2. ActionFor(s) = "reject" => s = Inc
      BY DEF ActionFor, OnlyIncRings
    <3>3. ASSUME NEW q \in Procs PROVE
            /\ pc'[q] \in Accepting \cup Ending \cup OnTgt \cup {"hup_check", "cxl_check",
                "cxl_begin"} => tgt'[q] \in Sids
            /\ pc'[q] \in {"cxl_487", "cxl_fanout", "cxl_end"} => tgt'[q] = Inc
      BY <3>1, <3>3 DEF Targeted, TypeOK
    <3>4. ASSUME NEW d \in Clients, act'[d] = "reject" PROVE tgt'[d] = Inc /\ pc'[d] \in Ending
      BY <3>1, <3>2, <3>4 DEF Targeted, TypeOK, Ending
    <3>5. Accepting' = Accepting /\ Ending' = Ending /\ OnTgt' = OnTgt
      BY DEF Accepting, Ending, OnTgt
    <3> QED BY <3>3, <3>4, <3>5, Zenon DEF Targeted
  <2> QED BY <2>1, <2>2
<1>51. CASE UNCHANGED vars
  BY <1>51 DEF vars, Targeted
<1> QED
  BY <1>1, <1>2, <1>3, <1>4, <1>5, <1>8, <1>9, <1>10, <1>11, <1>12, <1>13, <1>14, <1>15, <1>16,
      <1>17, <1>18, <1>19, <1>20, <1>21, <1>22, <1>23, <1>24, <1>25, <1>26, <1>27, <1>28, <1>29,
      <1>30, <1>31, <1>32, <1>33, <1>34, <1>35, <1>36, <1>37, <1>38, <1>39, <1>40, <1>41, <1>42,
      <1>43, <1>44, <1>45, <1>46, <1>47, <1>49, <1>50, <1>51 DEF Next, FarEnd, InviteRuns,
      TimerRuns, CancelRuns, ClientStarts, ClientRuns

(* Every step keeps ringing to the presented session. *)
LEMMA OnlyIncRingsStep ==
  ASSUME TypeOK, Targeted, OnlyIncRings, [Next]_vars
  PROVE  OnlyIncRings'
<1> USE NameAssumption DEF Procs, System, Sids, sessVars, apiVars, sipVars, ctlVars, histVars
<1>1. CASE InviteArrives
  BY <1>1 DEF TypeOK, Targeted, OnlyIncRings, OnTgt, Ending, Accepting, InviteArrives, Goto,
      SetState
<1>2. CASE CallerCancels
  BY <1>2 DEF TypeOK, Targeted, OnlyIncRings, OnTgt, Ending, Accepting, CallerCancels, Goto
<1>3. CASE CallerAcks
  BY <1>3, ActivateEffect DEF TypeOK, Targeted, OnlyIncRings, OnTgt, Ending, Accepting, CallerAcks
<1>4. CASE CallerByes
  BY <1>4, EndEffect DEF TypeOK, Targeted, OnlyIncRings, OnTgt, Ending, Accepting, CallerByes,
      Goto
<1>5. CASE Admit \/ Presented \/ Refuse
  BY <1>5 DEF TypeOK, Targeted, OnlyIncRings, OnTgt, Ending, Accepting, Goto, Admit, Presented,
      Refuse
<1>8. CASE RefuseBegin
  BY <1>8 DEF TypeOK, Targeted, OnlyIncRings, OnTgt, Ending, Accepting, RefuseBegin, CanBegin,
      Goto
<1>9. CASE RefuseSend
  BY <1>9, RejectEffect DEF TypeOK, Targeted, OnlyIncRings, OnTgt, Ending, Accepting, RefuseSend,
      Goto
<1>10. CASE RefuseDelete
  BY <1>10, DeleteEffect DEF TypeOK, Targeted, OnlyIncRings, OnTgt, Ending, Accepting,
      RefuseDelete, Goto
<1>11. CASE TimerCheck
  BY <1>11 DEF TypeOK, Targeted, OnlyIncRings, OnTgt, Ending, Accepting, TimerCheck, Goto
<1>12. CASE TimerBegin
  BY <1>12 DEF TypeOK, Targeted, OnlyIncRings, OnTgt, Ending, Accepting, TimerBegin,
      CanBeginIncoming, Goto
<1>13. CASE TimerFanout
  BY <1>13 DEF TypeOK, Targeted, OnlyIncRings, OnTgt, Ending, Accepting, TimerFanout, Goto
<1>14. CASE TimerSend
  BY <1>14, RejectEffect DEF TypeOK, Targeted, OnlyIncRings, OnTgt, Ending, Accepting, TimerSend,
      Goto
<1>15. CASE TimerDelete
  BY <1>15, DeleteEffect DEF TypeOK, Targeted, OnlyIncRings, OnTgt, Ending, Accepting,
      TimerDelete, Goto
<1>16. CASE CancelCheck
  BY <1>16 DEF TypeOK, Targeted, OnlyIncRings, OnTgt, Ending, Accepting, CancelCheck, Goto, Return
<1>17. CASE CancelBegin
  BY <1>17 DEF TypeOK, Targeted, OnlyIncRings, OnTgt, Ending, Accepting, CancelBegin,
      CanBeginIncoming, Goto, Return
<1>18. CASE Cancel487
  BY <1>18 DEF TypeOK, Targeted, OnlyIncRings, OnTgt, Ending, Accepting, Cancel487, Goto, Respond
<1>19. CASE CancelFanout
  BY <1>19 DEF TypeOK, Targeted, OnlyIncRings, OnTgt, Ending, Accepting, CancelFanout, Goto
<1>20. CASE CancelEnd
  BY <1>20, EndEffect DEF TypeOK, Targeted, OnlyIncRings, OnTgt, Ending, Accepting, CancelEnd,
      Goto, Return
<1>21. CASE ByeDelete
  BY <1>21, DeleteEffect DEF TypeOK, Targeted, OnlyIncRings, OnTgt, Ending, Accepting, ByeDelete,
      Goto, Return
<1>22. ASSUME NEW c \in Clients, Present(c) PROVE OnlyIncRings'
  BY <1>22 DEF TypeOK, Targeted, OnlyIncRings, OnTgt, Ending, Accepting, Present, CanBeginIncoming
<1>23. ASSUME NEW c \in Clients, Connect(c) PROVE OnlyIncRings'
  BY <1>23 DEF TypeOK, Targeted, OnlyIncRings, OnTgt, Ending, Accepting, Connect, Goto
<1>24. ASSUME NEW c \in Clients, Offer(c) PROVE OnlyIncRings'
  BY <1>24 DEF TypeOK, Targeted, OnlyIncRings, OnTgt, Ending, Accepting, Offer, CanClaim, Goto
<1>25. ASSUME NEW c \in Clients, AcceptAsk(c) PROVE OnlyIncRings'
  BY <1>25 DEF TypeOK, Targeted, OnlyIncRings, OnTgt, Ending, Accepting, AcceptAsk,
      ClaimedByOther, Goto
<1>26. ASSUME NEW c \in Clients, RejectAsk(c) PROVE OnlyIncRings'
  BY <1>26 DEF TypeOK, Targeted, OnlyIncRings, OnTgt, Ending, Accepting, RejectAsk, Goto
<1>27. ASSUME NEW c \in Clients, Disconnect(c) PROVE OnlyIncRings'
  BY <1>27 DEF TypeOK, Targeted, OnlyIncRings, OnTgt, Ending, Accepting, Disconnect, Goto
<1>28. ASSUME NEW c \in Clients, Replay(c) PROVE OnlyIncRings'
  BY <1>28 DEF TypeOK, Targeted, OnlyIncRings, OnTgt, Ending, Accepting, Replay,
      CanBeginIncoming, Goto
<1>29. ASSUME NEW c \in Clients, Offered(c) PROVE OnlyIncRings'
  BY <1>29 DEF TypeOK, Targeted, OnlyIncRings, OnTgt, Ending, Accepting, Offered, Goto, SetState
<1>30. ASSUME NEW c \in Clients, AcceptCheck(c) PROVE OnlyIncRings'
  BY <1>30 DEF TypeOK, Targeted, OnlyIncRings, OnTgt, Ending, Accepting, AcceptCheck, Goto
<1>31. ASSUME NEW c \in Clients, AcceptBegin(c) PROVE OnlyIncRings'
  BY <1>31 DEF TypeOK, Targeted, OnlyIncRings, OnTgt, Ending, Accepting, AcceptBegin, CanBegin,
      ClaimedByOther, Goto, Return
<1>32. ASSUME NEW c \in Clients, AcceptLost(c) PROVE OnlyIncRings'
  BY <1>32 DEF TypeOK, Targeted, OnlyIncRings, OnTgt, Ending, Accepting, AcceptLost, Goto, Return
<1>33. ASSUME NEW c \in Clients, AcceptClaim(c) PROVE OnlyIncRings'
  BY <1>33 DEF TypeOK, Targeted, OnlyIncRings, OnTgt, Ending, Accepting, AcceptClaim,
      ClearTerminalAction, CanClaim, Goto, Return
<1>34. ASSUME NEW c \in Clients, AcceptTransfer(c) PROVE OnlyIncRings'
  BY <1>34 DEF TypeOK, Targeted, OnlyIncRings, OnTgt, Ending, Accepting, AcceptTransfer, Goto
<1>35. ASSUME NEW c \in Clients, Accept200(c) PROVE OnlyIncRings'
  BY <1>35 DEF TypeOK, Targeted, OnlyIncRings, OnTgt, Ending, Accepting, Accept200, Goto, Respond
<1>36. ASSUME NEW c \in Clients, AcceptActive(c) PROVE OnlyIncRings'
  BY <1>36, ActivateEffect DEF TypeOK, Targeted, OnlyIncRings, OnTgt, Ending, Accepting,
      AcceptActive, Goto
<1>37. ASSUME NEW c \in Clients, AcceptFinish(c) PROVE OnlyIncRings'
  BY <1>37, DeleteEffect DEF TypeOK, Targeted, OnlyIncRings, OnTgt, Ending, Accepting,
      AcceptFinish, ClearTerminalAction, Goto
<1>38. ASSUME NEW c \in Clients, AcceptFanout(c) PROVE OnlyIncRings'
  BY <1>38 DEF TypeOK, Targeted, OnlyIncRings, OnTgt, Ending, Accepting, AcceptFanout, Goto,
      Return
<1>39. ASSUME NEW c \in Clients, RejectBegin(c) PROVE OnlyIncRings'
  BY <1>39 DEF TypeOK, Targeted, OnlyIncRings, OnTgt, Ending, Accepting, RejectBegin,
      CanBeginIncoming, Goto
<1>40. ASSUME NEW c \in Clients, RejectSend(c) PROVE OnlyIncRings'
  BY <1>40, RejectSentEffect DEF TypeOK, Targeted, OnlyIncRings, OnTgt, Ending, Accepting,
      RejectSend, Goto, RejectFails
<1>41. ASSUME NEW c \in Clients, RejectEnd(c) PROVE OnlyIncRings'
  BY <1>41 DEF TypeOK, Targeted, OnlyIncRings, OnTgt, Ending, Accepting, RejectEnd, Goto, SetState
<1>42. ASSUME NEW c \in Clients, HangupCheck(c) PROVE OnlyIncRings'
  BY <1>42 DEF TypeOK, Targeted, OnlyIncRings, OnTgt, Ending, Accepting, HangupCheck, Goto,
      ActionFor
<1>43. ASSUME NEW c \in Clients, EndBegin(c) PROVE OnlyIncRings'
  BY <1>43 DEF TypeOK, Targeted, OnlyIncRings, OnTgt, Ending, Accepting, EndBegin, CanBegin,
      Goto, Return, EndReturn
<1>44. ASSUME NEW c \in Clients, EndSend(c) PROVE OnlyIncRings'
  BY <1>44, EndEffect, RejectEffect DEF TypeOK, Targeted, OnlyIncRings, OnTgt, Ending, Accepting,
      EndSend, Goto, SetState
<1>45. ASSUME NEW c \in Clients, EndBye(c) PROVE OnlyIncRings'
  BY <1>45, EndEffect DEF TypeOK, Targeted, OnlyIncRings, OnTgt, Ending, Accepting, EndBye, Goto
<1>46. ASSUME NEW c \in Clients, EndDelete(c) PROVE OnlyIncRings'
  BY <1>46, DeleteEffect DEF TypeOK, Targeted, OnlyIncRings, OnTgt, Ending, Accepting, EndDelete,
      Goto, Return, EndReturn
<1>47. ASSUME NEW c \in Clients, Sweep(c) \/ Swept(c) PROVE OnlyIncRings'
  BY <1>47 DEF TypeOK, Targeted, OnlyIncRings, OnTgt, Ending, Accepting, Goto, Sweep, Swept
<1>49. ASSUME NEW c \in Clients, NEW s \in Sids, HangupAsk(c, s) PROVE OnlyIncRings'
  BY <1>49 DEF TypeOK, Targeted, OnlyIncRings, OnTgt, Ending, Accepting, HangupAsk,
      ClaimedByOther, Goto
<1>50. ASSUME NEW c \in Clients, NEW s \in Sids, ForceEnd(c, s) PROVE OnlyIncRings'
  BY <1>50 DEF TypeOK, Targeted, OnlyIncRings, OnTgt, Ending, Accepting, ForceEnd, Goto, ActionFor
<1>51. CASE UNCHANGED vars
  BY <1>51 DEF vars, OnlyIncRings
<1> QED
  BY <1>1, <1>2, <1>3, <1>4, <1>5, <1>8, <1>9, <1>10, <1>11, <1>12, <1>13, <1>14, <1>15, <1>16,
      <1>17, <1>18, <1>19, <1>20, <1>21, <1>22, <1>23, <1>24, <1>25, <1>26, <1>27, <1>28, <1>29,
      <1>30, <1>31, <1>32, <1>33, <1>34, <1>35, <1>36, <1>37, <1>38, <1>39, <1>40, <1>41, <1>42,
      <1>43, <1>44, <1>45, <1>46, <1>47, <1>49, <1>50, <1>51 DEF Next, FarEnd, InviteRuns,
      TimerRuns, CancelRuns, ClientStarts, ClientRuns

(* Every step keeps an answered call on its way out of ringing. *)
LEMMA AnsweredLeavesStep ==
  ASSUME TypeOK, Targeted, TerminalMutex, OnlyIncRings, AnsweredLeaves, InviteOnce, [Next]_vars
  PROVE  AnsweredLeaves'
<1> USE NameAssumption DEF Procs, System, Sids, sessVars, apiVars, sipVars, ctlVars, histVars
<1>1. CASE InviteArrives
  BY <1>1 DEF TypeOK, Targeted, TerminalMutex, Holding, OnInc, OnlyIncRings, AnsweredLeaves,
      InviteOnce, OnTgt, Ending, Accepting, InviteArrives, Goto, SetState
<1>2. CASE CallerCancels
  BY <1>2 DEF TypeOK, Targeted, TerminalMutex, Holding, OnInc, OnlyIncRings, AnsweredLeaves,
      InviteOnce, OnTgt, Ending, Accepting, CallerCancels, Goto
<1>3. CASE CallerAcks
  BY <1>3, ActivateEffect DEF TypeOK, Targeted, TerminalMutex, Holding, OnInc, OnlyIncRings,
      AnsweredLeaves, InviteOnce, OnTgt, Ending, Accepting, CallerAcks
<1>4. CASE CallerByes
  BY <1>4, EndEffect DEF TypeOK, Targeted, TerminalMutex, Holding, OnInc, OnlyIncRings,
      AnsweredLeaves, InviteOnce, OnTgt, Ending, Accepting, CallerByes, Goto
<1>5. CASE Admit
  BY <1>5 DEF TypeOK, Targeted, TerminalMutex, Holding, OnInc, OnlyIncRings, AnsweredLeaves,
      InviteOnce, OnTgt, Ending, Accepting, Admit, Goto
<1>6. CASE Presented
  BY <1>6 DEF TypeOK, Targeted, TerminalMutex, Holding, OnInc, OnlyIncRings, AnsweredLeaves,
      InviteOnce, OnTgt, Ending, Accepting, Presented
<1>7. CASE Refuse
  BY <1>7 DEF TypeOK, Targeted, TerminalMutex, Holding, OnInc, OnlyIncRings, AnsweredLeaves,
      InviteOnce, OnTgt, Ending, Accepting, Refuse, Goto
<1>8. CASE RefuseBegin
  BY <1>8 DEF TypeOK, Targeted, TerminalMutex, Holding, OnInc, OnlyIncRings, AnsweredLeaves,
      InviteOnce, OnTgt, Ending, Accepting, RefuseBegin, CanBegin, Goto
<1>9. CASE RefuseSend
  BY <1>9, RejectEffect DEF TypeOK, Targeted, TerminalMutex, Holding, OnInc, OnlyIncRings,
      AnsweredLeaves, InviteOnce, OnTgt, Ending, Accepting, RefuseSend, Goto
<1>10. CASE RefuseDelete
  BY <1>10, DeleteEffect DEF TypeOK, Targeted, TerminalMutex, Holding, OnInc, OnlyIncRings,
      AnsweredLeaves, InviteOnce, OnTgt, Ending, Accepting, RefuseDelete, Goto
<1>11. CASE TimerCheck
  BY <1>11 DEF TypeOK, Targeted, TerminalMutex, Holding, OnInc, OnlyIncRings, AnsweredLeaves,
      InviteOnce, OnTgt, Ending, Accepting, TimerCheck, Goto
<1>12. CASE TimerBegin
  BY <1>12 DEF TypeOK, Targeted, TerminalMutex, Holding, OnInc, OnlyIncRings, AnsweredLeaves,
      InviteOnce, OnTgt, Ending, Accepting, TimerBegin, CanBeginIncoming, Goto
<1>13. CASE TimerFanout
  BY <1>13 DEF TypeOK, Targeted, TerminalMutex, Holding, OnInc, OnlyIncRings, AnsweredLeaves,
      InviteOnce, OnTgt, Ending, Accepting, TimerFanout, Goto
<1>14. CASE TimerSend
  BY <1>14, RejectEffect DEF TypeOK, Targeted, TerminalMutex, Holding, OnInc, OnlyIncRings,
      AnsweredLeaves, InviteOnce, OnTgt, Ending, Accepting, TimerSend, Goto
<1>15. CASE TimerDelete
  BY <1>15, DeleteEffect DEF TypeOK, Targeted, TerminalMutex, Holding, OnInc, OnlyIncRings,
      AnsweredLeaves, InviteOnce, OnTgt, Ending, Accepting, TimerDelete, Goto
<1>16. CASE CancelCheck
  BY <1>16 DEF TypeOK, Targeted, TerminalMutex, Holding, OnInc, OnlyIncRings, AnsweredLeaves,
      InviteOnce, OnTgt, Ending, Accepting, CancelCheck, Goto, Return
<1>17. CASE CancelBegin
  BY <1>17 DEF TypeOK, Targeted, TerminalMutex, Holding, OnInc, OnlyIncRings, AnsweredLeaves,
      InviteOnce, OnTgt, Ending, Accepting, CancelBegin, CanBeginIncoming, Goto, Return
<1>18. CASE Cancel487
  BY <1>18 DEF TypeOK, Targeted, TerminalMutex, Holding, OnInc, OnlyIncRings, AnsweredLeaves,
      InviteOnce, OnTgt, Ending, Accepting, Cancel487, Goto, Respond
<1>19. CASE CancelFanout
  BY <1>19 DEF TypeOK, Targeted, TerminalMutex, Holding, OnInc, OnlyIncRings, AnsweredLeaves,
      InviteOnce, OnTgt, Ending, Accepting, CancelFanout, Goto
<1>20. CASE CancelEnd
  BY <1>20, EndEffect DEF TypeOK, Targeted, TerminalMutex, Holding, OnInc, OnlyIncRings,
      AnsweredLeaves, InviteOnce, OnTgt, Ending, Accepting, CancelEnd, Goto, Return
<1>21. CASE ByeDelete
  BY <1>21, DeleteEffect DEF TypeOK, Targeted, TerminalMutex, Holding, OnInc, OnlyIncRings,
      AnsweredLeaves, InviteOnce, OnTgt, Ending, Accepting, ByeDelete, Goto, Return
<1>22. ASSUME NEW c \in Clients, Present(c) PROVE AnsweredLeaves'
  BY <1>22 DEF TypeOK, Targeted, TerminalMutex, Holding, OnInc, OnlyIncRings, AnsweredLeaves,
      InviteOnce, OnTgt, Ending, Accepting, Present, CanBeginIncoming
<1>23. ASSUME NEW c \in Clients, Connect(c) PROVE AnsweredLeaves'
  BY <1>23 DEF TypeOK, Targeted, TerminalMutex, Holding, OnInc, OnlyIncRings, AnsweredLeaves,
      InviteOnce, OnTgt, Ending, Accepting, Connect, Goto
<1>24. ASSUME NEW c \in Clients, Offer(c) PROVE AnsweredLeaves'
  BY <1>24 DEF TypeOK, Targeted, TerminalMutex, Holding, OnInc, OnlyIncRings, AnsweredLeaves,
      InviteOnce, OnTgt, Ending, Accepting, Offer, CanClaim, Goto
<1>25. ASSUME NEW c \in Clients, AcceptAsk(c) PROVE AnsweredLeaves'
  BY <1>25 DEF TypeOK, Targeted, TerminalMutex, Holding, OnInc, OnlyIncRings, AnsweredLeaves,
      InviteOnce, OnTgt, Ending, Accepting, AcceptAsk, ClaimedByOther, Goto
<1>26. ASSUME NEW c \in Clients, RejectAsk(c) PROVE AnsweredLeaves'
  BY <1>26 DEF TypeOK, Targeted, TerminalMutex, Holding, OnInc, OnlyIncRings, AnsweredLeaves,
      InviteOnce, OnTgt, Ending, Accepting, RejectAsk, Goto
<1>27. ASSUME NEW c \in Clients, Disconnect(c) PROVE AnsweredLeaves'
  BY <1>27 DEF TypeOK, Targeted, TerminalMutex, Holding, OnInc, OnlyIncRings, AnsweredLeaves,
      InviteOnce, OnTgt, Ending, Accepting, Disconnect, Goto
<1>28. ASSUME NEW c \in Clients, Replay(c) PROVE AnsweredLeaves'
  BY <1>28 DEF TypeOK, Targeted, TerminalMutex, Holding, OnInc, OnlyIncRings, AnsweredLeaves,
      InviteOnce, OnTgt, Ending, Accepting, Replay, CanBeginIncoming, Goto
<1>29. ASSUME NEW c \in Clients, Offered(c) PROVE AnsweredLeaves'
  BY <1>29 DEF TypeOK, Targeted, TerminalMutex, Holding, OnInc, OnlyIncRings, AnsweredLeaves,
      InviteOnce, OnTgt, Ending, Accepting, Offered, Goto, SetState
<1>30. ASSUME NEW c \in Clients, AcceptCheck(c) PROVE AnsweredLeaves'
  BY <1>30 DEF TypeOK, Targeted, TerminalMutex, Holding, OnInc, OnlyIncRings, AnsweredLeaves,
      InviteOnce, OnTgt, Ending, Accepting, AcceptCheck, Goto
<1>31. ASSUME NEW c \in Clients, AcceptBegin(c) PROVE AnsweredLeaves'
  BY <1>31 DEF TypeOK, Targeted, TerminalMutex, Holding, OnInc, OnlyIncRings, AnsweredLeaves,
      InviteOnce, OnTgt, Ending, Accepting, AcceptBegin, CanBegin, ClaimedByOther, Goto, Return
<1>32. ASSUME NEW c \in Clients, AcceptLost(c) PROVE AnsweredLeaves'
  BY <1>32 DEF TypeOK, Targeted, TerminalMutex, Holding, OnInc, OnlyIncRings, AnsweredLeaves,
      InviteOnce, OnTgt, Ending, Accepting, AcceptLost, Goto, Return
<1>33. ASSUME NEW c \in Clients, AcceptClaim(c) PROVE AnsweredLeaves'
  BY <1>33 DEF TypeOK, Targeted, TerminalMutex, Holding, OnInc, OnlyIncRings, AnsweredLeaves,
      InviteOnce, OnTgt, Ending, Accepting, AcceptClaim, ClearTerminalAction, CanClaim, Goto,
      Return
<1>34. ASSUME NEW c \in Clients, AcceptTransfer(c) PROVE AnsweredLeaves'
  BY <1>34 DEF TypeOK, Targeted, TerminalMutex, Holding, OnInc, OnlyIncRings, AnsweredLeaves,
      InviteOnce, OnTgt, Ending, Accepting, AcceptTransfer, Goto
<1>35. ASSUME NEW c \in Clients, Accept200(c) PROVE AnsweredLeaves'
  BY <1>35 DEF TypeOK, Targeted, TerminalMutex, Holding, OnInc, OnlyIncRings, AnsweredLeaves,
      InviteOnce, OnTgt, Ending, Accepting, Accept200, Goto, Respond
<1>36. ASSUME NEW c \in Clients, AcceptActive(c) PROVE AnsweredLeaves'
  BY <1>36, ActivateEffect DEF TypeOK, Targeted, TerminalMutex, Holding, OnInc, OnlyIncRings,
      AnsweredLeaves, InviteOnce, OnTgt, Ending, Accepting, AcceptActive, Goto
<1>37. ASSUME NEW c \in Clients, AcceptFinish(c) PROVE AnsweredLeaves'
  BY <1>37, DeleteEffect DEF TypeOK, Targeted, TerminalMutex, Holding, OnInc, OnlyIncRings,
      AnsweredLeaves, InviteOnce, OnTgt, Ending, Accepting, AcceptFinish, ClearTerminalAction,
      Goto
<1>38. ASSUME NEW c \in Clients, AcceptFanout(c) PROVE AnsweredLeaves'
  BY <1>38 DEF TypeOK, Targeted, TerminalMutex, Holding, OnInc, OnlyIncRings, AnsweredLeaves,
      InviteOnce, OnTgt, Ending, Accepting, AcceptFanout, Goto, Return
<1>39. ASSUME NEW c \in Clients, RejectBegin(c) PROVE AnsweredLeaves'
  BY <1>39 DEF TypeOK, Targeted, TerminalMutex, Holding, OnInc, OnlyIncRings, AnsweredLeaves,
      InviteOnce, OnTgt, Ending, Accepting, RejectBegin, CanBeginIncoming, Goto
<1>40. ASSUME NEW c \in Clients, RejectSend(c) PROVE AnsweredLeaves'
  BY <1>40, RejectSentEffect DEF TypeOK, Targeted, TerminalMutex, Holding, OnInc, OnlyIncRings,
      AnsweredLeaves, InviteOnce, OnTgt, Ending, Accepting, RejectSend, Goto, RejectFails
<1>41. ASSUME NEW c \in Clients, RejectEnd(c) PROVE AnsweredLeaves'
  BY <1>41 DEF TypeOK, Targeted, TerminalMutex, Holding, OnInc, OnlyIncRings, AnsweredLeaves,
      InviteOnce, OnTgt, Ending, Accepting, RejectEnd, Goto, SetState
<1>42. ASSUME NEW c \in Clients, HangupCheck(c) PROVE AnsweredLeaves'
  BY <1>42 DEF TypeOK, Targeted, TerminalMutex, Holding, OnInc, OnlyIncRings, AnsweredLeaves,
      InviteOnce, OnTgt, Ending, Accepting, HangupCheck, Goto, ActionFor
<1>43. ASSUME NEW c \in Clients, EndBegin(c) PROVE AnsweredLeaves'
  BY <1>43 DEF TypeOK, Targeted, TerminalMutex, Holding, OnInc, OnlyIncRings, AnsweredLeaves,
      InviteOnce, OnTgt, Ending, Accepting, EndBegin, CanBegin, Goto, Return, EndReturn
<1>44. ASSUME NEW c \in Clients, EndSend(c) PROVE AnsweredLeaves'
  BY <1>44, EndEffect, RejectEffect DEF TypeOK, Targeted, TerminalMutex, Holding, OnInc,
      OnlyIncRings, AnsweredLeaves, InviteOnce, OnTgt, Ending, Accepting, EndSend, Goto, SetState
<1>45. ASSUME NEW c \in Clients, EndBye(c) PROVE AnsweredLeaves'
  BY <1>45, EndEffect DEF TypeOK, Targeted, TerminalMutex, Holding, OnInc, OnlyIncRings,
      AnsweredLeaves, InviteOnce, OnTgt, Ending, Accepting, EndBye, Goto
<1>46. ASSUME NEW c \in Clients, EndDelete(c) PROVE AnsweredLeaves'
  BY <1>46, DeleteEffect DEF TypeOK, Targeted, TerminalMutex, Holding, OnInc, OnlyIncRings,
      AnsweredLeaves, InviteOnce, OnTgt, Ending, Accepting, EndDelete, Goto, Return, EndReturn
<1>47. ASSUME NEW c \in Clients, Sweep(c) PROVE AnsweredLeaves'
  BY <1>47 DEF TypeOK, Targeted, TerminalMutex, Holding, OnInc, OnlyIncRings, AnsweredLeaves,
      InviteOnce, OnTgt, Ending, Accepting, Sweep, Goto
<1>48. ASSUME NEW c \in Clients, Swept(c) PROVE AnsweredLeaves'
  BY <1>48 DEF TypeOK, Targeted, TerminalMutex, Holding, OnInc, OnlyIncRings, AnsweredLeaves,
      InviteOnce, OnTgt, Ending, Accepting, Swept, Goto
<1>49. ASSUME NEW c \in Clients, NEW s \in Sids, HangupAsk(c, s) PROVE AnsweredLeaves'
  BY <1>49 DEF TypeOK, Targeted, TerminalMutex, Holding, OnInc, OnlyIncRings, AnsweredLeaves,
      InviteOnce, OnTgt, Ending, Accepting, HangupAsk, ClaimedByOther, Goto
<1>50. ASSUME NEW c \in Clients, NEW s \in Sids, ForceEnd(c, s) PROVE AnsweredLeaves'
  BY <1>50 DEF TypeOK, Targeted, TerminalMutex, Holding, OnInc, OnlyIncRings, AnsweredLeaves,
      InviteOnce, OnTgt, Ending, Accepting, ForceEnd, Goto, ActionFor
<1>51. CASE UNCHANGED vars
  BY <1>51 DEF vars, AnsweredLeaves
<1> QED
  BY <1>1, <1>2, <1>3, <1>4, <1>5, <1>6, <1>7, <1>8, <1>9, <1>10, <1>11, <1>12, <1>13, <1>14,
      <1>15, <1>16, <1>17, <1>18, <1>19, <1>20, <1>21, <1>22, <1>23, <1>24, <1>25, <1>26, <1>27,
      <1>28, <1>29, <1>30, <1>31, <1>32, <1>33, <1>34, <1>35, <1>36, <1>37, <1>38, <1>39, <1>40,
      <1>41, <1>42, <1>43, <1>44, <1>45, <1>46, <1>47, <1>48, <1>49, <1>50, <1>51 DEF Next,
      FarEnd, InviteRuns, TimerRuns, CancelRuns, ClientStarts, ClientRuns

(* Every step keeps the claim of the client that is about to answer. *)
LEMMA ClaimHeldStep ==
  ASSUME TypeOK, ClaimHeld, [Next]_vars
  PROVE  ClaimHeld'
<1> USE NameAssumption DEF Procs, System, Sids, sessVars, apiVars, sipVars, ctlVars, histVars
<1>1. CASE InviteArrives \/ CallerCancels \/ CallerAcks
  BY <1>1 DEF TypeOK, ClaimHeld, Goto, SetState, InviteArrives, CallerCancels, CallerAcks
<1>4. CASE CallerByes \/ Admit \/ Presented
  BY <1>4 DEF TypeOK, ClaimHeld, Goto, CallerByes, Admit, Presented
<1>7. CASE Refuse \/ RefuseBegin \/ RefuseSend
  BY <1>7 DEF TypeOK, ClaimHeld, Goto, CanBegin, Refuse, RefuseBegin, RefuseSend
<1>10. CASE RefuseDelete \/ TimerCheck \/ TimerBegin
  BY <1>10 DEF TypeOK, ClaimHeld, Goto, CanBeginIncoming, RefuseDelete, TimerCheck, TimerBegin
<1>13. CASE TimerFanout \/ TimerSend \/ TimerDelete
  BY <1>13 DEF TypeOK, ClaimHeld, Goto, TimerFanout, TimerSend, TimerDelete
<1>16. CASE CancelCheck \/ CancelBegin \/ Cancel487
  BY <1>16 DEF TypeOK, ClaimHeld, Goto, Return, CanBeginIncoming, Respond, CancelCheck,
      CancelBegin, Cancel487
<1>19. CASE CancelFanout \/ CancelEnd \/ ByeDelete
  BY <1>19 DEF TypeOK, ClaimHeld, Goto, Return, CancelFanout, CancelEnd, ByeDelete
<1>22. ASSUME NEW c \in Clients, Present(c) \/ Connect(c) \/ Offer(c) PROVE ClaimHeld'
  BY <1>22 DEF TypeOK, ClaimHeld, CanBeginIncoming, Goto, CanClaim, Present, Connect, Offer
<1>25. ASSUME NEW c \in Clients, AcceptAsk(c) \/ RejectAsk(c) \/ Disconnect(c) PROVE ClaimHeld'
  BY <1>25 DEF TypeOK, ClaimHeld, ClaimedByOther, Goto, AcceptAsk, RejectAsk, Disconnect
<1>28. ASSUME NEW c \in Clients, Replay(c) \/ Offered(c) \/ AcceptCheck(c) PROVE ClaimHeld'
  BY <1>28 DEF TypeOK, ClaimHeld, CanBeginIncoming, Goto, SetState, Replay, Offered, AcceptCheck
<1>31. ASSUME NEW c \in Clients, AcceptBegin(c) \/ AcceptLost(c) PROVE ClaimHeld'
  BY <1>31 DEF TypeOK, ClaimHeld, CanBegin, ClaimedByOther, Goto, Return, AcceptBegin, AcceptLost
<1>33. ASSUME NEW c \in Clients, AcceptClaim(c) PROVE ClaimHeld'
  BY <1>33 DEF TypeOK, ClaimHeld, AcceptClaim, ClearTerminalAction, CanClaim, Goto, Return
<1>34. ASSUME NEW c \in Clients, AcceptTransfer(c) \/ Accept200(c) \/ AcceptActive(c)
      PROVE  ClaimHeld'
  BY <1>34 DEF TypeOK, ClaimHeld, Goto, Respond, AcceptTransfer, Accept200, AcceptActive
<1>37. ASSUME NEW c \in Clients, AcceptFinish(c) \/ AcceptFanout(c) \/ RejectBegin(c)
      PROVE  ClaimHeld'
  BY <1>37 DEF TypeOK, ClaimHeld, ClearTerminalAction, Goto, Return, CanBeginIncoming,
      AcceptFinish, AcceptFanout, RejectBegin
<1>40. ASSUME NEW c \in Clients, RejectSend(c) \/ RejectEnd(c) \/ HangupCheck(c) PROVE ClaimHeld'
  BY <1>40 DEF TypeOK, ClaimHeld, Goto, RejectFails, SetState, ActionFor, RejectSend, RejectEnd,
      HangupCheck
<1>43. ASSUME NEW c \in Clients, EndBegin(c) \/ EndSend(c) \/ EndBye(c) PROVE ClaimHeld'
  BY <1>43 DEF TypeOK, ClaimHeld, CanBegin, Goto, Return, EndReturn, SetState, EndBegin, EndSend,
      EndBye
<1>46. ASSUME NEW c \in Clients, EndDelete(c) \/ Sweep(c) \/ Swept(c) PROVE ClaimHeld'
  BY <1>46 DEF TypeOK, ClaimHeld, Goto, Return, EndReturn, EndDelete, Sweep, Swept
<1>49. ASSUME NEW c \in Clients, NEW s \in Sids, HangupAsk(c, s) \/ ForceEnd(c, s) PROVE ClaimHeld'
  BY <1>49 DEF TypeOK, ClaimHeld, ClaimedByOther, Goto, ActionFor, HangupAsk, ForceEnd
<1>51. CASE UNCHANGED vars
  BY <1>51 DEF vars, ClaimHeld
<1> QED
  BY <1>1, <1>4, <1>7, <1>10, <1>13, <1>16, <1>19, <1>22, <1>25, <1>28, <1>31, <1>33, <1>34,
      <1>37, <1>40, <1>43, <1>46, <1>49, <1>51 DEF Next, FarEnd, InviteRuns, TimerRuns,
      CancelRuns, ClientStarts, ClientRuns

(* No step takes the INVITE handler back to its start. *)
LEMMA InviteOnceStep ==
  ASSUME TypeOK, InviteOnce, [Next]_vars
  PROVE  InviteOnce'
<1> USE NameAssumption DEF Procs, System, Sids, sessVars, apiVars, sipVars, ctlVars, histVars
<1>1. CASE InviteArrives \/ CallerCancels
  BY <1>1 DEF TypeOK, InviteOnce, Goto, SetState, InviteArrives, CallerCancels
<1>3. CASE CallerAcks
  BY <1>3, ActivateEffect DEF TypeOK, InviteOnce, CallerAcks
<1>4. CASE CallerByes
  BY <1>4, EndEffect DEF TypeOK, InviteOnce, CallerByes, Goto
<1>5. CASE Admit \/ Presented \/ Refuse
  BY <1>5 DEF TypeOK, InviteOnce, Goto, Admit, Presented, Refuse
<1>8. CASE RefuseBegin
  BY <1>8 DEF TypeOK, InviteOnce, RefuseBegin, CanBegin, Goto
<1>9. CASE RefuseSend
  BY <1>9, RejectEffect DEF TypeOK, InviteOnce, RefuseSend, Goto
<1>10. CASE RefuseDelete
  BY <1>10, DeleteEffect DEF TypeOK, InviteOnce, RefuseDelete, Goto
<1>11. CASE TimerCheck \/ TimerBegin \/ TimerFanout
  BY <1>11 DEF TypeOK, InviteOnce, Goto, CanBeginIncoming, TimerCheck, TimerBegin, TimerFanout
<1>14. CASE TimerSend
  BY <1>14, RejectEffect DEF TypeOK, InviteOnce, TimerSend, Goto
<1>15. CASE TimerDelete
  BY <1>15, DeleteEffect DEF TypeOK, InviteOnce, TimerDelete, Goto
<1>16. CASE CancelCheck \/ CancelBegin \/ Cancel487
  BY <1>16 DEF TypeOK, InviteOnce, Goto, Return, CanBeginIncoming, Respond, CancelCheck,
      CancelBegin, Cancel487
<1>19. CASE CancelFanout
  BY <1>19 DEF TypeOK, InviteOnce, CancelFanout, Goto
<1>20. CASE CancelEnd
  BY <1>20, EndEffect DEF TypeOK, InviteOnce, CancelEnd, Goto, Return
<1>21. CASE ByeDelete
  BY <1>21, DeleteEffect DEF TypeOK, InviteOnce, ByeDelete, Goto, Return
<1>22. ASSUME NEW c \in Clients, Present(c) \/ Connect(c) \/ Offer(c) PROVE InviteOnce'
  BY <1>22 DEF TypeOK, InviteOnce, CanBeginIncoming, Goto, CanClaim, Present, Connect, Offer
<1>25. ASSUME NEW c \in Clients, AcceptAsk(c) \/ RejectAsk(c) \/ Disconnect(c) PROVE InviteOnce'
  BY <1>25 DEF TypeOK, InviteOnce, ClaimedByOther, Goto, AcceptAsk, RejectAsk, Disconnect
<1>28. ASSUME NEW c \in Clients, Replay(c) \/ Offered(c) \/ AcceptCheck(c) PROVE InviteOnce'
  BY <1>28 DEF TypeOK, InviteOnce, CanBeginIncoming, Goto, SetState, Replay, Offered, AcceptCheck
<1>31. ASSUME NEW c \in Clients, AcceptBegin(c) \/ AcceptLost(c) PROVE InviteOnce'
  BY <1>31 DEF TypeOK, InviteOnce, CanBegin, ClaimedByOther, Goto, Return, AcceptBegin, AcceptLost
<1>33. ASSUME NEW c \in Clients, AcceptClaim(c) PROVE InviteOnce'
  BY <1>33 DEF TypeOK, InviteOnce, AcceptClaim, ClearTerminalAction, CanClaim, Goto, Return
<1>34. ASSUME NEW c \in Clients, AcceptTransfer(c) \/ Accept200(c) PROVE InviteOnce'
  BY <1>34 DEF TypeOK, InviteOnce, Goto, Respond, AcceptTransfer, Accept200
<1>36. ASSUME NEW c \in Clients, AcceptActive(c) PROVE InviteOnce'
  BY <1>36, ActivateEffect DEF TypeOK, InviteOnce, AcceptActive, Goto
<1>37. ASSUME NEW c \in Clients, AcceptFinish(c) PROVE InviteOnce'
  BY <1>37, DeleteEffect DEF TypeOK, InviteOnce, AcceptFinish, ClearTerminalAction, Goto
<1>38. ASSUME NEW c \in Clients, AcceptFanout(c) \/ RejectBegin(c) PROVE InviteOnce'
  BY <1>38 DEF TypeOK, InviteOnce, Goto, Return, CanBeginIncoming, AcceptFanout, RejectBegin
<1>40. ASSUME NEW c \in Clients, RejectSend(c) PROVE InviteOnce'
  BY <1>40, RejectSentEffect DEF TypeOK, InviteOnce, RejectSend, Goto, RejectFails
<1>41. ASSUME NEW c \in Clients, RejectEnd(c) \/ HangupCheck(c) \/ EndBegin(c) PROVE InviteOnce'
  BY <1>41 DEF TypeOK, InviteOnce, Goto, SetState, ActionFor, CanBegin, Return, EndReturn,
      RejectEnd, HangupCheck, EndBegin
<1>44. ASSUME NEW c \in Clients, EndSend(c) PROVE InviteOnce'
  BY <1>44, EndEffect, RejectEffect DEF TypeOK, InviteOnce, EndSend, Goto, SetState
<1>45. ASSUME NEW c \in Clients, EndBye(c) PROVE InviteOnce'
  BY <1>45, EndEffect DEF TypeOK, InviteOnce, EndBye, Goto
<1>46. ASSUME NEW c \in Clients, EndDelete(c) PROVE InviteOnce'
  BY <1>46, DeleteEffect DEF TypeOK, InviteOnce, EndDelete, Goto, Return, EndReturn
<1>47. ASSUME NEW c \in Clients, Sweep(c) \/ Swept(c) PROVE InviteOnce'
  BY <1>47 DEF TypeOK, InviteOnce, Goto, Sweep, Swept
<1>49. ASSUME NEW c \in Clients, NEW s \in Sids, HangupAsk(c, s) \/ ForceEnd(c, s) PROVE InviteOnce'
  BY <1>49 DEF TypeOK, InviteOnce, ClaimedByOther, Goto, ActionFor, HangupAsk, ForceEnd
<1>51. CASE UNCHANGED vars
  BY <1>51 DEF vars, InviteOnce
<1> QED
  BY <1>1, <1>3, <1>4, <1>5, <1>8, <1>9, <1>10, <1>11, <1>14, <1>15, <1>16, <1>19, <1>20, <1>21,
      <1>22, <1>25, <1>28, <1>31, <1>33, <1>34, <1>36, <1>37, <1>38, <1>40, <1>41, <1>44, <1>45,
      <1>46, <1>47, <1>49, <1>51 DEF Next, FarEnd, InviteRuns, TimerRuns, CancelRuns,
      ClientStarts, ClientRuns

(* No step lets a ring ender and an answer meet. *)
LEMMA RingEndersStep ==
  ASSUME IInv, [Next]_vars
  PROVE  RingEndersNeverKillAnswered'
<1> USE NameAssumption DEF Procs, System, Sids, sessVars, apiVars, sipVars, ctlVars, histVars
<1> USE DEF IInv
<1>1. CASE InviteArrives
  BY <1>1 DEF TypeOK, Targeted, TerminalMutex, Holding, OnInc, OnlyIncRings, AnsweredLeaves,
      InviteOnce, RingEndersNeverKillAnswered, EndsRinging, OnTgt, Ending, Accepting,
      InviteArrives, Goto, SetState
<1>2. CASE CallerCancels
  BY <1>2 DEF TypeOK, Targeted, TerminalMutex, Holding, OnInc, OnlyIncRings, AnsweredLeaves,
      InviteOnce, RingEndersNeverKillAnswered, EndsRinging, OnTgt, Ending, Accepting,
      CallerCancels, Goto
<1>3. CASE CallerAcks
  BY <1>3, ActivateEffect DEF TypeOK, Targeted, TerminalMutex, Holding, OnInc, OnlyIncRings,
      AnsweredLeaves, InviteOnce, RingEndersNeverKillAnswered, EndsRinging, OnTgt, Ending,
      Accepting, CallerAcks
<1>4. CASE CallerByes
  BY <1>4, EndEffect DEF TypeOK, Targeted, TerminalMutex, Holding, OnInc, OnlyIncRings,
      AnsweredLeaves, InviteOnce, RingEndersNeverKillAnswered, EndsRinging, OnTgt, Ending,
      Accepting, CallerByes, Goto
<1>5. CASE Admit
  BY <1>5 DEF TypeOK, Targeted, TerminalMutex, Holding, OnInc, OnlyIncRings, AnsweredLeaves,
      InviteOnce, RingEndersNeverKillAnswered, EndsRinging, OnTgt, Ending, Accepting, Admit, Goto
<1>6. CASE Presented
  BY <1>6 DEF TypeOK, Targeted, TerminalMutex, Holding, OnInc, OnlyIncRings, AnsweredLeaves,
      InviteOnce, RingEndersNeverKillAnswered, EndsRinging, OnTgt, Ending, Accepting, Presented
<1>7. CASE Refuse
  BY <1>7 DEF TypeOK, Targeted, TerminalMutex, Holding, OnInc, OnlyIncRings, AnsweredLeaves,
      InviteOnce, RingEndersNeverKillAnswered, EndsRinging, OnTgt, Ending, Accepting, Refuse,
      Goto
<1>8. CASE RefuseBegin
  BY <1>8 DEF TypeOK, Targeted, TerminalMutex, Holding, OnInc, OnlyIncRings, AnsweredLeaves,
      InviteOnce, RingEndersNeverKillAnswered, EndsRinging, OnTgt, Ending, Accepting,
      RefuseBegin, CanBegin, Goto
<1>9. CASE RefuseSend
  BY <1>9, RejectEffect DEF TypeOK, Targeted, TerminalMutex, Holding, OnInc, OnlyIncRings,
      AnsweredLeaves, InviteOnce, RingEndersNeverKillAnswered, EndsRinging, OnTgt, Ending,
      Accepting, RefuseSend, Goto
<1>10. CASE RefuseDelete
  BY <1>10, DeleteEffect DEF TypeOK, Targeted, TerminalMutex, Holding, OnInc, OnlyIncRings,
      AnsweredLeaves, InviteOnce, RingEndersNeverKillAnswered, EndsRinging, OnTgt, Ending,
      Accepting, RefuseDelete, Goto
<1>11. CASE TimerCheck
  BY <1>11 DEF TypeOK, Targeted, TerminalMutex, Holding, OnInc, OnlyIncRings, AnsweredLeaves,
      InviteOnce, RingEndersNeverKillAnswered, EndsRinging, OnTgt, Ending, Accepting, TimerCheck,
      Goto
<1>12. CASE TimerBegin
  BY <1>12 DEF TypeOK, Targeted, TerminalMutex, Holding, OnInc, OnlyIncRings, AnsweredLeaves,
      InviteOnce, RingEndersNeverKillAnswered, EndsRinging, OnTgt, Ending, Accepting, TimerBegin,
      CanBeginIncoming, Goto
<1>13. CASE TimerFanout
  BY <1>13 DEF TypeOK, Targeted, TerminalMutex, Holding, OnInc, OnlyIncRings, AnsweredLeaves,
      InviteOnce, RingEndersNeverKillAnswered, EndsRinging, OnTgt, Ending, Accepting,
      TimerFanout, Goto
<1>14. CASE TimerSend
  BY <1>14, RejectEffect DEF TypeOK, Targeted, TerminalMutex, Holding, OnInc, OnlyIncRings,
      AnsweredLeaves, InviteOnce, RingEndersNeverKillAnswered, EndsRinging, OnTgt, Ending,
      Accepting, TimerSend, Goto
<1>15. CASE TimerDelete
  BY <1>15, DeleteEffect DEF TypeOK, Targeted, TerminalMutex, Holding, OnInc, OnlyIncRings,
      AnsweredLeaves, InviteOnce, RingEndersNeverKillAnswered, EndsRinging, OnTgt, Ending,
      Accepting, TimerDelete, Goto
<1>16. CASE CancelCheck
  BY <1>16 DEF TypeOK, Targeted, TerminalMutex, Holding, OnInc, OnlyIncRings, AnsweredLeaves,
      InviteOnce, RingEndersNeverKillAnswered, EndsRinging, OnTgt, Ending, Accepting,
      CancelCheck, Goto, Return
<1>17. CASE CancelBegin
  BY <1>17 DEF TypeOK, Targeted, TerminalMutex, Holding, OnInc, OnlyIncRings, AnsweredLeaves,
      InviteOnce, RingEndersNeverKillAnswered, EndsRinging, OnTgt, Ending, Accepting,
      CancelBegin, CanBeginIncoming, Goto, Return
<1>18. CASE Cancel487
  BY <1>18 DEF TypeOK, Targeted, TerminalMutex, Holding, OnInc, OnlyIncRings, AnsweredLeaves,
      InviteOnce, RingEndersNeverKillAnswered, EndsRinging, OnTgt, Ending, Accepting, Cancel487,
      Goto, Respond
<1>19. CASE CancelFanout
  BY <1>19 DEF TypeOK, Targeted, TerminalMutex, Holding, OnInc, OnlyIncRings, AnsweredLeaves,
      InviteOnce, RingEndersNeverKillAnswered, EndsRinging, OnTgt, Ending, Accepting,
      CancelFanout, Goto
<1>20. CASE CancelEnd
  BY <1>20, EndEffect DEF TypeOK, Targeted, TerminalMutex, Holding, OnInc, OnlyIncRings,
      AnsweredLeaves, InviteOnce, RingEndersNeverKillAnswered, EndsRinging, OnTgt, Ending,
      Accepting, CancelEnd, Goto, Return
<1>21. CASE ByeDelete
  BY <1>21, DeleteEffect DEF TypeOK, Targeted, TerminalMutex, Holding, OnInc, OnlyIncRings,
      AnsweredLeaves, InviteOnce, RingEndersNeverKillAnswered, EndsRinging, OnTgt, Ending,
      Accepting, ByeDelete, Goto, Return
<1>22. ASSUME NEW c \in Clients, Present(c) PROVE RingEndersNeverKillAnswered'
  BY <1>22 DEF TypeOK, Targeted, TerminalMutex, Holding, OnInc, OnlyIncRings, AnsweredLeaves,
      InviteOnce, RingEndersNeverKillAnswered, EndsRinging, OnTgt, Ending, Accepting, Present,
      CanBeginIncoming
<1>23. ASSUME NEW c \in Clients, Connect(c) PROVE RingEndersNeverKillAnswered'
  BY <1>23 DEF TypeOK, Targeted, TerminalMutex, Holding, OnInc, OnlyIncRings, AnsweredLeaves,
      InviteOnce, RingEndersNeverKillAnswered, EndsRinging, OnTgt, Ending, Accepting, Connect,
      Goto
<1>24. ASSUME NEW c \in Clients, Offer(c) PROVE RingEndersNeverKillAnswered'
  BY <1>24 DEF TypeOK, Targeted, TerminalMutex, Holding, OnInc, OnlyIncRings, AnsweredLeaves,
      InviteOnce, RingEndersNeverKillAnswered, EndsRinging, OnTgt, Ending, Accepting, Offer,
      CanClaim, Goto
<1>25. ASSUME NEW c \in Clients, AcceptAsk(c) PROVE RingEndersNeverKillAnswered'
  BY <1>25 DEF TypeOK, Targeted, TerminalMutex, Holding, OnInc, OnlyIncRings, AnsweredLeaves,
      InviteOnce, RingEndersNeverKillAnswered, EndsRinging, OnTgt, Ending, Accepting, AcceptAsk,
      ClaimedByOther, Goto
<1>26. ASSUME NEW c \in Clients, RejectAsk(c) PROVE RingEndersNeverKillAnswered'
  BY <1>26 DEF TypeOK, Targeted, TerminalMutex, Holding, OnInc, OnlyIncRings, AnsweredLeaves,
      InviteOnce, RingEndersNeverKillAnswered, EndsRinging, OnTgt, Ending, Accepting, RejectAsk,
      Goto
<1>27. ASSUME NEW c \in Clients, Disconnect(c) PROVE RingEndersNeverKillAnswered'
  BY <1>27 DEF TypeOK, Targeted, TerminalMutex, Holding, OnInc, OnlyIncRings, AnsweredLeaves,
      InviteOnce, RingEndersNeverKillAnswered, EndsRinging, OnTgt, Ending, Accepting, Disconnect,
      Goto
<1>28. ASSUME NEW c \in Clients, Replay(c) PROVE RingEndersNeverKillAnswered'
  BY <1>28 DEF TypeOK, Targeted, TerminalMutex, Holding, OnInc, OnlyIncRings, AnsweredLeaves,
      InviteOnce, RingEndersNeverKillAnswered, EndsRinging, OnTgt, Ending, Accepting, Replay,
      CanBeginIncoming, Goto
<1>29. ASSUME NEW c \in Clients, Offered(c) PROVE RingEndersNeverKillAnswered'
  BY <1>29 DEF TypeOK, Targeted, TerminalMutex, Holding, OnInc, OnlyIncRings, AnsweredLeaves,
      InviteOnce, RingEndersNeverKillAnswered, EndsRinging, OnTgt, Ending, Accepting, Offered,
      Goto, SetState
<1>30. ASSUME NEW c \in Clients, AcceptCheck(c) PROVE RingEndersNeverKillAnswered'
  BY <1>30 DEF TypeOK, Targeted, TerminalMutex, Holding, OnInc, OnlyIncRings, AnsweredLeaves,
      InviteOnce, RingEndersNeverKillAnswered, EndsRinging, OnTgt, Ending, Accepting,
      AcceptCheck, Goto
<1>31. ASSUME NEW c \in Clients, AcceptBegin(c) PROVE RingEndersNeverKillAnswered'
  BY <1>31 DEF TypeOK, Targeted, TerminalMutex, Holding, OnInc, OnlyIncRings, AnsweredLeaves,
      InviteOnce, RingEndersNeverKillAnswered, EndsRinging, OnTgt, Ending, Accepting,
      AcceptBegin, CanBegin, ClaimedByOther, Goto, Return
<1>32. ASSUME NEW c \in Clients, AcceptLost(c) PROVE RingEndersNeverKillAnswered'
  BY <1>32 DEF TypeOK, Targeted, TerminalMutex, Holding, OnInc, OnlyIncRings, AnsweredLeaves,
      InviteOnce, RingEndersNeverKillAnswered, EndsRinging, OnTgt, Ending, Accepting, AcceptLost,
      Goto, Return
<1>33. ASSUME NEW c \in Clients, AcceptClaim(c) PROVE RingEndersNeverKillAnswered'
  BY <1>33 DEF TypeOK, Targeted, TerminalMutex, Holding, OnInc, OnlyIncRings, AnsweredLeaves,
      InviteOnce, RingEndersNeverKillAnswered, EndsRinging, OnTgt, Ending, Accepting,
      AcceptClaim, ClearTerminalAction, CanClaim, Goto, Return
<1>34. ASSUME NEW c \in Clients, AcceptTransfer(c) PROVE RingEndersNeverKillAnswered'
  BY <1>34 DEF TypeOK, Targeted, TerminalMutex, Holding, OnInc, OnlyIncRings, AnsweredLeaves,
      InviteOnce, RingEndersNeverKillAnswered, EndsRinging, OnTgt, Ending, Accepting,
      AcceptTransfer, Goto
<1>35. ASSUME NEW c \in Clients, Accept200(c) PROVE RingEndersNeverKillAnswered'
  <2>1. term[Inc] = c
    BY <1>35 DEF TerminalMutex, Holding, OnInc, Accept200
  <2>2. ASSUME NEW p \in Procs, EndsRinging(p) PROVE Holding(p)
    BY <2>2 DEF EndsRinging, Holding, OnInc, OnTgt, Targeted
  <2>3. ~EndsRinging(c)
    BY <1>35 DEF EndsRinging, Accept200
  <2>4. \A p \in Procs : ~EndsRinging(p)
    BY <2>1, <2>2, <2>3 DEF TerminalMutex
  <2>5. \A p \in Procs : ~EndsRinging(p)'
    BY <1>35, <2>4 DEF EndsRinging, Accept200, Goto, TypeOK
  <2> QED BY <2>5 DEF RingEndersNeverKillAnswered
<1>36. ASSUME NEW c \in Clients, AcceptActive(c) PROVE RingEndersNeverKillAnswered'
  BY <1>36, ActivateEffect DEF TypeOK, Targeted, TerminalMutex, Holding, OnInc, OnlyIncRings,
      AnsweredLeaves, InviteOnce, RingEndersNeverKillAnswered, EndsRinging, OnTgt, Ending,
      Accepting, AcceptActive, Goto
<1>37. ASSUME NEW c \in Clients, AcceptFinish(c) PROVE RingEndersNeverKillAnswered'
  BY <1>37, DeleteEffect DEF TypeOK, Targeted, TerminalMutex, Holding, OnInc, OnlyIncRings,
      AnsweredLeaves, InviteOnce, RingEndersNeverKillAnswered, EndsRinging, OnTgt, Ending,
      Accepting, AcceptFinish, ClearTerminalAction, Goto
<1>38. ASSUME NEW c \in Clients, AcceptFanout(c) PROVE RingEndersNeverKillAnswered'
  BY <1>38 DEF TypeOK, Targeted, TerminalMutex, Holding, OnInc, OnlyIncRings, AnsweredLeaves,
      InviteOnce, RingEndersNeverKillAnswered, EndsRinging, OnTgt, Ending, Accepting,
      AcceptFanout, Goto, Return
<1>39. ASSUME NEW c \in Clients, RejectBegin(c) PROVE RingEndersNeverKillAnswered'
  BY <1>39 DEF TypeOK, Targeted, TerminalMutex, Holding, OnInc, OnlyIncRings, AnsweredLeaves,
      InviteOnce, RingEndersNeverKillAnswered, EndsRinging, OnTgt, Ending, Accepting,
      RejectBegin, CanBeginIncoming, Goto
<1>40. ASSUME NEW c \in Clients, RejectSend(c) PROVE RingEndersNeverKillAnswered'
  BY <1>40, RejectSentEffect DEF TypeOK, Targeted, TerminalMutex, Holding, OnInc, OnlyIncRings,
      AnsweredLeaves, InviteOnce, RingEndersNeverKillAnswered, EndsRinging, OnTgt, Ending,
      Accepting, RejectSend, Goto, RejectFails
<1>41. ASSUME NEW c \in Clients, RejectEnd(c) PROVE RingEndersNeverKillAnswered'
  BY <1>41 DEF TypeOK, Targeted, TerminalMutex, Holding, OnInc, OnlyIncRings, AnsweredLeaves,
      InviteOnce, RingEndersNeverKillAnswered, EndsRinging, OnTgt, Ending, Accepting, RejectEnd,
      Goto, SetState
<1>42. ASSUME NEW c \in Clients, HangupCheck(c) PROVE RingEndersNeverKillAnswered'
  BY <1>42 DEF TypeOK, Targeted, TerminalMutex, Holding, OnInc, OnlyIncRings, AnsweredLeaves,
      InviteOnce, RingEndersNeverKillAnswered, EndsRinging, OnTgt, Ending, Accepting,
      HangupCheck, Goto, ActionFor
<1>43. ASSUME NEW c \in Clients, EndBegin(c) PROVE RingEndersNeverKillAnswered'
  BY <1>43 DEF TypeOK, Targeted, TerminalMutex, Holding, OnInc, OnlyIncRings, AnsweredLeaves,
      InviteOnce, RingEndersNeverKillAnswered, EndsRinging, OnTgt, Ending, Accepting, EndBegin,
      CanBegin, Goto, Return, EndReturn
<1>44. ASSUME NEW c \in Clients, EndSend(c) PROVE RingEndersNeverKillAnswered'
  BY <1>44, EndEffect, RejectEffect DEF TypeOK, Targeted, TerminalMutex, Holding, OnInc,
      OnlyIncRings, AnsweredLeaves, InviteOnce, RingEndersNeverKillAnswered, EndsRinging, OnTgt,
      Ending, Accepting, EndSend, Goto, SetState
<1>45. ASSUME NEW c \in Clients, EndBye(c) PROVE RingEndersNeverKillAnswered'
  BY <1>45, EndEffect DEF TypeOK, Targeted, TerminalMutex, Holding, OnInc, OnlyIncRings,
      AnsweredLeaves, InviteOnce, RingEndersNeverKillAnswered, EndsRinging, OnTgt, Ending,
      Accepting, EndBye, Goto
<1>46. ASSUME NEW c \in Clients, EndDelete(c) PROVE RingEndersNeverKillAnswered'
  BY <1>46, DeleteEffect DEF TypeOK, Targeted, TerminalMutex, Holding, OnInc, OnlyIncRings,
      AnsweredLeaves, InviteOnce, RingEndersNeverKillAnswered, EndsRinging, OnTgt, Ending,
      Accepting, EndDelete, Goto, Return, EndReturn
<1>47. ASSUME NEW c \in Clients, Sweep(c) PROVE RingEndersNeverKillAnswered'
  BY <1>47 DEF TypeOK, Targeted, TerminalMutex, Holding, OnInc, OnlyIncRings, AnsweredLeaves,
      InviteOnce, RingEndersNeverKillAnswered, EndsRinging, OnTgt, Ending, Accepting, Sweep, Goto
<1>48. ASSUME NEW c \in Clients, Swept(c) PROVE RingEndersNeverKillAnswered'
  BY <1>48 DEF TypeOK, Targeted, TerminalMutex, Holding, OnInc, OnlyIncRings, AnsweredLeaves,
      InviteOnce, RingEndersNeverKillAnswered, EndsRinging, OnTgt, Ending, Accepting, Swept, Goto
<1>49. ASSUME NEW c \in Clients, NEW s \in Sids, HangupAsk(c, s) PROVE
    RingEndersNeverKillAnswered'
  BY <1>49 DEF TypeOK, Targeted, TerminalMutex, Holding, OnInc, OnlyIncRings, AnsweredLeaves,
      InviteOnce, RingEndersNeverKillAnswered, EndsRinging, OnTgt, Ending, Accepting, HangupAsk,
      ClaimedByOther, Goto
<1>50. ASSUME NEW c \in Clients, NEW s \in Sids, ForceEnd(c, s) PROVE RingEndersNeverKillAnswered'
  BY <1>50 DEF TypeOK, Targeted, TerminalMutex, Holding, OnInc, OnlyIncRings, AnsweredLeaves,
      InviteOnce, RingEndersNeverKillAnswered, EndsRinging, OnTgt, Ending, Accepting, ForceEnd,
      Goto, ActionFor
<1>51. CASE UNCHANGED vars
  BY <1>51 DEF vars, RingEndersNeverKillAnswered, EndsRinging
<1> QED
  BY <1>1, <1>2, <1>3, <1>4, <1>5, <1>6, <1>7, <1>8, <1>9, <1>10, <1>11, <1>12, <1>13, <1>14,
      <1>15, <1>16, <1>17, <1>18, <1>19, <1>20, <1>21, <1>22, <1>23, <1>24, <1>25, <1>26, <1>27,
      <1>28, <1>29, <1>30, <1>31, <1>32, <1>33, <1>34, <1>35, <1>36, <1>37, <1>38, <1>39, <1>40,
      <1>41, <1>42, <1>43, <1>44, <1>45, <1>46, <1>47, <1>48, <1>49, <1>50, <1>51 DEF Next,
      FarEnd, InviteRuns, TimerRuns, CancelRuns, ClientStarts, ClientRuns

-----------------------------------------------------------------------------
(* Refinement of IncomingOutcome *)

(* Every step of every handler is a step of IncomingOutcome or changes nothing
   there: whoever answers, refuses or gives the guard back was its holder, and
   an answer is the claimant's. *)
LEMMA StepRefines ==
  ASSUME IInv, [Next]_vars
  PROVE  [Outcome!Next]_(Outcome!vars)
<1> DEFINE Refined == Outcome!Next \/ UNCHANGED Outcome!vars
<1> DEFINE Same == UNCHANGED <<tx, term[Inc], claim>>
<1> SUFFICES Refined
  OBVIOUS
<1> USE NameAssumption DEF Procs, System, Sids, sessVars, apiVars, sipVars, ctlVars, histVars,
    IInv
<1>1. CASE InviteArrives
  <2>1. Outcome!Arrive
    BY <1>1 DEF Outcome!Arrive, InviteOnce, InviteArrives
  <2> QED BY <2>1 DEF Outcome!Next, Outcome!vars
<1>2. CASE CallerCancels
  <2>1. Same \/ Outcome!CallerCancel
    BY <1>2 DEF CallerCancels, Outcome!CallerCancel
  <2> QED BY <2>1 DEF Outcome!Next, Outcome!vars
<1>3. CASE CallerAcks
  BY <1>3 DEF CallerAcks, Outcome!vars
<1>4. CASE CallerByes
  BY <1>4 DEF CallerByes, Outcome!vars
<1>5. CASE Admit
  BY <1>5 DEF Admit, Outcome!vars
<1>6. CASE Presented
  BY <1>6 DEF Presented, Outcome!vars
<1>7. CASE Refuse
  BY <1>7 DEF Refuse, Outcome!vars
<1>8. CASE RefuseBegin
  <2>1. Same \/ Outcome!Take(InviteP)
    BY <1>8 DEF TypeOK, RefuseBegin, CanBegin, Outcome!Take
  <2> QED BY <2>1 DEF Outcome!Next, Outcome!vars
<1>9. CASE RefuseSend
  <2>1. Same \/ Outcome!Refuse
    BY <1>9, RejectEffect DEF TerminalMutex, Holding, OnInc, RefuseSend, Outcome!Refuse
  <2> QED BY <2>1 DEF Outcome!Next, Outcome!vars
<1>10. CASE RefuseDelete
  BY <1>10 DEF RefuseDelete, Outcome!vars
<1>11. CASE TimerCheck
  BY <1>11 DEF TimerCheck, Outcome!vars
<1>12. CASE TimerBegin
  <2>1. Same \/ Outcome!Take(TimerP)
    BY <1>12 DEF TypeOK, TimerBegin, CanBeginIncoming, Outcome!Take
  <2> QED BY <2>1 DEF Outcome!Next, Outcome!vars
<1>13. CASE TimerFanout
  BY <1>13 DEF TimerFanout, Outcome!vars
<1>14. CASE TimerSend
  <2>1. Same \/ Outcome!Refuse
    BY <1>14, RejectEffect DEF TerminalMutex, Holding, OnInc, TimerSend, Outcome!Refuse
  <2> QED BY <2>1 DEF Outcome!Next, Outcome!vars
<1>15. CASE TimerDelete
  BY <1>15 DEF TimerDelete, Outcome!vars
<1>16. CASE CancelCheck
  BY <1>16 DEF CancelCheck, Outcome!vars
<1>17. CASE CancelBegin
  <2>1. Same \/ Outcome!Take(CancelP)
    BY <1>17 DEF TypeOK, Targeted, CancelBegin, CanBeginIncoming, Outcome!Take
  <2> QED BY <2>1 DEF Outcome!Next, Outcome!vars
<1>18. CASE Cancel487
  <2>1. Same \/ Outcome!Refuse
    BY <1>18 DEF TerminalMutex, Targeted, Holding, OnTgt, Cancel487, Respond, Outcome!Refuse
  <2> QED BY <2>1 DEF Outcome!Next, Outcome!vars
<1>19. CASE CancelFanout
  BY <1>19 DEF CancelFanout, Outcome!vars
<1>20. CASE CancelEnd
  BY <1>20 DEF CancelEnd, Outcome!vars
<1>21. CASE ByeDelete
  BY <1>21 DEF ByeDelete, Outcome!vars
<1>22. ASSUME NEW c \in Clients, Present(c) PROVE Refined
  BY <1>22 DEF Present, Outcome!vars
<1>23. ASSUME NEW c \in Clients, Connect(c) PROVE Refined
  BY <1>23 DEF Connect, Outcome!vars
<1>24. ASSUME NEW c \in Clients, Offer(c) PROVE Refined
  <2>1. Same \/ Outcome!Claim(c)
    BY <1>24 DEF Offer, CanClaim, Outcome!Claim
  <2> QED BY <2>1 DEF Outcome!Next, Outcome!vars
<1>25. ASSUME NEW c \in Clients, AcceptAsk(c) PROVE Refined
  BY <1>25 DEF AcceptAsk, Outcome!vars
<1>26. ASSUME NEW c \in Clients, RejectAsk(c) PROVE Refined
  BY <1>26 DEF RejectAsk, Outcome!vars
<1>27. ASSUME NEW c \in Clients, Disconnect(c) PROVE Refined
  BY <1>27 DEF Disconnect, Outcome!vars
<1>28. ASSUME NEW c \in Clients, Replay(c) PROVE Refined
  BY <1>28 DEF Replay, Outcome!vars
<1>29. ASSUME NEW c \in Clients, Offered(c) PROVE Refined
  BY <1>29 DEF Offered, Outcome!vars
<1>30. ASSUME NEW c \in Clients, AcceptCheck(c) PROVE Refined
  BY <1>30 DEF AcceptCheck, Outcome!vars
<1>31. ASSUME NEW c \in Clients, AcceptBegin(c) PROVE Refined
  <2>1. Same \/ Outcome!Take(c)
    BY <1>31 DEF TypeOK, AcceptBegin, CanBegin, Outcome!Take
  <2> QED BY <2>1 DEF Outcome!Next, Outcome!vars
<1>32. ASSUME NEW c \in Clients, AcceptLost(c) PROVE Refined
  BY <1>32 DEF AcceptLost, Outcome!vars
<1>33. ASSUME NEW c \in Clients, AcceptClaim(c) PROVE Refined
  <2>1. Outcome!Claim(c) \/ Outcome!Release \/ Same
    BY <1>33 DEF TypeOK, TerminalMutex, Holding, OnInc, AcceptClaim, CanClaim,
        ClearTerminalAction, Outcome!Claim, Outcome!Release
  <2> QED BY <2>1 DEF Outcome!Next, Outcome!vars
<1>34. ASSUME NEW c \in Clients, AcceptTransfer(c) PROVE Refined
  BY <1>34 DEF AcceptTransfer, Outcome!vars
<1>35. ASSUME NEW c \in Clients, Accept200(c) PROVE Refined
  <2>1. Same \/ Outcome!Answer(c) \/ Outcome!Refuse
    BY <1>35 DEF ClaimHeld, TerminalMutex, Holding, OnInc, Accept200, Respond, Outcome!Answer,
        Outcome!Refuse
  <2> QED BY <2>1 DEF Outcome!Next, Outcome!vars
<1>36. ASSUME NEW c \in Clients, AcceptActive(c) PROVE Refined
  BY <1>36 DEF AcceptActive, Outcome!vars
<1>37. ASSUME NEW c \in Clients, AcceptFinish(c) PROVE Refined
  <2>1. Same \/ Outcome!Release
    BY <1>37 DEF TypeOK, Targeted, Accepting, TerminalMutex, Holding, OnInc, AcceptFinish,
        ClearTerminalAction, Outcome!Release
  <2> QED BY <2>1 DEF Outcome!Next, Outcome!vars
<1>38. ASSUME NEW c \in Clients, AcceptFanout(c) PROVE Refined
  BY <1>38 DEF AcceptFanout, Outcome!vars
<1>39. ASSUME NEW c \in Clients, RejectBegin(c) PROVE Refined
  <2>1. Same \/ Outcome!Take(c)
    BY <1>39 DEF TypeOK, RejectBegin, CanBeginIncoming, Outcome!Take
  <2> QED BY <2>1 DEF Outcome!Next, Outcome!vars
<1>40. ASSUME NEW c \in Clients, RejectSend(c) PROVE Refined
  <2>1. Same \/ Outcome!Refuse
    BY <1>40, RejectSentEffect DEF TerminalMutex, Holding, OnInc, RejectSend, RejectFails,
        Outcome!Refuse
  <2> QED BY <2>1 DEF Outcome!Next, Outcome!vars
<1>41. ASSUME NEW c \in Clients, RejectEnd(c) PROVE Refined
  BY <1>41 DEF RejectEnd, Outcome!vars
<1>42. ASSUME NEW c \in Clients, HangupCheck(c) PROVE Refined
  BY <1>42 DEF HangupCheck, Outcome!vars
<1>43. ASSUME NEW c \in Clients, EndBegin(c) PROVE Refined
  <2>1. Same \/ Outcome!Take(c)
    BY <1>43 DEF TypeOK, Targeted, Ending, EndBegin, CanBegin, Outcome!Take
  <2> QED BY <2>1 DEF Outcome!Next, Outcome!vars
<1>44. ASSUME NEW c \in Clients, EndSend(c) PROVE Refined
  <2>1. Same \/ Outcome!Refuse
    BY <1>44, RejectEffect DEF TerminalMutex, Targeted, Holding, OnTgt, EndSend, Outcome!Refuse
  <2> QED BY <2>1 DEF Outcome!Next, Outcome!vars
<1>45. ASSUME NEW c \in Clients, EndBye(c) PROVE Refined
  BY <1>45 DEF EndBye, Outcome!vars
<1>46. ASSUME NEW c \in Clients, EndDelete(c) PROVE Refined
  BY <1>46 DEF EndDelete, Outcome!vars
<1>47. ASSUME NEW c \in Clients, Sweep(c) PROVE Refined
  BY <1>47 DEF Sweep, Outcome!vars
<1>48. ASSUME NEW c \in Clients, Swept(c) PROVE Refined
  BY <1>48 DEF Swept, Outcome!vars
<1>49. ASSUME NEW c \in Clients, NEW s \in Sids, HangupAsk(c, s) PROVE Refined
  BY <1>49 DEF HangupAsk, Outcome!vars
<1>50. ASSUME NEW c \in Clients, NEW s \in Sids, ForceEnd(c, s) PROVE Refined
  BY <1>50 DEF ForceEnd, Outcome!vars
<1>51. CASE UNCHANGED vars
  BY <1>51 DEF vars, Outcome!vars
<1> HIDE DEF Refined, IInv
<1>52. CASE FarEnd \/ ByeDelete
  BY <1>1, <1>2, <1>3, <1>4, <1>21, <1>52 DEF FarEnd
<1>53. CASE InviteRuns
  BY <1>5, <1>6, <1>7, <1>8, <1>9, <1>10, <1>22, <1>53 DEF InviteRuns
<1>54. CASE TimerRuns \/ CancelRuns
  BY <1>11, <1>12, <1>13, <1>14, <1>15, <1>16, <1>17, <1>18, <1>19, <1>20, <1>54 DEF TimerRuns,
      CancelRuns
<1>55. ASSUME NEW c \in Clients, ClientStarts(c) PROVE Refined
  BY <1>23, <1>24, <1>25, <1>26, <1>27, <1>49, <1>55 DEF ClientStarts
<1>56. ASSUME NEW c \in Clients, ClientRuns(c) PROVE Refined
  BY <1>28, <1>29, <1>30, <1>31, <1>32, <1>33, <1>34, <1>35, <1>36, <1>37, <1>38, <1>39, <1>40,
      <1>41, <1>42, <1>43, <1>44, <1>45, <1>46, <1>50, <1>47, <1>48, <1>56 DEF ClientRuns
<1> QED
  BY <1>51, <1>52, <1>53, <1>54, <1>55, <1>56 DEF Next

-----------------------------------------------------------------------------
(* The invariant and the theorems *)

(* Nothing has happened yet: no goroutine works on a session. *)
LEMMA InitInv == Init => IInv
<1> SUFFICES ASSUME Init PROVE IInv
  OBVIOUS
<1> USE NameAssumption, ClientAssumption DEF Procs, System, Sids
<1>1. TypeOK
  <2>1. state \in [Sids -> States] BY DEF Init, States
  <2>2. pc \in [Procs -> Labels] BY DEF Init, Labels
  <2>3. cur \in [Clients -> Sids \cup {None}] /\ bound \in [Sids -> Clients \cup {None}]
    BY DEF Init
  <2>4. owned \in [Clients -> SUBSET Sids] BY DEF Init
  <2>5. ui \in [Clients -> Told] BY DEF Init, Told
  <2>6. back \in [Clients -> {"idle", "own", "sweep"}] /\ tgt \in [Procs -> Sids \cup {None}]
    BY DEF Init
  <2>7. /\ act \in [Procs -> {"none", "reject", "bye", "cancel", "end", "matched", "unmatched"}]
        /\ todo \in [Procs -> SUBSET Sids]
    BY DEF Init
  <2>8. mgr \subseteq Sids /\ conn \subseteq Clients /\ term \in [Sids -> Procs \cup {None}]
    BY DEF Init
  <2>9. /\ claim \in Clients \cup {None} /\ invite \subseteq Sids /\ callID \subseteq Sids
        /\ dialog \subseteq Sids /\ pending \subseteq Clients /\ answeredBy \subseteq Clients
    BY DEF Init
  <2>10. /\ tx \in {"none", "pending", "answered", "rejected", "cancelled"}
         /\ caller \in {"none", "calling", "cancelled", "confirmed", "gone"}
         /\ finals \in 0..2
    BY DEF Init
  <2>11. late \in BOOLEAN
    BY Zenon DEF Init
  <2> QED BY <2>1, <2>2, <2>3, <2>4, <2>5, <2>6, <2>7, <2>8, <2>9, <2>10, <2>11, Zenon DEF TypeOK
<1>2. \A p \in Procs : pc[p] \in {"off", "idle"} /\ act[p] = "none"
  BY DEF Init
<1>3. TerminalMutex BY <1>2 DEF TerminalMutex, Holding, OnInc, OnTgt
<1>4. Targeted BY <1>2 DEF Targeted, Accepting, Ending, OnTgt
<1>5. OnlyIncRings BY DEF Init, OnlyIncRings
<1>6. AnsweredLeaves /\ InviteOnce BY DEF Init, AnsweredLeaves, InviteOnce
<1>7. ClaimHeld BY <1>2 DEF ClaimHeld
<1>8. RingEndersNeverKillAnswered BY DEF Init, RingEndersNeverKillAnswered
<1> QED BY <1>1, <1>3, <1>4, <1>5, <1>6, <1>7, <1>8 DEF IInv

(* No handler breaks the invariant, whatever the others are doing. *)
LEMMA StepInv == IInv /\ [Next]_vars => IInv'
<1> SUFFICES ASSUME IInv, [Next]_vars PROVE IInv'
  OBVIOUS
<1>1. /\ TypeOK /\ TerminalMutex /\ Targeted /\ OnlyIncRings /\ AnsweredLeaves
      /\ ClaimHeld /\ InviteOnce /\ RingEndersNeverKillAnswered
  BY DEF IInv
<1>2. TypeOK' BY <1>1, TypeStep
<1>3. TerminalMutex' BY <1>1, MutexStep
<1>4. Targeted' BY <1>1, TargetedStep
<1>5. OnlyIncRings' BY <1>1, OnlyIncRingsStep
<1>6. AnsweredLeaves' BY <1>1, AnsweredLeavesStep
<1>7. ClaimHeld' BY <1>1, ClaimHeldStep
<1>8. InviteOnce' BY <1>1, InviteOnceStep
<1>9. RingEndersNeverKillAnswered' BY RingEndersStep
<1> QED BY <1>2, <1>3, <1>4, <1>5, <1>6, <1>7, <1>8, <1>9 DEF IInv

(* The invariant holds in every behaviour of the gateway. *)
THEOREM Invariance == Spec => []IInv
BY InitInv, StepInv, PTL DEF Spec

(* Type correctness of the sessions, the server and the goroutines. *)
THEOREM TypeCorrect == Spec => []TypeOK
<1>1. IInv => TypeOK BY DEF IInv
<1> QED BY <1>1, Invariance, PTL

(* However many clients accept, reject, hang up and disconnect while the timer,
   a CANCEL and a refusal run, only one of them at a time decides the call. *)
THEOREM MutexHolds == Spec => []TerminalMutex
<1>1. IInv => TerminalMutex BY DEF IInv
<1> QED BY <1>1, Invariance, PTL

(* A timeout, a reject or a CANCEL never works on a call an accept answered. *)
THEOREM AnsweredIsSafe == Spec => []RingEndersNeverKillAnswered
<1>1. IInv => RingEndersNeverKillAnswered BY DEF IInv
<1> QED BY <1>1, Invariance, PTL

(* The handlers implement IncomingOutcome: one outcome, given by the holder of
   the guard or by the caller, and a claim that is never taken back. *)
THEOREM Implements == Spec => OutcomeSpec
<1>1. Init => Outcome!Init
  BY DEF Init, Outcome!Init, Sids
<1>2. IInv /\ [Next]_vars => [Outcome!Next]_(Outcome!vars)
  BY StepRefines
<1> QED BY <1>1, <1>2, Invariance, PTL DEF Spec, OutcomeSpec, Outcome!Spec
-----------------------------------------------------------------------------
(* Why ringing stops *)

(* Telling a client that the call is active or over, or telling others, makes no
   client ring. *)
LEMMA TellQuiet ==
  ASSUME TypeOK, NEW S, NEW what \in Told \ {"ringing"}, Tell(S, what)
  PROVE  /\ \A c \in Clients : ui'[c] = "ringing" => ui[c] = "ringing"
         /\ \A c \in S \cap conn : ui'[c] # "ringing"
BY DEF TypeOK, Tell

(* Neither does a notification about an ended or an active session. *)
LEMMA EndQuiet ==
  ASSUME TypeOK, NEW s, EndAndNotify(s)
  PROVE  \A c \in Clients : ui'[c] = "ringing" => ui[c] = "ringing"
BY TellQuiet DEF EndAndNotify, TellOf, Told

(* An activation tells "active". *)
LEMMA ActivateQuiet ==
  ASSUME TypeOK, NEW s, ActivateAndNotify(s)
  PROVE  \A c \in Clients : ui'[c] = "ringing" => ui[c] = "ringing"
BY TellQuiet DEF ActivateAndNotify, Told

(* A refusal tells that the call is over. *)
LEMMA RejectQuiet ==
  ASSUME TypeOK, NEW s, RejectCall(s)
  PROVE  \A c \in Clients : ui'[c] = "ringing" => ui[c] = "ringing"
BY EndQuiet DEF RejectCall, RejectFails, RejectSent

(* A loser is told what the session's state is. *)
LEMMA TellStateQuiet ==
  ASSUME TypeOK, NEW c0, TellState(c0)
  PROVE  \A c \in Clients : ui'[c] = "ringing" => ui[c] = "ringing"
BY TellQuiet DEF TellState, Told

(* Only presenting the call to a client makes that client ring. *)
LEMMA UiQuiet ==
  ASSUME TypeOK, [Next]_vars
  PROVE  \A d \in Clients : ui'[d] = "ringing" => ui[d] = "ringing" \/ Present(d) \/ Replay(d)
<1> USE NameAssumption DEF Procs, System, Sids, sessVars, apiVars, sipVars, ctlVars, histVars
<1>1. CASE InviteArrives \/ CallerCancels
  BY <1>1 DEF TypeOK, Goto, SetState, InviteArrives, CallerCancels
<1>3. CASE CallerAcks
  BY <1>3, ActivateQuiet DEF TypeOK, CallerAcks
<1>4. CASE CallerByes
  BY <1>4, EndQuiet DEF TypeOK, CallerByes, Goto
<1>5. CASE Admit \/ Presented \/ Refuse
  BY <1>5 DEF TypeOK, Goto, Admit, Presented, Refuse
<1>8. CASE RefuseBegin
  BY <1>8 DEF TypeOK, RefuseBegin, CanBegin, Goto
<1>9. CASE RefuseSend
  BY <1>9, RejectQuiet DEF TypeOK, RefuseSend, Goto
<1>10. CASE RefuseDelete \/ TimerCheck \/ TimerBegin
  BY <1>10 DEF TypeOK, Goto, CanBeginIncoming, RefuseDelete, TimerCheck, TimerBegin
<1>13. CASE TimerFanout
  BY <1>13, TellQuiet DEF TypeOK, TimerFanout, Goto, Fanout, Told
<1>14. CASE TimerSend
  BY <1>14, RejectQuiet DEF TypeOK, TimerSend, Goto
<1>15. CASE TimerDelete \/ CancelCheck \/ CancelBegin
  BY <1>15 DEF TypeOK, Goto, Return, CanBeginIncoming, TimerDelete, CancelCheck, CancelBegin
<1>18. CASE Cancel487
  BY <1>18 DEF TypeOK, Cancel487, Goto, Respond
<1>19. CASE CancelFanout
  BY <1>19, TellQuiet DEF TypeOK, CancelFanout, Goto, Fanout, Told
<1>20. CASE CancelEnd
  BY <1>20, EndQuiet DEF TypeOK, CancelEnd, Goto, Return
<1>21. CASE ByeDelete
  BY <1>21 DEF TypeOK, ByeDelete, Goto, Return
<1>22. ASSUME NEW c \in Clients, Present(c)
      PROVE  \A d \in Clients : ui'[d] = "ringing" => ui[d] = "ringing" \/ Present(d) \/ Replay(d)
  BY <1>22 DEF TypeOK, Present, CanBeginIncoming, Tell
<1>23. ASSUME NEW c \in Clients, Connect(c)
      PROVE  \A d \in Clients : ui'[d] = "ringing" => ui[d] = "ringing" \/ Present(d) \/ Replay(d)
  BY <1>23 DEF TypeOK, Connect, Goto
<1>24. ASSUME NEW c \in Clients, Offer(c)
      PROVE  \A d \in Clients : ui'[d] = "ringing" => ui[d] = "ringing" \/ Present(d) \/ Replay(d)
  BY <1>24, TellQuiet DEF TypeOK, Offer, CanClaim, Goto, Told
<1>25. ASSUME NEW c \in Clients, AcceptAsk(c)
      PROVE  \A d \in Clients : ui'[d] = "ringing" => ui[d] = "ringing" \/ Present(d) \/ Replay(d)
  BY <1>25, TellQuiet DEF TypeOK, AcceptAsk, ClaimedByOther, Goto, Told
<1>26. ASSUME NEW c \in Clients, RejectAsk(c)
      PROVE  \A d \in Clients : ui'[d] = "ringing" => ui[d] = "ringing" \/ Present(d) \/ Replay(d)
  BY <1>26, TellStateQuiet DEF TypeOK, RejectAsk, Goto
<1>27. ASSUME NEW c \in Clients, Disconnect(c)
      PROVE  \A d \in Clients : ui'[d] = "ringing" => ui[d] = "ringing" \/ Present(d) \/ Replay(d)
  BY <1>27 DEF TypeOK, Disconnect, Goto
<1>28. ASSUME NEW c \in Clients, Replay(c)
      PROVE  \A d \in Clients : ui'[d] = "ringing" => ui[d] = "ringing" \/ Present(d) \/ Replay(d)
  BY <1>28 DEF TypeOK, Replay, CanBeginIncoming, Goto, Tell
<1>29. ASSUME NEW c \in Clients, Offered(c)
      PROVE  \A d \in Clients : ui'[d] = "ringing" => ui[d] = "ringing" \/ Present(d) \/ Replay(d)
  BY <1>29 DEF TypeOK, Offered, Goto, SetState
<1>30. ASSUME NEW c \in Clients, AcceptCheck(c)
      PROVE  \A d \in Clients : ui'[d] = "ringing" => ui[d] = "ringing" \/ Present(d) \/ Replay(d)
  BY <1>30, TellStateQuiet DEF TypeOK, AcceptCheck, Goto
<1>31. ASSUME NEW c \in Clients, AcceptBegin(c)
      PROVE  \A d \in Clients : ui'[d] = "ringing" => ui[d] = "ringing" \/ Present(d) \/ Replay(d)
  BY <1>31, TellQuiet DEF TypeOK, AcceptBegin, CanBegin, ClaimedByOther, Goto, Return, Told
<1>32. ASSUME NEW c \in Clients, AcceptLost(c)
      PROVE  \A d \in Clients : ui'[d] = "ringing" => ui[d] = "ringing" \/ Present(d) \/ Replay(d)
  BY <1>32, TellStateQuiet DEF TypeOK, AcceptLost, Goto, Return
<1>33. ASSUME NEW c \in Clients, AcceptClaim(c)
      PROVE  \A d \in Clients : ui'[d] = "ringing" => ui[d] = "ringing" \/ Present(d) \/ Replay(d)
  BY <1>33, TellQuiet DEF TypeOK, AcceptClaim, ClearTerminalAction, CanClaim, Goto, Return, Told
<1>34. ASSUME NEW c \in Clients, AcceptTransfer(c)
      PROVE  \A d \in Clients : ui'[d] = "ringing" => ui[d] = "ringing" \/ Present(d) \/ Replay(d)
  BY <1>34 DEF TypeOK, AcceptTransfer, Goto
<1>35. ASSUME NEW c \in Clients, Accept200(c)
      PROVE  \A d \in Clients : ui'[d] = "ringing" => ui[d] = "ringing" \/ Present(d) \/ Replay(d)
  BY <1>35 DEF TypeOK, Accept200, Goto, Respond
<1>36. ASSUME NEW c \in Clients, AcceptActive(c)
      PROVE  \A d \in Clients : ui'[d] = "ringing" => ui[d] = "ringing" \/ Present(d) \/ Replay(d)
  BY <1>36, ActivateQuiet DEF TypeOK, AcceptActive, Goto
<1>37. ASSUME NEW c \in Clients, AcceptFinish(c)
      PROVE  \A d \in Clients : ui'[d] = "ringing" => ui[d] = "ringing" \/ Present(d) \/ Replay(d)
  BY <1>37, TellQuiet DEF TypeOK, AcceptFinish, ClearTerminalAction, Goto, Told
<1>38. ASSUME NEW c \in Clients, AcceptFanout(c)
      PROVE  \A d \in Clients : ui'[d] = "ringing" => ui[d] = "ringing" \/ Present(d) \/ Replay(d)
  BY <1>38, TellQuiet DEF TypeOK, AcceptFanout, Goto, Return, Fanout, Told
<1>39. ASSUME NEW c \in Clients, RejectBegin(c)
      PROVE  \A d \in Clients : ui'[d] = "ringing" => ui[d] = "ringing" \/ Present(d) \/ Replay(d)
  BY <1>39, TellQuiet DEF TypeOK, RejectBegin, CanBeginIncoming, Goto, Told
<1>40. ASSUME NEW c \in Clients, RejectSend(c)
      PROVE  \A d \in Clients : ui'[d] = "ringing" => ui[d] = "ringing" \/ Present(d) \/ Replay(d)
  BY <1>40, RejectQuiet DEF TypeOK, RejectSend, Goto, RejectFails, RejectCall
<1>41. ASSUME NEW c \in Clients, RejectEnd(c)
      PROVE  \A d \in Clients : ui'[d] = "ringing" => ui[d] = "ringing" \/ Present(d) \/ Replay(d)
  BY <1>41, TellQuiet DEF TypeOK, RejectEnd, Goto, SetState, Told
<1>42. ASSUME NEW c \in Clients, HangupCheck(c)
      PROVE  \A d \in Clients : ui'[d] = "ringing" => ui[d] = "ringing" \/ Present(d) \/ Replay(d)
  BY <1>42 DEF TypeOK, HangupCheck, Goto, ActionFor
<1>43. ASSUME NEW c \in Clients, EndBegin(c)
      PROVE  \A d \in Clients : ui'[d] = "ringing" => ui[d] = "ringing" \/ Present(d) \/ Replay(d)
  BY <1>43 DEF TypeOK, EndBegin, CanBegin, Goto, Return, EndReturn
<1>44. ASSUME NEW c \in Clients, EndSend(c)
      PROVE  \A d \in Clients : ui'[d] = "ringing" => ui[d] = "ringing" \/ Present(d) \/ Replay(d)
  BY <1>44, RejectQuiet, EndQuiet DEF TypeOK, EndSend, Goto, SetState
<1>45. ASSUME NEW c \in Clients, EndBye(c)
      PROVE  \A d \in Clients : ui'[d] = "ringing" => ui[d] = "ringing" \/ Present(d) \/ Replay(d)
  BY <1>45, EndQuiet DEF TypeOK, EndBye, Goto
<1>46. ASSUME NEW c \in Clients, EndDelete(c)
      PROVE  \A d \in Clients : ui'[d] = "ringing" => ui[d] = "ringing" \/ Present(d) \/ Replay(d)
  BY <1>46 DEF TypeOK, EndDelete, Goto, Return, EndReturn
<1>47. ASSUME NEW c \in Clients, Sweep(c)
      PROVE  \A d \in Clients : ui'[d] = "ringing" => ui[d] = "ringing" \/ Present(d) \/ Replay(d)
  BY <1>47 DEF TypeOK, Sweep, Goto
<1>48. ASSUME NEW c \in Clients, Swept(c)
      PROVE  \A d \in Clients : ui'[d] = "ringing" => ui[d] = "ringing" \/ Present(d) \/ Replay(d)
  BY <1>48 DEF TypeOK, Swept, Goto
<1>49. ASSUME NEW c \in Clients, NEW s \in Sids, HangupAsk(c, s)
      PROVE  \A d \in Clients : ui'[d] = "ringing" => ui[d] = "ringing" \/ Present(d) \/ Replay(d)
  BY <1>49, TellQuiet DEF TypeOK, HangupAsk, ClaimedByOther, Goto, TellOf, Told
<1>50. ASSUME NEW c \in Clients, NEW s \in Sids, ForceEnd(c, s)
      PROVE  \A d \in Clients : ui'[d] = "ringing" => ui[d] = "ringing" \/ Present(d) \/ Replay(d)
  BY <1>50 DEF TypeOK, ForceEnd, Goto, ActionFor
<1>51. CASE UNCHANGED vars
  BY <1>51 DEF vars, TypeOK
<1> QED
  BY <1>1, <1>3, <1>4, <1>5, <1>8, <1>9, <1>10, <1>13, <1>14, <1>15, <1>18, <1>19, <1>20, <1>21,
      <1>22, <1>23, <1>24, <1>25, <1>26, <1>27, <1>28, <1>29, <1>30, <1>31, <1>32, <1>33, <1>34,
      <1>35, <1>36, <1>37, <1>38, <1>39, <1>40, <1>41, <1>42, <1>43, <1>44, <1>45, <1>46, <1>47,
      <1>48, <1>49, <1>50, <1>51 DEF Next, FarEnd, InviteRuns, TimerRuns, CancelRuns,
      ClientStarts, ClientRuns

(* The client whose accept goes through keeps the claim. *)
LEMMA ClaimKeptStep ==
  ASSUME TypeOK, ClaimHeld, ClaimKept, [Next]_vars
  PROVE  ClaimKept'
<1> USE NameAssumption DEF Procs, System, Sids, sessVars, apiVars, sipVars, ctlVars, histVars
<1>1. CASE InviteArrives \/ CallerCancels \/ CallerAcks
  BY <1>1 DEF TypeOK, ClaimHeld, ClaimKept, Goto, SetState, InviteArrives, CallerCancels,
      CallerAcks
<1>4. CASE CallerByes \/ Admit \/ Presented
  BY <1>4 DEF TypeOK, ClaimHeld, ClaimKept, Goto, CallerByes, Admit, Presented
<1>7. CASE Refuse \/ RefuseBegin \/ RefuseSend
  BY <1>7 DEF TypeOK, ClaimHeld, ClaimKept, Goto, CanBegin, Refuse, RefuseBegin, RefuseSend
<1>10. CASE RefuseDelete \/ TimerCheck \/ TimerBegin
  BY <1>10 DEF TypeOK, ClaimHeld, ClaimKept, Goto, CanBeginIncoming, RefuseDelete, TimerCheck,
      TimerBegin
<1>13. CASE TimerFanout \/ TimerSend \/ TimerDelete
  BY <1>13 DEF TypeOK, ClaimHeld, ClaimKept, Goto, TimerFanout, TimerSend, TimerDelete
<1>16. CASE CancelCheck
  BY <1>16 DEF TypeOK, ClaimHeld, ClaimKept, CancelCheck, Goto, Return
<1>17. CASE CancelBegin
  BY <1>17 DEF TypeOK, ClaimHeld, ClaimKept, CancelBegin, CanBeginIncoming, Goto, Return
<1>18. CASE Cancel487 \/ CancelFanout \/ CancelEnd
  BY <1>18 DEF TypeOK, ClaimHeld, ClaimKept, Goto, Respond, Return, Cancel487, CancelFanout,
      CancelEnd
<1>21. CASE ByeDelete
  BY <1>21 DEF TypeOK, ClaimHeld, ClaimKept, ByeDelete, Goto, Return
<1>22. ASSUME NEW c \in Clients, Present(c) \/ Connect(c) \/ Offer(c) PROVE ClaimKept'
  BY <1>22 DEF TypeOK, ClaimHeld, ClaimKept, CanBeginIncoming, Goto, CanClaim, Present, Connect,
      Offer
<1>25. ASSUME NEW c \in Clients, AcceptAsk(c) \/ RejectAsk(c) \/ Disconnect(c) PROVE ClaimKept'
  BY <1>25 DEF TypeOK, ClaimHeld, ClaimKept, ClaimedByOther, Goto, AcceptAsk, RejectAsk,
      Disconnect
<1>28. ASSUME NEW c \in Clients, Replay(c) \/ Offered(c) \/ AcceptCheck(c) PROVE ClaimKept'
  BY <1>28 DEF TypeOK, ClaimHeld, ClaimKept, CanBeginIncoming, Goto, SetState, Replay, Offered,
      AcceptCheck
<1>31. ASSUME NEW c \in Clients, AcceptBegin(c) PROVE ClaimKept'
  BY <1>31 DEF TypeOK, ClaimHeld, ClaimKept, AcceptBegin, CanBegin, ClaimedByOther, Goto, Return
<1>32. ASSUME NEW c \in Clients, AcceptLost(c) PROVE ClaimKept'
  BY <1>32 DEF TypeOK, ClaimHeld, ClaimKept, AcceptLost, Goto, Return
<1>33. ASSUME NEW c \in Clients, AcceptClaim(c) PROVE ClaimKept'
  BY <1>33 DEF TypeOK, ClaimHeld, ClaimKept, AcceptClaim, ClearTerminalAction, CanClaim, Goto,
      Return
<1>34. ASSUME NEW c \in Clients, AcceptTransfer(c) \/ Accept200(c) \/ AcceptActive(c)
      PROVE  ClaimKept'
  BY <1>34 DEF TypeOK, ClaimHeld, ClaimKept, Goto, Respond, AcceptTransfer, Accept200,
      AcceptActive
<1>37. ASSUME NEW c \in Clients, AcceptFinish(c) \/ AcceptFanout(c) \/ RejectBegin(c)
      PROVE  ClaimKept'
  BY <1>37 DEF TypeOK, ClaimHeld, ClaimKept, ClearTerminalAction, Goto, Return, CanBeginIncoming,
      AcceptFinish, AcceptFanout, RejectBegin
<1>40. ASSUME NEW c \in Clients, RejectSend(c) \/ RejectEnd(c) \/ HangupCheck(c) PROVE ClaimKept'
  BY <1>40 DEF TypeOK, ClaimHeld, ClaimKept, Goto, RejectFails, SetState, ActionFor, RejectSend,
      RejectEnd, HangupCheck
<1>43. ASSUME NEW c \in Clients, EndBegin(c) PROVE ClaimKept'
  BY <1>43 DEF TypeOK, ClaimHeld, ClaimKept, EndBegin, CanBegin, Goto, Return, EndReturn
<1>44. ASSUME NEW c \in Clients, EndSend(c) \/ EndBye(c) \/ EndDelete(c) PROVE ClaimKept'
  BY <1>44 DEF TypeOK, ClaimHeld, ClaimKept, Goto, SetState, Return, EndReturn, EndSend, EndBye,
      EndDelete
<1>47. ASSUME NEW c \in Clients, Sweep(c) \/ Swept(c) PROVE ClaimKept'
  BY <1>47 DEF TypeOK, ClaimHeld, ClaimKept, Goto, Sweep, Swept
<1>49. ASSUME NEW c \in Clients, NEW s \in Sids, HangupAsk(c, s) \/ ForceEnd(c, s) PROVE ClaimKept'
  BY <1>49 DEF TypeOK, ClaimHeld, ClaimKept, ClaimedByOther, Goto, ActionFor, HangupAsk, ForceEnd
<1>51. CASE UNCHANGED vars
  BY <1>51 DEF vars, TypeOK, ClaimHeld, ClaimKept
<1> QED
  BY <1>1, <1>4, <1>7, <1>10, <1>13, <1>16, <1>17, <1>18, <1>21, <1>22, <1>25, <1>28, <1>31,
      <1>32, <1>33, <1>34, <1>37, <1>40, <1>43, <1>44, <1>47, <1>49, <1>51 DEF Next, FarEnd,
      InviteRuns, TimerRuns, CancelRuns, ClientStarts, ClientRuns

(* A transaction that was answered stays so. *)
LEMMA AnsweredTxStep ==
  ASSUME TypeOK, InviteOnce, AnsweredTx, [Next]_vars
  PROVE  AnsweredTx'
<1> USE NameAssumption DEF Procs, System, Sids, sessVars, apiVars, sipVars, ctlVars, histVars
<1>1. CASE InviteArrives \/ CallerCancels \/ CallerAcks
  BY <1>1 DEF TypeOK, AnsweredTx, Goto, SetState, InviteOnce, InviteArrives, CallerCancels,
      CallerAcks
<1>4. CASE CallerByes \/ Admit \/ Presented
  BY <1>4 DEF TypeOK, AnsweredTx, Goto, CallerByes, Admit, Presented
<1>7. CASE Refuse \/ RefuseBegin
  BY <1>7 DEF TypeOK, AnsweredTx, Goto, CanBegin, Refuse, RefuseBegin
<1>9. CASE RefuseSend
  BY <1>9, RejectEffect DEF TypeOK, AnsweredTx, RefuseSend, Goto
<1>10. CASE RefuseDelete \/ TimerCheck \/ TimerBegin
  BY <1>10 DEF TypeOK, AnsweredTx, Goto, CanBeginIncoming, RefuseDelete, TimerCheck, TimerBegin
<1>13. CASE TimerFanout
  BY <1>13 DEF TypeOK, AnsweredTx, TimerFanout, Goto
<1>14. CASE TimerSend
  BY <1>14, RejectEffect DEF TypeOK, AnsweredTx, TimerSend, Goto
<1>15. CASE TimerDelete \/ CancelCheck \/ CancelBegin
  BY <1>15 DEF TypeOK, AnsweredTx, Goto, Return, CanBeginIncoming, TimerDelete, CancelCheck,
      CancelBegin
<1>18. CASE Cancel487 \/ CancelFanout \/ CancelEnd
  BY <1>18 DEF TypeOK, AnsweredTx, Goto, Respond, Return, Cancel487, CancelFanout, CancelEnd
<1>21. CASE ByeDelete
  BY <1>21 DEF TypeOK, AnsweredTx, ByeDelete, Goto, Return
<1>22. ASSUME NEW c \in Clients, Present(c) \/ Connect(c) \/ Offer(c) PROVE AnsweredTx'
  BY <1>22 DEF TypeOK, AnsweredTx, CanBeginIncoming, Goto, CanClaim, Present, Connect, Offer
<1>25. ASSUME NEW c \in Clients, AcceptAsk(c) \/ RejectAsk(c) \/ Disconnect(c) PROVE AnsweredTx'
  BY <1>25 DEF TypeOK, AnsweredTx, ClaimedByOther, Goto, AcceptAsk, RejectAsk, Disconnect
<1>28. ASSUME NEW c \in Clients, Replay(c) \/ Offered(c) \/ AcceptCheck(c) PROVE AnsweredTx'
  BY <1>28 DEF TypeOK, AnsweredTx, CanBeginIncoming, Goto, SetState, Replay, Offered, AcceptCheck
<1>31. ASSUME NEW c \in Clients, AcceptBegin(c) \/ AcceptLost(c) PROVE AnsweredTx'
  BY <1>31 DEF TypeOK, AnsweredTx, CanBegin, ClaimedByOther, Goto, Return, AcceptBegin, AcceptLost
<1>33. ASSUME NEW c \in Clients, AcceptClaim(c) PROVE AnsweredTx'
  BY <1>33 DEF TypeOK, AnsweredTx, AcceptClaim, ClearTerminalAction, CanClaim, Goto, Return
<1>34. ASSUME NEW c \in Clients, AcceptTransfer(c) \/ Accept200(c) \/ AcceptActive(c)
      PROVE  AnsweredTx'
  BY <1>34 DEF TypeOK, AnsweredTx, Goto, Respond, AcceptTransfer, Accept200, AcceptActive
<1>37. ASSUME NEW c \in Clients, AcceptFinish(c) \/ AcceptFanout(c) \/ RejectBegin(c)
      PROVE  AnsweredTx'
  BY <1>37 DEF TypeOK, AnsweredTx, ClearTerminalAction, Goto, Return, CanBeginIncoming,
      AcceptFinish, AcceptFanout, RejectBegin
<1>40. ASSUME NEW c \in Clients, RejectSend(c) PROVE AnsweredTx'
  BY <1>40, RejectEffect DEF TypeOK, AnsweredTx, RejectSend, RejectCall
<1>41. ASSUME NEW c \in Clients, RejectEnd(c) \/ HangupCheck(c) \/ EndBegin(c) PROVE AnsweredTx'
  BY <1>41 DEF TypeOK, AnsweredTx, Goto, SetState, ActionFor, CanBegin, Return, EndReturn,
      RejectEnd, HangupCheck, EndBegin
<1>44. ASSUME NEW c \in Clients, EndSend(c) PROVE AnsweredTx'
  BY <1>44, RejectEffect DEF TypeOK, AnsweredTx, EndSend, Goto, SetState
<1>45. ASSUME NEW c \in Clients, EndBye(c) \/ EndDelete(c) \/ Sweep(c) PROVE AnsweredTx'
  BY <1>45 DEF TypeOK, AnsweredTx, Goto, Return, EndReturn, EndBye, EndDelete, Sweep
<1>48. ASSUME NEW c \in Clients, Swept(c) PROVE AnsweredTx'
  BY <1>48 DEF TypeOK, AnsweredTx, Swept, Goto
<1>49. ASSUME NEW c \in Clients, NEW s \in Sids, HangupAsk(c, s) \/ ForceEnd(c, s) PROVE AnsweredTx'
  BY <1>49 DEF TypeOK, AnsweredTx, ClaimedByOther, Goto, ActionFor, HangupAsk, ForceEnd
<1>51. CASE UNCHANGED vars
  BY <1>51 DEF vars, TypeOK, AnsweredTx
<1> QED
  BY <1>1, <1>4, <1>7, <1>9, <1>10, <1>13, <1>14, <1>15, <1>18, <1>21, <1>22, <1>25, <1>28, <1>31,
      <1>33, <1>34, <1>37, <1>40, <1>41, <1>44, <1>45, <1>48, <1>49, <1>51 DEF Next, FarEnd,
      InviteRuns, TimerRuns, CancelRuns, ClientStarts, ClientRuns

(* The ring timer starts when the INVITE handler is done. *)
LEMMA TimerOnceStep ==
  ASSUME TypeOK, TimerOnce, [Next]_vars
  PROVE  TimerOnce'
<1> USE NameAssumption DEF Procs, System, Sids, sessVars, apiVars, sipVars, ctlVars, histVars
<1>1. CASE InviteArrives \/ CallerCancels \/ CallerAcks
  BY <1>1 DEF TypeOK, TimerOnce, Goto, SetState, InviteArrives, CallerCancels, CallerAcks
<1>4. CASE CallerByes \/ Admit \/ Presented
  BY <1>4 DEF TypeOK, TimerOnce, Goto, CallerByes, Admit, Presented
<1>7. CASE Refuse \/ RefuseBegin \/ RefuseSend
  BY <1>7 DEF TypeOK, TimerOnce, Goto, CanBegin, Refuse, RefuseBegin, RefuseSend
<1>10. CASE RefuseDelete \/ TimerCheck \/ TimerBegin
  BY <1>10 DEF TypeOK, TimerOnce, Goto, CanBeginIncoming, RefuseDelete, TimerCheck, TimerBegin
<1>13. CASE TimerFanout \/ TimerSend \/ TimerDelete
  BY <1>13 DEF TypeOK, TimerOnce, Goto, TimerFanout, TimerSend, TimerDelete
<1>16. CASE CancelCheck \/ CancelBegin \/ Cancel487
  BY <1>16 DEF TypeOK, TimerOnce, Goto, Return, CanBeginIncoming, Respond, CancelCheck,
      CancelBegin, Cancel487
<1>19. CASE CancelFanout \/ CancelEnd \/ ByeDelete
  BY <1>19 DEF TypeOK, TimerOnce, Goto, Return, CancelFanout, CancelEnd, ByeDelete
<1>22. ASSUME NEW c \in Clients, Present(c) \/ Connect(c) \/ Offer(c) PROVE TimerOnce'
  BY <1>22 DEF TypeOK, TimerOnce, CanBeginIncoming, Goto, CanClaim, Present, Connect, Offer
<1>25. ASSUME NEW c \in Clients, AcceptAsk(c) \/ RejectAsk(c) \/ Disconnect(c) PROVE TimerOnce'
  BY <1>25 DEF TypeOK, TimerOnce, ClaimedByOther, Goto, AcceptAsk, RejectAsk, Disconnect
<1>28. ASSUME NEW c \in Clients, Replay(c) \/ Offered(c) \/ AcceptCheck(c) PROVE TimerOnce'
  BY <1>28 DEF TypeOK, TimerOnce, CanBeginIncoming, Goto, SetState, Replay, Offered, AcceptCheck
<1>31. ASSUME NEW c \in Clients, AcceptBegin(c) \/ AcceptLost(c) PROVE TimerOnce'
  BY <1>31 DEF TypeOK, TimerOnce, CanBegin, ClaimedByOther, Goto, Return, AcceptBegin, AcceptLost
<1>33. ASSUME NEW c \in Clients, AcceptClaim(c) PROVE TimerOnce'
  BY <1>33 DEF TypeOK, TimerOnce, AcceptClaim, ClearTerminalAction, CanClaim, Goto, Return
<1>34. ASSUME NEW c \in Clients, AcceptTransfer(c) \/ Accept200(c) \/ AcceptActive(c)
      PROVE  TimerOnce'
  BY <1>34 DEF TypeOK, TimerOnce, Goto, Respond, AcceptTransfer, Accept200, AcceptActive
<1>37. ASSUME NEW c \in Clients, AcceptFinish(c) \/ AcceptFanout(c) \/ RejectBegin(c)
      PROVE  TimerOnce'
  BY <1>37 DEF TypeOK, TimerOnce, ClearTerminalAction, Goto, Return, CanBeginIncoming,
      AcceptFinish, AcceptFanout, RejectBegin
<1>40. ASSUME NEW c \in Clients, RejectSend(c) \/ RejectEnd(c) \/ HangupCheck(c) PROVE TimerOnce'
  BY <1>40 DEF TypeOK, TimerOnce, Goto, RejectFails, SetState, ActionFor, RejectSend, RejectEnd,
      HangupCheck
<1>43. ASSUME NEW c \in Clients, EndBegin(c) \/ EndSend(c) \/ EndBye(c) PROVE TimerOnce'
  BY <1>43 DEF TypeOK, TimerOnce, CanBegin, Goto, Return, EndReturn, SetState, EndBegin, EndSend,
      EndBye
<1>46. ASSUME NEW c \in Clients, EndDelete(c) \/ Sweep(c) \/ Swept(c) PROVE TimerOnce'
  BY <1>46 DEF TypeOK, TimerOnce, Goto, Return, EndReturn, EndDelete, Sweep, Swept
<1>49. ASSUME NEW c \in Clients, NEW s \in Sids, HangupAsk(c, s) \/ ForceEnd(c, s) PROVE TimerOnce'
  BY <1>49 DEF TypeOK, TimerOnce, ClaimedByOther, Goto, ActionFor, HangupAsk, ForceEnd
<1>51. CASE UNCHANGED vars
  BY <1>51 DEF vars, TypeOK, TimerOnce
<1> QED
  BY <1>1, <1>4, <1>7, <1>10, <1>13, <1>16, <1>19, <1>22, <1>25, <1>28, <1>31, <1>33, <1>34,
      <1>37, <1>40, <1>43, <1>46, <1>49, <1>51 DEF Next, FarEnd, InviteRuns, TimerRuns,
      CancelRuns, ClientStarts, ClientRuns

(* Clients come and go only with their sockets. *)
LEMMA ConnSteps ==
  ASSUME [Next]_vars
  PROVE  conn' = conn \/ \E c \in Clients : Connect(c) \/ Disconnect(c)
<1> USE DEF sessVars, apiVars, sipVars, ctlVars, histVars
<1>1. CASE FarEnd
  BY <1>1 DEF FarEnd, InviteArrives, CallerCancels, CallerAcks, CallerByes
<1>2. CASE InviteRuns
  BY <1>2 DEF InviteRuns, Admit, Presented, Refuse, RefuseBegin, RefuseSend, RefuseDelete, Present
<1>3. CASE TimerRuns \/ CancelRuns \/ ByeDelete
  BY <1>3 DEF TimerRuns, TimerCheck, TimerBegin, TimerFanout, TimerSend, TimerDelete, CancelRuns,
      CancelCheck, CancelBegin, Cancel487, CancelFanout, CancelEnd, ByeDelete
<1>4. ASSUME NEW c \in Clients, ClientRuns(c) PROVE conn' = conn
  <2>1. CASE Replay(c) \/ Offered(c) \/ AcceptCheck(c) \/ AcceptBegin(c) \/ AcceptLost(c)
               \/ AcceptClaim(c) \/ AcceptTransfer(c) \/ Accept200(c) \/ AcceptActive(c)
               \/ AcceptFinish(c) \/ AcceptFanout(c)
    BY <2>1 DEF Replay, Offered, AcceptCheck, AcceptBegin, AcceptLost, AcceptClaim,
        AcceptTransfer, Accept200, AcceptActive, AcceptFinish, AcceptFanout
  <2>2. CASE RejectBegin(c) \/ RejectSend(c) \/ RejectEnd(c) \/ HangupCheck(c) \/ EndBegin(c)
               \/ EndSend(c) \/ EndBye(c) \/ EndDelete(c)
    BY <2>2 DEF RejectBegin, RejectSend, RejectEnd, HangupCheck, EndBegin, EndSend, EndBye,
        EndDelete
  <2>3. CASE (\E s \in Sids : ForceEnd(c, s)) \/ Sweep(c) \/ Swept(c)
    BY <2>3 DEF ForceEnd, Sweep, Swept
  <2> QED BY <1>4, <2>1, <2>2, <2>3 DEF ClientRuns
<1>5. ASSUME NEW c \in Clients, ClientStarts(c), ~Connect(c), ~Disconnect(c) PROVE conn' = conn
  BY <1>5 DEF ClientStarts, Offer, AcceptAsk, RejectAsk, HangupAsk
<1>6. CASE UNCHANGED vars BY <1>6 DEF vars
<1> QED BY <1>1, <1>2, <1>3, <1>4, <1>5, <1>6 DEF Next, FarEnd

(* A client that is not connected is not told anything. *)
LEMMA OffSilentStep ==
  ASSUME TypeOK, OffSilent, [Next]_vars
  PROVE  OffSilent'
<1> SUFFICES ASSUME NEW c \in Clients \ conn', ui'[c] = "ringing" PROVE FALSE
  BY DEF OffSilent
<1>1. ui[c] = "ringing" \/ Present(c) \/ Replay(c) BY UiQuiet
<1>2. CASE c \in conn
  <2>1. PICK d \in Clients : Connect(d) \/ Disconnect(d) BY <1>2, ConnSteps
  <2>2. Disconnect(c) BY <1>2, <2>1 DEF Connect, Disconnect
  <2> QED BY <2>2 DEF Disconnect, TypeOK
<1>3. CASE c \notin conn
  <2>1. ui[c] # "ringing" BY <1>3 DEF OffSilent
  <2>2. ~Present(c) /\ ~Replay(c) BY <1>3, <2>1 DEF Present, Replay, Tell
  <2> QED BY <1>1, <2>1, <2>2
<1> QED BY <1>2, <1>3

(* What a step does to the answer, the fan-outs and the mark of a late
   presentation. *)
RingStep ==
  /\ late => late'
  /\ answeredBy' = answeredBy \/ \E d \in Clients : Accept200(d)
  /\ \A d \in Clients : pc'[d] = "acc_fanout" => pc[d] = "acc_fanout" \/ AcceptFinish(d)
  /\ \/ FanoutDue'
     \/ /\ RingOver' => RingOver
        /\ FanoutDue => TimerFanout \/ CancelFanout \/ \E d \in Clients : AcceptFanout(d)

(* Ringing ends with a fan-out to come, and a fan-out to come stays so until it is done. *)
LEMMA RingSteps ==
  ASSUME TypeOK, TimerOnce, [Next]_vars
  PROVE  RingStep
<1> USE NameAssumption DEF Procs, System, Sids, sessVars, apiVars, sipVars, ctlVars, histVars
<1>1. CASE InviteArrives \/ CallerCancels \/ CallerAcks
  BY <1>1 DEF TypeOK, RingStep, FanoutDue, RingOver, Goto, SetState, InviteArrives, CallerCancels,
      CallerAcks
<1>4. CASE CallerByes \/ Admit \/ Presented
  BY <1>4 DEF TypeOK, RingStep, FanoutDue, RingOver, Goto, TimerOnce, CallerByes, Admit, Presented
<1>7. CASE Refuse \/ RefuseBegin \/ RefuseSend
  BY <1>7 DEF TypeOK, RingStep, FanoutDue, RingOver, Goto, CanBegin, Refuse, RefuseBegin,
      RefuseSend
<1>10. CASE RefuseDelete \/ TimerCheck
  BY <1>10 DEF TypeOK, RingStep, FanoutDue, RingOver, Goto, RefuseDelete, TimerCheck
<1>12. CASE TimerBegin
  BY <1>12 DEF TypeOK, RingStep, FanoutDue, RingOver, TimerBegin, CanBeginIncoming, Goto
<1>13. CASE TimerFanout \/ TimerSend \/ TimerDelete
  BY <1>13 DEF TypeOK, RingStep, FanoutDue, RingOver, Goto, TimerFanout, TimerSend, TimerDelete
<1>16. CASE CancelCheck
  BY <1>16 DEF TypeOK, RingStep, FanoutDue, RingOver, CancelCheck, Goto, Return
<1>17. CASE CancelBegin
  BY <1>17 DEF TypeOK, RingStep, FanoutDue, RingOver, CancelBegin, CanBeginIncoming, Goto,
      Return
<1>18. CASE Cancel487 \/ CancelFanout \/ CancelEnd
  BY <1>18 DEF TypeOK, RingStep, FanoutDue, RingOver, Goto, Respond, Return, Cancel487,
      CancelFanout, CancelEnd
<1>21. CASE ByeDelete
  BY <1>21 DEF TypeOK, RingStep, FanoutDue, RingOver, ByeDelete, Goto, Return
<1>22. ASSUME NEW c \in Clients, Present(c) \/ Connect(c) \/ Offer(c) PROVE RingStep
  BY <1>22 DEF TypeOK, RingStep, FanoutDue, RingOver, CanBeginIncoming, Goto, CanClaim, Present,
      Connect, Offer
<1>25. ASSUME NEW c \in Clients, AcceptAsk(c) \/ RejectAsk(c) \/ Disconnect(c) PROVE RingStep
  BY <1>25 DEF TypeOK, RingStep, FanoutDue, RingOver, ClaimedByOther, Goto, AcceptAsk, RejectAsk,
      Disconnect
<1>28. ASSUME NEW c \in Clients, Replay(c) \/ Offered(c) \/ AcceptCheck(c) PROVE RingStep
  BY <1>28 DEF TypeOK, RingStep, FanoutDue, RingOver, CanBeginIncoming, Goto, SetState, Replay,
      Offered, AcceptCheck
<1>31. ASSUME NEW c \in Clients, AcceptBegin(c) PROVE RingStep
  BY <1>31 DEF TypeOK, RingStep, FanoutDue, RingOver, AcceptBegin, CanBegin, ClaimedByOther,
      Goto, Return
<1>32. ASSUME NEW c \in Clients, AcceptLost(c) PROVE RingStep
  BY <1>32 DEF TypeOK, RingStep, FanoutDue, RingOver, AcceptLost, Goto, Return
<1>33. ASSUME NEW c \in Clients, AcceptClaim(c) PROVE RingStep
  <2>1. late' = late /\ answeredBy' = answeredBy /\ pc[c] = "acc_claim" BY <1>33 DEF AcceptClaim
  <2>2. pc' = [pc EXCEPT ![c] = "acc_transfer"] \/ pc' = [pc EXCEPT ![c] = "idle"]
    BY <1>33 DEF AcceptClaim, Goto, Return
  <2>3. term'[Inc] \in {term[Inc], None}
    BY <1>33 DEF AcceptClaim, ClearTerminalAction, TypeOK
  <2>4. \A d \in Procs : d # c => pc'[d] = pc[d] BY <2>2 DEF TypeOK
  <2>5. pc'[c] \in {"acc_transfer", "idle"} BY <2>2 DEF TypeOK
  <2>6. FanoutDue' <=> FanoutDue BY <2>1, <2>4, <2>5 DEF FanoutDue
  <2>7. RingOver' => RingOver BY <2>1, <2>3 DEF RingOver
  <2> QED BY <2>1, <2>4, <2>5, <2>6, <2>7 DEF RingStep
<1>34. ASSUME NEW c \in Clients, AcceptTransfer(c) \/ Accept200(c) \/ AcceptActive(c) PROVE RingStep
  BY <1>34, SMTT(40) DEF TypeOK, RingStep, FanoutDue, RingOver, Goto, Respond, AcceptTransfer, Accept200,
      AcceptActive
<1>37. ASSUME NEW c \in Clients, AcceptFinish(c) PROVE RingStep
  BY <1>37 DEF TypeOK, RingStep, FanoutDue, RingOver, AcceptFinish, ClearTerminalAction, Goto
<1>38. ASSUME NEW c \in Clients, AcceptFanout(c) PROVE RingStep
  BY <1>38 DEF TypeOK, RingStep, FanoutDue, RingOver, AcceptFanout, Goto, Return
<1>39. ASSUME NEW c \in Clients, RejectBegin(c) PROVE RingStep
  BY <1>39 DEF TypeOK, RingStep, FanoutDue, RingOver, RejectBegin, CanBeginIncoming, Goto
<1>40. ASSUME NEW c \in Clients, RejectSend(c) PROVE RingStep
  BY <1>40 DEF TypeOK, RingStep, FanoutDue, RingOver, RejectSend, Goto, RejectFails, RejectCall
<1>41. ASSUME NEW c \in Clients, RejectEnd(c) \/ HangupCheck(c) PROVE RingStep
  BY <1>41 DEF TypeOK, RingStep, FanoutDue, RingOver, Goto, SetState, ActionFor, RejectEnd,
      HangupCheck
<1>43. ASSUME NEW c \in Clients, EndBegin(c) PROVE RingStep
  BY <1>43 DEF TypeOK, RingStep, FanoutDue, RingOver, EndBegin, CanBegin, Goto, Return,
      EndReturn
<1>44. ASSUME NEW c \in Clients, EndSend(c) \/ EndBye(c) PROVE RingStep
  BY <1>44 DEF TypeOK, RingStep, FanoutDue, RingOver, Goto, SetState, EndSend, EndBye
<1>46. ASSUME NEW c \in Clients, EndDelete(c) PROVE RingStep
  BY <1>46 DEF TypeOK, RingStep, FanoutDue, RingOver, EndDelete, Goto, Return, EndReturn
<1>47. ASSUME NEW c \in Clients, Sweep(c) \/ Swept(c) PROVE RingStep
  BY <1>47 DEF TypeOK, RingStep, FanoutDue, RingOver, Goto, Sweep, Swept
<1>49. ASSUME NEW c \in Clients, NEW s \in Sids, HangupAsk(c, s) \/ ForceEnd(c, s) PROVE RingStep
  BY <1>49 DEF TypeOK, RingStep, FanoutDue, RingOver, ClaimedByOther, Goto, ActionFor, HangupAsk,
      ForceEnd
<1>51. CASE UNCHANGED vars
  BY <1>51 DEF vars, TypeOK, RingStep, FanoutDue, RingOver
<1> QED
  BY <1>1, <1>4, <1>7, <1>10, <1>12, <1>13, <1>16, <1>17, <1>18, <1>21, <1>22, <1>25, <1>28,
      <1>31, <1>32, <1>33, <1>34, <1>37, <1>38, <1>39, <1>40, <1>41, <1>43, <1>44, <1>46, <1>47,
      <1>49, <1>51 DEF Next, FarEnd, InviteRuns, TimerRuns, CancelRuns, ClientStarts, ClientRuns

(* Once the ringing is over nobody can begin to end it again, so that whoever is
   presented the call now is presented it late. *)
LEMMA RingShut ==
  ASSUME IInv, AnsweredTx, RingOver PROVE ~CanBeginIncoming(Inc)
<1>1. CASE term[Inc] \in {TimerP, CancelP}
  <2>1. None \notin {TimerP, CancelP} BY NameAssumption DEF System
  <2> QED BY <1>1, <2>1 DEF CanBeginIncoming
<1>2. CASE answeredBy # {}
  <2>1. SUFFICES ASSUME state[Inc] = "incoming" PROVE term[Inc] # None
    BY DEF CanBeginIncoming
  <2>2. PICK c \in Clients : pc[c] \in {"acc_active", "acc_finish"}
    BY <1>2, <2>1 DEF IInv, AnsweredLeaves, AnsweredTx
  <2>3. c \in Procs /\ Holding(c) BY <2>2 DEF Procs, Holding, OnInc
  <2>4. term[Inc] = c BY <2>3 DEF IInv, TerminalMutex
  <2> QED BY <2>4, NameAssumption
<1> QED BY <1>1, <1>2 DEF RingOver

(* Nobody begins to ring any more, unless late. *)
LEMMA NobodyRingsStep ==
  ASSUME IInv, RingInv, [Next]_vars, RingOver, ~late'
  PROVE  /\ \A c \in Clients : ui'[c] = "ringing" => ui[c] = "ringing"
         /\ NobodyRings => NobodyRings'
<1>1. ~CanBeginIncoming(Inc) BY RingShut DEF RingInv
<1>2. \A c : ~Present(c) /\ ~Replay(c) BY <1>1 DEF Present, Replay
<1>3. \A c \in Clients : ui'[c] = "ringing" => ui[c] = "ringing" BY <1>2, UiQuiet DEF IInv
<1>4. conn' \subseteq Clients BY TypeStep DEF IInv, TypeOK
<1>5. ASSUME NobodyRings, NEW c \in conn' PROVE ui'[c] # "ringing"
  BY <1>3, <1>4, <1>5 DEF NobodyRings, RingInv, OffSilent
<1> QED BY <1>3, <1>5 DEF NobodyRings

(* From the end of the ringing on, a fan-out is due until nobody rings. *)
LEMMA FannedStep ==
  ASSUME IInv, RingInv, [Next]_vars
  PROVE  Fanned'
<1>. SUFFICES ASSUME RingOver', ~late', ~FanoutDue' PROVE NobodyRings'
  BY DEF Fanned
<1>1. TypeOK /\ TimerOnce BY DEF IInv, RingInv
<1>2. RingStep BY <1>1, RingSteps
<1>3. ~late /\ RingOver BY <1>2 DEF RingStep
<1>4. CASE NobodyRings BY <1>3, <1>4, NobodyRingsStep
<1>5. CASE FanoutDue
  <2>1. CASE TimerFanout \/ CancelFanout
    <3>1. Tell(conn \ {}, "stopped") /\ conn' = conn BY <2>1 DEF TimerFanout, CancelFanout, Fanout
    <3>2. conn \subseteq Clients BY <1>1 DEF TypeOK
    <3> QED BY <3>1, <3>2 DEF Tell, NobodyRings
  <2>2. ASSUME NEW c \in Clients, AcceptFanout(c) PROVE NobodyRings'
    <3>1. Tell(conn \ {c}, "stopped") /\ conn' = conn BY <2>2 DEF AcceptFanout, Fanout
    <3>2. conn \subseteq Clients BY <1>1 DEF TypeOK
    <3>3. \A d \in conn \ {c} : ui'[d] # "ringing" BY <3>1, <3>2 DEF Tell
    <3>4. CASE answeredBy # {}
      <4>1. c \in conn => ui[c] # "ringing"
        BY <1>3, <2>2, <3>4 DEF RingInv, AnswererTold, AcceptFanout
      <4> QED BY <3>1, <3>2, <3>3, <4>1 DEF Tell, NobodyRings
    <3>5. CASE answeredBy = {}
      <4>1. pc[TimerP] = "tmo_fanout" \/ pc[CancelP] \in {"cxl_487", "cxl_fanout"}
        BY <1>5, <3>5 DEF FanoutDue
      <4>2. pc'[TimerP] = pc[TimerP] /\ pc'[CancelP] = pc[CancelP]
        BY <1>1, <2>2, NameAssumption DEF AcceptFanout, Return, Goto, TypeOK, Procs, System
      <4> QED BY <4>1, <4>2 DEF FanoutDue
    <3> QED BY <3>4, <3>5
  <2> QED BY <1>2, <1>5, <2>1, <2>2 DEF RingStep
<1> QED BY <1>3, <1>4, <1>5 DEF RingInv, Fanned

(* The client that the fan-out of its accept leaves out was told before. *)
LEMMA AnswererToldStep ==
  ASSUME IInv, RingInv, [Next]_vars
  PROVE  AnswererTold'
<1>. SUFFICES ASSUME NEW c \in conn', pc'[c] = "acc_fanout", answeredBy' # {}, ~late'
              PROVE  ui'[c] # "ringing"
  BY DEF AnswererTold
<1>1. TypeOK /\ TimerOnce BY DEF IInv, RingInv
<1>2. RingStep BY <1>1, RingSteps
<1>3. c \in Clients BY TypeStep DEF IInv, TypeOK
<1>4. CASE AcceptFinish(c)
  BY <1>1, <1>3, <1>4 DEF AcceptFinish, Tell, TypeOK
<1>5. CASE pc[c] = "acc_fanout"
  <2>1. answeredBy # {}
    <3>1. ASSUME NEW d \in Clients, Accept200(d), answeredBy = {} PROVE FALSE
      <4>1. claim = d /\ claim = c
        BY <1>3, <1>5, <3>1 DEF IInv, ClaimHeld, RingInv, ClaimKept, Accept200
      <4> QED BY <1>5, <3>1, <4>1 DEF Accept200
    <3> QED BY <1>2, <3>1 DEF RingStep
  <2>2. RingOver BY <2>1 DEF RingOver
  <2>3. c \in conn
    <3>1. CASE \E d \in Clients : Connect(d)
      <4>1. PICK d \in Clients : Connect(d) BY <3>1
      <4> QED BY <1>5, <4>1 DEF Connect
    <3>2. CASE \E d \in Clients : Disconnect(d) BY <3>2 DEF Disconnect
    <3> QED BY <3>1, <3>2, ConnSteps
  <2>4. ui[c] # "ringing" BY <1>2, <1>5, <2>1, <2>3 DEF RingStep, RingInv, AnswererTold
  <2> QED BY <1>3, <2>2, <2>4, NobodyRingsStep
<1> QED BY <1>2, <1>3, <1>4, <1>5 DEF RingStep

(* Every part of RingInv holds throughout. *)
LEMMA RingInvariance == Spec => []RingInv
<1>1. Init => RingInv
  BY ClientAssumption, NameAssumption DEF Init, RingInv, ClaimKept, AnsweredTx, TimerOnce, OffSilent,
      Fanned, AnswererTold, RingOver, NobodyRings, Procs, System, Sids
<1>2. ASSUME IInv, RingInv, [Next]_vars PROVE RingInv'
  <2>1. /\ TypeOK /\ ClaimHeld /\ InviteOnce BY <1>2 DEF IInv
  <2>2. ClaimKept /\ AnsweredTx /\ TimerOnce /\ OffSilent BY <1>2 DEF RingInv
  <2>3. ClaimKept' BY <1>2, <2>1, <2>2, ClaimKeptStep
  <2>4. AnsweredTx' BY <1>2, <2>1, <2>2, AnsweredTxStep
  <2>5. TimerOnce' BY <1>2, <2>1, <2>2, TimerOnceStep
  <2>6. OffSilent' BY <1>2, <2>1, <2>2, OffSilentStep
  <2>7. Fanned' /\ AnswererTold' BY <1>2, FannedStep, AnswererToldStep
  <2> QED BY <2>3, <2>4, <2>5, <2>6, <2>7 DEF RingInv
<1> QED BY <1>1, <1>2, Invariance, PTL DEF Spec

(* When the call was answered, has timed out or was cancelled and every
   goroutine is done, no connected client rings, except one that was presented
   the call while it was being ended. *)
THEOREM RingingStops == Spec => []StopsRinging
<1>1. RingInv => StopsRinging
  <2> SUFFICES ASSUME RingInv, Quiescent PROVE ~FanoutDue
    BY DEF StopsRinging, RingInv, Fanned
  <2>1. \A p \in Procs : pc[p] \in {"off", "idle", "gone", "done"} BY DEF Quiescent
  <2> QED BY <2>1 DEF FanoutDue, Procs, System
<1> QED BY <1>1, RingInvariance, PTL
-----------------------------------------------------------------------------
(* One final response, and guards that are given back *)

(* What a refusal does to the transaction, the responses and the session. *)
LEMMA RejectFinal ==
  ASSUME NEW s, RejectCall(s)
  PROVE  \/ /\ (s \notin invite \/ Faults) /\ UNCHANGED <<state, invite, tx, finals>>
         \/ /\ s \in invite /\ invite' = invite \ {s}
            /\ state' = [state EXCEPT ![s] = "ended"]
            /\ finals' = IF finals < 2 THEN finals + 1 ELSE finals
BY EndEffect DEF RejectCall, RejectFails, RejectSent, Respond

(* What the end of a session does to them, whichever action was chosen. *)
LEMMA EndSendFinal ==
  ASSUME NEW c \in Clients, EndSend(c)
  PROVE  /\ pc[c] = "end_send" /\ UNCHANGED <<mgr, term, claim, tgt>>
         /\ \E l \in {"end_bye", "end_delete"} : pc' = [pc EXCEPT ![c] = l]
         /\ caller' = caller \/ tx = "answered"
         /\ state' = state \/ state' = [state EXCEPT ![tgt[c]] = "ended"]
         /\ \/ UNCHANGED <<invite, finals>>
            \/ /\ act[c] = "reject" /\ tgt[c] \in invite /\ invite' = invite \ {tgt[c]}
               /\ state' = [state EXCEPT ![tgt[c]] = "ended"]
               /\ finals' = IF finals < 2 THEN finals + 1 ELSE finals
<1> USE DEF sipVars
<1>1. CASE act[c] = "reject" /\ RejectCall(tgt[c]) /\ Goto(c, "end_delete") /\ UNCHANGED caller
  BY <1>1, RejectFinal DEF EndSend, Goto
<1>2. CASE act[c] = "bye"
  BY <1>2 DEF EndSend, Goto
<1>3. CASE act[c] = "cancel"
  BY <1>3, EndEffect DEF EndSend, Goto
<1>4. CASE act[c] = "end"
  BY <1>4 DEF EndSend, Goto, SetState
<1> QED BY <1>1, <1>2, <1>3, <1>4 DEF EndSend

(* A refusal by a client ends in one place when it was sent, in another when it
   failed. *)
LEMMA RejectSendFinal ==
  ASSUME NEW c \in Clients, RejectSend(c)
  PROVE  /\ pc[c] = "rej_send" /\ UNCHANGED <<mgr, term, claim, tgt, caller>>
         /\ \/ /\ Inc \notin invite \/ Faults
               /\ UNCHANGED <<state, invite, finals>>
               /\ pc' = [pc EXCEPT ![c] = "idle"]
            \/ /\ Inc \in invite /\ invite' = invite \ {Inc}
               /\ state' = [state EXCEPT ![Inc] = "ended"]
               /\ finals' = IF finals < 2 THEN finals + 1 ELSE finals
               /\ pc' = [pc EXCEPT ![c] = "rej_end"]
<1>1. CASE RejectSent(Inc) /\ Goto(c, "rej_end")
  BY <1>1, EndEffect DEF RejectSend, RejectSent, Respond, Goto
<1>2. CASE RejectFails(Inc) /\ Goto(c, "idle")
  BY <1>2 DEF RejectSend, RejectFails, Goto
<1> QED BY <1>1, <1>2 DEF RejectSend

(* Until the INVITE arrives nobody works on the call. *)
LEMMA BeforeInviteStep ==
  ASSUME TypeOK, InviteOnce, TimerOnce, BeforeInvite, [Next]_vars
  PROVE  BeforeInvite'
<1> USE NameAssumption DEF Procs, System, Sids, sessVars, apiVars, sipVars, ctlVars, histVars
<1>1. CASE InviteArrives \/ CallerCancels \/ CallerAcks
  BY <1>1 DEF TypeOK, BeforeInvite, Goto, SetState, InviteArrives, CallerCancels, CallerAcks
<1>4. CASE CallerByes \/ Admit \/ Presented
  BY <1>4 DEF TypeOK, BeforeInvite, Goto, CallerByes, Admit, Presented
<1>7. CASE Refuse \/ RefuseBegin
  BY <1>7 DEF TypeOK, BeforeInvite, Goto, CanBegin, Refuse, RefuseBegin
<1>9. CASE RefuseSend
  BY <1>9, RejectFinal DEF TypeOK, BeforeInvite, RefuseSend, Goto
<1>10. CASE RefuseDelete \/ TimerCheck \/ TimerBegin
  BY <1>10 DEF TypeOK, BeforeInvite, Goto, Delete, CanBeginIncoming, TimerOnce, RefuseDelete,
      TimerCheck, TimerBegin
<1>13. CASE TimerFanout
  BY <1>13 DEF TypeOK, BeforeInvite, TimerFanout, Goto
<1>14. CASE TimerSend
  BY <1>14, RejectFinal DEF TypeOK, BeforeInvite, TimerSend, Goto, TimerOnce
<1>15. CASE TimerDelete \/ CancelCheck \/ CancelBegin
  BY <1>15 DEF TypeOK, BeforeInvite, Goto, TimerOnce, Delete, Return, CanBeginIncoming,
      TimerDelete, CancelCheck, CancelBegin
<1>18. CASE Cancel487 \/ CancelFanout \/ CancelEnd
  BY <1>18 DEF TypeOK, BeforeInvite, Goto, Respond, Return, Cancel487, CancelFanout, CancelEnd
<1>21. CASE ByeDelete
  BY <1>21 DEF TypeOK, BeforeInvite, ByeDelete, Goto, Return, Delete
<1>22. ASSUME NEW c \in Clients, Present(c) \/ Connect(c) \/ Offer(c) PROVE BeforeInvite'
  BY <1>22 DEF TypeOK, BeforeInvite, CanBeginIncoming, Goto, CanClaim, Present, Connect, Offer
<1>25. ASSUME NEW c \in Clients, AcceptAsk(c) \/ RejectAsk(c) \/ Disconnect(c) PROVE BeforeInvite'
  BY <1>25 DEF TypeOK, BeforeInvite, ClaimedByOther, Goto, AcceptAsk, RejectAsk, Disconnect
<1>28. ASSUME NEW c \in Clients, Replay(c) \/ Offered(c) \/ AcceptCheck(c) PROVE BeforeInvite'
  BY <1>28 DEF TypeOK, BeforeInvite, CanBeginIncoming, Goto, SetState, Replay, Offered,
      AcceptCheck
<1>31. ASSUME NEW c \in Clients, AcceptBegin(c) PROVE BeforeInvite'
  BY <1>31 DEF TypeOK, BeforeInvite, AcceptBegin, CanBegin, ClaimedByOther, Goto, Return
<1>32. ASSUME NEW c \in Clients, AcceptLost(c) PROVE BeforeInvite'
  BY <1>32 DEF TypeOK, BeforeInvite, AcceptLost, Goto, Return
<1>33. ASSUME NEW c \in Clients, AcceptClaim(c) PROVE BeforeInvite'
  BY <1>33 DEF TypeOK, BeforeInvite, AcceptClaim, ClearTerminalAction, CanClaim, Goto, Return
<1>34. ASSUME NEW c \in Clients, AcceptTransfer(c) \/ Accept200(c) \/ AcceptActive(c)
      PROVE  BeforeInvite'
  BY <1>34 DEF TypeOK, BeforeInvite, Goto, Respond, AcceptTransfer, Accept200, AcceptActive
<1>37. ASSUME NEW c \in Clients, AcceptFinish(c) \/ AcceptFanout(c) \/ RejectBegin(c)
      PROVE  BeforeInvite'
  BY <1>37 DEF TypeOK, BeforeInvite, ClearTerminalAction, Goto, Delete, Return, CanBeginIncoming,
      AcceptFinish, AcceptFanout, RejectBegin
<1>40. ASSUME NEW c \in Clients, RejectSend(c) PROVE BeforeInvite'
  BY <1>40, RejectSendFinal DEF TypeOK, BeforeInvite
<1>41. ASSUME NEW c \in Clients, RejectEnd(c) \/ HangupCheck(c) \/ EndBegin(c) PROVE BeforeInvite'
  BY <1>41, SMTT(40) DEF TypeOK, BeforeInvite, Goto, SetState, ActionFor, CanBegin, Return, EndReturn,
      RejectEnd, HangupCheck, EndBegin
<1>44. ASSUME NEW c \in Clients, EndSend(c) PROVE BeforeInvite'
  BY <1>44, EndSendFinal DEF TypeOK, BeforeInvite, InviteOnce
<1>45. ASSUME NEW c \in Clients, EndBye(c) \/ EndDelete(c) \/ Sweep(c) PROVE BeforeInvite'
  BY <1>45 DEF TypeOK, BeforeInvite, Goto, Return, EndReturn, Delete, EndBye, EndDelete, Sweep
<1>48. ASSUME NEW c \in Clients, Swept(c) PROVE BeforeInvite'
  BY <1>48 DEF TypeOK, BeforeInvite, Swept, Goto
<1>49. ASSUME NEW c \in Clients, NEW s \in Sids, HangupAsk(c, s) \/ ForceEnd(c, s)
      PROVE  BeforeInvite'
  BY <1>49 DEF TypeOK, BeforeInvite, ClaimedByOther, Goto, ActionFor, HangupAsk, ForceEnd
<1>51. CASE UNCHANGED vars
  BY <1>51 DEF vars, TypeOK, BeforeInvite
<1> QED
  BY <1>1, <1>4, <1>7, <1>9, <1>10, <1>13, <1>14, <1>15, <1>18, <1>21, <1>22, <1>25, <1>28, <1>31,
      <1>32, <1>33, <1>34, <1>37, <1>40, <1>41, <1>44, <1>45, <1>48, <1>49, <1>51 DEF Next,
      FarEnd, InviteRuns, TimerRuns, CancelRuns, ClientStarts, ClientRuns

(* Whoever may still answer the INVITE has the guard. *)
LEMMA DecidingHolds ==
  ASSUME TerminalMutex, NEW p \in Procs, Deciding(p) PROVE term[Inc] = p
BY DEF TerminalMutex, Holding, Deciding, OnInc, OnTgt

(* While the guard is free, or its holder may still answer, nobody has answered. *)
LEMMA UndecidedStep ==
  ASSUME TypeOK, TerminalMutex, Targeted, ~Faults, BeforeInvite, Undecided, [Next]_vars
  PROVE  Undecided'
<1> USE NameAssumption DEF Procs, System, Sids, sessVars, apiVars, sipVars, ctlVars, histVars
<1>1. CASE InviteArrives
  BY <1>1, DecidingHolds DEF TypeOK, Undecided, Deciding, InviteArrives, Goto, SetState,
      BeforeInvite
<1>2. CASE CallerCancels
  BY <1>2, DecidingHolds DEF TypeOK, Undecided, Deciding, CallerCancels, Goto, BeforeInvite
<1>3. CASE CallerAcks \/ CallerByes \/ Admit
  BY <1>3, DecidingHolds DEF TypeOK, Undecided, Deciding, Goto, CallerAcks, CallerByes, Admit
<1>6. CASE Presented \/ Refuse \/ RefuseBegin
  BY <1>6, DecidingHolds DEF TypeOK, Undecided, Deciding, Goto, CanBegin, Presented, Refuse,
      RefuseBegin
<1>9. CASE RefuseSend
  BY <1>9, RejectFinal, DecidingHolds DEF TypeOK, Undecided, Deciding, RefuseSend, Goto
<1>10. CASE RefuseDelete \/ TimerCheck
  BY <1>10, DecidingHolds DEF TypeOK, Undecided, Deciding, Goto, RefuseDelete, TimerCheck
<1>12. CASE TimerBegin
  BY <1>12, DecidingHolds DEF TypeOK, Undecided, Deciding, TimerBegin, CanBeginIncoming, Goto
<1>13. CASE TimerFanout
  BY <1>13, DecidingHolds DEF TypeOK, Undecided, Deciding, TimerFanout, Goto
<1>14. CASE TimerSend
  BY <1>14, RejectFinal, DecidingHolds DEF TypeOK, Undecided, Deciding, TimerSend, Goto
<1>15. CASE TimerDelete \/ CancelCheck
  BY <1>15, DecidingHolds DEF TypeOK, Undecided, Deciding, Goto, Return, TimerDelete, CancelCheck
<1>17. CASE CancelBegin
  BY <1>17, DecidingHolds DEF TypeOK, Undecided, Deciding, CancelBegin, CanBeginIncoming, Goto,
      Return
<1>18. CASE Cancel487
  <2>1. pc[CancelP] = "cxl_487" /\ tgt[CancelP] = Inc BY <1>18 DEF Cancel487, Targeted
  <2>2. Deciding(CancelP) BY <2>1 DEF Deciding
  <2>3. term[Inc] = CancelP BY <2>2, DecidingHolds
  <2>4. \A p \in Procs : p # CancelP => ~Deciding(p) BY <2>3, DecidingHolds
  <2>5. pc' = [pc EXCEPT ![CancelP] = "cxl_fanout"] /\ UNCHANGED <<tgt, invite, term>>
    BY <1>18 DEF Cancel487, Goto
  <2>6. \A p \in Procs : ~Deciding(p)' BY <2>4, <2>5 DEF Deciding, TypeOK
  <2>7. \A c \in Clients : pc'[c] = pc[c] BY <2>5 DEF TypeOK
  <2>8. \A c \in Clients : pc[c] = "acc_finish" => tgt[c] # Inc
    <3>1. \A c \in Clients : pc[c] = "acc_finish" => Holding(c) BY DEF Holding, OnInc
    <3> QED BY <3>1, <2>3 DEF TerminalMutex
  <2> QED BY <2>3, <2>5, <2>6, <2>7, <2>8 DEF Undecided
<1>19. CASE CancelFanout \/ CancelEnd \/ ByeDelete
  BY <1>19, DecidingHolds DEF TypeOK, Undecided, Deciding, Goto, Return, CancelFanout, CancelEnd,
      ByeDelete
<1>22. ASSUME NEW c \in Clients, Present(c) \/ Connect(c) \/ Offer(c) PROVE Undecided'
  BY <1>22, DecidingHolds DEF TypeOK, Undecided, Deciding, CanBeginIncoming, Goto, CanClaim,
      Present, Connect, Offer
<1>25. ASSUME NEW c \in Clients, AcceptAsk(c) PROVE Undecided'
  BY <1>25, DecidingHolds DEF TypeOK, Undecided, Deciding, AcceptAsk, ClaimedByOther, Goto
<1>26. ASSUME NEW c \in Clients, RejectAsk(c) \/ Disconnect(c) PROVE Undecided'
  BY <1>26, DecidingHolds DEF TypeOK, Undecided, Deciding, Goto, RejectAsk, Disconnect
<1>28. ASSUME NEW c \in Clients, Replay(c) PROVE Undecided'
  BY <1>28, DecidingHolds DEF TypeOK, Undecided, Deciding, Replay, CanBeginIncoming, Goto
<1>29. ASSUME NEW c \in Clients, Offered(c) \/ AcceptCheck(c) PROVE Undecided'
  BY <1>29, DecidingHolds DEF TypeOK, Undecided, Deciding, Goto, SetState, Offered, AcceptCheck
<1>31. ASSUME NEW c \in Clients, AcceptBegin(c) PROVE Undecided'
  BY <1>31, DecidingHolds DEF TypeOK, Undecided, Deciding, AcceptBegin, CanBegin,
      ClaimedByOther, Goto, Return
<1>32. ASSUME NEW c \in Clients, AcceptLost(c) PROVE Undecided'
  BY <1>32, DecidingHolds DEF TypeOK, Undecided, Deciding, AcceptLost, Goto, Return
<1>33. ASSUME NEW c \in Clients, AcceptClaim(c) PROVE Undecided'
  BY <1>33, DecidingHolds DEF TypeOK, Undecided, Deciding, AcceptClaim, ClearTerminalAction,
      CanClaim, Goto, Return
<1>34. ASSUME NEW c \in Clients, AcceptTransfer(c) PROVE Undecided'
  BY <1>34, DecidingHolds DEF TypeOK, Undecided, Deciding, AcceptTransfer, Goto
<1>35. ASSUME NEW c \in Clients, Accept200(c) PROVE Undecided'
  <2>1. pc[c] = "acc_200" /\ UNCHANGED <<tgt, invite, term>> BY <1>35 DEF Accept200
  <2>2. term[Inc] = c BY <2>1, DecidingHolds DEF Deciding
  <2>3. \A p \in Procs : p # c => ~Deciding(p) BY <2>2, DecidingHolds
  <2>4. \E l \in {"acc_active", "acc_finish"} : pc' = [pc EXCEPT ![c] = l] BY <1>35 DEF Accept200, Goto
  <2>5. \A p \in Procs : ~Deciding(p)' BY <2>1, <2>3, <2>4 DEF Deciding, TypeOK
  <2>6. \A d \in Clients : d # c => pc'[d] = pc[d] /\ pc[d] # "acc_finish"
    <3>1. \A d \in Clients : pc[d] = "acc_finish" => Holding(d) BY DEF Holding, OnInc
    <3> QED BY <3>1, <2>2, <2>4 DEF TerminalMutex, TypeOK
  <2>7. pc'[c] = "acc_finish" => tgt[c] \notin invite BY <1>35, <2>1, <2>4 DEF Accept200, Goto, TypeOK
  <2>8. pc'[c] # "acc_200" BY <2>4 DEF TypeOK
  <2> QED BY <2>1, <2>2, <2>5, <2>6, <2>7, <2>8 DEF Undecided
<1>36. ASSUME NEW c \in Clients, AcceptActive(c) PROVE Undecided'
  <2>1. pc[c] = "acc_active" /\ UNCHANGED <<tgt, term, finals>> /\ invite' = invite \ {tgt[c]}
    BY <1>36 DEF AcceptActive
  <2>2. Holding(c) BY <2>1 DEF Holding, OnInc
  <2>3. term[Inc] = c BY <2>2 DEF TerminalMutex
  <2>4. pc' = [pc EXCEPT ![c] = "acc_finish"] BY <1>36 DEF AcceptActive, Goto
  <2>5. \A p \in Procs : ~Deciding(p)'
    <3>1. \A p \in Procs : ~Deciding(p) BY <2>1, <2>3, DecidingHolds DEF Deciding
    <3> QED BY <2>1, <2>4, <3>1 DEF Deciding, TypeOK
  <2>6. \A d \in Clients : d # c => pc'[d] = pc[d] /\ pc[d] \notin {"acc_finish", "acc_200"}
    <3>1. \A d \in Clients : pc[d] \in {"acc_finish", "acc_200"} => Holding(d)
      BY DEF Holding, OnInc
    <3> QED BY <3>1, <2>3, <2>4 DEF TerminalMutex, TypeOK
  <2>7. pc'[c] = "acc_finish" BY <2>4 DEF TypeOK
  <2> QED BY <2>1, <2>3, <2>5, <2>6, <2>7 DEF Undecided
<1>37. ASSUME NEW c \in Clients, AcceptFinish(c) PROVE Undecided'
  BY <1>37, DecidingHolds DEF TypeOK, Undecided, Deciding, AcceptFinish, ClearTerminalAction,
      Goto
<1>38. ASSUME NEW c \in Clients, AcceptFanout(c) PROVE Undecided'
  BY <1>38, DecidingHolds DEF TypeOK, Undecided, Deciding, AcceptFanout, Goto, Return
<1>39. ASSUME NEW c \in Clients, RejectBegin(c) PROVE Undecided'
  BY <1>39, DecidingHolds DEF TypeOK, Undecided, Deciding, RejectBegin, CanBeginIncoming, Goto
<1>40. ASSUME NEW c \in Clients, RejectSend(c) PROVE Undecided'
  BY <1>40, RejectSendFinal, DecidingHolds DEF TypeOK, Undecided, Deciding, Targeted
<1>41. ASSUME NEW c \in Clients, RejectEnd(c) \/ HangupCheck(c) PROVE Undecided'
  BY <1>41, DecidingHolds DEF TypeOK, Undecided, Deciding, Goto, SetState, ActionFor, RejectEnd,
      HangupCheck
<1>43. ASSUME NEW c \in Clients, EndBegin(c) PROVE Undecided'
  BY <1>43, DecidingHolds DEF TypeOK, Undecided, Deciding, EndBegin, CanBegin, Goto, Return,
      EndReturn
<1>44. ASSUME NEW c \in Clients, EndSend(c) PROVE Undecided'
  BY <1>44, EndSendFinal, DecidingHolds DEF TypeOK, Undecided, Deciding, Targeted
<1>45. ASSUME NEW c \in Clients, EndBye(c) PROVE Undecided'
  BY <1>45, DecidingHolds DEF TypeOK, Undecided, Deciding, EndBye, Goto
<1>46. ASSUME NEW c \in Clients, EndDelete(c) PROVE Undecided'
  BY <1>46, DecidingHolds DEF TypeOK, Undecided, Deciding, EndDelete, Goto, Return, EndReturn
<1>47. ASSUME NEW c \in Clients, Sweep(c) \/ Swept(c) PROVE Undecided'
  BY <1>47, DecidingHolds DEF TypeOK, Undecided, Deciding, Goto, Sweep, Swept
<1>49. ASSUME NEW c \in Clients, NEW s \in Sids, HangupAsk(c, s) PROVE Undecided'
  <2>1. pc[c] = "idle" /\ UNCHANGED <<term, invite, finals>> BY <1>49 DEF HangupAsk
  <2>2. CASE UNCHANGED <<pc, tgt>> BY <2>1, <2>2 DEF Undecided, Deciding
  <2>3. CASE tgt' = [tgt EXCEPT ![c] = s] /\ Goto(c, "hup_check")
    BY <2>1, <2>3 DEF Undecided, Deciding, TypeOK, Goto
  <2> QED BY <1>49, <2>2, <2>3 DEF HangupAsk
<1>50. ASSUME NEW c \in Clients, NEW s \in Sids, ForceEnd(c, s) PROVE Undecided'
  BY <1>50, DecidingHolds, SMTT(60) DEF TypeOK, Undecided, Deciding, ForceEnd, Goto, ActionFor
<1>51. CASE UNCHANGED vars
  BY <1>51 DEF vars, TypeOK, Undecided, Deciding
<1> QED
  BY <1>1, <1>2, <1>3, <1>6, <1>9, <1>10, <1>12, <1>13, <1>14, <1>15, <1>17, <1>18, <1>19, <1>22,
      <1>25, <1>26, <1>28, <1>29, <1>31, <1>32, <1>33, <1>34, <1>35, <1>36, <1>37, <1>38, <1>39,
      <1>40, <1>41, <1>43, <1>44, <1>45, <1>46, <1>47, <1>49, <1>50, <1>51 DEF Next, FarEnd,
      InviteRuns, TimerRuns, CancelRuns, ClientStarts, ClientRuns

(* A call rings only while its transaction is stored. *)
LEMMA RingsStoredStep ==
  ASSUME TypeOK, TerminalMutex, Targeted, ~Faults, RingsStored, [Next]_vars
  PROVE  RingsStored'
<1> USE NameAssumption DEF Procs, System, Sids, sessVars, apiVars, sipVars, ctlVars, histVars
<1>1. CASE InviteArrives \/ CallerCancels
  BY <1>1 DEF TypeOK, RingsStored, Goto, SetState, InviteArrives, CallerCancels
<1>3. CASE CallerAcks
  BY <1>3, ActivateEffect DEF TypeOK, RingsStored, CallerAcks
<1>4. CASE CallerByes
  BY <1>4, EndEffect DEF TypeOK, RingsStored, CallerByes, Goto
<1>5. CASE Admit \/ Presented \/ Refuse
  BY <1>5 DEF TypeOK, RingsStored, Goto, Admit, Presented, Refuse
<1>8. CASE RefuseBegin
  BY <1>8 DEF TypeOK, RingsStored, RefuseBegin, CanBegin, Goto
<1>9. CASE RefuseSend
  BY <1>9, RejectFinal DEF TypeOK, RingsStored, RefuseSend, Goto, TerminalMutex, Holding, OnInc,
      OnTgt
<1>10. CASE RefuseDelete
  BY <1>10, DeleteEffect DEF TypeOK, RingsStored, RefuseDelete, Goto
<1>11. CASE TimerCheck \/ TimerBegin \/ TimerFanout
  BY <1>11 DEF TypeOK, RingsStored, Goto, CanBeginIncoming, TimerCheck, TimerBegin, TimerFanout
<1>14. CASE TimerSend
  BY <1>14, RejectFinal DEF TypeOK, RingsStored, TimerSend, Goto, TerminalMutex, Holding, OnInc,
      OnTgt
<1>15. CASE TimerDelete
  BY <1>15, DeleteEffect DEF TypeOK, RingsStored, TimerDelete, Goto
<1>16. CASE CancelCheck \/ CancelBegin \/ Cancel487
  BY <1>16 DEF TypeOK, RingsStored, Goto, Return, CanBeginIncoming, Respond, CancelCheck,
      CancelBegin, Cancel487
<1>19. CASE CancelFanout
  BY <1>19 DEF TypeOK, RingsStored, CancelFanout, Goto
<1>20. CASE CancelEnd
  BY <1>20, EndEffect DEF TypeOK, RingsStored, CancelEnd, Goto, Return
<1>21. CASE ByeDelete
  BY <1>21, DeleteEffect DEF TypeOK, RingsStored, ByeDelete, Goto, Return
<1>22. ASSUME NEW c \in Clients, Present(c) \/ Connect(c) \/ Offer(c) PROVE RingsStored'
  BY <1>22 DEF TypeOK, RingsStored, CanBeginIncoming, Goto, CanClaim, Present, Connect, Offer
<1>25. ASSUME NEW c \in Clients, AcceptAsk(c) \/ RejectAsk(c) \/ Disconnect(c) PROVE RingsStored'
  BY <1>25 DEF TypeOK, RingsStored, ClaimedByOther, Goto, AcceptAsk, RejectAsk, Disconnect
<1>28. ASSUME NEW c \in Clients, Replay(c) \/ Offered(c) \/ AcceptCheck(c) PROVE RingsStored'
  BY <1>28 DEF TypeOK, RingsStored, CanBeginIncoming, Goto, SetState, Replay, Offered, AcceptCheck
<1>31. ASSUME NEW c \in Clients, AcceptBegin(c) \/ AcceptLost(c) PROVE RingsStored'
  BY <1>31 DEF TypeOK, RingsStored, CanBegin, ClaimedByOther, Goto, Return, AcceptBegin,
      AcceptLost
<1>33. ASSUME NEW c \in Clients, AcceptClaim(c) PROVE RingsStored'
  BY <1>33 DEF TypeOK, RingsStored, AcceptClaim, ClearTerminalAction, CanClaim, Goto, Return
<1>34. ASSUME NEW c \in Clients, AcceptTransfer(c) \/ Accept200(c) PROVE RingsStored'
  BY <1>34 DEF TypeOK, RingsStored, Goto, Respond, AcceptTransfer, Accept200
<1>36. ASSUME NEW c \in Clients, AcceptActive(c) PROVE RingsStored'
  BY <1>36, ActivateEffect DEF TypeOK, RingsStored, AcceptActive, Goto, TerminalMutex, Holding,
      OnInc, OnTgt
<1>37. ASSUME NEW c \in Clients, AcceptFinish(c) PROVE RingsStored'
  BY <1>37, DeleteEffect DEF TypeOK, RingsStored, AcceptFinish, ClearTerminalAction, Goto
<1>38. ASSUME NEW c \in Clients, AcceptFanout(c) \/ RejectBegin(c) PROVE RingsStored'
  BY <1>38 DEF TypeOK, RingsStored, Goto, Return, CanBeginIncoming, AcceptFanout, RejectBegin
<1>40. ASSUME NEW c \in Clients, RejectSend(c) PROVE RingsStored'
  BY <1>40, RejectSendFinal DEF TypeOK, RingsStored, TerminalMutex, Targeted,
      Holding, OnInc, OnTgt
<1>41. ASSUME NEW c \in Clients, RejectEnd(c) \/ HangupCheck(c) \/ EndBegin(c) PROVE RingsStored'
  BY <1>41 DEF TypeOK, RingsStored, Goto, SetState, ActionFor, CanBegin, Return, EndReturn,
      RejectEnd, HangupCheck, EndBegin
<1>44. ASSUME NEW c \in Clients, EndSend(c) PROVE RingsStored'
  BY <1>44, EndSendFinal DEF TypeOK, RingsStored, TerminalMutex, Targeted,
      Holding, OnInc, OnTgt
<1>45. ASSUME NEW c \in Clients, EndBye(c) PROVE RingsStored'
  BY <1>45, EndEffect DEF TypeOK, RingsStored, EndBye, Goto
<1>46. ASSUME NEW c \in Clients, EndDelete(c) PROVE RingsStored'
  BY <1>46, DeleteEffect DEF TypeOK, RingsStored, EndDelete, Goto, Return, EndReturn
<1>47. ASSUME NEW c \in Clients, Sweep(c) \/ Swept(c) PROVE RingsStored'
  BY <1>47 DEF TypeOK, RingsStored, Goto, Sweep, Swept
<1>49. ASSUME NEW c \in Clients, NEW s \in Sids, HangupAsk(c, s) \/ ForceEnd(c, s)
      PROVE  RingsStored'
  BY <1>49 DEF TypeOK, RingsStored, ClaimedByOther, Goto, ActionFor, HangupAsk, ForceEnd
<1>51. CASE UNCHANGED vars
  BY <1>51 DEF vars, TypeOK, RingsStored
<1> QED
  BY <1>1, <1>3, <1>4, <1>5, <1>8, <1>9, <1>10, <1>11, <1>14, <1>15, <1>16, <1>19, <1>20, <1>21,
      <1>22, <1>25, <1>28, <1>31, <1>33, <1>34, <1>36, <1>37, <1>38, <1>40, <1>41, <1>44, <1>45,
      <1>46, <1>47, <1>49, <1>51 DEF Next, FarEnd, InviteRuns, TimerRuns, CancelRuns,
      ClientStarts, ClientRuns

(* Whoever gives up working on the call gives the guard back, or the session is gone. *)
LEMMA HolderWorksStep ==
  ASSUME TypeOK, TerminalMutex, Targeted, ~Faults, TimerOnce, BeforeInvite, RingsStored,
         HolderWorks, [Next]_vars
  PROVE  HolderWorks'
<1> USE NameAssumption DEF Procs, System, Sids, sessVars, apiVars, sipVars, ctlVars, histVars
<1>1. CASE InviteArrives
  BY <1>1 DEF TypeOK, HolderWorks, Holding, OnInc, OnTgt, InviteArrives, Goto, SetState,
      BeforeInvite
<1>2. CASE CallerCancels \/ CallerAcks \/ CallerByes
  BY <1>2 DEF TypeOK, HolderWorks, Holding, OnInc, OnTgt, Goto, CallerCancels, CallerAcks,
      CallerByes
<1>5. CASE Admit \/ Presented \/ Refuse
  BY <1>5 DEF TypeOK, HolderWorks, Holding, OnInc, OnTgt, Goto, TimerOnce, Admit, Presented,
      Refuse
<1>8. CASE RefuseBegin
  BY <1>8 DEF TypeOK, HolderWorks, Holding, OnInc, OnTgt, RefuseBegin, CanBegin, Goto
<1>9. CASE RefuseSend
  BY <1>9, RejectFinal DEF TypeOK, HolderWorks, Holding, OnInc, OnTgt, RefuseSend, Goto
<1>10. CASE RefuseDelete
  BY <1>10, DeleteEffect DEF TypeOK, HolderWorks, Holding, OnInc, OnTgt, RefuseDelete, Goto
<1>11. CASE TimerCheck
  BY <1>11 DEF TypeOK, HolderWorks, Holding, OnInc, OnTgt, TimerCheck, Goto
<1>12. CASE TimerBegin
  BY <1>12 DEF TypeOK, HolderWorks, Holding, OnInc, OnTgt, TimerBegin, CanBeginIncoming, Goto
<1>13. CASE TimerFanout
  BY <1>13 DEF TypeOK, HolderWorks, Holding, OnInc, OnTgt, TimerFanout, Goto
<1>14. CASE TimerSend
  BY <1>14, RejectFinal DEF TypeOK, HolderWorks, Holding, OnInc, OnTgt, TimerSend, Goto
<1>15. CASE TimerDelete
  BY <1>15, DeleteEffect DEF TypeOK, HolderWorks, Holding, OnInc, OnTgt, TimerDelete, Goto
<1>16. CASE CancelCheck
  BY <1>16 DEF TypeOK, HolderWorks, Holding, OnInc, OnTgt, CancelCheck, Goto, Return
<1>17. CASE CancelBegin
  BY <1>17 DEF TypeOK, HolderWorks, Holding, OnInc, OnTgt, CancelBegin, CanBeginIncoming, Goto,
      Return
<1>18. CASE Cancel487 \/ CancelFanout \/ CancelEnd
  BY <1>18 DEF TypeOK, HolderWorks, Holding, OnInc, OnTgt, Goto, Respond, Return, Cancel487,
      CancelFanout, CancelEnd
<1>21. CASE ByeDelete
  BY <1>21, DeleteEffect DEF TypeOK, HolderWorks, Holding, OnInc, OnTgt, ByeDelete, Goto, Return
<1>22. ASSUME NEW c \in Clients, Present(c) \/ Connect(c) \/ Offer(c) PROVE HolderWorks'
  BY <1>22 DEF TypeOK, HolderWorks, Holding, OnInc, OnTgt, CanBeginIncoming, Goto, CanClaim,
      Present, Connect, Offer
<1>25. ASSUME NEW c \in Clients, AcceptAsk(c) PROVE HolderWorks'
  BY <1>25 DEF TypeOK, HolderWorks, Holding, OnInc, OnTgt, AcceptAsk, ClaimedByOther, Goto
<1>26. ASSUME NEW c \in Clients, RejectAsk(c) \/ Disconnect(c) PROVE HolderWorks'
  BY <1>26 DEF TypeOK, HolderWorks, Holding, OnInc, OnTgt, Goto, RejectAsk, Disconnect
<1>28. ASSUME NEW c \in Clients, Replay(c) PROVE HolderWorks'
  BY <1>28 DEF TypeOK, HolderWorks, Holding, OnInc, OnTgt, Replay, CanBeginIncoming, Goto
<1>29. ASSUME NEW c \in Clients, Offered(c) \/ AcceptCheck(c) PROVE HolderWorks'
  BY <1>29 DEF TypeOK, HolderWorks, Holding, OnInc, OnTgt, Goto, SetState, Offered, AcceptCheck
<1>31. ASSUME NEW c \in Clients, AcceptBegin(c) PROVE HolderWorks'
  BY <1>31 DEF TypeOK, HolderWorks, Holding, OnInc, OnTgt, AcceptBegin, CanBegin,
      ClaimedByOther, Goto, Return
<1>32. ASSUME NEW c \in Clients, AcceptLost(c) PROVE HolderWorks'
  BY <1>32 DEF TypeOK, HolderWorks, Holding, OnInc, OnTgt, AcceptLost, Goto, Return
<1>33. ASSUME NEW c \in Clients, AcceptClaim(c) PROVE HolderWorks'
  BY <1>33 DEF TypeOK, HolderWorks, Holding, OnInc, OnTgt, AcceptClaim, ClearTerminalAction,
      CanClaim, Goto, Return
<1>34. ASSUME NEW c \in Clients, AcceptTransfer(c) \/ Accept200(c) \/ AcceptActive(c)
      PROVE  HolderWorks'
  BY <1>34 DEF TypeOK, HolderWorks, Holding, OnInc, OnTgt, Goto, Respond, AcceptTransfer,
      Accept200, AcceptActive
<1>37. ASSUME NEW c \in Clients, AcceptFinish(c) PROVE HolderWorks'
  BY <1>37, DeleteEffect DEF TypeOK, HolderWorks, Holding, OnInc, OnTgt, AcceptFinish,
      ClearTerminalAction, Goto
<1>38. ASSUME NEW c \in Clients, AcceptFanout(c) PROVE HolderWorks'
  BY <1>38 DEF TypeOK, HolderWorks, Holding, OnInc, OnTgt, AcceptFanout, Goto, Return
<1>39. ASSUME NEW c \in Clients, RejectBegin(c) PROVE HolderWorks'
  BY <1>39 DEF TypeOK, HolderWorks, Holding, OnInc, OnTgt, RejectBegin, CanBeginIncoming, Goto
<1>40. ASSUME NEW c \in Clients, RejectSend(c) PROVE HolderWorks'
  BY <1>40, RejectSendFinal DEF TypeOK, HolderWorks, Holding, OnInc, OnTgt, RingsStored
<1>41. ASSUME NEW c \in Clients, RejectEnd(c) \/ HangupCheck(c) PROVE HolderWorks'
  BY <1>41 DEF TypeOK, HolderWorks, Holding, OnInc, OnTgt, Goto, SetState, ActionFor, RejectEnd,
      HangupCheck
<1>43. ASSUME NEW c \in Clients, EndBegin(c) PROVE HolderWorks'
  BY <1>43 DEF TypeOK, HolderWorks, Holding, OnInc, OnTgt, EndBegin, CanBegin, Goto, Return,
      EndReturn
<1>44. ASSUME NEW c \in Clients, EndSend(c) PROVE HolderWorks'
  BY <1>44, EndSendFinal DEF TypeOK, HolderWorks, Holding, OnInc, OnTgt, RingsStored
<1>45. ASSUME NEW c \in Clients, EndBye(c) PROVE HolderWorks'
  BY <1>45 DEF TypeOK, HolderWorks, Holding, OnInc, OnTgt, EndBye, Goto
<1>46. ASSUME NEW c \in Clients, EndDelete(c) PROVE HolderWorks'
  BY <1>46, DeleteEffect DEF TypeOK, HolderWorks, Holding, OnInc, OnTgt, EndDelete, Goto,
      Return, EndReturn
<1>47. ASSUME NEW c \in Clients, Sweep(c) \/ Swept(c) PROVE HolderWorks'
  BY <1>47 DEF TypeOK, HolderWorks, Holding, OnInc, OnTgt, Goto, Sweep, Swept
<1>49. ASSUME NEW c \in Clients, NEW s \in Sids, HangupAsk(c, s) PROVE HolderWorks'
  BY <1>49 DEF TypeOK, HolderWorks, Holding, OnInc, OnTgt, HangupAsk, ClaimedByOther, Goto
<1>50. ASSUME NEW c \in Clients, NEW s \in Sids, ForceEnd(c, s) PROVE HolderWorks'
  BY <1>50 DEF TypeOK, HolderWorks, Holding, OnInc, OnTgt, ForceEnd, Goto, ActionFor
<1>51. CASE UNCHANGED vars
  BY <1>51 DEF vars, TypeOK, HolderWorks, Holding, OnInc, OnTgt
<1> QED
  BY <1>1, <1>2, <1>5, <1>8, <1>9, <1>10, <1>11, <1>12, <1>13, <1>14, <1>15, <1>16, <1>17, <1>18,
      <1>21, <1>22, <1>25, <1>26, <1>28, <1>29, <1>31, <1>32, <1>33, <1>34, <1>37, <1>38, <1>39,
      <1>40, <1>41, <1>43, <1>44, <1>45, <1>46, <1>47, <1>49, <1>50, <1>51 DEF Next, FarEnd,
      InviteRuns, TimerRuns, CancelRuns, ClientStarts, ClientRuns

(* A response is sent only by somebody who may, while nobody has answered. *)
LEMMA OneFinalStep ==
  ASSUME TypeOK, Targeted, ~Faults, Undecided, OneFinalResponse, [Next]_vars
  PROVE  OneFinalResponse'
<1> USE NameAssumption DEF Procs, System, Sids, sessVars, apiVars, sipVars, ctlVars, histVars
<1>1. CASE InviteArrives \/ CallerCancels \/ CallerAcks
  BY <1>1 DEF TypeOK, OneFinalResponse, Goto, SetState, InviteArrives, CallerCancels, CallerAcks
<1>4. CASE CallerByes \/ Admit \/ Presented
  BY <1>4 DEF TypeOK, OneFinalResponse, Goto, CallerByes, Admit, Presented
<1>7. CASE Refuse \/ RefuseBegin
  BY <1>7 DEF TypeOK, OneFinalResponse, Goto, CanBegin, Refuse, RefuseBegin
<1>9. CASE RefuseSend
  BY <1>9, RejectFinal DEF TypeOK, OneFinalResponse, RefuseSend, Goto, Undecided, Deciding
<1>10. CASE RefuseDelete \/ TimerCheck \/ TimerBegin
  BY <1>10 DEF TypeOK, OneFinalResponse, Goto, CanBeginIncoming, RefuseDelete, TimerCheck,
      TimerBegin
<1>13. CASE TimerFanout
  BY <1>13 DEF TypeOK, OneFinalResponse, TimerFanout, Goto
<1>14. CASE TimerSend
  BY <1>14, RejectFinal DEF TypeOK, OneFinalResponse, TimerSend, Goto, Undecided, Deciding
<1>15. CASE TimerDelete \/ CancelCheck \/ CancelBegin
  BY <1>15 DEF TypeOK, OneFinalResponse, Goto, Return, CanBeginIncoming, TimerDelete, CancelCheck,
      CancelBegin
<1>18. CASE Cancel487
  <2>1. pc[CancelP] = "cxl_487" /\ tgt[CancelP] = Inc BY <1>18 DEF Cancel487, Targeted
  <2>2. Inc \in invite => finals = 0 BY <2>1 DEF Undecided, Deciding
  <2> QED BY <2>1, <2>2, <1>18 DEF Cancel487, Respond, OneFinalResponse
<1>19. CASE CancelFanout \/ CancelEnd \/ ByeDelete
  BY <1>19 DEF TypeOK, OneFinalResponse, Goto, Return, CancelFanout, CancelEnd, ByeDelete
<1>22. ASSUME NEW c \in Clients, Present(c) \/ Connect(c) \/ Offer(c) PROVE OneFinalResponse'
  BY <1>22 DEF TypeOK, OneFinalResponse, CanBeginIncoming, Goto, CanClaim, Present, Connect, Offer
<1>25. ASSUME NEW c \in Clients, AcceptAsk(c) \/ RejectAsk(c) \/ Disconnect(c)
      PROVE  OneFinalResponse'
  BY <1>25 DEF TypeOK, OneFinalResponse, ClaimedByOther, Goto, AcceptAsk, RejectAsk, Disconnect
<1>28. ASSUME NEW c \in Clients, Replay(c) \/ Offered(c) \/ AcceptCheck(c) PROVE OneFinalResponse'
  BY <1>28 DEF TypeOK, OneFinalResponse, CanBeginIncoming, Goto, SetState, Replay, Offered,
      AcceptCheck
<1>31. ASSUME NEW c \in Clients, AcceptBegin(c) PROVE OneFinalResponse'
  BY <1>31 DEF TypeOK, OneFinalResponse, AcceptBegin, CanBegin, ClaimedByOther, Goto, Return
<1>32. ASSUME NEW c \in Clients, AcceptLost(c) PROVE OneFinalResponse'
  BY <1>32 DEF TypeOK, OneFinalResponse, AcceptLost, Goto, Return
<1>33. ASSUME NEW c \in Clients, AcceptClaim(c) PROVE OneFinalResponse'
  BY <1>33 DEF TypeOK, OneFinalResponse, AcceptClaim, ClearTerminalAction, CanClaim, Goto,
      Return
<1>34. ASSUME NEW c \in Clients, AcceptTransfer(c) PROVE OneFinalResponse'
  BY <1>34 DEF TypeOK, OneFinalResponse, AcceptTransfer, Goto
<1>35. ASSUME NEW c \in Clients, Accept200(c) PROVE OneFinalResponse'
  <2>1. tgt[c] \in invite => finals = 0 BY <1>35 DEF Accept200, Undecided, Deciding
  <2> QED BY <2>1, <1>35 DEF Accept200, Respond, OneFinalResponse
<1>36. ASSUME NEW c \in Clients, AcceptActive(c) \/ AcceptFinish(c) \/ AcceptFanout(c)
      PROVE  OneFinalResponse'
  BY <1>36 DEF TypeOK, OneFinalResponse, Goto, ClearTerminalAction, Return, AcceptActive,
      AcceptFinish, AcceptFanout
<1>39. ASSUME NEW c \in Clients, RejectBegin(c) PROVE OneFinalResponse'
  BY <1>39 DEF TypeOK, OneFinalResponse, RejectBegin, CanBeginIncoming, Goto
<1>40. ASSUME NEW c \in Clients, RejectSend(c) PROVE OneFinalResponse'
  <2>1. Inc \in invite => finals = 0 BY <1>40, RejectSendFinal DEF Undecided, Deciding
  <2> QED BY <2>1, <1>40, RejectSendFinal DEF TypeOK, OneFinalResponse
<1>41. ASSUME NEW c \in Clients, RejectEnd(c) \/ HangupCheck(c) \/ EndBegin(c)
      PROVE  OneFinalResponse'
  BY <1>41 DEF TypeOK, OneFinalResponse, Goto, SetState, ActionFor, CanBegin, Return, EndReturn,
      RejectEnd, HangupCheck, EndBegin
<1>44. ASSUME NEW c \in Clients, EndSend(c) PROVE OneFinalResponse'
  <2>1. act[c] = "reject" => tgt[c] = Inc BY DEF Targeted
  <2>2. act[c] = "reject" /\ tgt[c] \in invite => finals = 0
    BY <2>1, <1>44, EndSendFinal DEF Undecided, Deciding, Procs
  <2> QED BY <2>2, <1>44, EndSendFinal DEF TypeOK, OneFinalResponse
<1>45. ASSUME NEW c \in Clients, EndBye(c) \/ EndDelete(c) \/ Sweep(c) PROVE OneFinalResponse'
  BY <1>45 DEF TypeOK, OneFinalResponse, Goto, Return, EndReturn, EndBye, EndDelete, Sweep
<1>48. ASSUME NEW c \in Clients, Swept(c) PROVE OneFinalResponse'
  BY <1>48 DEF TypeOK, OneFinalResponse, Swept, Goto
<1>49. ASSUME NEW c \in Clients, NEW s \in Sids, HangupAsk(c, s) \/ ForceEnd(c, s)
      PROVE  OneFinalResponse'
  BY <1>49 DEF TypeOK, OneFinalResponse, ClaimedByOther, Goto, ActionFor, HangupAsk, ForceEnd
<1>51. CASE UNCHANGED vars
  BY <1>51 DEF vars, TypeOK, OneFinalResponse
<1> QED
  BY <1>1, <1>4, <1>7, <1>9, <1>10, <1>13, <1>14, <1>15, <1>18, <1>19, <1>22, <1>25, <1>28, <1>31,
      <1>32, <1>33, <1>34, <1>35, <1>36, <1>39, <1>40, <1>41, <1>44, <1>45, <1>48, <1>49, <1>51 DEF
      Next, FarEnd, InviteRuns, TimerRuns, CancelRuns, ClientStarts, ClientRuns

(* While every write succeeds, both parts hold throughout. *)
LEMMA FinalInvariance == ~Faults => (Spec => [](FinalInv /\ GuardInv))
<1> SUFFICES ASSUME ~Faults PROVE Spec => [](FinalInv /\ GuardInv)
  OBVIOUS
<1>1. Init => FinalInv /\ GuardInv
  BY ClientAssumption, NameAssumption DEF Init, FinalInv, BeforeInvite, Undecided, Deciding,
      OneFinalResponse, GuardInv, RingsStored, HolderWorks, Procs, System, Sids
<1>2. ASSUME IInv, RingInv, FinalInv, GuardInv, [Next]_vars PROVE FinalInv' /\ GuardInv'
  <2>1. TypeOK /\ TerminalMutex /\ Targeted /\ InviteOnce /\ TimerOnce
    BY <1>2 DEF IInv, RingInv
  <2>2. /\ BeforeInvite /\ Undecided /\ OneFinalResponse
        /\ RingsStored /\ HolderWorks
    BY <1>2 DEF FinalInv, GuardInv
  <2>3. BeforeInvite' BY <1>2, <2>1, <2>2, BeforeInviteStep
  <2>4. Undecided' BY <1>2, <2>1, <2>2, UndecidedStep
  <2>5. OneFinalResponse' BY <1>2, <2>1, <2>2, OneFinalStep
  <2>6. RingsStored' BY <1>2, <2>1, <2>2, RingsStoredStep
  <2>7. HolderWorks' BY <1>2, <2>1, <2>2, HolderWorksStep
  <2> QED BY <2>3, <2>4, <2>5, <2>6, <2>7 DEF FinalInv, GuardInv
<1> QED BY <1>1, <1>2, Invariance, RingInvariance, PTL DEF Spec

(* While every write of a response succeeds, the handlers give the INVITE one
   final response, whatever they race with. *)
THEOREM OneFinal == ~Faults => (Spec => []OneFinalResponse)
<1>1. FinalInv => OneFinalResponse BY DEF FinalInv
<1> QED BY <1>1, FinalInvariance, PTL

(* While every write succeeds, a guard still held when every goroutine is done
   belongs to a session that is gone. *)
THEOREM GuardsReturn == ~Faults => (Spec => []NoGuardLeak)
<1>1. IInv /\ GuardInv => NoGuardLeak
  <2> SUFFICES ASSUME IInv, GuardInv, Quiescent, term[Inc] # None PROVE Inc \notin mgr
    BY DEF NoGuardLeak
  <2>1. term[Inc] \in Procs BY DEF IInv, TypeOK, Sids
  <2>2. ~Holding(term[Inc]) BY <2>1 DEF Quiescent, Holding, OnInc, OnTgt
  <2> QED BY <2>2 DEF GuardInv, HolderWorks
<1> QED BY <1>1, Invariance, FinalInvariance, PTL
-----------------------------------------------------------------------------
(* Why a loser's hangup spares the call, when every client is an agent *)

(* Unbinding a client takes sessions away; its current one is a session it had
   before. *)
OwnsLess ==
  \A d \in Clients : owned'[d] \subseteq owned[d] /\ cur'[d] \in {cur[d], None} \cup owned[d]

LEMMA UnbindOwns ==
  ASSUME TypeOK, NEW c \in Clients, NEW s, Unbind(c, s) PROVE OwnsLess
<1> DEFINE rest == owned[c] \ {s}
<1>1. PICK t \in IF cur[c] # s THEN {cur[c]} ELSE IF rest # {} THEN rest ELSE {None} :
        cur' = [cur EXCEPT ![c] = t]
  BY DEF Unbind
<1>2. t \in {cur[c], None} \cup owned[c] BY <1>1
<1>3. owned' = [owned EXCEPT ![c] = rest] BY DEF Unbind
<1> QED BY <1>1, <1>2, <1>3 DEF OwnsLess, TypeOK

(* So does the notification about an ended session, ... *)
LEMMA EndOwns ==
  ASSUME TypeOK, NEW s \in Sids, EndAndNotify(s) PROVE OwnsLess
<1>1. CASE UNCHANGED <<owned, pending, cur, bound, ui>> BY <1>1 DEF OwnsLess
<1>2. ASSUME NEW c \in Targets(s), Unbind(c, s) PROVE OwnsLess
  <2>1. c \in Clients BY <1>2 DEF Targets, TypeOK
  <2> QED BY <1>2, <2>1, UnbindOwns
<1> QED BY <1>1, <1>2 DEF EndAndNotify

(* ... and a refusal. *)
LEMMA RejectOwns ==
  ASSUME TypeOK, NEW s \in Sids, RejectCall(s) PROVE OwnsLess
BY EndOwns DEF RejectCall, RejectFails, RejectSent, OwnsLess

(* An agent owns its own session and the call at most. *)
LEMMA OwnSessionsStep ==
  ASSUME TypeOK, Targeted, Agents = Clients, OwnSessions, OwnTargets, [Next]_vars
  PROVE  OwnSessions'
<1> USE NameAssumption DEF Procs, System, Sids, sessVars, apiVars, sipVars, ctlVars, histVars
<1>1. CASE InviteArrives \/ CallerCancels \/ CallerAcks
  BY <1>1 DEF TypeOK, OwnSessions, Goto, SetState, InviteArrives, CallerCancels, CallerAcks
<1>4. CASE CallerByes
  BY <1>4, EndOwns, SMTT(40) DEF TypeOK, OwnSessions, CallerByes, Goto, OwnsLess, Targeted, OnTgt, Ending
<1>5. CASE Admit \/ Presented \/ Refuse
  BY <1>5 DEF TypeOK, OwnSessions, Goto, Admit, Presented, Refuse
<1>8. CASE RefuseBegin
  BY <1>8 DEF TypeOK, OwnSessions, RefuseBegin, CanBegin, Goto
<1>9. CASE RefuseSend
  BY <1>9, RejectOwns, SMTT(40) DEF TypeOK, OwnSessions, RefuseSend, Goto, OwnsLess, Targeted, OnTgt,
      Ending
<1>10. CASE RefuseDelete \/ TimerCheck \/ TimerBegin
  BY <1>10 DEF TypeOK, OwnSessions, Goto, CanBeginIncoming, RefuseDelete, TimerCheck, TimerBegin
<1>13. CASE TimerFanout
  BY <1>13 DEF TypeOK, OwnSessions, TimerFanout, Goto
<1>14. CASE TimerSend
  BY <1>14, RejectOwns DEF TypeOK, OwnSessions, TimerSend, Goto, OwnsLess, Targeted, OnTgt,
      Ending
<1>15. CASE TimerDelete \/ CancelCheck \/ CancelBegin
  BY <1>15 DEF TypeOK, OwnSessions, Goto, Return, CanBeginIncoming, TimerDelete, CancelCheck,
      CancelBegin
<1>18. CASE Cancel487 \/ CancelFanout
  BY <1>18 DEF TypeOK, OwnSessions, Goto, Respond, Cancel487, CancelFanout
<1>20. CASE CancelEnd
  BY <1>20, EndOwns DEF TypeOK, OwnSessions, CancelEnd, Goto, Return, OwnsLess, Targeted, OnTgt,
      Ending
<1>21. CASE ByeDelete
  BY <1>21 DEF TypeOK, OwnSessions, ByeDelete, Goto, Return
<1>22. ASSUME NEW c \in Clients, Present(c) \/ Connect(c) \/ Offer(c) PROVE OwnSessions'
  BY <1>22 DEF TypeOK, OwnSessions, CanBeginIncoming, Goto, CanClaim, Bind, Present, Connect,
      Offer
<1>25. ASSUME NEW c \in Clients, AcceptAsk(c) \/ RejectAsk(c) \/ Disconnect(c) PROVE OwnSessions'
  BY <1>25 DEF TypeOK, OwnSessions, ClaimedByOther, Goto, AcceptAsk, RejectAsk, Disconnect
<1>28. ASSUME NEW c \in Clients, Replay(c) \/ Offered(c) \/ AcceptCheck(c) PROVE OwnSessions'
  BY <1>28 DEF TypeOK, OwnSessions, CanBeginIncoming, Goto, SetState, Replay, Offered, AcceptCheck
<1>31. ASSUME NEW c \in Clients, AcceptBegin(c) \/ AcceptLost(c) PROVE OwnSessions'
  BY <1>31 DEF TypeOK, OwnSessions, CanBegin, ClaimedByOther, Goto, Return, AcceptBegin,
      AcceptLost
<1>33. ASSUME NEW c \in Clients, AcceptClaim(c) PROVE OwnSessions'
  BY <1>33 DEF TypeOK, OwnSessions, AcceptClaim, ClearTerminalAction, CanClaim, Goto, Return
<1>34. ASSUME NEW c \in Clients, AcceptTransfer(c) PROVE OwnSessions'
  BY <1>34 DEF TypeOK, OwnSessions, AcceptTransfer, Goto, Bind, OwnTargets, Ending, Targeted,
      Accepting
<1>35. ASSUME NEW c \in Clients, Accept200(c) \/ AcceptActive(c) \/ AcceptFinish(c)
      PROVE  OwnSessions'
  BY <1>35 DEF TypeOK, OwnSessions, Goto, Respond, ClearTerminalAction, Accept200, AcceptActive,
      AcceptFinish
<1>38. ASSUME NEW c \in Clients, AcceptFanout(c) \/ RejectBegin(c) PROVE OwnSessions'
  BY <1>38 DEF TypeOK, OwnSessions, Goto, Return, CanBeginIncoming, AcceptFanout, RejectBegin
<1>40. ASSUME NEW c \in Clients, RejectSend(c) PROVE OwnSessions'
  BY <1>40, RejectOwns DEF TypeOK, OwnSessions, RejectSend, Goto, RejectFails, OwnsLess,
      RejectCall
<1>41. ASSUME NEW c \in Clients, RejectEnd(c) \/ HangupCheck(c) \/ EndBegin(c) PROVE OwnSessions'
  BY <1>41 DEF TypeOK, OwnSessions, Goto, SetState, ActionFor, CanBegin, Return, EndReturn,
      RejectEnd, HangupCheck, EndBegin
<1>44. ASSUME NEW c \in Clients, EndSend(c) PROVE OwnSessions'
  BY <1>44, EndOwns, RejectOwns DEF TypeOK, OwnSessions, EndSend, Goto, SetState, OwnsLess,
      Targeted, OnTgt, Ending
<1>45. ASSUME NEW c \in Clients, EndBye(c) PROVE OwnSessions'
  BY <1>45, EndOwns DEF TypeOK, OwnSessions, EndBye, Goto, OwnsLess, Targeted, OnTgt, Ending
<1>46. ASSUME NEW c \in Clients, EndDelete(c) PROVE OwnSessions'
  BY <1>46, UnbindOwns DEF TypeOK, OwnSessions, EndDelete, Goto, Return, EndReturn, OwnsLess,
      Targeted, OnTgt, Ending
<1>47. ASSUME NEW c \in Clients, Sweep(c) \/ Swept(c) PROVE OwnSessions'
  BY <1>47 DEF TypeOK, OwnSessions, Goto, Sweep, Swept
<1>49. ASSUME NEW c \in Clients, NEW s \in Sids, HangupAsk(c, s) \/ ForceEnd(c, s)
      PROVE  OwnSessions'
  BY <1>49 DEF TypeOK, OwnSessions, ClaimedByOther, Goto, ActionFor, HangupAsk, ForceEnd
<1>51. CASE UNCHANGED vars
  BY <1>51 DEF vars, TypeOK, OwnSessions
<1> QED
  BY <1>1, <1>4, <1>5, <1>8, <1>9, <1>10, <1>13, <1>14, <1>15, <1>18, <1>20, <1>21, <1>22, <1>25,
      <1>28, <1>31, <1>33, <1>34, <1>35, <1>38, <1>40, <1>41, <1>44, <1>45, <1>46, <1>47, <1>49,
      <1>51 DEF Next, FarEnd, InviteRuns, TimerRuns, CancelRuns, ClientStarts, ClientRuns

(* An agent works on its own session or on the call, unless its socket closed. *)
LEMMA OwnTargetsStep ==
  ASSUME TypeOK, Agents = Clients, OwnSessions, OwnTargets, [Next]_vars
  PROVE  OwnTargets'
<1> USE NameAssumption DEF Procs, System, Sids, sessVars, apiVars, sipVars, ctlVars, histVars
<1>1. CASE InviteArrives \/ CallerCancels \/ CallerAcks
  BY <1>1 DEF TypeOK, OwnTargets, Goto, SetState, InviteArrives, CallerCancels, CallerAcks
<1>4. CASE CallerByes \/ Admit \/ Presented
  BY <1>4 DEF TypeOK, OwnTargets, Goto, CallerByes, Admit, Presented
<1>7. CASE Refuse \/ RefuseBegin \/ RefuseSend
  BY <1>7 DEF TypeOK, OwnTargets, Goto, CanBegin, Refuse, RefuseBegin, RefuseSend
<1>10. CASE RefuseDelete \/ TimerCheck \/ TimerBegin
  BY <1>10 DEF TypeOK, OwnTargets, Goto, CanBeginIncoming, RefuseDelete, TimerCheck, TimerBegin
<1>13. CASE TimerFanout \/ TimerSend \/ TimerDelete
  BY <1>13 DEF TypeOK, OwnTargets, Goto, TimerFanout, TimerSend, TimerDelete
<1>16. CASE CancelCheck \/ CancelBegin \/ Cancel487
  BY <1>16 DEF TypeOK, OwnTargets, Goto, Return, CanBeginIncoming, Respond, CancelCheck,
      CancelBegin, Cancel487
<1>19. CASE CancelFanout \/ CancelEnd \/ ByeDelete
  BY <1>19 DEF TypeOK, OwnTargets, Goto, Return, CancelFanout, CancelEnd, ByeDelete
<1>22. ASSUME NEW c \in Clients, Present(c) \/ Connect(c) \/ Offer(c) PROVE OwnTargets'
  BY <1>22 DEF TypeOK, OwnTargets, CanBeginIncoming, Goto, Ending, CanClaim, Present, Connect,
      Offer
<1>25. ASSUME NEW c \in Clients, AcceptAsk(c) \/ RejectAsk(c) \/ Disconnect(c) PROVE OwnTargets'
  BY <1>25 DEF TypeOK, OwnTargets, ClaimedByOther, Goto, Ending, AcceptAsk, RejectAsk, Disconnect
<1>28. ASSUME NEW c \in Clients, Replay(c) \/ Offered(c) \/ AcceptCheck(c) PROVE OwnTargets'
  BY <1>28 DEF TypeOK, OwnTargets, CanBeginIncoming, Goto, Ending, SetState, OwnSessions, Replay,
      Offered, AcceptCheck
<1>31. ASSUME NEW c \in Clients, AcceptBegin(c) PROVE OwnTargets'
  BY <1>31 DEF TypeOK, OwnTargets, AcceptBegin, CanBegin, ClaimedByOther, Goto, Return, Ending
<1>32. ASSUME NEW c \in Clients, AcceptLost(c) PROVE OwnTargets'
  BY <1>32 DEF TypeOK, OwnTargets, AcceptLost, Goto, Return, Ending
<1>33. ASSUME NEW c \in Clients, AcceptClaim(c) PROVE OwnTargets'
  BY <1>33 DEF TypeOK, OwnTargets, AcceptClaim, ClearTerminalAction, CanClaim, Goto, Return,
      Ending
<1>34. ASSUME NEW c \in Clients, AcceptTransfer(c) \/ Accept200(c) \/ AcceptActive(c)
      PROVE  OwnTargets'
  BY <1>34 DEF TypeOK, OwnTargets, Goto, Ending, Respond, AcceptTransfer, Accept200, AcceptActive
<1>37. ASSUME NEW c \in Clients, AcceptFinish(c) \/ AcceptFanout(c) \/ RejectBegin(c)
      PROVE  OwnTargets'
  BY <1>37 DEF TypeOK, OwnTargets, ClearTerminalAction, Goto, Ending, Return, CanBeginIncoming,
      AcceptFinish, AcceptFanout, RejectBegin
<1>40. ASSUME NEW c \in Clients, RejectSend(c) \/ RejectEnd(c) \/ HangupCheck(c) PROVE OwnTargets'
  BY <1>40 DEF TypeOK, OwnTargets, Goto, RejectFails, Ending, SetState, ActionFor, RejectSend,
      RejectEnd, HangupCheck
<1>43. ASSUME NEW c \in Clients, EndBegin(c) \/ EndSend(c) \/ EndBye(c) PROVE OwnTargets'
  BY <1>43 DEF TypeOK, OwnTargets, CanBegin, Goto, Return, EndReturn, Ending, SetState, EndBegin,
      EndSend, EndBye
<1>46. ASSUME NEW c \in Clients, EndDelete(c) \/ Sweep(c) \/ Swept(c) PROVE OwnTargets'
  BY <1>46 DEF TypeOK, OwnTargets, Goto, Return, EndReturn, Ending, EndDelete, Sweep, Swept
<1>49. ASSUME NEW c \in Clients, NEW s \in Sids, HangupAsk(c, s) PROVE OwnTargets'
  BY <1>49 DEF TypeOK, OwnTargets, HangupAsk, ClaimedByOther, Goto, OwnSessions, MayHangup,
      Ending
<1>50. ASSUME NEW c \in Clients, NEW s \in Sids, ForceEnd(c, s) PROVE OwnTargets'
  BY <1>50 DEF TypeOK, OwnTargets, ForceEnd, Goto, ActionFor, Ending
<1>51. CASE UNCHANGED vars
  BY <1>51 DEF vars, TypeOK, OwnTargets
<1> QED
  BY <1>1, <1>4, <1>7, <1>10, <1>13, <1>16, <1>19, <1>22, <1>25, <1>28, <1>31, <1>32, <1>33,
      <1>34, <1>37, <1>40, <1>43, <1>46, <1>49, <1>50, <1>51 DEF Next, FarEnd, InviteRuns,
      TimerRuns, CancelRuns, ClientStarts, ClientRuns

(* Only the claimant answers, and only its session gets the call. *)
LEMMA ClaimantCarriesStep ==
  ASSUME TypeOK, ClaimHeld, Targeted, InviteOnce, OwnTargets, ClaimantCarries, [Next]_vars
  PROVE  ClaimantCarries'
<1> USE NameAssumption DEF Procs, System, Sids, sessVars, apiVars, sipVars, ctlVars, histVars
<1>1. CASE InviteArrives \/ CallerCancels \/ CallerAcks
  BY <1>1 DEF TypeOK, ClaimantCarries, Goto, SetState, InviteOnce, InviteArrives, CallerCancels,
      CallerAcks
<1>4. CASE CallerByes \/ Admit \/ Presented
  BY <1>4 DEF TypeOK, ClaimantCarries, Goto, CallerByes, Admit, Presented
<1>7. CASE Refuse \/ RefuseBegin
  BY <1>7 DEF TypeOK, ClaimantCarries, Goto, CanBegin, Refuse, RefuseBegin
<1>9. CASE RefuseSend
  BY <1>9, RejectEffect DEF TypeOK, ClaimantCarries, RefuseSend, Goto
<1>10. CASE RefuseDelete \/ TimerCheck \/ TimerBegin
  BY <1>10 DEF TypeOK, ClaimantCarries, Goto, CanBeginIncoming, RefuseDelete, TimerCheck,
      TimerBegin
<1>13. CASE TimerFanout
  BY <1>13 DEF TypeOK, ClaimantCarries, TimerFanout, Goto
<1>14. CASE TimerSend
  BY <1>14, RejectEffect DEF TypeOK, ClaimantCarries, TimerSend, Goto
<1>15. CASE TimerDelete \/ CancelCheck \/ CancelBegin
  BY <1>15 DEF TypeOK, ClaimantCarries, Goto, Return, CanBeginIncoming, TimerDelete, CancelCheck,
      CancelBegin
<1>18. CASE Cancel487 \/ CancelFanout \/ CancelEnd
  BY <1>18 DEF TypeOK, ClaimantCarries, Goto, Respond, Return, Cancel487, CancelFanout, CancelEnd
<1>21. CASE ByeDelete
  BY <1>21 DEF TypeOK, ClaimantCarries, ByeDelete, Goto, Return
<1>22. ASSUME NEW c \in Clients, Present(c) \/ Connect(c) \/ Offer(c) PROVE ClaimantCarries'
  BY <1>22 DEF TypeOK, ClaimantCarries, CanBeginIncoming, Goto, CanClaim, Present, Connect, Offer
<1>25. ASSUME NEW c \in Clients, AcceptAsk(c) \/ RejectAsk(c) \/ Disconnect(c)
      PROVE  ClaimantCarries'
  BY <1>25 DEF TypeOK, ClaimantCarries, ClaimedByOther, Goto, AcceptAsk, RejectAsk, Disconnect
<1>28. ASSUME NEW c \in Clients, Replay(c) \/ Offered(c) \/ AcceptCheck(c) PROVE ClaimantCarries'
  BY <1>28 DEF TypeOK, ClaimantCarries, CanBeginIncoming, Goto, SetState, Replay, Offered,
      AcceptCheck
<1>31. ASSUME NEW c \in Clients, AcceptBegin(c) PROVE ClaimantCarries'
  BY <1>31 DEF TypeOK, ClaimantCarries, AcceptBegin, CanBegin, ClaimedByOther, Goto, Return
<1>32. ASSUME NEW c \in Clients, AcceptLost(c) PROVE ClaimantCarries'
  BY <1>32 DEF TypeOK, ClaimantCarries, AcceptLost, Goto, Return
<1>33. ASSUME NEW c \in Clients, AcceptClaim(c) PROVE ClaimantCarries'
  BY <1>33, SMTT(60) DEF TypeOK, ClaimantCarries, AcceptClaim, ClearTerminalAction, CanClaim, Goto, Return
<1>34. ASSUME NEW c \in Clients, AcceptTransfer(c) PROVE ClaimantCarries'
  BY <1>34 DEF TypeOK, ClaimantCarries, AcceptTransfer, Goto, ClaimHeld, OwnTargets, Ending
<1>35. ASSUME NEW c \in Clients, Accept200(c) \/ AcceptActive(c) \/ AcceptFinish(c)
      PROVE  ClaimantCarries'
  BY <1>35 DEF TypeOK, ClaimantCarries, Goto, Respond, ClaimHeld, ClearTerminalAction, Accept200,
      AcceptActive, AcceptFinish
<1>38. ASSUME NEW c \in Clients, AcceptFanout(c) \/ RejectBegin(c) PROVE ClaimantCarries'
  BY <1>38 DEF TypeOK, ClaimantCarries, Goto, Return, CanBeginIncoming, AcceptFanout, RejectBegin
<1>40. ASSUME NEW c \in Clients, RejectSend(c) PROVE ClaimantCarries'
  BY <1>40, RejectEffect DEF TypeOK, ClaimantCarries, RejectSend, Goto, RejectFails, RejectCall
<1>41. ASSUME NEW c \in Clients, RejectEnd(c) \/ HangupCheck(c) \/ EndBegin(c)
      PROVE  ClaimantCarries'
  BY <1>41 DEF TypeOK, ClaimantCarries, Goto, SetState, ActionFor, CanBegin, Return, EndReturn,
      RejectEnd, HangupCheck, EndBegin
<1>44. ASSUME NEW c \in Clients, EndSend(c) PROVE ClaimantCarries'
  BY <1>44, RejectEffect DEF TypeOK, ClaimantCarries, EndSend, Goto, SetState
<1>45. ASSUME NEW c \in Clients, EndBye(c) \/ EndDelete(c) \/ Sweep(c) PROVE ClaimantCarries'
  BY <1>45 DEF TypeOK, ClaimantCarries, Goto, Return, EndReturn, EndBye, EndDelete, Sweep
<1>48. ASSUME NEW c \in Clients, Swept(c) PROVE ClaimantCarries'
  BY <1>48 DEF TypeOK, ClaimantCarries, Swept, Goto
<1>49. ASSUME NEW c \in Clients, NEW s \in Sids, HangupAsk(c, s) \/ ForceEnd(c, s)
      PROVE  ClaimantCarries'
  BY <1>49 DEF TypeOK, ClaimantCarries, ClaimedByOther, Goto, ActionFor, HangupAsk, ForceEnd
<1>51. CASE UNCHANGED vars
  BY <1>51 DEF vars, TypeOK, ClaimantCarries
<1> QED
  BY <1>1, <1>4, <1>7, <1>9, <1>10, <1>13, <1>14, <1>15, <1>18, <1>21, <1>22, <1>25, <1>28, <1>31,
      <1>32, <1>33, <1>34, <1>35, <1>38, <1>40, <1>41, <1>44, <1>45, <1>48, <1>49, <1>51 DEF Next,
      FarEnd, InviteRuns, TimerRuns, CancelRuns, ClientStarts, ClientRuns

(* The claim is written once: by an accept, or by an offer while the call
   rings. *)
ClaimMoves ==
  \/ claim' = claim
  \/ claim = None /\ claim' # None
     /\ (state[Inc] = "incoming" \/ \E c \in Clients : pc[c] = "acc_claim")

(* Every step keeps to that. *)
LEMMA ClaimSteps ==
  ASSUME TypeOK, [Next]_vars
  PROVE  ClaimMoves
<1> USE NameAssumption DEF Procs, System, Sids, sessVars, apiVars, sipVars, ctlVars, histVars
<1>1. CASE InviteArrives \/ CallerCancels \/ CallerAcks
  BY <1>1 DEF TypeOK, ClaimMoves, Goto, SetState, InviteArrives, CallerCancels, CallerAcks
<1>4. CASE CallerByes \/ Admit \/ Presented
  BY <1>4 DEF TypeOK, ClaimMoves, Goto, CallerByes, Admit, Presented
<1>7. CASE Refuse \/ RefuseBegin \/ RefuseSend
  BY <1>7 DEF TypeOK, ClaimMoves, Goto, CanBegin, Refuse, RefuseBegin, RefuseSend
<1>10. CASE RefuseDelete \/ TimerCheck \/ TimerBegin
  BY <1>10 DEF TypeOK, ClaimMoves, Goto, CanBeginIncoming, RefuseDelete, TimerCheck, TimerBegin
<1>13. CASE TimerFanout \/ TimerSend \/ TimerDelete
  BY <1>13 DEF TypeOK, ClaimMoves, Goto, TimerFanout, TimerSend, TimerDelete
<1>16. CASE CancelCheck \/ CancelBegin \/ Cancel487
  BY <1>16 DEF TypeOK, ClaimMoves, Goto, Return, CanBeginIncoming, Respond, CancelCheck,
      CancelBegin, Cancel487
<1>19. CASE CancelFanout \/ CancelEnd \/ ByeDelete
  BY <1>19 DEF TypeOK, ClaimMoves, Goto, Return, CancelFanout, CancelEnd, ByeDelete
<1>22. ASSUME NEW c \in Clients, Present(c) \/ Connect(c) \/ Offer(c) PROVE ClaimMoves
  BY <1>22 DEF TypeOK, ClaimMoves, CanBeginIncoming, Goto, CanClaim, Present, Connect, Offer
<1>25. ASSUME NEW c \in Clients, AcceptAsk(c) \/ RejectAsk(c) \/ Disconnect(c) PROVE ClaimMoves
  BY <1>25 DEF TypeOK, ClaimMoves, ClaimedByOther, Goto, AcceptAsk, RejectAsk, Disconnect
<1>28. ASSUME NEW c \in Clients, Replay(c) \/ Offered(c) \/ AcceptCheck(c) PROVE ClaimMoves
  BY <1>28 DEF TypeOK, ClaimMoves, CanBeginIncoming, Goto, SetState, Replay, Offered, AcceptCheck
<1>31. ASSUME NEW c \in Clients, AcceptBegin(c) \/ AcceptLost(c) PROVE ClaimMoves
  BY <1>31 DEF TypeOK, ClaimMoves, CanBegin, ClaimedByOther, Goto, Return, AcceptBegin, AcceptLost
<1>33. ASSUME NEW c \in Clients, AcceptClaim(c) PROVE ClaimMoves
  BY <1>33 DEF TypeOK, ClaimMoves, AcceptClaim, ClearTerminalAction, CanClaim, Goto, Return
<1>34. ASSUME NEW c \in Clients, AcceptTransfer(c) \/ Accept200(c) \/ AcceptActive(c)
      PROVE  ClaimMoves
  BY <1>34 DEF TypeOK, ClaimMoves, Goto, Respond, AcceptTransfer, Accept200, AcceptActive
<1>37. ASSUME NEW c \in Clients, AcceptFinish(c) \/ AcceptFanout(c) \/ RejectBegin(c)
      PROVE  ClaimMoves
  BY <1>37 DEF TypeOK, ClaimMoves, ClearTerminalAction, Goto, Return, CanBeginIncoming,
      AcceptFinish, AcceptFanout, RejectBegin
<1>40. ASSUME NEW c \in Clients, RejectSend(c) \/ RejectEnd(c) \/ HangupCheck(c) PROVE ClaimMoves
  BY <1>40 DEF TypeOK, ClaimMoves, Goto, RejectFails, SetState, ActionFor, RejectSend, RejectEnd,
      HangupCheck
<1>43. ASSUME NEW c \in Clients, EndBegin(c) \/ EndSend(c) \/ EndBye(c) PROVE ClaimMoves
  BY <1>43 DEF TypeOK, ClaimMoves, CanBegin, Goto, Return, EndReturn, SetState, EndBegin, EndSend,
      EndBye
<1>46. ASSUME NEW c \in Clients, EndDelete(c) \/ Sweep(c) \/ Swept(c) PROVE ClaimMoves
  BY <1>46 DEF TypeOK, ClaimMoves, Goto, Return, EndReturn, EndDelete, Sweep, Swept
<1>49. ASSUME NEW c \in Clients, NEW s \in Sids, HangupAsk(c, s) \/ ForceEnd(c, s) PROVE ClaimMoves
  BY <1>49 DEF TypeOK, ClaimMoves, ClaimedByOther, Goto, ActionFor, HangupAsk, ForceEnd
<1>51. CASE UNCHANGED vars
  BY <1>51 DEF vars, TypeOK, ClaimMoves
<1> QED
  BY <1>1, <1>4, <1>7, <1>10, <1>13, <1>16, <1>19, <1>22, <1>25, <1>28, <1>31, <1>33, <1>34,
      <1>37, <1>40, <1>43, <1>46, <1>49, <1>51 DEF Next, FarEnd, InviteRuns, TimerRuns,
      CancelRuns, ClientStarts, ClientRuns

(* The call's state moves when the INVITE arrives, after somebody claimed it, by
   a holder of the guard, or when an offer finds that it does not ring. *)
StateMoves ==
  \/ state'[Inc] = state[Inc]
  \/ InviteArrives
  \/ /\ state'[Inc] \notin {"new", "incoming"}
     /\ \/ claim # None
        \/ \E p \in Procs : Holding(p) /\ pc[p] # "acc_claim"
        \/ state[Inc] # "incoming" /\ \E c \in Clients : pc[c] = "offered"

(* Every step keeps to that. *)
LEMMA StateSteps ==
  ASSUME TypeOK, Targeted, ClaimKept, ClaimantCarries, [Next]_vars
  PROVE  StateMoves
<1> USE NameAssumption DEF Procs, System, Sids, sessVars, apiVars, sipVars, ctlVars, histVars
<1>1. CASE InviteArrives \/ CallerCancels
  BY <1>1 DEF TypeOK, StateMoves, Goto, SetState, InviteArrives, CallerCancels
<1>3. CASE CallerAcks
  BY <1>3, ActivateEffect DEF TypeOK, StateMoves, CallerAcks, ClaimantCarries
<1>4. CASE CallerByes
  BY <1>4, EndEffect DEF TypeOK, StateMoves, CallerByes, Goto, ClaimantCarries
<1>5. CASE Admit \/ Presented \/ Refuse
  BY <1>5 DEF TypeOK, StateMoves, Goto, Admit, Presented, Refuse
<1>8. CASE RefuseBegin
  BY <1>8 DEF TypeOK, StateMoves, RefuseBegin, CanBegin, Goto
<1>9. CASE RefuseSend
  BY <1>9, RejectEffect DEF TypeOK, StateMoves, RefuseSend, Goto, Holding, OnInc, OnTgt,
      Targeted
<1>10. CASE RefuseDelete
  BY <1>10, DeleteEffect DEF TypeOK, StateMoves, RefuseDelete, Goto, Holding, OnInc, OnTgt,
      Targeted
<1>11. CASE TimerCheck \/ TimerBegin \/ TimerFanout
  BY <1>11 DEF TypeOK, StateMoves, Goto, CanBeginIncoming, TimerCheck, TimerBegin, TimerFanout
<1>14. CASE TimerSend
  BY <1>14, RejectEffect DEF TypeOK, StateMoves, TimerSend, Goto, Holding, OnInc, OnTgt,
      Targeted
<1>15. CASE TimerDelete
  BY <1>15, DeleteEffect DEF TypeOK, StateMoves, TimerDelete, Goto, Holding, OnInc, OnTgt,
      Targeted
<1>16. CASE CancelCheck \/ CancelBegin \/ Cancel487
  BY <1>16 DEF TypeOK, StateMoves, Goto, Return, CanBeginIncoming, Respond, CancelCheck,
      CancelBegin, Cancel487
<1>19. CASE CancelFanout
  BY <1>19 DEF TypeOK, StateMoves, CancelFanout, Goto
<1>20. CASE CancelEnd
  BY <1>20, EndEffect DEF TypeOK, StateMoves, CancelEnd, Goto, Return, Holding, OnInc, OnTgt,
      Targeted
<1>21. CASE ByeDelete
  BY <1>21, DeleteEffect DEF TypeOK, StateMoves, ByeDelete, Goto, Return, ClaimantCarries
<1>22. ASSUME NEW c \in Clients, Present(c) \/ Connect(c) \/ Offer(c) PROVE StateMoves
  BY <1>22 DEF TypeOK, StateMoves, CanBeginIncoming, Goto, CanClaim, Present, Connect, Offer
<1>25. ASSUME NEW c \in Clients, AcceptAsk(c) \/ RejectAsk(c) \/ Disconnect(c) PROVE StateMoves
  BY <1>25 DEF TypeOK, StateMoves, ClaimedByOther, Goto, AcceptAsk, RejectAsk, Disconnect
<1>28. ASSUME NEW c \in Clients, Replay(c) \/ Offered(c) \/ AcceptCheck(c) PROVE StateMoves
  BY <1>28 DEF TypeOK, StateMoves, CanBeginIncoming, Goto, SetState, Replay, Offered, AcceptCheck
<1>31. ASSUME NEW c \in Clients, AcceptBegin(c) \/ AcceptLost(c) PROVE StateMoves
  BY <1>31 DEF TypeOK, StateMoves, CanBegin, ClaimedByOther, Goto, Return, AcceptBegin, AcceptLost
<1>33. ASSUME NEW c \in Clients, AcceptClaim(c) PROVE StateMoves
  BY <1>33 DEF TypeOK, StateMoves, AcceptClaim, ClearTerminalAction, CanClaim, Goto, Return
<1>34. ASSUME NEW c \in Clients, AcceptTransfer(c) \/ Accept200(c) PROVE StateMoves
  BY <1>34 DEF TypeOK, StateMoves, Goto, Respond, AcceptTransfer, Accept200
<1>36. ASSUME NEW c \in Clients, AcceptActive(c) PROVE StateMoves
  BY <1>36, ActivateEffect DEF TypeOK, StateMoves, AcceptActive, Goto, ClaimKept
<1>37. ASSUME NEW c \in Clients, AcceptFinish(c) PROVE StateMoves
  BY <1>37, DeleteEffect DEF TypeOK, StateMoves, AcceptFinish, ClearTerminalAction, Goto,
      ClaimKept
<1>38. ASSUME NEW c \in Clients, AcceptFanout(c) \/ RejectBegin(c) PROVE StateMoves
  BY <1>38 DEF TypeOK, StateMoves, Goto, Return, CanBeginIncoming, AcceptFanout, RejectBegin
<1>40. ASSUME NEW c \in Clients, RejectSend(c) PROVE StateMoves
  BY <1>40, RejectEffect DEF TypeOK, StateMoves, RejectSend, Goto, RejectFails, RejectCall,
      Holding, OnInc
<1>41. ASSUME NEW c \in Clients, RejectEnd(c) \/ HangupCheck(c) \/ EndBegin(c) PROVE StateMoves
  BY <1>41 DEF TypeOK, StateMoves, Goto, SetState, Holding, OnInc, ActionFor, CanBegin, Return,
      EndReturn, RejectEnd, HangupCheck, EndBegin
<1>44. ASSUME NEW c \in Clients, EndSend(c) PROVE StateMoves
  BY <1>44, EndSendFinal DEF TypeOK, StateMoves, Holding, OnTgt
<1>45. ASSUME NEW c \in Clients, EndBye(c) PROVE StateMoves
  BY <1>45, EndEffect DEF TypeOK, StateMoves, EndBye, Goto, Holding, OnInc, OnTgt, Targeted
<1>46. ASSUME NEW c \in Clients, EndDelete(c) PROVE StateMoves
  BY <1>46, DeleteEffect DEF TypeOK, StateMoves, EndDelete, Goto, Return, EndReturn, Holding,
      OnInc, OnTgt, Targeted
<1>47. ASSUME NEW c \in Clients, Sweep(c) \/ Swept(c) PROVE StateMoves
  BY <1>47 DEF TypeOK, StateMoves, Goto, Sweep, Swept
<1>49. ASSUME NEW c \in Clients, NEW s \in Sids, HangupAsk(c, s) \/ ForceEnd(c, s) PROVE StateMoves
  BY <1>49 DEF TypeOK, StateMoves, ClaimedByOther, Goto, ActionFor, HangupAsk, ForceEnd
<1>51. CASE UNCHANGED vars
  BY <1>51 DEF vars, TypeOK, StateMoves
<1> QED
  BY <1>1, <1>3, <1>4, <1>5, <1>8, <1>9, <1>10, <1>11, <1>14, <1>15, <1>16, <1>19, <1>20, <1>21,
      <1>22, <1>25, <1>28, <1>31, <1>33, <1>34, <1>36, <1>37, <1>38, <1>40, <1>41, <1>44, <1>45,
      <1>46, <1>47, <1>49, <1>51 DEF Next, FarEnd, InviteRuns, TimerRuns, CancelRuns,
      ClientStarts, ClientRuns

(* The guard becomes free only after a claim or by an accept that lost it, and
   an accept takes it only when it is free. *)
GuardMoves ==
  /\ term'[Inc] = None =>
       term[Inc] = None \/ claim # None \/ \E c \in Clients : pc[c] = "acc_claim"
  /\ \A c \in Clients : pc'[c] = "acc_claim" => pc[c] = "acc_claim" \/ term[Inc] = None

(* Every step keeps to that. *)
LEMMA GuardSteps ==
  ASSUME TypeOK, Targeted, ClaimKept, [Next]_vars
  PROVE  GuardMoves
<1> USE NameAssumption DEF Procs, System, Sids, sessVars, apiVars, sipVars, ctlVars, histVars
<1>1. CASE InviteArrives \/ CallerCancels \/ CallerAcks
  BY <1>1 DEF TypeOK, GuardMoves, Goto, SetState, InviteArrives, CallerCancels, CallerAcks
<1>4. CASE CallerByes \/ Admit \/ Presented
  BY <1>4 DEF TypeOK, GuardMoves, Goto, CallerByes, Admit, Presented
<1>7. CASE Refuse \/ RefuseBegin \/ RefuseSend
  BY <1>7 DEF TypeOK, GuardMoves, Goto, CanBegin, Refuse, RefuseBegin, RefuseSend
<1>10. CASE RefuseDelete \/ TimerCheck \/ TimerBegin
  BY <1>10 DEF TypeOK, GuardMoves, Goto, CanBeginIncoming, RefuseDelete, TimerCheck, TimerBegin
<1>13. CASE TimerFanout \/ TimerSend \/ TimerDelete
  BY <1>13 DEF TypeOK, GuardMoves, Goto, TimerFanout, TimerSend, TimerDelete
<1>16. CASE CancelCheck
  BY <1>16 DEF TypeOK, GuardMoves, CancelCheck, Goto, Return
<1>17. CASE CancelBegin
  BY <1>17 DEF TypeOK, GuardMoves, CancelBegin, CanBeginIncoming, Goto, Return, Targeted
<1>18. CASE Cancel487 \/ CancelFanout \/ CancelEnd
  BY <1>18 DEF TypeOK, GuardMoves, Goto, Respond, Return, Cancel487, CancelFanout, CancelEnd
<1>21. CASE ByeDelete
  BY <1>21 DEF TypeOK, GuardMoves, ByeDelete, Goto, Return
<1>22. ASSUME NEW c \in Clients, Present(c) \/ Connect(c) \/ Offer(c) PROVE GuardMoves
  BY <1>22 DEF TypeOK, GuardMoves, CanBeginIncoming, Goto, CanClaim, Present, Connect, Offer
<1>25. ASSUME NEW c \in Clients, AcceptAsk(c) \/ RejectAsk(c) \/ Disconnect(c) PROVE GuardMoves
  BY <1>25 DEF TypeOK, GuardMoves, ClaimedByOther, Goto, AcceptAsk, RejectAsk, Disconnect
<1>28. ASSUME NEW c \in Clients, Replay(c) \/ Offered(c) \/ AcceptCheck(c) PROVE GuardMoves
  BY <1>28 DEF TypeOK, GuardMoves, CanBeginIncoming, Goto, SetState, Replay, Offered, AcceptCheck
<1>31. ASSUME NEW c \in Clients, AcceptBegin(c) \/ AcceptLost(c) PROVE GuardMoves
  BY <1>31 DEF TypeOK, GuardMoves, CanBegin, ClaimedByOther, Goto, Return, AcceptBegin, AcceptLost
<1>33. ASSUME NEW c \in Clients, AcceptClaim(c) PROVE GuardMoves
  BY <1>33 DEF TypeOK, GuardMoves, AcceptClaim, ClearTerminalAction, CanClaim, Goto, Return
<1>34. ASSUME NEW c \in Clients, AcceptTransfer(c) \/ Accept200(c) \/ AcceptActive(c)
      PROVE  GuardMoves
  BY <1>34 DEF TypeOK, GuardMoves, Goto, Respond, AcceptTransfer, Accept200, AcceptActive
<1>37. ASSUME NEW c \in Clients, AcceptFinish(c) \/ AcceptFanout(c) \/ RejectBegin(c)
      PROVE  GuardMoves
  BY <1>37 DEF TypeOK, GuardMoves, ClearTerminalAction, Goto, ClaimKept, Return, CanBeginIncoming,
      AcceptFinish, AcceptFanout, RejectBegin
<1>40. ASSUME NEW c \in Clients, RejectSend(c) \/ RejectEnd(c) \/ HangupCheck(c) PROVE GuardMoves
  BY <1>40 DEF TypeOK, GuardMoves, Goto, RejectFails, SetState, ActionFor, RejectSend, RejectEnd,
      HangupCheck
<1>43. ASSUME NEW c \in Clients, EndBegin(c) PROVE GuardMoves
  BY <1>43 DEF TypeOK, GuardMoves, EndBegin, CanBegin, Goto, Return, EndReturn, Targeted, Ending
<1>44. ASSUME NEW c \in Clients, EndSend(c) \/ EndBye(c) \/ EndDelete(c) PROVE GuardMoves
  BY <1>44 DEF TypeOK, GuardMoves, Goto, SetState, Return, EndReturn, EndSend, EndBye, EndDelete
<1>47. ASSUME NEW c \in Clients, Sweep(c) \/ Swept(c) PROVE GuardMoves
  BY <1>47 DEF TypeOK, GuardMoves, Goto, Sweep, Swept
<1>49. ASSUME NEW c \in Clients, NEW s \in Sids, HangupAsk(c, s) \/ ForceEnd(c, s) PROVE GuardMoves
  BY <1>49 DEF TypeOK, GuardMoves, ClaimedByOther, Goto, ActionFor, HangupAsk, ForceEnd
<1>51. CASE UNCHANGED vars
  BY <1>51 DEF vars, TypeOK, GuardMoves
<1> QED
  BY <1>1, <1>4, <1>7, <1>10, <1>13, <1>16, <1>17, <1>18, <1>21, <1>22, <1>25, <1>28, <1>31,
      <1>33, <1>34, <1>37, <1>40, <1>43, <1>44, <1>47, <1>49, <1>51 DEF Next, FarEnd, InviteRuns,
      TimerRuns, CancelRuns, ClientStarts, ClientRuns

(* A call that stopped ringing unclaimed stays so. *)
LEMMA LostKept ==
  ASSUME LostUnclaimed, LostStays, NewUnknown, ClaimMoves, StateMoves
  PROVE  LostUnclaimed'
<1>1. claim' = None BY DEF ClaimMoves, LostUnclaimed, LostStays
<1>2. ~InviteArrives BY DEF InviteArrives, LostUnclaimed, NewUnknown
<1> QED BY <1>1, <1>2 DEF StateMoves, LostUnclaimed

(* Whoever ends the ringing of an unclaimed call keeps the guard from every
   accept. *)
LEMMA LostStaysStep ==
  ASSUME TypeOK, TerminalMutex, NewUnknown, LostStays, ClaimMoves, StateMoves, GuardMoves
  PROVE  LostStays'
<1> SUFFICES ASSUME LostUnclaimed' PROVE term'[Inc] # None /\ \A c \in Clients : pc'[c] # "acc_claim"
  BY DEF LostStays
<1>1. claim = None BY DEF ClaimMoves, LostUnclaimed
<1>2. term[Inc] # None /\ \A c \in Clients : pc[c] # "acc_claim"
  <2>1. CASE LostUnclaimed BY <2>1 DEF LostStays
  <2>2. CASE ~LostUnclaimed
    <3>1. state[Inc] \in {"new", "incoming"} /\ state'[Inc] \notin {"new", "incoming"}
      BY <1>1, <2>2 DEF LostUnclaimed
    <3>2. ~InviteArrives
      BY <3>1 DEF InviteArrives, SetState, TypeOK, Sids
    <3>3. ~(state[Inc] # "incoming" /\ \E c \in Clients : pc[c] = "offered")
      BY <3>1 DEF NewUnknown
    <3>4. PICK p \in Procs : Holding(p) /\ pc[p] # "acc_claim"
      BY <1>1, <3>1, <3>2, <3>3 DEF StateMoves
    <3>5. term[Inc] = p /\ p # None
      BY <3>4, NameAssumption DEF TerminalMutex, Procs, System
    <3>6. \A c \in Clients : pc[c] = "acc_claim" => term[Inc] = c
      BY DEF TerminalMutex, Holding, OnInc, Procs
    <3> QED BY <3>4, <3>5, <3>6
  <2> QED BY <2>1, <2>2
<1> QED BY <1>1, <1>2 DEF GuardMoves

(* Nothing brings the call into the map, or the INVITE handler back to its
   start, but the INVITE; an offer needs the call in the map. *)
MapMoves ==
  /\ Inc \in mgr' => Inc \in mgr \/ state'[Inc] = "incoming"
  /\ pc'[InviteP] = "idle" => pc[InviteP] = "idle"
  /\ \A c \in Clients : pc'[c] = "offered" => pc[c] = "offered" \/ Inc \in mgr

(* Every step keeps to that. *)
LEMMA MapSteps ==
  ASSUME TypeOK, [Next]_vars
  PROVE  MapMoves
<1> USE NameAssumption DEF Procs, System, Sids, sessVars, apiVars, sipVars, ctlVars, histVars
<1>1. CASE InviteArrives \/ CallerCancels \/ CallerAcks
  BY <1>1 DEF TypeOK, MapMoves, Goto, SetState, InviteArrives, CallerCancels, CallerAcks
<1>4. CASE CallerByes \/ Admit \/ Presented
  BY <1>4 DEF TypeOK, MapMoves, Goto, CallerByes, Admit, Presented
<1>7. CASE Refuse \/ RefuseBegin \/ RefuseSend
  BY <1>7 DEF TypeOK, MapMoves, Goto, CanBegin, Refuse, RefuseBegin, RefuseSend
<1>10. CASE RefuseDelete
  BY <1>10, DeleteEffect DEF TypeOK, MapMoves, RefuseDelete, Goto
<1>11. CASE TimerCheck \/ TimerBegin \/ TimerFanout
  BY <1>11 DEF TypeOK, MapMoves, Goto, CanBeginIncoming, TimerCheck, TimerBegin, TimerFanout
<1>14. CASE TimerSend
  BY <1>14 DEF TypeOK, MapMoves, TimerSend, Goto
<1>15. CASE TimerDelete
  BY <1>15, DeleteEffect DEF TypeOK, MapMoves, TimerDelete, Goto
<1>16. CASE CancelCheck \/ CancelBegin \/ Cancel487
  BY <1>16 DEF TypeOK, MapMoves, Goto, Return, CanBeginIncoming, Respond, CancelCheck,
      CancelBegin, Cancel487
<1>19. CASE CancelFanout \/ CancelEnd
  BY <1>19 DEF TypeOK, MapMoves, Goto, Return, CancelFanout, CancelEnd
<1>21. CASE ByeDelete
  BY <1>21, DeleteEffect DEF TypeOK, MapMoves, ByeDelete, Goto, Return
<1>22. ASSUME NEW c \in Clients, Present(c) \/ Connect(c) \/ Offer(c) PROVE MapMoves
  BY <1>22 DEF TypeOK, MapMoves, CanBeginIncoming, Goto, CanClaim, Present, Connect, Offer
<1>25. ASSUME NEW c \in Clients, AcceptAsk(c) \/ RejectAsk(c) \/ Disconnect(c) PROVE MapMoves
  BY <1>25 DEF TypeOK, MapMoves, ClaimedByOther, Goto, AcceptAsk, RejectAsk, Disconnect
<1>28. ASSUME NEW c \in Clients, Replay(c) \/ Offered(c) \/ AcceptCheck(c) PROVE MapMoves
  BY <1>28 DEF TypeOK, MapMoves, CanBeginIncoming, Goto, SetState, Replay, Offered, AcceptCheck
<1>31. ASSUME NEW c \in Clients, AcceptBegin(c) \/ AcceptLost(c) PROVE MapMoves
  BY <1>31 DEF TypeOK, MapMoves, CanBegin, ClaimedByOther, Goto, Return, AcceptBegin, AcceptLost
<1>33. ASSUME NEW c \in Clients, AcceptClaim(c) PROVE MapMoves
  BY <1>33 DEF TypeOK, MapMoves, AcceptClaim, ClearTerminalAction, CanClaim, Goto, Return
<1>34. ASSUME NEW c \in Clients, AcceptTransfer(c) \/ Accept200(c) \/ AcceptActive(c) PROVE MapMoves
  BY <1>34 DEF TypeOK, MapMoves, Goto, Respond, AcceptTransfer, Accept200, AcceptActive
<1>37. ASSUME NEW c \in Clients, AcceptFinish(c) PROVE MapMoves
  BY <1>37, DeleteEffect DEF TypeOK, MapMoves, AcceptFinish, ClearTerminalAction, Goto
<1>38. ASSUME NEW c \in Clients, AcceptFanout(c) \/ RejectBegin(c) \/ RejectSend(c) PROVE MapMoves
  BY <1>38 DEF TypeOK, MapMoves, Goto, Return, CanBeginIncoming, RejectFails, AcceptFanout,
      RejectBegin, RejectSend
<1>41. ASSUME NEW c \in Clients, RejectEnd(c) \/ HangupCheck(c) \/ EndBegin(c) PROVE MapMoves
  BY <1>41 DEF TypeOK, MapMoves, Goto, SetState, ActionFor, CanBegin, Return, EndReturn,
      RejectEnd, HangupCheck, EndBegin
<1>44. ASSUME NEW c \in Clients, EndSend(c) \/ EndBye(c) PROVE MapMoves
  BY <1>44 DEF TypeOK, MapMoves, Goto, SetState, EndSend, EndBye
<1>46. ASSUME NEW c \in Clients, EndDelete(c) PROVE MapMoves
  BY <1>46, DeleteEffect DEF TypeOK, MapMoves, EndDelete, Goto, Return, EndReturn
<1>47. ASSUME NEW c \in Clients, Sweep(c) \/ Swept(c) PROVE MapMoves
  BY <1>47 DEF TypeOK, MapMoves, Goto, Sweep, Swept
<1>49. ASSUME NEW c \in Clients, NEW s \in Sids, HangupAsk(c, s) \/ ForceEnd(c, s) PROVE MapMoves
  BY <1>49 DEF TypeOK, MapMoves, ClaimedByOther, Goto, ActionFor, HangupAsk, ForceEnd
<1>51. CASE UNCHANGED vars
  BY <1>51 DEF vars, TypeOK, MapMoves
<1> QED
  BY <1>1, <1>4, <1>7, <1>10, <1>11, <1>14, <1>15, <1>16, <1>19, <1>21, <1>22, <1>25, <1>28,
      <1>31, <1>33, <1>34, <1>37, <1>38, <1>41, <1>44, <1>46, <1>47, <1>49, <1>51 DEF Next,
      FarEnd, InviteRuns, TimerRuns, CancelRuns, ClientStarts, ClientRuns

(* Before the INVITE arrives nothing happens to the call. *)
LEMMA NewUnknownStep ==
  ASSUME TypeOK, TerminalMutex, BeforeInvite, NewUnknown, ClaimMoves, StateMoves, MapMoves
  PROVE  NewUnknown'
<1>1. ASSUME state'[Inc] = "new" PROVE Inc \notin mgr' /\ \A c \in Clients : pc'[c] # "offered"
  <2>1. ~InviteArrives BY <1>1 DEF InviteArrives, SetState, TypeOK, Sids
  <2>2. state[Inc] = "new" BY <1>1, <2>1 DEF StateMoves
  <2> QED BY <1>1, <2>2 DEF NewUnknown, MapMoves
<1>2. ASSUME pc'[InviteP] = "idle" PROVE state'[Inc] = "new" /\ claim' = None
  <2>1. pc[InviteP] = "idle" /\ ~InviteArrives
    BY <1>2, NameAssumption DEF MapMoves, InviteArrives, Goto, TypeOK, Procs, System
  <2>2. state[Inc] = "new" /\ claim = None /\ \A c \in Clients : pc[c] # "offered"
    BY <2>1 DEF NewUnknown
  <2>3. \A p \in Procs : ~Holding(p)
    BY <2>1, NameAssumption DEF BeforeInvite, TerminalMutex, Procs, System
  <2>4. \A c \in Clients : pc[c] # "acc_claim" BY <2>3 DEF Holding, OnInc, Procs
  <2> QED BY <2>1, <2>2, <2>3, <2>4 DEF StateMoves, ClaimMoves
<1> QED BY <1>1, <1>2 DEF NewUnknown

(* Who owns the call knows that it was claimed or lost. *)
LEMMA OwnersKnowStep ==
  ASSUME TypeOK, Targeted, ClaimHeld, NewUnknown, OwnersKnow,
         (claim # None \/ LostUnclaimed) => (claim # None \/ LostUnclaimed)', [Next]_vars
  PROVE  OwnersKnow'
<1> USE NameAssumption DEF Procs, System, Sids, sessVars, apiVars, sipVars, ctlVars, histVars
<1>1. CASE InviteArrives \/ CallerCancels \/ CallerAcks
  BY <1>1 DEF TypeOK, OwnersKnow, Goto, SetState, InviteArrives, CallerCancels, CallerAcks
<1>4. CASE CallerByes
  BY <1>4, EndOwns DEF TypeOK, OwnersKnow, CallerByes, Goto, OwnsLess, Targeted, OnTgt, Ending
<1>5. CASE Admit \/ Presented \/ Refuse
  BY <1>5 DEF TypeOK, OwnersKnow, Goto, Admit, Presented, Refuse
<1>8. CASE RefuseBegin
  BY <1>8 DEF TypeOK, OwnersKnow, RefuseBegin, CanBegin, Goto
<1>9. CASE RefuseSend
  BY <1>9, RejectOwns DEF TypeOK, OwnersKnow, RefuseSend, Goto, OwnsLess, Targeted, OnTgt,
      Ending
<1>10. CASE RefuseDelete \/ TimerCheck \/ TimerBegin
  BY <1>10 DEF TypeOK, OwnersKnow, Goto, CanBeginIncoming, RefuseDelete, TimerCheck, TimerBegin
<1>13. CASE TimerFanout
  BY <1>13 DEF TypeOK, OwnersKnow, TimerFanout, Goto
<1>14. CASE TimerSend
  BY <1>14, RejectOwns DEF TypeOK, OwnersKnow, TimerSend, Goto, OwnsLess, Targeted, OnTgt,
      Ending
<1>15. CASE TimerDelete \/ CancelCheck \/ CancelBegin
  BY <1>15 DEF TypeOK, OwnersKnow, Goto, Return, CanBeginIncoming, TimerDelete, CancelCheck,
      CancelBegin
<1>18. CASE Cancel487 \/ CancelFanout
  BY <1>18 DEF TypeOK, OwnersKnow, Goto, Respond, Cancel487, CancelFanout
<1>20. CASE CancelEnd
  BY <1>20, EndOwns DEF TypeOK, OwnersKnow, CancelEnd, Goto, Return, OwnsLess, Targeted, OnTgt,
      Ending
<1>21. CASE ByeDelete
  BY <1>21 DEF TypeOK, OwnersKnow, ByeDelete, Goto, Return
<1>22. ASSUME NEW c \in Clients, Present(c) \/ Connect(c) PROVE OwnersKnow'
  BY <1>22 DEF TypeOK, OwnersKnow, CanBeginIncoming, Goto, Present, Connect
<1>24. ASSUME NEW c \in Clients, Offer(c) PROVE OwnersKnow'
  BY <1>24 DEF TypeOK, OwnersKnow, Offer, CanClaim, Goto, Bind, LostUnclaimed, NewUnknown
<1>25. ASSUME NEW c \in Clients, AcceptAsk(c) \/ RejectAsk(c) \/ Disconnect(c) PROVE OwnersKnow'
  BY <1>25 DEF TypeOK, OwnersKnow, ClaimedByOther, Goto, AcceptAsk, RejectAsk, Disconnect
<1>28. ASSUME NEW c \in Clients, Replay(c) \/ Offered(c) \/ AcceptCheck(c) PROVE OwnersKnow'
  BY <1>28 DEF TypeOK, OwnersKnow, CanBeginIncoming, Goto, SetState, Replay, Offered, AcceptCheck
<1>31. ASSUME NEW c \in Clients, AcceptBegin(c) \/ AcceptLost(c) PROVE OwnersKnow'
  BY <1>31 DEF TypeOK, OwnersKnow, CanBegin, ClaimedByOther, Goto, Return, AcceptBegin, AcceptLost
<1>33. ASSUME NEW c \in Clients, AcceptClaim(c) PROVE OwnersKnow'
  BY <1>33 DEF TypeOK, OwnersKnow, AcceptClaim, ClearTerminalAction, CanClaim, Goto, Return
<1>34. ASSUME NEW c \in Clients, AcceptTransfer(c) \/ Accept200(c) \/ AcceptActive(c)
      PROVE  OwnersKnow'
  BY <1>34 DEF TypeOK, OwnersKnow, Goto, Bind, ClaimHeld, Respond, AcceptTransfer, Accept200,
      AcceptActive
<1>37. ASSUME NEW c \in Clients, AcceptFinish(c) \/ AcceptFanout(c) \/ RejectBegin(c)
      PROVE  OwnersKnow'
  BY <1>37 DEF TypeOK, OwnersKnow, ClearTerminalAction, Goto, Return, CanBeginIncoming,
      AcceptFinish, AcceptFanout, RejectBegin
<1>40. ASSUME NEW c \in Clients, RejectSend(c) PROVE OwnersKnow'
  BY <1>40, RejectOwns DEF TypeOK, OwnersKnow, RejectSend, Goto, RejectFails, OwnsLess,
      RejectCall
<1>41. ASSUME NEW c \in Clients, RejectEnd(c) \/ HangupCheck(c) \/ EndBegin(c) PROVE OwnersKnow'
  BY <1>41 DEF TypeOK, OwnersKnow, Goto, SetState, ActionFor, CanBegin, Return, EndReturn,
      RejectEnd, HangupCheck, EndBegin
<1>44. ASSUME NEW c \in Clients, EndSend(c) PROVE OwnersKnow'
  BY <1>44, EndOwns, RejectOwns DEF TypeOK, OwnersKnow, EndSend, Goto, SetState, OwnsLess,
      Targeted, OnTgt, Ending
<1>45. ASSUME NEW c \in Clients, EndBye(c) PROVE OwnersKnow'
  BY <1>45, EndOwns DEF TypeOK, OwnersKnow, EndBye, Goto, OwnsLess, Targeted, OnTgt, Ending
<1>46. ASSUME NEW c \in Clients, EndDelete(c) PROVE OwnersKnow'
  BY <1>46, UnbindOwns DEF TypeOK, OwnersKnow, EndDelete, Goto, Return, EndReturn, OwnsLess,
      Targeted, OnTgt, Ending
<1>47. ASSUME NEW c \in Clients, Sweep(c) \/ Swept(c) PROVE OwnersKnow'
  BY <1>47 DEF TypeOK, OwnersKnow, Goto, Sweep, Swept
<1>49. ASSUME NEW c \in Clients, NEW s \in Sids, HangupAsk(c, s) \/ ForceEnd(c, s) PROVE OwnersKnow'
  BY <1>49 DEF TypeOK, OwnersKnow, ClaimedByOther, Goto, ActionFor, HangupAsk, ForceEnd
<1>51. CASE UNCHANGED vars
  BY <1>51 DEF vars, TypeOK, OwnersKnow, LostUnclaimed
<1> QED
  BY <1>1, <1>4, <1>5, <1>8, <1>9, <1>10, <1>13, <1>14, <1>15, <1>18, <1>20, <1>21, <1>22, <1>24,
      <1>25, <1>28, <1>31, <1>33, <1>34, <1>37, <1>40, <1>41, <1>44, <1>45, <1>46, <1>47, <1>49,
      <1>51 DEF Next, FarEnd, InviteRuns, TimerRuns, CancelRuns, ClientStarts, ClientRuns

(* A hangup that gets the guard comes from the claimant. *)
LEMMA HangupsMineStep ==
  ASSUME TypeOK, Targeted, Agents = Clients, LostStays, OwnersKnow, HangupsMine,
         LostUnclaimed => LostUnclaimed', claim # None => claim' = claim, [Next]_vars
  PROVE  HangupsMine'
<1> USE NameAssumption DEF Procs, System, Sids, sessVars, apiVars, sipVars, ctlVars, histVars
<1>1. CASE InviteArrives \/ CallerCancels \/ CallerAcks
  BY <1>1 DEF TypeOK, HangupsMine, Goto, SetState, InviteArrives, CallerCancels, CallerAcks
<1>4. CASE CallerByes \/ Admit \/ Presented
  BY <1>4 DEF TypeOK, HangupsMine, Goto, CallerByes, Admit, Presented
<1>7. CASE Refuse \/ RefuseBegin \/ RefuseSend
  BY <1>7 DEF TypeOK, HangupsMine, Goto, CanBegin, Refuse, RefuseBegin, RefuseSend
<1>10. CASE RefuseDelete \/ TimerCheck \/ TimerBegin
  BY <1>10 DEF TypeOK, HangupsMine, Goto, CanBeginIncoming, RefuseDelete, TimerCheck, TimerBegin
<1>13. CASE TimerFanout \/ TimerSend \/ TimerDelete
  BY <1>13 DEF TypeOK, HangupsMine, Goto, TimerFanout, TimerSend, TimerDelete
<1>16. CASE CancelCheck \/ CancelBegin \/ Cancel487
  BY <1>16 DEF TypeOK, HangupsMine, Goto, Return, CanBeginIncoming, Respond, CancelCheck,
      CancelBegin, Cancel487
<1>19. CASE CancelFanout \/ CancelEnd \/ ByeDelete
  BY <1>19 DEF TypeOK, HangupsMine, Goto, Return, CancelFanout, CancelEnd, ByeDelete
<1>22. ASSUME NEW c \in Clients, Present(c) \/ Connect(c) \/ Offer(c) PROVE HangupsMine'
  BY <1>22 DEF TypeOK, HangupsMine, CanBeginIncoming, Goto, CanClaim, Present, Connect, Offer
<1>25. ASSUME NEW c \in Clients, AcceptAsk(c) \/ RejectAsk(c) \/ Disconnect(c) PROVE HangupsMine'
  BY <1>25 DEF TypeOK, HangupsMine, ClaimedByOther, Goto, AcceptAsk, RejectAsk, Disconnect
<1>28. ASSUME NEW c \in Clients, Replay(c) \/ Offered(c) \/ AcceptCheck(c) PROVE HangupsMine'
  BY <1>28 DEF TypeOK, HangupsMine, CanBeginIncoming, Goto, SetState, Replay, Offered, AcceptCheck
<1>31. ASSUME NEW c \in Clients, AcceptBegin(c) \/ AcceptLost(c) PROVE HangupsMine'
  BY <1>31 DEF TypeOK, HangupsMine, CanBegin, ClaimedByOther, Goto, Return, AcceptBegin,
      AcceptLost
<1>33. ASSUME NEW c \in Clients, AcceptClaim(c) PROVE HangupsMine'
  BY <1>33 DEF TypeOK, HangupsMine, AcceptClaim, ClearTerminalAction, CanClaim, Goto, Return
<1>34. ASSUME NEW c \in Clients, AcceptTransfer(c) \/ Accept200(c) \/ AcceptActive(c)
      PROVE  HangupsMine'
  BY <1>34 DEF TypeOK, HangupsMine, Goto, Respond, AcceptTransfer, Accept200, AcceptActive
<1>37. ASSUME NEW c \in Clients, AcceptFinish(c) \/ AcceptFanout(c) \/ RejectBegin(c)
      PROVE  HangupsMine'
  BY <1>37 DEF TypeOK, HangupsMine, ClearTerminalAction, Goto, Return, CanBeginIncoming,
      AcceptFinish, AcceptFanout, RejectBegin
<1>40. ASSUME NEW c \in Clients, RejectSend(c) \/ RejectEnd(c) \/ HangupCheck(c) PROVE HangupsMine'
  BY <1>40 DEF TypeOK, HangupsMine, Goto, RejectFails, SetState, ActionFor, RejectSend, RejectEnd,
      HangupCheck
<1>43. ASSUME NEW c \in Clients, EndBegin(c) PROVE HangupsMine'
  BY <1>43 DEF TypeOK, HangupsMine, EndBegin, CanBegin, Goto, Return, EndReturn, LostStays
<1>44. ASSUME NEW c \in Clients, EndSend(c) \/ EndBye(c) \/ EndDelete(c) PROVE HangupsMine'
  BY <1>44 DEF TypeOK, HangupsMine, Goto, SetState, Return, EndReturn, EndSend, EndBye, EndDelete
<1>47. ASSUME NEW c \in Clients, Sweep(c) \/ Swept(c) PROVE HangupsMine'
  BY <1>47 DEF TypeOK, HangupsMine, Goto, Sweep, Swept
<1>49. ASSUME NEW c \in Clients, NEW s \in Sids, HangupAsk(c, s) PROVE HangupsMine'
  BY <1>49 DEF TypeOK, HangupsMine, HangupAsk, ClaimedByOther, Goto, MayHangup, OwnersKnow
<1>50. ASSUME NEW c \in Clients, NEW s \in Sids, ForceEnd(c, s) PROVE HangupsMine'
  BY <1>50 DEF TypeOK, HangupsMine, ForceEnd, Goto, ActionFor
<1>51. CASE UNCHANGED vars
  BY <1>51 DEF vars, HangupsMine, LostUnclaimed
<1> QED
  BY <1>1, <1>4, <1>7, <1>10, <1>13, <1>16, <1>19, <1>22, <1>25, <1>28, <1>31, <1>33, <1>34,
      <1>37, <1>40, <1>43, <1>44, <1>47, <1>49, <1>50, <1>51 DEF Next, FarEnd, InviteRuns,
      TimerRuns, CancelRuns, ClientStarts, ClientRuns

(* When every client is an agent, every part of HangupInv holds throughout. *)
LEMMA HangupInvariance == Agents = Clients => (Spec => [](BeforeInvite /\ HangupInv))
<1> SUFFICES ASSUME Agents = Clients PROVE Spec => [](BeforeInvite /\ HangupInv)
  OBVIOUS
<1>1. Init => BeforeInvite /\ HangupInv
  BY ClientAssumption, NameAssumption DEF Init, BeforeInvite, HangupInv, OwnSessions, OwnTargets,
      ClaimantCarries, NewUnknown, LostStays, LostUnclaimed, OwnersKnow, HangupsMine, Procs,
      System, Sids
<1>2. ASSUME IInv, RingInv, BeforeInvite, HangupInv, [Next]_vars
      PROVE  BeforeInvite' /\ HangupInv'
  <2>1. /\ TypeOK /\ TerminalMutex /\ Targeted /\ ClaimHeld /\ InviteOnce
        /\ TimerOnce /\ ClaimKept
    BY <1>2 DEF IInv, RingInv
  <2>2. /\ OwnSessions /\ OwnTargets /\ ClaimantCarries /\ NewUnknown /\ LostStays
        /\ OwnersKnow /\ HangupsMine
    BY <1>2 DEF HangupInv
  <2>3. ClaimMoves /\ StateMoves /\ GuardMoves /\ MapMoves
    BY <1>2, <2>1, <2>2, ClaimSteps, StateSteps, GuardSteps, MapSteps
  <2>4. LostUnclaimed => LostUnclaimed' BY <2>2, <2>3, LostKept
  <2>5. claim # None => claim' = claim BY <2>3 DEF ClaimMoves
  <2>6. BeforeInvite' BY <1>2, <2>1, BeforeInviteStep
  <2>7. OwnSessions' /\ OwnTargets' BY <1>2, <2>1, <2>2, OwnSessionsStep, OwnTargetsStep
  <2>8. ClaimantCarries' BY <1>2, <2>1, <2>2, ClaimantCarriesStep
  <2>9. NewUnknown' BY <1>2, <2>1, <2>2, <2>3, NewUnknownStep
  <2>10. LostStays' BY <2>1, <2>2, <2>3, LostStaysStep
  <2>11. OwnersKnow' BY <1>2, <2>1, <2>2, <2>4, <2>5, OwnersKnowStep
  <2>12. HangupsMine' BY <1>2, <2>1, <2>2, <2>4, <2>5, HangupsMineStep
  <2> QED BY <2>6, <2>7, <2>8, <2>9, <2>10, <2>11, <2>12 DEF HangupInv
<1> QED BY <1>1, <1>2, Invariance, RingInvariance, PTL DEF Spec

(* When every client is an agent, a hangup that reaches the far end comes from
   the client that answered. *)
THEOREM HangupsSpareTheCall == Agents = Clients => (Spec => []LoserHangupSparesCall)
<1> SUFFICES ASSUME Agents = Clients PROVE Spec => []LoserHangupSparesCall
  OBVIOUS
<1>1. TypeOK /\ HangupInv => LoserHangupSparesCall
  <2> SUFFICES ASSUME TypeOK, HangupInv, NEW c \in Clients,
                      pc[c] = "end_bye", back[c] = "idle"
               PROVE  claim = c
    BY DEF LoserHangupSparesCall, HangupInv, ClaimantCarries
  <2>1. tgt[c] \in callID BY DEF HangupInv, ClaimantCarries
  <2>2. tgt[c] \in {c, Inc, None} BY DEF HangupInv, OwnTargets
  <2>3. CASE tgt[c] = Inc BY <2>3 DEF HangupInv, HangupsMine
  <2>4. CASE tgt[c] = c BY <2>1, <2>4 DEF HangupInv, ClaimantCarries
  <2>5. tgt[c] # None BY <2>1, NameAssumption DEF TypeOK, Sids
  <2> QED BY <2>2, <2>3, <2>4, <2>5
<1> QED BY <1>1, TypeCorrect, HangupInvariance, PTL

-----------------------------------------------------------------------------
(* A call that goes on can be ended: whoever answered it is its agent, and
   nobody takes its session away but with a BYE. *)

(* Every client is an agent that is connected when the INVITE arrives, and
   every write succeeds. *)
Steady == Agents = Clients /\ Online = Clients /\ ~Faults

(* Who has disconnected cleans up, or is gone; when calls are swept everybody
   has. *)
Leaves(c) == pc[c] \in {"own", "sweep", "gone"} \/ back[c] # "idle"
Sockets ==
  \A c \in Clients :
    /\ pc[c] # "off" /\ pc[c] # "replay"
    /\ c \in conn <=> ~Leaves(c)
    /\ pc[c] = "sweep" \/ back[c] = "sweep" => conn = {}

(* What a client ends of its own *)
Owning(c) == pc[c] = "own" \/ back[c] = "own"
OwnLists ==
  \A c \in Clients : Owning(c) => todo[c] \subseteq {c, Inc} /\ tgt[c] \in {c, Inc, None}

(* A ringing call is owned by nobody but its claimant. *)
OwnersClaim ==
  state[Inc] \in {"new", "incoming"} =>
    \A c \in Clients : Inc \in owned[c] \/ (Owning(c) /\ Inc \in todo[c]) => claim = c

(* An end that was decided on before the answer is the claimant's, or comes
   when nobody can answer any more. *)
StaleEnds ==
  \A c \in Clients :
    pc[c] = "end_begin" /\ tgt[c] = Inc /\ act[c] # "bye" /\ tx = "pending" =>
      claim = c \/ conn = {} \/ state[Inc] # "incoming"

(* The far end confirms what was answered. *)
FarEndKnows ==
  /\ caller \in {"confirmed", "gone"} => tx = "answered"
  /\ pc[ByeP] # "idle" => caller = "gone"
  /\ Inc \in dialog => state[Inc] \notin {"new", "incoming"}
  /\ state[Inc] = "new" \/ tx = "none" => pc[InviteP] = "idle"

(* Until it is answered a call is accepted only while it rings: who stopped the
   ringing keeps the guard. *)
Unanswered == tx \in {"none", "pending"}
AcceptsRinging ==
  Unanswered =>
    /\ state[Inc] \notin {"new", "incoming"} => term[Inc] # None
    /\ \A c \in Clients :
         /\ pc[c] \in {"acc_claim", "acc_transfer", "acc_200"} => state[Inc] = "incoming"
         /\ pc[c] # "acc_active" /\ (pc[c] = "acc_finish" => tgt[c] # Inc)
         /\ pc[c] \in {"acc_begin", "acc_claim", "acc_transfer", "acc_200"} /\ tgt[c] = c => c \in mgr

(* It is accepted once, on a session that carries it. *)
AcceptedOnce ==
  \A c \in Clients :
    /\ tx = "answered" => /\ pc[c] \in {"acc_begin", "acc_claim"} => claim # c
                          /\ pc[c] \notin {"acc_transfer", "acc_200"}
    /\ pc[c] = "acc_200" => tgt[c] \in callID

(* Nobody has heard of a call that is refused at once. *)
Admitting == {"idle", "admit", "refuse", "refuse_begin", "refuse_send", "refuse_delete"}
Unheard ==
  pc[InviteP] \in Admitting =>
    /\ pending = {} /\ claim = None
    /\ \A c \in Clients : Inc \notin owned[c] /\ pc[c] \notin {"acc_check", "acc_begin", "acc_claim"}

(* What stopped the ringing for everybody deletes no answered call. *)
EndersLate ==
  tx = "answered" =>
    /\ pc[TimerP] # "tmo_delete" /\ pc[CancelP] # "cxl_end"
    /\ \A c \in Clients : pc[c] # "rej_end"

(* The session of a call that goes on: nobody ends it without a BYE. *)
Bearer(s) ==
  /\ s \in mgr \cap callID
  /\ \/ s \in dialog
     \/ \E c \in Clients : pc[c] = "acc_active" /\ tgt[c] = s /\ (s = Inc => state[Inc] = "incoming")
  /\ \A c \in Clients : pc[c] \in {"acc_active", "acc_finish"} => tgt[c] = s
  /\ \A c \in Clients : tgt[c] = s =>
       /\ pc[c] \notin {"end_bye", "end_delete"}
       /\ pc[c] \in {"end_begin", "end_send"} => act[c] = "bye"
GoesOn == tx = "answered" /\ caller # "gone"
Carried == GoesOn => \E s \in Sids : Bearer(s)

CallInv ==
  /\ Sockets /\ OwnLists /\ OwnersClaim /\ StaleEnds /\ FarEndKnows /\ AcceptsRinging
  /\ AcceptedOnce /\ Unheard /\ EndersLate /\ Carried

(* Telling a client that a call has ended takes it off the ringing ones. *)
LEMMA EndPending ==
  ASSUME NEW s, EndAndNotify(s) PROVE pending' \subseteq pending
BY DEF EndAndNotify, Unbind

(* So does a refusal, whether it went out or not. *)
LEMMA RejectPending ==
  ASSUME NEW s, RejectCall(s) PROVE pending' \subseteq pending
BY EndPending DEF RejectCall, RejectFails, RejectSent

(* Sockets close once. *)
LEMMA SocketsStep ==
  ASSUME TypeOK, Steady, Targeted, OwnTargets, Sockets, [Next]_vars
  PROVE  Sockets'
<1> USE NameAssumption DEF Procs, System, Sids, sessVars, apiVars, sipVars, ctlVars, histVars
<1>1. CASE InviteArrives \/ CallerCancels \/ CallerAcks
  BY <1>1 DEF TypeOK, Sockets, Leaves, Goto, SetState, InviteArrives, CallerCancels, CallerAcks
<1>4. CASE CallerByes \/ Admit \/ Presented
  BY <1>4 DEF TypeOK, Sockets, Leaves, Goto, CallerByes, Admit, Presented
<1>7. CASE Refuse \/ RefuseBegin \/ RefuseSend
  BY <1>7 DEF TypeOK, Sockets, Leaves, Goto, CanBegin, Refuse, RefuseBegin, RefuseSend
<1>10. CASE RefuseDelete \/ TimerCheck \/ TimerBegin
  BY <1>10 DEF TypeOK, Sockets, Leaves, Goto, CanBeginIncoming, RefuseDelete, TimerCheck,
      TimerBegin
<1>13. CASE TimerFanout \/ TimerSend \/ TimerDelete
  BY <1>13 DEF TypeOK, Sockets, Leaves, Goto, TimerFanout, TimerSend, TimerDelete
<1>16. CASE CancelCheck \/ CancelBegin \/ Cancel487
  BY <1>16 DEF TypeOK, Sockets, Leaves, Goto, Return, CanBeginIncoming, Respond, CancelCheck,
      CancelBegin, Cancel487
<1>19. CASE CancelFanout \/ CancelEnd \/ ByeDelete
  BY <1>19 DEF TypeOK, Sockets, Leaves, Goto, Return, CancelFanout, CancelEnd, ByeDelete
<1>22. ASSUME NEW c \in Clients, Present(c) \/ Connect(c) \/ Offer(c) PROVE Sockets'
  BY <1>22 DEF TypeOK, Sockets, Leaves, CanBeginIncoming, OwnTargets, Ending, Goto, Steady,
      CanClaim, Present, Connect, Offer
<1>25. ASSUME NEW c \in Clients, AcceptAsk(c) PROVE Sockets'
  BY <1>25 DEF TypeOK, Sockets, Leaves, AcceptAsk, ClaimedByOther, Goto, OwnTargets, Ending
<1>26. ASSUME NEW c \in Clients, RejectAsk(c) \/ Disconnect(c) PROVE Sockets'
  BY <1>26 DEF TypeOK, Sockets, Leaves, Goto, OwnTargets, Ending, Steady, RejectAsk, Disconnect
<1>28. ASSUME NEW c \in Clients, Replay(c) PROVE Sockets'
  BY <1>28 DEF TypeOK, Sockets, Leaves, Replay, CanBeginIncoming, Goto, OwnTargets, Ending
<1>29. ASSUME NEW c \in Clients, Offered(c) \/ AcceptCheck(c) PROVE Sockets'
  BY <1>29 DEF TypeOK, Sockets, Leaves, Goto, SetState, OwnTargets, Ending, Offered, AcceptCheck
<1>31. ASSUME NEW c \in Clients, AcceptBegin(c) PROVE Sockets'
  BY <1>31 DEF TypeOK, Sockets, Leaves, AcceptBegin, CanBegin, ClaimedByOther, Goto, Return,
      OwnTargets, Ending
<1>32. ASSUME NEW c \in Clients, AcceptLost(c) PROVE Sockets'
  BY <1>32 DEF TypeOK, Sockets, Leaves, AcceptLost, Goto, Return, OwnTargets, Ending
<1>33. ASSUME NEW c \in Clients, AcceptClaim(c) PROVE Sockets'
  BY <1>33 DEF TypeOK, Sockets, Leaves, AcceptClaim, ClearTerminalAction, CanClaim, Goto,
      Return, OwnTargets, Ending
<1>34. ASSUME NEW c \in Clients, AcceptTransfer(c) \/ Accept200(c) \/ AcceptActive(c) PROVE Sockets'
  BY <1>34 DEF TypeOK, Sockets, Leaves, Goto, OwnTargets, Ending, Respond, AcceptTransfer,
      Accept200, AcceptActive
<1>37. ASSUME NEW c \in Clients, AcceptFinish(c) PROVE Sockets'
  BY <1>37 DEF TypeOK, Sockets, Leaves, AcceptFinish, ClearTerminalAction, Goto, OwnTargets,
      Ending
<1>38. ASSUME NEW c \in Clients, AcceptFanout(c) PROVE Sockets'
  BY <1>38 DEF TypeOK, Sockets, Leaves, AcceptFanout, Goto, Return, OwnTargets, Ending
<1>39. ASSUME NEW c \in Clients, RejectBegin(c) PROVE Sockets'
  BY <1>39 DEF TypeOK, Sockets, Leaves, RejectBegin, CanBeginIncoming, Goto, OwnTargets, Ending
<1>40. ASSUME NEW c \in Clients, RejectSend(c) PROVE Sockets'
  BY <1>40 DEF TypeOK, Sockets, Leaves, RejectSend, Goto, RejectFails, OwnTargets, Ending
<1>41. ASSUME NEW c \in Clients, RejectEnd(c) PROVE Sockets'
  BY <1>41 DEF TypeOK, Sockets, Leaves, RejectEnd, Goto, SetState, OwnTargets, Ending
<1>42. ASSUME NEW c \in Clients, HangupCheck(c) PROVE Sockets'
  BY <1>42 DEF TypeOK, Sockets, Leaves, HangupCheck, Goto, ActionFor, OwnTargets, Ending
<1>43. ASSUME NEW c \in Clients, EndBegin(c) PROVE Sockets'
  BY <1>43 DEF TypeOK, Sockets, Leaves, EndBegin, CanBegin, Goto, Return, EndReturn, OwnTargets,
      Ending
<1>44. ASSUME NEW c \in Clients, EndSend(c) \/ EndBye(c) PROVE Sockets'
  BY <1>44 DEF TypeOK, Sockets, Leaves, Goto, SetState, OwnTargets, Ending, EndSend, EndBye
<1>46. ASSUME NEW c \in Clients, EndDelete(c) PROVE Sockets'
  BY <1>46 DEF TypeOK, Sockets, Leaves, EndDelete, Goto, Return, EndReturn, OwnTargets, Ending
<1>47. ASSUME NEW c \in Clients, Sweep(c) \/ Swept(c) PROVE Sockets'
  BY <1>47 DEF TypeOK, Sockets, Leaves, Goto, Steady, OwnTargets, Ending, Sweep, Swept
<1>49. ASSUME NEW c \in Clients, NEW s \in Sids, HangupAsk(c, s) PROVE Sockets'
  BY <1>49 DEF TypeOK, Sockets, Leaves, HangupAsk, ClaimedByOther, Goto, OwnTargets, Ending
<1>50. ASSUME NEW c \in Clients, NEW s \in Sids, ForceEnd(c, s) PROVE Sockets'
  BY <1>50 DEF TypeOK, Sockets, Leaves, ForceEnd, Goto, ActionFor, OwnTargets, Ending
<1>51. CASE UNCHANGED vars
  BY <1>51 DEF vars, Sockets, Leaves
<1> QED
  BY <1>1, <1>4, <1>7, <1>10, <1>13, <1>16, <1>19, <1>22, <1>25, <1>26, <1>28, <1>29, <1>31,
      <1>32, <1>33, <1>34, <1>37, <1>38, <1>39, <1>40, <1>41, <1>42, <1>43, <1>44, <1>46, <1>47,
      <1>49, <1>50, <1>51 DEF Next, FarEnd, InviteRuns, TimerRuns, CancelRuns, ClientStarts,
      ClientRuns

(* An agent ends its own sessions. *)
LEMMA OwnListsStep ==
  ASSUME TypeOK, Steady, Targeted, OwnSessions, OwnTargets, OwnLists, [Next]_vars
  PROVE  OwnLists'
<1> USE NameAssumption DEF Procs, System, Sids, sessVars, apiVars, sipVars, ctlVars, histVars
<1>1. CASE InviteArrives \/ CallerCancels \/ CallerAcks
  BY <1>1 DEF TypeOK, OwnLists, Owning, Goto, SetState, InviteArrives, CallerCancels, CallerAcks
<1>4. CASE CallerByes \/ Admit \/ Presented
  BY <1>4 DEF TypeOK, OwnLists, Owning, Goto, CallerByes, Admit, Presented
<1>7. CASE Refuse \/ RefuseBegin \/ RefuseSend
  BY <1>7 DEF TypeOK, OwnLists, Owning, Goto, CanBegin, Refuse, RefuseBegin, RefuseSend
<1>10. CASE RefuseDelete \/ TimerCheck \/ TimerBegin
  BY <1>10 DEF TypeOK, OwnLists, Owning, Goto, CanBeginIncoming, RefuseDelete, TimerCheck,
      TimerBegin
<1>13. CASE TimerFanout \/ TimerSend \/ TimerDelete
  BY <1>13 DEF TypeOK, OwnLists, Owning, Goto, TimerFanout, TimerSend, TimerDelete
<1>16. CASE CancelCheck \/ CancelBegin \/ Cancel487
  BY <1>16 DEF TypeOK, OwnLists, Owning, Goto, Return, CanBeginIncoming, Respond, CancelCheck,
      CancelBegin, Cancel487
<1>19. CASE CancelFanout \/ CancelEnd \/ ByeDelete
  BY <1>19 DEF TypeOK, OwnLists, Owning, Goto, Return, CancelFanout, CancelEnd, ByeDelete
<1>22. ASSUME NEW c \in Clients, Present(c) PROVE OwnLists'
  BY <1>22 DEF TypeOK, OwnLists, Owning, Present, CanBeginIncoming, OwnTargets, OwnSessions,
      Ending
<1>23. ASSUME NEW c \in Clients, Connect(c) PROVE OwnLists'
  BY <1>23 DEF TypeOK, OwnLists, Owning, Connect, Goto, OwnTargets, OwnSessions, Ending
<1>24. ASSUME NEW c \in Clients, Offer(c) PROVE OwnLists'
  BY <1>24 DEF TypeOK, OwnLists, Owning, Offer, CanClaim, Goto, OwnTargets, OwnSessions, Ending
<1>25. ASSUME NEW c \in Clients, AcceptAsk(c) PROVE OwnLists'
  BY <1>25 DEF TypeOK, OwnLists, Owning, AcceptAsk, ClaimedByOther, Goto, OwnTargets,
      OwnSessions, Ending
<1>26. ASSUME NEW c \in Clients, RejectAsk(c) PROVE OwnLists'
  BY <1>26 DEF TypeOK, OwnLists, Owning, RejectAsk, Goto, OwnTargets, OwnSessions, Ending
<1>27. ASSUME NEW c \in Clients, Disconnect(c) PROVE OwnLists'
  BY <1>27, SMTT(40) DEF TypeOK, OwnLists, Owning, Disconnect, Goto, OwnTargets, OwnSessions, Ending
<1>28. ASSUME NEW c \in Clients, Replay(c) PROVE OwnLists'
  BY <1>28 DEF TypeOK, OwnLists, Owning, Replay, CanBeginIncoming, Goto, OwnTargets,
      OwnSessions, Ending
<1>29. ASSUME NEW c \in Clients, Offered(c) PROVE OwnLists'
  BY <1>29 DEF TypeOK, OwnLists, Owning, Offered, Goto, SetState, OwnTargets, OwnSessions,
      Ending
<1>30. ASSUME NEW c \in Clients, AcceptCheck(c) PROVE OwnLists'
  BY <1>30 DEF TypeOK, OwnLists, Owning, AcceptCheck, Goto, OwnTargets, OwnSessions, Ending
<1>31. ASSUME NEW c \in Clients, AcceptBegin(c) PROVE OwnLists'
  BY <1>31 DEF TypeOK, OwnLists, Owning, AcceptBegin, CanBegin, ClaimedByOther, Goto, Return,
      OwnTargets, OwnSessions, Ending
<1>32. ASSUME NEW c \in Clients, AcceptLost(c) PROVE OwnLists'
  BY <1>32 DEF TypeOK, OwnLists, Owning, AcceptLost, Goto, Return, OwnTargets, OwnSessions,
      Ending
<1>33. ASSUME NEW c \in Clients, AcceptClaim(c) PROVE OwnLists'
  BY <1>33 DEF TypeOK, OwnLists, Owning, AcceptClaim, ClearTerminalAction, CanClaim, Goto,
      Return, OwnTargets, OwnSessions, Ending
<1>34. ASSUME NEW c \in Clients, AcceptTransfer(c) PROVE OwnLists'
  BY <1>34 DEF TypeOK, OwnLists, Owning, AcceptTransfer, Goto, OwnTargets, OwnSessions, Ending
<1>35. ASSUME NEW c \in Clients, Accept200(c) PROVE OwnLists'
  BY <1>35 DEF TypeOK, OwnLists, Owning, Accept200, Goto, Respond, OwnTargets, OwnSessions,
      Ending
<1>36. ASSUME NEW c \in Clients, AcceptActive(c) PROVE OwnLists'
  BY <1>36 DEF TypeOK, OwnLists, Owning, AcceptActive, Goto, OwnTargets, OwnSessions, Ending
<1>37. ASSUME NEW c \in Clients, AcceptFinish(c) PROVE OwnLists'
  BY <1>37 DEF TypeOK, OwnLists, Owning, AcceptFinish, ClearTerminalAction, Goto, OwnTargets,
      OwnSessions, Ending
<1>38. ASSUME NEW c \in Clients, AcceptFanout(c) PROVE OwnLists'
  BY <1>38 DEF TypeOK, OwnLists, Owning, AcceptFanout, Goto, Return, OwnTargets, OwnSessions,
      Ending
<1>39. ASSUME NEW c \in Clients, RejectBegin(c) PROVE OwnLists'
  BY <1>39 DEF TypeOK, OwnLists, Owning, RejectBegin, CanBeginIncoming, Goto, OwnTargets,
      OwnSessions, Ending
<1>40. ASSUME NEW c \in Clients, RejectSend(c) PROVE OwnLists'
  BY <1>40 DEF TypeOK, OwnLists, Owning, RejectSend, Goto, RejectFails, OwnTargets, OwnSessions,
      Ending
<1>41. ASSUME NEW c \in Clients, RejectEnd(c) PROVE OwnLists'
  BY <1>41 DEF TypeOK, OwnLists, Owning, RejectEnd, Goto, SetState, OwnTargets, OwnSessions,
      Ending
<1>42. ASSUME NEW c \in Clients, HangupCheck(c) PROVE OwnLists'
  BY <1>42 DEF TypeOK, OwnLists, Owning, HangupCheck, Goto, ActionFor, OwnTargets, OwnSessions,
      Ending
<1>43. ASSUME NEW c \in Clients, EndBegin(c) PROVE OwnLists'
  BY <1>43 DEF TypeOK, OwnLists, Owning, EndBegin, CanBegin, Goto, Return, EndReturn,
      OwnTargets, OwnSessions, Ending
<1>44. ASSUME NEW c \in Clients, EndSend(c) PROVE OwnLists'
  BY <1>44 DEF TypeOK, OwnLists, Owning, EndSend, Goto, SetState, OwnTargets, OwnSessions,
      Ending
<1>45. ASSUME NEW c \in Clients, EndBye(c) PROVE OwnLists'
  BY <1>45 DEF TypeOK, OwnLists, Owning, EndBye, Goto, OwnTargets, OwnSessions, Ending
<1>46. ASSUME NEW c \in Clients, EndDelete(c) PROVE OwnLists'
  BY <1>46 DEF TypeOK, OwnLists, Owning, EndDelete, Goto, Return, EndReturn, OwnTargets,
      OwnSessions, Ending
<1>47. ASSUME NEW c \in Clients, Sweep(c) \/ Swept(c) PROVE OwnLists'
  BY <1>47 DEF TypeOK, OwnLists, Owning, Goto, OwnTargets, OwnSessions, Ending, Sweep, Swept
<1>49. ASSUME NEW c \in Clients, NEW s \in Sids, HangupAsk(c, s) PROVE OwnLists'
  BY <1>49 DEF TypeOK, OwnLists, Owning, HangupAsk, ClaimedByOther, Goto, OwnTargets,
      OwnSessions, Ending
<1>50. ASSUME NEW c \in Clients, NEW s \in Sids, ForceEnd(c, s) PROVE OwnLists'
  BY <1>50 DEF TypeOK, OwnLists, Owning, ForceEnd, Goto, ActionFor, OwnTargets, OwnSessions,
      Ending
<1>51. CASE UNCHANGED vars
  BY <1>51 DEF vars, TypeOK, OwnLists, Owning
<1> QED
  BY <1>1, <1>4, <1>7, <1>10, <1>13, <1>16, <1>19, <1>22, <1>23, <1>24, <1>25, <1>26, <1>27,
      <1>28, <1>29, <1>30, <1>31, <1>32, <1>33, <1>34, <1>35, <1>36, <1>37, <1>38, <1>39, <1>40,
      <1>41, <1>42, <1>43, <1>44, <1>45, <1>46, <1>47, <1>49, <1>50, <1>51 DEF Next, FarEnd,
      InviteRuns, TimerRuns, CancelRuns, ClientStarts, ClientRuns

(* A ringing call has one owner at most. *)
LEMMA OwnersClaimStep ==
  ASSUME TypeOK, Steady, Targeted, ClaimHeld, NewUnknown, ClaimMoves, OwnersKnow, OwnTargets,
         OwnersClaim, [Next]_vars
  PROVE  OwnersClaim'
<1> USE NameAssumption DEF Procs, System, Sids, sessVars, apiVars, sipVars, ctlVars, histVars
<1>1. CASE InviteArrives
  BY <1>1 DEF TypeOK, OwnersClaim, Owning, ClaimMoves, InviteArrives, Goto, SetState, NewUnknown
<1>2. CASE CallerCancels
  BY <1>2 DEF TypeOK, OwnersClaim, Owning, ClaimMoves, CallerCancels, Goto
<1>3. CASE CallerAcks
  <2>1. \/ UNCHANGED <<state, dialog>>
        \/ \E s \in mgr \cap callID : /\ s \notin dialog /\ dialog' = dialog \cup {s}
                                     /\ state' = [state EXCEPT ![s] = "active"]
    BY <1>3, ActivateEffect DEF CallerAcks, ActivateAndNotify
  <2> QED
    BY <1>3, <2>1 DEF TypeOK, OwnersClaim, Owning, ClaimMoves, CallerAcks, OwnsLess
<1>4. CASE CallerByes
  <2>1. \/ UNCHANGED <<state, owned, pending, cur>>
        \/ \E s \in mgr \cap callID : state' = [state EXCEPT ![s] = "ended"] /\ OwnsLess /\ pending' \subseteq pending
    BY <1>4, EndEffect, EndOwns, EndPending DEF CallerByes, TypeOK
  <2> QED
    BY <1>4, <2>1 DEF TypeOK, OwnersClaim, Owning, ClaimMoves, CallerByes, Goto, OwnsLess
<1>5. CASE Admit \/ Presented \/ Refuse
  BY <1>5 DEF TypeOK, OwnersClaim, Owning, ClaimMoves, Goto, Admit, Presented, Refuse
<1>8. CASE RefuseBegin
  BY <1>8 DEF TypeOK, OwnersClaim, Owning, ClaimMoves, RefuseBegin, CanBegin, Goto
<1>9. CASE RefuseSend
  <2>1. \/ UNCHANGED <<state, tx>>
        \/ /\ state' = [state EXCEPT ![Inc] = "ended"]
           /\ tx' = IF tx = "pending" THEN "rejected" ELSE tx
    BY <1>9, RejectEffect DEF RefuseSend
  <2>2. OwnsLess /\ pending' \subseteq pending
    BY <1>9, RejectOwns, RejectPending DEF RefuseSend
  <2> QED
    BY <1>9, <2>1, <2>2 DEF TypeOK, OwnersClaim, Owning, ClaimMoves, RefuseSend, Goto, OwnsLess
<1>10. CASE RefuseDelete
  <2>1. \/ mgr' = mgr \ {Inc} /\ state' = [state EXCEPT ![Inc] = "ended"]
        \/ Inc \notin mgr /\ UNCHANGED <<mgr, state>>
    BY <1>10, DeleteEffect DEF RefuseDelete
  <2> QED
    BY <1>10, <2>1 DEF TypeOK, OwnersClaim, Owning, ClaimMoves, RefuseDelete, Goto, OwnsLess
<1>11. CASE TimerCheck
  BY <1>11 DEF TypeOK, OwnersClaim, Owning, ClaimMoves, TimerCheck, Goto
<1>12. CASE TimerBegin
  BY <1>12 DEF TypeOK, OwnersClaim, Owning, ClaimMoves, TimerBegin, CanBeginIncoming, Goto
<1>13. CASE TimerFanout
  <2>1. pending' \subseteq pending
    BY <1>13 DEF TimerFanout, Fanout
  <2> QED
    BY <1>13, <2>1 DEF TypeOK, OwnersClaim, Owning, ClaimMoves, TimerFanout, Goto, OwnsLess
<1>14. CASE TimerSend
  <2>1. \/ UNCHANGED <<state, tx>>
        \/ /\ state' = [state EXCEPT ![Inc] = "ended"]
           /\ tx' = IF tx = "pending" THEN "rejected" ELSE tx
    BY <1>14, RejectEffect DEF TimerSend
  <2>2. OwnsLess /\ pending' \subseteq pending
    BY <1>14, RejectOwns, RejectPending DEF TimerSend
  <2> QED
    BY <1>14, <2>1, <2>2 DEF TypeOK, OwnersClaim, Owning, ClaimMoves, TimerSend, Goto, OwnsLess
<1>15. CASE TimerDelete
  <2>1. \/ mgr' = mgr \ {Inc} /\ state' = [state EXCEPT ![Inc] = "ended"]
        \/ Inc \notin mgr /\ UNCHANGED <<mgr, state>>
    BY <1>15, DeleteEffect DEF TimerDelete
  <2> QED
    BY <1>15, <2>1 DEF TypeOK, OwnersClaim, Owning, ClaimMoves, TimerDelete, Goto, OwnsLess
<1>16. CASE CancelCheck
  BY <1>16 DEF TypeOK, OwnersClaim, Owning, ClaimMoves, CancelCheck, Goto, Return
<1>17. CASE CancelBegin
  BY <1>17 DEF TypeOK, OwnersClaim, Owning, ClaimMoves, CancelBegin, CanBeginIncoming, Goto,
      Return
<1>18. CASE Cancel487
  BY <1>18 DEF TypeOK, OwnersClaim, Owning, ClaimMoves, Cancel487, Goto, Respond
<1>19. CASE CancelFanout
  <2>1. pending' \subseteq pending
    BY <1>19 DEF CancelFanout, Fanout
  <2> QED
    BY <1>19, <2>1 DEF TypeOK, OwnersClaim, Owning, ClaimMoves, CancelFanout, Goto, OwnsLess
<1>20. CASE CancelEnd
  <2>1. tgt[CancelP] = Inc
    BY <1>20 DEF CancelEnd, Targeted
  <2>2. state' = [state EXCEPT ![Inc] = "ended"]
    BY <1>20, EndEffect, <2>1 DEF CancelEnd
  <2>3. OwnsLess /\ pending' \subseteq pending
    BY <1>20, EndOwns, EndPending, <2>1 DEF CancelEnd
  <2> QED
    BY <1>20, <2>1, <2>2, <2>3 DEF TypeOK, OwnersClaim, Owning, ClaimMoves, CancelEnd, Goto, Return,
        OwnsLess
<1>21. CASE ByeDelete
  <2>1. \/ mgr' = mgr \ {tgt[ByeP]} /\ state' = [state EXCEPT ![tgt[ByeP]] = "ended"]
        \/ tgt[ByeP] \notin mgr /\ UNCHANGED <<mgr, state>>
    BY <1>21, DeleteEffect DEF ByeDelete
  <2> QED
    BY <1>21, <2>1 DEF TypeOK, OwnersClaim, Owning, ClaimMoves, ByeDelete, Goto, Return, OwnsLess
<1>22. ASSUME NEW c \in Clients, Present(c) PROVE OwnersClaim'
  BY <1>22 DEF TypeOK, OwnersClaim, Owning, ClaimMoves, Present, CanBeginIncoming, OwnTargets,
      Ending
<1>23. ASSUME NEW c \in Clients, Connect(c) PROVE OwnersClaim'
  BY <1>23 DEF TypeOK, OwnersClaim, Owning, ClaimMoves, Connect, Goto, OwnTargets, Ending
<1>24. ASSUME NEW c \in Clients, Offer(c) PROVE OwnersClaim'
  BY <1>24 DEF TypeOK, OwnersClaim, Owning, ClaimMoves, Offer, CanClaim, Goto, OwnTargets,
      Ending, Bind, NewUnknown
<1>25. ASSUME NEW c \in Clients, AcceptAsk(c) PROVE OwnersClaim'
  BY <1>25 DEF TypeOK, OwnersClaim, Owning, ClaimMoves, AcceptAsk, ClaimedByOther, Goto,
      OwnTargets, Ending
<1>26. ASSUME NEW c \in Clients, RejectAsk(c) PROVE OwnersClaim'
  BY <1>26 DEF TypeOK, OwnersClaim, Owning, ClaimMoves, RejectAsk, Goto, OwnTargets, Ending
<1>27. ASSUME NEW c \in Clients, Disconnect(c) PROVE OwnersClaim'
  BY <1>27 DEF TypeOK, OwnersClaim, Owning, ClaimMoves, Disconnect, Goto, OwnTargets, Ending
<1>28. ASSUME NEW c \in Clients, Replay(c) PROVE OwnersClaim'
  BY <1>28 DEF TypeOK, OwnersClaim, Owning, ClaimMoves, Replay, CanBeginIncoming, Goto,
      OwnTargets, Ending
<1>29. ASSUME NEW c \in Clients, Offered(c) PROVE OwnersClaim'
  BY <1>29 DEF TypeOK, OwnersClaim, Owning, ClaimMoves, Offered, Goto, SetState, OwnTargets,
      Ending
<1>30. ASSUME NEW c \in Clients, AcceptCheck(c) PROVE OwnersClaim'
  BY <1>30 DEF TypeOK, OwnersClaim, Owning, ClaimMoves, AcceptCheck, Goto, OwnTargets, Ending
<1>31. ASSUME NEW c \in Clients, AcceptBegin(c) PROVE OwnersClaim'
  BY <1>31 DEF TypeOK, OwnersClaim, Owning, ClaimMoves, AcceptBegin, CanBegin, ClaimedByOther,
      Goto, Return, OwnTargets, Ending
<1>32. ASSUME NEW c \in Clients, AcceptLost(c) PROVE OwnersClaim'
  BY <1>32 DEF TypeOK, OwnersClaim, Owning, ClaimMoves, AcceptLost, Goto, Return, OwnTargets,
      Ending
<1>33. ASSUME NEW c \in Clients, AcceptClaim(c) PROVE OwnersClaim'
  BY <1>33 DEF TypeOK, OwnersClaim, Owning, ClaimMoves, AcceptClaim, ClearTerminalAction,
      CanClaim, Goto, Return, OwnTargets, Ending
<1>34. ASSUME NEW c \in Clients, AcceptTransfer(c) PROVE OwnersClaim'
  BY <1>34 DEF TypeOK, OwnersClaim, Owning, ClaimMoves, AcceptTransfer, Goto, OwnTargets,
      Ending, Bind, ClaimHeld
<1>35. ASSUME NEW c \in Clients, Accept200(c) PROVE OwnersClaim'
  BY <1>35 DEF TypeOK, OwnersClaim, Owning, ClaimMoves, Accept200, Goto, Respond, OwnTargets,
      Ending
<1>36. ASSUME NEW c \in Clients, AcceptActive(c) PROVE OwnersClaim'
  <2>1. tgt[c] \in Sids
    BY <1>36 DEF AcceptActive, Targeted, Accepting
  <2>2. state' = [state EXCEPT ![tgt[c]] = "active"]
    BY <1>36, ActivateEffect DEF AcceptActive
  <2>3. dialog' = dialog \cup {tgt[c]}
    BY <1>36 DEF AcceptActive, ActivateAndNotify
  <2> QED
    BY <1>36, <2>1, <2>2, <2>3 DEF TypeOK, OwnersClaim, Owning, ClaimMoves, AcceptActive, Goto,
        OwnTargets, Ending, OwnsLess
<1>37. ASSUME NEW c \in Clients, AcceptFinish(c) PROVE OwnersClaim'
  <2>1. tgt[c] \in Sids
    BY <1>37 DEF AcceptFinish, Targeted, Accepting
  <2>2. IF tgt[c] = Inc THEN UNCHANGED <<mgr, state>>
        ELSE \/ mgr' = mgr \ {Inc} /\ state' = [state EXCEPT ![Inc] = "ended"]
             \/ Inc \notin mgr /\ UNCHANGED <<mgr, state>>
    BY <1>37, DeleteEffect DEF AcceptFinish
  <2> QED
    BY <1>37, <2>1, <2>2 DEF TypeOK, OwnersClaim, Owning, ClaimMoves, AcceptFinish,
        ClearTerminalAction, Goto, OwnTargets, Ending, OwnsLess
<1>38. ASSUME NEW c \in Clients, AcceptFanout(c) PROVE OwnersClaim'
  <2>1. pending' \subseteq pending
    BY <1>38 DEF AcceptFanout, Fanout
  <2> QED
    BY <1>38, <2>1 DEF TypeOK, OwnersClaim, Owning, ClaimMoves, AcceptFanout, Goto, Return,
        OwnTargets, Ending, OwnsLess
<1>39. ASSUME NEW c \in Clients, RejectBegin(c) PROVE OwnersClaim'
  BY <1>39 DEF TypeOK, OwnersClaim, Owning, ClaimMoves, RejectBegin, CanBeginIncoming, Goto,
      OwnTargets, Ending
<1>40. ASSUME NEW c \in Clients, RejectSend(c) PROVE OwnersClaim'
  <2>1. \/ UNCHANGED <<state, tx>>
        \/ /\ state' = [state EXCEPT ![Inc] = "ended"]
           /\ tx' = IF tx = "pending" THEN "rejected" ELSE tx
    BY <1>40, RejectEffect DEF RejectSend, RejectCall
  <2>2. OwnsLess /\ pending' \subseteq pending
    BY <1>40, RejectOwns, RejectPending DEF RejectSend, RejectCall
  <2> QED
    BY <1>40, <2>1, <2>2 DEF TypeOK, OwnersClaim, Owning, ClaimMoves, RejectSend, Goto, RejectFails,
        OwnTargets, Ending, OwnsLess
<1>41. ASSUME NEW c \in Clients, RejectEnd(c) PROVE OwnersClaim'
  BY <1>41 DEF TypeOK, OwnersClaim, Owning, ClaimMoves, RejectEnd, Goto, SetState, OwnTargets,
      Ending
<1>42. ASSUME NEW c \in Clients, HangupCheck(c) PROVE OwnersClaim'
  BY <1>42 DEF TypeOK, OwnersClaim, Owning, ClaimMoves, HangupCheck, Goto, ActionFor,
      OwnTargets, Ending
<1>43. ASSUME NEW c \in Clients, EndBegin(c) PROVE OwnersClaim'
  BY <1>43 DEF TypeOK, OwnersClaim, Owning, ClaimMoves, EndBegin, CanBegin, Goto, Return,
      EndReturn, OwnTargets, Ending
<1>44. ASSUME NEW c \in Clients, EndSend(c) PROVE OwnersClaim'
  <2>1. tgt[c] \in Sids
    BY <1>44 DEF EndSend, Targeted, Ending
  <2>2. \/ /\ state' = [state EXCEPT ![tgt[c]] = "ended"]
           /\ \/ tx' = tx
              \/ act[c] = "reject" /\ tx' = IF tx = "pending" THEN "rejected" ELSE tx
        \/ UNCHANGED <<state, tx>>
    BY <1>44, EndEffect, RejectEffect DEF EndSend, SetState
  <2>3. \/ OwnsLess /\ pending' \subseteq pending
        \/ UNCHANGED <<owned, pending, cur>>
    BY <1>44, EndOwns, EndPending, RejectOwns, RejectPending, <2>1 DEF EndSend
  <2> QED
    BY <1>44, <2>1, <2>2, <2>3 DEF TypeOK, OwnersClaim, Owning, ClaimMoves, EndSend, Goto, SetState,
        OwnTargets, Ending, OwnsLess
<1>45. ASSUME NEW c \in Clients, EndBye(c) PROVE OwnersClaim'
  <2>1. tgt[c] \in Sids
    BY <1>45 DEF EndBye, Targeted, Ending
  <2>2. state' = [state EXCEPT ![tgt[c]] = "ended"]
    BY <1>45, EndEffect DEF EndBye
  <2>3. OwnsLess /\ pending' \subseteq pending
    BY <1>45, EndOwns, EndPending, <2>1 DEF EndBye
  <2> QED
    BY <1>45, <2>1, <2>2, <2>3 DEF TypeOK, OwnersClaim, Owning, ClaimMoves, EndBye, Goto,
        OwnTargets, Ending, OwnsLess
<1>46. ASSUME NEW c \in Clients, EndDelete(c) PROVE OwnersClaim'
  <2>1. tgt[c] \in Sids
    BY <1>46 DEF EndDelete, Targeted, Ending
  <2>2. \/ mgr' = mgr \ {tgt[c]} /\ state' = [state EXCEPT ![tgt[c]] = "ended"]
        \/ tgt[c] \notin mgr /\ UNCHANGED <<mgr, state>>
    BY <1>46, DeleteEffect DEF EndDelete
  <2>3. \/ OwnsLess /\ pending' \subseteq pending
        \/ UNCHANGED <<owned, pending, cur>>
    BY <1>46, UnbindOwns, <2>1 DEF EndDelete, Unbind
  <2> QED
    BY <1>46, <2>1, <2>2, <2>3 DEF TypeOK, OwnersClaim, Owning, ClaimMoves, EndDelete, Goto, Return,
        EndReturn, OwnTargets, Ending, OwnsLess
<1>47. ASSUME NEW c \in Clients, Sweep(c) \/ Swept(c) PROVE OwnersClaim'
  BY <1>47 DEF TypeOK, OwnersClaim, Owning, ClaimMoves, Goto, OwnTargets, Ending, Sweep, Swept
<1>49. ASSUME NEW c \in Clients, NEW s \in Sids, HangupAsk(c, s) PROVE OwnersClaim'
  BY <1>49 DEF TypeOK, OwnersClaim, Owning, ClaimMoves, HangupAsk, ClaimedByOther, Goto,
      OwnTargets, Ending
<1>50. ASSUME NEW c \in Clients, NEW s \in Sids, ForceEnd(c, s) PROVE OwnersClaim'
  BY <1>50 DEF TypeOK, OwnersClaim, Owning, ClaimMoves, ForceEnd, Goto, ActionFor, OwnTargets,
      Ending
<1>51. CASE UNCHANGED vars
  BY <1>51 DEF vars, OwnersClaim, Owning
<1> QED
  BY <1>1, <1>2, <1>3, <1>4, <1>5, <1>8, <1>9, <1>10, <1>11, <1>12, <1>13, <1>14, <1>15, <1>16,
      <1>17, <1>18, <1>19, <1>20, <1>21, <1>22, <1>23, <1>24, <1>25, <1>26, <1>27, <1>28, <1>29,
      <1>30, <1>31, <1>32, <1>33, <1>34, <1>35, <1>36, <1>37, <1>38, <1>39, <1>40, <1>41, <1>42,
      <1>43, <1>44, <1>45, <1>46, <1>47, <1>49, <1>50, <1>51 DEF Next, FarEnd, InviteRuns,
      TimerRuns, CancelRuns, ClientStarts, ClientRuns

(* An end that was decided on before the answer stays with the claimant. *)
LEMMA StaleEndsStep ==
  ASSUME TypeOK, Steady, Targeted, NewUnknown, ClaimMoves, BeforeInvite, HangupsMine,
         LostUnclaimed => LostUnclaimed', OwnTargets, Sockets, OwnLists, OwnersClaim, StaleEnds,
         [Next]_vars
  PROVE  StaleEnds'
<1> USE NameAssumption DEF Procs, System, Sids, sessVars, apiVars, sipVars, ctlVars, histVars
<1>1. CASE InviteArrives
  BY <1>1 DEF TypeOK, StaleEnds, ClaimMoves, InviteArrives, Goto, SetState, BeforeInvite
<1>2. CASE CallerCancels
  BY <1>2 DEF TypeOK, StaleEnds, ClaimMoves, CallerCancels, Goto
<1>3. CASE CallerAcks
  <2>1. \/ UNCHANGED <<state, dialog>>
        \/ \E s \in mgr \cap callID : /\ s \notin dialog /\ dialog' = dialog \cup {s}
                                     /\ state' = [state EXCEPT ![s] = "active"]
    BY <1>3, ActivateEffect DEF CallerAcks, ActivateAndNotify
  <2> QED
    BY <1>3, <2>1 DEF TypeOK, StaleEnds, ClaimMoves, CallerAcks
<1>4. CASE CallerByes
  <2>1. \/ UNCHANGED <<state, owned, pending, cur>>
        \/ \E s \in mgr \cap callID : state' = [state EXCEPT ![s] = "ended"] /\ OwnsLess /\ pending' \subseteq pending
    BY <1>4, EndEffect, EndOwns, EndPending DEF CallerByes, TypeOK
  <2> QED
    BY <1>4, <2>1 DEF TypeOK, StaleEnds, ClaimMoves, CallerByes, Goto
<1>5. CASE Admit \/ Presented \/ Refuse
  BY <1>5 DEF TypeOK, StaleEnds, ClaimMoves, Goto, Admit, Presented, Refuse
<1>8. CASE RefuseBegin
  BY <1>8 DEF TypeOK, StaleEnds, ClaimMoves, RefuseBegin, CanBegin, Goto
<1>9. CASE RefuseSend
  <2>1. \/ UNCHANGED <<state, tx>>
        \/ /\ state' = [state EXCEPT ![Inc] = "ended"]
           /\ tx' = IF tx = "pending" THEN "rejected" ELSE tx
    BY <1>9, RejectEffect DEF RefuseSend
  <2> QED
    BY <1>9, <2>1 DEF TypeOK, StaleEnds, ClaimMoves, RefuseSend, Goto
<1>10. CASE RefuseDelete
  <2>1. \/ mgr' = mgr \ {Inc} /\ state' = [state EXCEPT ![Inc] = "ended"]
        \/ Inc \notin mgr /\ UNCHANGED <<mgr, state>>
    BY <1>10, DeleteEffect DEF RefuseDelete
  <2> QED
    BY <1>10, <2>1 DEF TypeOK, StaleEnds, ClaimMoves, RefuseDelete, Goto
<1>11. CASE TimerCheck \/ TimerBegin
  BY <1>11 DEF TypeOK, StaleEnds, ClaimMoves, Goto, CanBeginIncoming, TimerCheck, TimerBegin
<1>13. CASE TimerFanout
  <2>1. pending' \subseteq pending
    BY <1>13 DEF TimerFanout, Fanout
  <2> QED
    BY <1>13, <2>1 DEF TypeOK, StaleEnds, ClaimMoves, TimerFanout, Goto
<1>14. CASE TimerSend
  <2>1. \/ UNCHANGED <<state, tx>>
        \/ /\ state' = [state EXCEPT ![Inc] = "ended"]
           /\ tx' = IF tx = "pending" THEN "rejected" ELSE tx
    BY <1>14, RejectEffect DEF TimerSend
  <2> QED
    BY <1>14, <2>1 DEF TypeOK, StaleEnds, ClaimMoves, TimerSend, Goto
<1>15. CASE TimerDelete
  <2>1. \/ mgr' = mgr \ {Inc} /\ state' = [state EXCEPT ![Inc] = "ended"]
        \/ Inc \notin mgr /\ UNCHANGED <<mgr, state>>
    BY <1>15, DeleteEffect DEF TimerDelete
  <2> QED
    BY <1>15, <2>1 DEF TypeOK, StaleEnds, ClaimMoves, TimerDelete, Goto
<1>16. CASE CancelCheck
  BY <1>16 DEF TypeOK, StaleEnds, ClaimMoves, CancelCheck, Goto, Return
<1>17. CASE CancelBegin
  BY <1>17 DEF TypeOK, StaleEnds, ClaimMoves, CancelBegin, CanBeginIncoming, Goto, Return
<1>18. CASE Cancel487
  BY <1>18 DEF TypeOK, StaleEnds, ClaimMoves, Cancel487, Goto, Respond
<1>19. CASE CancelFanout
  <2>1. pending' \subseteq pending
    BY <1>19 DEF CancelFanout, Fanout
  <2> QED
    BY <1>19, <2>1 DEF TypeOK, StaleEnds, ClaimMoves, CancelFanout, Goto
<1>20. CASE CancelEnd
  <2>1. tgt[CancelP] = Inc
    BY <1>20 DEF CancelEnd, Targeted
  <2>2. state' = [state EXCEPT ![Inc] = "ended"]
    BY <1>20, EndEffect, <2>1 DEF CancelEnd
  <2> QED
    BY <1>20, <2>1, <2>2 DEF TypeOK, StaleEnds, ClaimMoves, CancelEnd, Goto, Return
<1>21. CASE ByeDelete
  <2>1. \/ mgr' = mgr \ {tgt[ByeP]} /\ state' = [state EXCEPT ![tgt[ByeP]] = "ended"]
        \/ tgt[ByeP] \notin mgr /\ UNCHANGED <<mgr, state>>
    BY <1>21, DeleteEffect DEF ByeDelete
  <2> QED
    BY <1>21, <2>1 DEF TypeOK, StaleEnds, ClaimMoves, ByeDelete, Goto, Return
<1>22. ASSUME NEW c \in Clients, Present(c) \/ Connect(c) \/ Offer(c) PROVE StaleEnds'
  BY <1>22 DEF TypeOK, StaleEnds, ClaimMoves, CanBeginIncoming, Goto, Sockets, CanClaim, Present,
      Connect, Offer
<1>25. ASSUME NEW c \in Clients, AcceptAsk(c) \/ RejectAsk(c) \/ Disconnect(c) PROVE StaleEnds'
  BY <1>25 DEF TypeOK, StaleEnds, ClaimMoves, ClaimedByOther, Goto, AcceptAsk, RejectAsk,
      Disconnect
<1>28. ASSUME NEW c \in Clients, Replay(c) \/ Offered(c) \/ AcceptCheck(c) PROVE StaleEnds'
  BY <1>28 DEF TypeOK, StaleEnds, ClaimMoves, CanBeginIncoming, Goto, SetState, Replay, Offered,
      AcceptCheck
<1>31. ASSUME NEW c \in Clients, AcceptBegin(c) PROVE StaleEnds'
  BY <1>31 DEF TypeOK, StaleEnds, ClaimMoves, AcceptBegin, CanBegin, ClaimedByOther, Goto,
      Return
<1>32. ASSUME NEW c \in Clients, AcceptLost(c) PROVE StaleEnds'
  BY <1>32 DEF TypeOK, StaleEnds, ClaimMoves, AcceptLost, Goto, Return
<1>33. ASSUME NEW c \in Clients, AcceptClaim(c) PROVE StaleEnds'
  BY <1>33 DEF TypeOK, StaleEnds, ClaimMoves, AcceptClaim, ClearTerminalAction, CanClaim, Goto,
      Return
<1>34. ASSUME NEW c \in Clients, AcceptTransfer(c) \/ Accept200(c) PROVE StaleEnds'
  BY <1>34 DEF TypeOK, StaleEnds, ClaimMoves, Goto, Respond, AcceptTransfer, Accept200
<1>36. ASSUME NEW c \in Clients, AcceptActive(c) PROVE StaleEnds'
  <2>1. tgt[c] \in Sids
    BY <1>36 DEF AcceptActive, Targeted, Accepting
  <2>2. state' = [state EXCEPT ![tgt[c]] = "active"]
    BY <1>36, ActivateEffect DEF AcceptActive
  <2>3. dialog' = dialog \cup {tgt[c]}
    BY <1>36 DEF AcceptActive, ActivateAndNotify
  <2> QED
    BY <1>36, <2>1, <2>2, <2>3 DEF TypeOK, StaleEnds, ClaimMoves, AcceptActive, Goto
<1>37. ASSUME NEW c \in Clients, AcceptFinish(c) PROVE StaleEnds'
  <2>1. tgt[c] \in Sids
    BY <1>37 DEF AcceptFinish, Targeted, Accepting
  <2>2. IF tgt[c] = Inc THEN UNCHANGED <<mgr, state>>
        ELSE \/ mgr' = mgr \ {Inc} /\ state' = [state EXCEPT ![Inc] = "ended"]
             \/ Inc \notin mgr /\ UNCHANGED <<mgr, state>>
    BY <1>37, DeleteEffect DEF AcceptFinish
  <2> QED
    BY <1>37, <2>1, <2>2 DEF TypeOK, StaleEnds, ClaimMoves, AcceptFinish, ClearTerminalAction, Goto
<1>38. ASSUME NEW c \in Clients, AcceptFanout(c) PROVE StaleEnds'
  <2>1. pending' \subseteq pending
    BY <1>38 DEF AcceptFanout, Fanout
  <2> QED
    BY <1>38, <2>1 DEF TypeOK, StaleEnds, ClaimMoves, AcceptFanout, Goto, Return
<1>39. ASSUME NEW c \in Clients, RejectBegin(c) PROVE StaleEnds'
  BY <1>39 DEF TypeOK, StaleEnds, ClaimMoves, RejectBegin, CanBeginIncoming, Goto
<1>40. ASSUME NEW c \in Clients, RejectSend(c) PROVE StaleEnds'
  <2>1. \/ UNCHANGED <<state, tx>>
        \/ /\ state' = [state EXCEPT ![Inc] = "ended"]
           /\ tx' = IF tx = "pending" THEN "rejected" ELSE tx
    BY <1>40, RejectEffect DEF RejectSend, RejectCall
  <2> QED
    BY <1>40, <2>1 DEF TypeOK, StaleEnds, ClaimMoves, RejectSend, Goto, RejectFails
<1>41. ASSUME NEW c \in Clients, RejectEnd(c) PROVE StaleEnds'
  BY <1>41 DEF TypeOK, StaleEnds, ClaimMoves, RejectEnd, Goto, SetState
<1>42. ASSUME NEW c \in Clients, HangupCheck(c) PROVE StaleEnds'
  BY <1>42 DEF TypeOK, StaleEnds, ClaimMoves, HangupCheck, Goto, ActionFor, HangupsMine,
      LostUnclaimed, OwnTargets, Ending
<1>43. ASSUME NEW c \in Clients, EndBegin(c) PROVE StaleEnds'
  BY <1>43 DEF TypeOK, StaleEnds, ClaimMoves, EndBegin, CanBegin, Goto, Return, EndReturn
<1>44. ASSUME NEW c \in Clients, EndSend(c) PROVE StaleEnds'
  <2>1. tgt[c] \in Sids
    BY <1>44 DEF EndSend, Targeted, Ending
  <2>2. \/ /\ state' = [state EXCEPT ![tgt[c]] = "ended"]
           /\ \/ tx' = tx
              \/ act[c] = "reject" /\ tx' = IF tx = "pending" THEN "rejected" ELSE tx
        \/ UNCHANGED <<state, tx>>
    BY <1>44, EndEffect, RejectEffect DEF EndSend, SetState
  <2> QED
    BY <1>44, <2>1, <2>2 DEF TypeOK, StaleEnds, ClaimMoves, EndSend, Goto, SetState
<1>45. ASSUME NEW c \in Clients, EndBye(c) PROVE StaleEnds'
  <2>1. tgt[c] \in Sids
    BY <1>45 DEF EndBye, Targeted, Ending
  <2>2. state' = [state EXCEPT ![tgt[c]] = "ended"]
    BY <1>45, EndEffect DEF EndBye
  <2> QED
    BY <1>45, <2>1, <2>2 DEF TypeOK, StaleEnds, ClaimMoves, EndBye, Goto
<1>46. ASSUME NEW c \in Clients, EndDelete(c) PROVE StaleEnds'
  <2>1. tgt[c] \in Sids
    BY <1>46 DEF EndDelete, Targeted, Ending
  <2>2. \/ mgr' = mgr \ {tgt[c]} /\ state' = [state EXCEPT ![tgt[c]] = "ended"]
        \/ tgt[c] \notin mgr /\ UNCHANGED <<mgr, state>>
    BY <1>46, DeleteEffect DEF EndDelete
  <2> QED
    BY <1>46, <2>1, <2>2 DEF TypeOK, StaleEnds, ClaimMoves, EndDelete, Goto, Return, EndReturn
<1>47. ASSUME NEW c \in Clients, Sweep(c) \/ Swept(c) PROVE StaleEnds'
  BY <1>47 DEF TypeOK, StaleEnds, ClaimMoves, Goto, Sweep, Swept
<1>49. ASSUME NEW c \in Clients, NEW s \in Sids, HangupAsk(c, s) PROVE StaleEnds'
  BY <1>49 DEF TypeOK, StaleEnds, ClaimMoves, HangupAsk, ClaimedByOther, Goto
<1>50. ASSUME NEW c \in Clients, NEW s \in Sids, ForceEnd(c, s) PROVE StaleEnds'
  BY <1>50 DEF TypeOK, StaleEnds, ClaimMoves, ForceEnd, Goto, ActionFor, OwnersClaim, Owning,
      Sockets
<1>51. CASE UNCHANGED vars
  BY <1>51 DEF vars, TypeOK, StaleEnds, ClaimMoves
<1> QED
  BY <1>1, <1>2, <1>3, <1>4, <1>5, <1>8, <1>9, <1>10, <1>11, <1>13, <1>14, <1>15, <1>16, <1>17,
      <1>18, <1>19, <1>20, <1>21, <1>22, <1>25, <1>28, <1>31, <1>32, <1>33, <1>34, <1>36, <1>37,
      <1>38, <1>39, <1>40, <1>41, <1>42, <1>43, <1>44, <1>45, <1>46, <1>47, <1>49, <1>50, <1>51 DEF
      Next, FarEnd, InviteRuns, TimerRuns, CancelRuns, ClientStarts, ClientRuns

(* What the far end and the dialog know. *)
LEMMA FarEndKnowsStep ==
  ASSUME TypeOK, Steady, Targeted, OnlyIncRings, NewUnknown, InviteOnce, AcceptsRinging,
         FarEndKnows, [Next]_vars
  PROVE  FarEndKnows'
<1> USE NameAssumption DEF Procs, System, Sids, sessVars, apiVars, sipVars, ctlVars, histVars
<1>1. CASE InviteArrives
  BY <1>1 DEF TypeOK, FarEndKnows, InviteArrives, Goto, SetState, NewUnknown, Respond,
      InviteOnce
<1>2. CASE CallerCancels
  BY <1>2 DEF TypeOK, FarEndKnows, CallerCancels, Goto, Respond
<1>3. CASE CallerAcks
  <2>1. \/ UNCHANGED <<state, dialog>>
        \/ \E s \in mgr \cap callID : /\ s \notin dialog /\ dialog' = dialog \cup {s}
                                     /\ state' = [state EXCEPT ![s] = "active"]
    BY <1>3, ActivateEffect DEF CallerAcks, ActivateAndNotify
  <2> QED
    BY <1>3, <2>1 DEF TypeOK, FarEndKnows, CallerAcks, NewUnknown, Respond, OnlyIncRings
<1>4. CASE CallerByes
  <2>1. \/ UNCHANGED <<state, owned, pending, cur>>
        \/ \E s \in mgr \cap callID : state' = [state EXCEPT ![s] = "ended"] /\ OwnsLess /\ pending' \subseteq pending
    BY <1>4, EndEffect, EndOwns, EndPending DEF CallerByes, TypeOK
  <2> QED
    BY <1>4, <2>1 DEF TypeOK, FarEndKnows, CallerByes, Goto, NewUnknown, Respond
<1>5. CASE Admit \/ Presented \/ Refuse
  BY <1>5 DEF TypeOK, FarEndKnows, Goto, Respond, Admit, Presented, Refuse
<1>8. CASE RefuseBegin
  BY <1>8 DEF TypeOK, FarEndKnows, RefuseBegin, CanBegin, Goto, Respond
<1>9. CASE RefuseSend
  <2>1. \/ UNCHANGED <<state, tx>>
        \/ /\ state' = [state EXCEPT ![Inc] = "ended"]
           /\ tx' = IF tx = "pending" THEN "rejected" ELSE tx
    BY <1>9, RejectEffect DEF RefuseSend
  <2> QED
    BY <1>9, <2>1 DEF TypeOK, FarEndKnows, RefuseSend, Goto, Respond
<1>10. CASE RefuseDelete
  <2>1. \/ mgr' = mgr \ {Inc} /\ state' = [state EXCEPT ![Inc] = "ended"]
        \/ Inc \notin mgr /\ UNCHANGED <<mgr, state>>
    BY <1>10, DeleteEffect DEF RefuseDelete
  <2> QED
    BY <1>10, <2>1 DEF TypeOK, FarEndKnows, RefuseDelete, Goto, Respond
<1>11. CASE TimerCheck \/ TimerBegin
  BY <1>11 DEF TypeOK, FarEndKnows, Goto, Respond, CanBeginIncoming, TimerCheck, TimerBegin
<1>13. CASE TimerFanout
  <2>1. pending' \subseteq pending
    BY <1>13 DEF TimerFanout, Fanout
  <2> QED
    BY <1>13, <2>1 DEF TypeOK, FarEndKnows, TimerFanout, Goto, Respond
<1>14. CASE TimerSend
  <2>1. \/ UNCHANGED <<state, tx>>
        \/ /\ state' = [state EXCEPT ![Inc] = "ended"]
           /\ tx' = IF tx = "pending" THEN "rejected" ELSE tx
    BY <1>14, RejectEffect DEF TimerSend
  <2> QED
    BY <1>14, <2>1 DEF TypeOK, FarEndKnows, TimerSend, Goto, Respond
<1>15. CASE TimerDelete
  <2>1. \/ mgr' = mgr \ {Inc} /\ state' = [state EXCEPT ![Inc] = "ended"]
        \/ Inc \notin mgr /\ UNCHANGED <<mgr, state>>
    BY <1>15, DeleteEffect DEF TimerDelete
  <2> QED
    BY <1>15, <2>1 DEF TypeOK, FarEndKnows, TimerDelete, Goto, Respond
<1>16. CASE CancelCheck
  BY <1>16 DEF TypeOK, FarEndKnows, CancelCheck, Goto, Return, Respond
<1>17. CASE CancelBegin
  BY <1>17 DEF TypeOK, FarEndKnows, CancelBegin, CanBeginIncoming, Goto, Return, Respond
<1>18. CASE Cancel487
  BY <1>18 DEF TypeOK, FarEndKnows, Cancel487, Goto, Respond
<1>19. CASE CancelFanout
  <2>1. pending' \subseteq pending
    BY <1>19 DEF CancelFanout, Fanout
  <2> QED
    BY <1>19, <2>1 DEF TypeOK, FarEndKnows, CancelFanout, Goto, Respond
<1>20. CASE CancelEnd
  <2>1. tgt[CancelP] = Inc
    BY <1>20 DEF CancelEnd, Targeted
  <2>2. state' = [state EXCEPT ![Inc] = "ended"]
    BY <1>20, EndEffect, <2>1 DEF CancelEnd
  <2> QED
    BY <1>20, <2>1, <2>2 DEF TypeOK, FarEndKnows, CancelEnd, Goto, Return, Respond
<1>21. CASE ByeDelete
  <2>1. \/ mgr' = mgr \ {tgt[ByeP]} /\ state' = [state EXCEPT ![tgt[ByeP]] = "ended"]
        \/ tgt[ByeP] \notin mgr /\ UNCHANGED <<mgr, state>>
    BY <1>21, DeleteEffect DEF ByeDelete
  <2> QED
    BY <1>21, <2>1 DEF TypeOK, FarEndKnows, ByeDelete, Goto, Return, Respond
<1>22. ASSUME NEW c \in Clients, Present(c) \/ Connect(c) \/ Offer(c) PROVE FarEndKnows'
  BY <1>22 DEF TypeOK, FarEndKnows, CanBeginIncoming, Respond, Goto, CanClaim, Present, Connect,
      Offer
<1>25. ASSUME NEW c \in Clients, AcceptAsk(c) \/ RejectAsk(c) \/ Disconnect(c) PROVE FarEndKnows'
  BY <1>25 DEF TypeOK, FarEndKnows, ClaimedByOther, Goto, Respond, AcceptAsk, RejectAsk,
      Disconnect
<1>28. ASSUME NEW c \in Clients, Replay(c) \/ Offered(c) \/ AcceptCheck(c) PROVE FarEndKnows'
  BY <1>28 DEF TypeOK, FarEndKnows, CanBeginIncoming, Goto, Respond, SetState, NewUnknown, Replay,
      Offered, AcceptCheck
<1>31. ASSUME NEW c \in Clients, AcceptBegin(c) PROVE FarEndKnows'
  BY <1>31 DEF TypeOK, FarEndKnows, AcceptBegin, CanBegin, ClaimedByOther, Goto, Return, Respond
<1>32. ASSUME NEW c \in Clients, AcceptLost(c) PROVE FarEndKnows'
  BY <1>32 DEF TypeOK, FarEndKnows, AcceptLost, Goto, Return, Respond
<1>33. ASSUME NEW c \in Clients, AcceptClaim(c) PROVE FarEndKnows'
  BY <1>33 DEF TypeOK, FarEndKnows, AcceptClaim, ClearTerminalAction, CanClaim, Goto, Return,
      Respond
<1>34. ASSUME NEW c \in Clients, AcceptTransfer(c) \/ Accept200(c) PROVE FarEndKnows'
  BY <1>34 DEF TypeOK, FarEndKnows, Goto, Respond, AcceptTransfer, Accept200
<1>36. ASSUME NEW c \in Clients, AcceptActive(c) PROVE FarEndKnows'
  <2>1. tgt[c] \in Sids
    BY <1>36 DEF AcceptActive, Targeted, Accepting
  <2>2. state' = [state EXCEPT ![tgt[c]] = "active"]
    BY <1>36, ActivateEffect DEF AcceptActive
  <2>3. dialog' = dialog \cup {tgt[c]}
    BY <1>36 DEF AcceptActive, ActivateAndNotify
  <2> QED
    BY <1>36, <2>1, <2>2, <2>3 DEF TypeOK, FarEndKnows, AcceptActive, Goto, NewUnknown, Respond
<1>37. ASSUME NEW c \in Clients, AcceptFinish(c) PROVE FarEndKnows'
  <2>1. tgt[c] \in Sids
    BY <1>37 DEF AcceptFinish, Targeted, Accepting
  <2>2. IF tgt[c] = Inc THEN UNCHANGED <<mgr, state>>
        ELSE \/ mgr' = mgr \ {Inc} /\ state' = [state EXCEPT ![Inc] = "ended"]
             \/ Inc \notin mgr /\ UNCHANGED <<mgr, state>>
    BY <1>37, DeleteEffect DEF AcceptFinish
  <2> QED
    BY <1>37, <2>1, <2>2 DEF TypeOK, FarEndKnows, AcceptFinish, ClearTerminalAction, Goto, Respond
<1>38. ASSUME NEW c \in Clients, AcceptFanout(c) PROVE FarEndKnows'
  <2>1. pending' \subseteq pending
    BY <1>38 DEF AcceptFanout, Fanout
  <2> QED
    BY <1>38, <2>1 DEF TypeOK, FarEndKnows, AcceptFanout, Goto, Return, Respond
<1>39. ASSUME NEW c \in Clients, RejectBegin(c) PROVE FarEndKnows'
  BY <1>39 DEF TypeOK, FarEndKnows, RejectBegin, CanBeginIncoming, Goto, Respond
<1>40. ASSUME NEW c \in Clients, RejectSend(c) PROVE FarEndKnows'
  <2>1. \/ UNCHANGED <<state, tx>>
        \/ /\ state' = [state EXCEPT ![Inc] = "ended"]
           /\ tx' = IF tx = "pending" THEN "rejected" ELSE tx
    BY <1>40, RejectEffect DEF RejectSend, RejectCall
  <2> QED
    BY <1>40, <2>1 DEF TypeOK, FarEndKnows, RejectSend, Goto, RejectFails, Respond
<1>41. ASSUME NEW c \in Clients, RejectEnd(c) \/ HangupCheck(c) PROVE FarEndKnows'
  BY <1>41 DEF TypeOK, FarEndKnows, Goto, SetState, Respond, ActionFor, RejectEnd, HangupCheck
<1>43. ASSUME NEW c \in Clients, EndBegin(c) PROVE FarEndKnows'
  BY <1>43 DEF TypeOK, FarEndKnows, EndBegin, CanBegin, Goto, Return, EndReturn, Respond
<1>44. ASSUME NEW c \in Clients, EndSend(c) PROVE FarEndKnows'
  <2>1. tgt[c] \in Sids
    BY <1>44 DEF EndSend, Targeted, Ending
  <2>2. \/ /\ state' = [state EXCEPT ![tgt[c]] = "ended"]
           /\ \/ tx' = tx
              \/ act[c] = "reject" /\ tx' = IF tx = "pending" THEN "rejected" ELSE tx
        \/ UNCHANGED <<state, tx>>
    BY <1>44, EndEffect, RejectEffect DEF EndSend, SetState
  <2> QED
    BY <1>44, <2>1, <2>2 DEF TypeOK, FarEndKnows, EndSend, Goto, SetState, Respond
<1>45. ASSUME NEW c \in Clients, EndBye(c) PROVE FarEndKnows'
  <2>1. tgt[c] \in Sids
    BY <1>45 DEF EndBye, Targeted, Ending
  <2>2. state' = [state EXCEPT ![tgt[c]] = "ended"]
    BY <1>45, EndEffect DEF EndBye
  <2> QED
    BY <1>45, <2>1, <2>2 DEF TypeOK, FarEndKnows, EndBye, Goto, Respond
<1>46. ASSUME NEW c \in Clients, EndDelete(c) PROVE FarEndKnows'
  <2>1. tgt[c] \in Sids
    BY <1>46 DEF EndDelete, Targeted, Ending
  <2>2. \/ mgr' = mgr \ {tgt[c]} /\ state' = [state EXCEPT ![tgt[c]] = "ended"]
        \/ tgt[c] \notin mgr /\ UNCHANGED <<mgr, state>>
    BY <1>46, DeleteEffect DEF EndDelete
  <2> QED
    BY <1>46, <2>1, <2>2 DEF TypeOK, FarEndKnows, EndDelete, Goto, Return, EndReturn, Respond
<1>47. ASSUME NEW c \in Clients, Sweep(c) \/ Swept(c) PROVE FarEndKnows'
  BY <1>47 DEF TypeOK, FarEndKnows, Goto, Respond, Sweep, Swept
<1>49. ASSUME NEW c \in Clients, NEW s \in Sids, HangupAsk(c, s) \/ ForceEnd(c, s)
      PROVE  FarEndKnows'
  BY <1>49 DEF TypeOK, FarEndKnows, ClaimedByOther, Goto, Respond, ActionFor, HangupAsk, ForceEnd
<1>51. CASE UNCHANGED vars
  BY <1>51 DEF vars, TypeOK, FarEndKnows
<1> QED
  BY <1>1, <1>2, <1>3, <1>4, <1>5, <1>8, <1>9, <1>10, <1>11, <1>13, <1>14, <1>15, <1>16, <1>17,
      <1>18, <1>19, <1>20, <1>21, <1>22, <1>25, <1>28, <1>31, <1>32, <1>33, <1>34, <1>36, <1>37,
      <1>38, <1>39, <1>40, <1>41, <1>43, <1>44, <1>45, <1>46, <1>47, <1>49, <1>51 DEF Next,
      FarEnd, InviteRuns, TimerRuns, CancelRuns, ClientStarts, ClientRuns

(* Until the answer, an accept works on a ringing call. *)
LEMMA AcceptsRingingStep ==
  ASSUME TypeOK, Steady, TerminalMutex, Targeted, OnlyIncRings, InviteOnce, BeforeInvite,
         RingsStored, NewUnknown, OwnTargets, Sockets, OwnLists, FarEndKnows, AcceptsRinging,
         [Next]_vars
  PROVE  AcceptsRinging'
<1> USE NameAssumption DEF Procs, System, Sids, sessVars, apiVars, sipVars, ctlVars, histVars
<1>1. CASE InviteArrives
  BY <1>1 DEF TypeOK, AcceptsRinging, Unanswered, InviteArrives, Goto, SetState, InviteOnce,
      BeforeInvite, NewUnknown
<1>2. CASE CallerCancels
  BY <1>2 DEF TypeOK, AcceptsRinging, Unanswered, CallerCancels, Goto
<1>3. CASE CallerAcks
  <2>1. \/ UNCHANGED <<state, dialog>>
        \/ \E s \in mgr \cap callID : /\ s \notin dialog /\ dialog' = dialog \cup {s}
                                     /\ state' = [state EXCEPT ![s] = "active"]
    BY <1>3, ActivateEffect DEF CallerAcks, ActivateAndNotify
  <2> QED
    BY <1>3, <2>1 DEF TypeOK, AcceptsRinging, Unanswered, CallerAcks, FarEndKnows, NewUnknown
<1>4. CASE CallerByes
  <2>1. \/ UNCHANGED <<state, owned, pending, cur>>
        \/ \E s \in mgr \cap callID : state' = [state EXCEPT ![s] = "ended"] /\ OwnsLess /\ pending' \subseteq pending
    BY <1>4, EndEffect, EndOwns, EndPending DEF CallerByes, TypeOK
  <2> QED
    BY <1>4, <2>1 DEF TypeOK, AcceptsRinging, Unanswered, CallerByes, Goto, FarEndKnows, NewUnknown
<1>5. CASE Admit \/ Presented \/ Refuse
  BY <1>5 DEF TypeOK, AcceptsRinging, Unanswered, Goto, Admit, Presented, Refuse
<1>8. CASE RefuseBegin
  BY <1>8 DEF TypeOK, AcceptsRinging, Unanswered, RefuseBegin, CanBegin, Goto
<1>9. CASE RefuseSend
  <2>1. \/ UNCHANGED <<state, tx>>
        \/ /\ state' = [state EXCEPT ![Inc] = "ended"]
           /\ tx' = IF tx = "pending" THEN "rejected" ELSE tx
    BY <1>9, RejectEffect DEF RefuseSend
  <2>2. term[Inc] = InviteP /\ \A d \in Clients : pc[d] \notin {"acc_claim", "acc_transfer", "acc_200"}
    BY <1>9 DEF RefuseSend, TerminalMutex, Holding, OnInc
  <2>3. UNCHANGED <<mgr, term, tgt>> /\ \A d \in Clients : pc'[d] = pc[d]
    BY <1>9 DEF RefuseSend, Goto, TypeOK
  <2> QED
    BY <2>1, <2>2, <2>3 DEF AcceptsRinging, Unanswered, TypeOK
<1>10. CASE RefuseDelete
  <2>1. \/ mgr' = mgr \ {Inc} /\ state' = [state EXCEPT ![Inc] = "ended"]
        \/ Inc \notin mgr /\ UNCHANGED <<mgr, state>>
    BY <1>10, DeleteEffect DEF RefuseDelete
  <2>2. term[Inc] = InviteP /\ \A d \in Clients : pc[d] \notin {"acc_claim", "acc_transfer", "acc_200"}
    BY <1>10 DEF RefuseDelete, TerminalMutex, Holding, OnInc, OnTgt
  <2> QED
    BY <1>10, <2>1, <2>2, ZenonT(60) DEF TypeOK, AcceptsRinging, Unanswered, RefuseDelete, Goto
<1>11. CASE TimerCheck \/ TimerBegin
  BY <1>11 DEF TypeOK, AcceptsRinging, Unanswered, Goto, CanBeginIncoming, TimerCheck, TimerBegin
<1>13. CASE TimerFanout
  <2>1. pending' \subseteq pending
    BY <1>13 DEF TimerFanout, Fanout
  <2> QED
    BY <1>13, <2>1 DEF TypeOK, AcceptsRinging, Unanswered, TimerFanout, Goto
<1>14. CASE TimerSend
  <2>1. \/ UNCHANGED <<state, tx>>
        \/ /\ state' = [state EXCEPT ![Inc] = "ended"]
           /\ tx' = IF tx = "pending" THEN "rejected" ELSE tx
    BY <1>14, RejectEffect DEF TimerSend
  <2>2. term[Inc] = TimerP /\ \A d \in Clients : pc[d] \notin {"acc_claim", "acc_transfer", "acc_200"}
    BY <1>14 DEF TimerSend, TerminalMutex, Holding, OnInc
  <2>3. UNCHANGED <<mgr, term, tgt>> /\ \A d \in Clients : pc'[d] = pc[d]
    BY <1>14 DEF TimerSend, Goto, TypeOK
  <2> QED
    BY <2>1, <2>2, <2>3 DEF AcceptsRinging, Unanswered, TypeOK
<1>15. CASE TimerDelete
  <2>1. \/ mgr' = mgr \ {Inc} /\ state' = [state EXCEPT ![Inc] = "ended"]
        \/ Inc \notin mgr /\ UNCHANGED <<mgr, state>>
    BY <1>15, DeleteEffect DEF TimerDelete
  <2>2. term[Inc] = TimerP /\ \A d \in Clients : pc[d] \notin {"acc_claim", "acc_transfer", "acc_200"}
    BY <1>15 DEF TimerDelete, TerminalMutex, Holding, OnInc, OnTgt
  <2> QED
    BY <1>15, <2>1, <2>2, ZenonT(60) DEF TypeOK, AcceptsRinging, Unanswered, TimerDelete, Goto
<1>16. CASE CancelCheck
  BY <1>16 DEF TypeOK, AcceptsRinging, Unanswered, CancelCheck, Goto, Return
<1>17. CASE CancelBegin
  BY <1>17 DEF TypeOK, AcceptsRinging, Unanswered, CancelBegin, CanBeginIncoming, Goto, Return
<1>18. CASE Cancel487
  BY <1>18 DEF TypeOK, AcceptsRinging, Unanswered, Cancel487, Goto, Respond
<1>19. CASE CancelFanout
  <2>1. pending' \subseteq pending
    BY <1>19 DEF CancelFanout, Fanout
  <2> QED
    BY <1>19, <2>1 DEF TypeOK, AcceptsRinging, Unanswered, CancelFanout, Goto
<1>20. CASE CancelEnd
  <2>1. tgt[CancelP] = Inc
    BY <1>20 DEF CancelEnd, Targeted
  <2>2. state' = [state EXCEPT ![Inc] = "ended"]
    BY <1>20, EndEffect, <2>1 DEF CancelEnd
  <2>3. term[Inc] = CancelP /\ \A d \in Clients : pc[d] \notin {"acc_claim", "acc_transfer", "acc_200"}
    BY <1>20, <2>1 DEF CancelEnd, TerminalMutex, Holding, OnInc, OnTgt
  <2> QED
    BY <1>20, <2>1, <2>2, <2>3 DEF TypeOK, AcceptsRinging, Unanswered, CancelEnd, Goto, Return
<1>21. CASE ByeDelete
  <2>1. \/ mgr' = mgr \ {tgt[ByeP]} /\ state' = [state EXCEPT ![tgt[ByeP]] = "ended"]
        \/ tgt[ByeP] \notin mgr /\ UNCHANGED <<mgr, state>>
    BY <1>21, DeleteEffect DEF ByeDelete
  <2> QED
    BY <1>21, <2>1 DEF TypeOK, AcceptsRinging, Unanswered, ByeDelete, Goto, Return, FarEndKnows,
        NewUnknown
<1>22. ASSUME NEW c \in Clients, Present(c) \/ Connect(c) \/ Offer(c) PROVE AcceptsRinging'
  BY <1>22 DEF TypeOK, AcceptsRinging, Unanswered, CanBeginIncoming, Goto, CanClaim, Present,
      Connect, Offer
<1>25. ASSUME NEW c \in Clients, AcceptAsk(c) \/ RejectAsk(c) \/ Disconnect(c) PROVE AcceptsRinging'
  BY <1>25 DEF TypeOK, AcceptsRinging, Unanswered, ClaimedByOther, Goto, AcceptAsk, RejectAsk,
      Disconnect
<1>28. ASSUME NEW c \in Clients, Replay(c) \/ Offered(c) \/ AcceptCheck(c) PROVE AcceptsRinging'
  BY <1>28 DEF TypeOK, AcceptsRinging, Unanswered, CanBeginIncoming, Goto, SetState, NewUnknown,
      Replay, Offered, AcceptCheck
<1>31. ASSUME NEW c \in Clients, AcceptBegin(c) PROVE AcceptsRinging'
  BY <1>31 DEF TypeOK, AcceptsRinging, Unanswered, AcceptBegin, CanBegin, ClaimedByOther, Goto,
      Return, FarEndKnows, BeforeInvite
<1>32. ASSUME NEW c \in Clients, AcceptLost(c) PROVE AcceptsRinging'
  BY <1>32 DEF TypeOK, AcceptsRinging, Unanswered, AcceptLost, Goto, Return
<1>33. ASSUME NEW c \in Clients, AcceptClaim(c) PROVE AcceptsRinging'
  BY <1>33 DEF TypeOK, AcceptsRinging, Unanswered, AcceptClaim, ClearTerminalAction, CanClaim,
      Goto, Return
<1>34. ASSUME NEW c \in Clients, AcceptTransfer(c) PROVE AcceptsRinging'
  BY <1>34 DEF TypeOK, AcceptsRinging, Unanswered, AcceptTransfer, Goto
<1>35. ASSUME NEW c \in Clients, Accept200(c) PROVE AcceptsRinging'
  <2>1. tgt[c] \in Sids
    BY <1>35 DEF Accept200, Targeted, Accepting
  <2>2. term[Inc] = c
    BY <1>35 DEF Accept200, TerminalMutex, Holding, OnInc
  <2>3. Unanswered => state[Inc] = "incoming" /\ Inc \in invite
    BY <1>35 DEF Accept200, AcceptsRinging, RingsStored
  <2>4. tx # "none"
    BY <1>35, <2>3 DEF Unanswered, FarEndKnows, NewUnknown
  <2>5. Unanswered' => tgt[c] # Inc /\ pc' = [pc EXCEPT ![c] = "acc_finish"]
    BY <1>35, <2>3, <2>4 DEF Accept200, Unanswered, Respond, Goto, Steady
  <2> QED
    BY <1>35, <2>1, <2>2, <2>3, <2>4, <2>5 DEF TypeOK, AcceptsRinging, Unanswered, Accept200, Goto,
        Respond
<1>36. ASSUME NEW c \in Clients, AcceptActive(c) PROVE AcceptsRinging'
  <2>1. tgt[c] \in Sids
    BY <1>36 DEF AcceptActive, Targeted, Accepting
  <2>2. state' = [state EXCEPT ![tgt[c]] = "active"]
    BY <1>36, ActivateEffect DEF AcceptActive
  <2>3. dialog' = dialog \cup {tgt[c]}
    BY <1>36 DEF AcceptActive, ActivateAndNotify
  <2> QED
    BY <1>36, <2>1, <2>2, <2>3 DEF TypeOK, AcceptsRinging, Unanswered, AcceptActive, Goto,
        TerminalMutex, Holding, OnInc, OnTgt
<1>37. ASSUME NEW c \in Clients, AcceptFinish(c) PROVE AcceptsRinging'
  <2>1. tgt[c] \in Sids
    BY <1>37 DEF AcceptFinish, Targeted, Accepting
  <2>2. IF tgt[c] = Inc THEN UNCHANGED <<mgr, state>>
        ELSE \/ mgr' = mgr \ {Inc} /\ state' = [state EXCEPT ![Inc] = "ended"]
             \/ Inc \notin mgr /\ UNCHANGED <<mgr, state>>
    BY <1>37, DeleteEffect DEF AcceptFinish
  <2> QED
    BY <1>37, <2>1, <2>2 DEF TypeOK, AcceptsRinging, Unanswered, AcceptFinish, ClearTerminalAction,
        Goto, TerminalMutex, Holding, OnInc, OnTgt
<1>38. ASSUME NEW c \in Clients, AcceptFanout(c) PROVE AcceptsRinging'
  <2>1. pending' \subseteq pending
    BY <1>38 DEF AcceptFanout, Fanout
  <2> QED
    BY <1>38, <2>1 DEF TypeOK, AcceptsRinging, Unanswered, AcceptFanout, Goto, Return
<1>39. ASSUME NEW c \in Clients, RejectBegin(c) PROVE AcceptsRinging'
  BY <1>39 DEF TypeOK, AcceptsRinging, Unanswered, RejectBegin, CanBeginIncoming, Goto
<1>40. ASSUME NEW c \in Clients, RejectSend(c) PROVE AcceptsRinging'
  <2>1. \/ UNCHANGED <<state, tx>>
        \/ /\ state' = [state EXCEPT ![Inc] = "ended"]
           /\ tx' = IF tx = "pending" THEN "rejected" ELSE tx
    BY <1>40, RejectEffect DEF RejectSend, RejectCall
  <2> QED
    BY <1>40, <2>1 DEF TypeOK, AcceptsRinging, Unanswered, RejectSend, Goto, RejectFails,
        TerminalMutex, Holding, OnInc, OnTgt
<1>41. ASSUME NEW c \in Clients, RejectEnd(c) PROVE AcceptsRinging'
  BY <1>41 DEF TypeOK, AcceptsRinging, Unanswered, RejectEnd, Goto, SetState, TerminalMutex,
      Holding, OnInc, OnTgt
<1>42. ASSUME NEW c \in Clients, HangupCheck(c) PROVE AcceptsRinging'
  BY <1>42 DEF TypeOK, AcceptsRinging, Unanswered, HangupCheck, Goto, ActionFor
<1>43. ASSUME NEW c \in Clients, EndBegin(c) PROVE AcceptsRinging'
  BY <1>43 DEF TypeOK, AcceptsRinging, Unanswered, EndBegin, CanBegin, Goto, Return, EndReturn
<1>44. ASSUME NEW c \in Clients, EndSend(c) PROVE AcceptsRinging'
  <2>1. tgt[c] \in Sids
    BY <1>44 DEF EndSend, Targeted, Ending
  <2>2. \/ /\ state' = [state EXCEPT ![tgt[c]] = "ended"]
           /\ \/ tx' = tx
              \/ act[c] = "reject" /\ tx' = IF tx = "pending" THEN "rejected" ELSE tx
        \/ UNCHANGED <<state, tx>>
    BY <1>44, EndEffect, RejectEffect DEF EndSend, SetState
  <2> QED
    BY <1>44, <2>1, <2>2 DEF TypeOK, AcceptsRinging, Unanswered, EndSend, Goto, SetState,
        TerminalMutex, Holding, OnInc, OnTgt
<1>45. ASSUME NEW c \in Clients, EndBye(c) PROVE AcceptsRinging'
  <2>1. tgt[c] \in Sids
    BY <1>45 DEF EndBye, Targeted, Ending
  <2>2. state' = [state EXCEPT ![tgt[c]] = "ended"]
    BY <1>45, EndEffect DEF EndBye
  <2> QED
    BY <1>45, <2>1, <2>2 DEF TypeOK, AcceptsRinging, Unanswered, EndBye, Goto, TerminalMutex,
        Holding, OnInc, OnTgt
<1>46. ASSUME NEW c \in Clients, EndDelete(c) PROVE AcceptsRinging'
  <2>1. tgt[c] \in Sids
    BY <1>46 DEF EndDelete, Targeted, Ending
  <2>2. \/ mgr' = mgr \ {tgt[c]} /\ state' = [state EXCEPT ![tgt[c]] = "ended"]
        \/ tgt[c] \notin mgr /\ UNCHANGED <<mgr, state>>
    BY <1>46, DeleteEffect DEF EndDelete
  <2>3. \A d \in Clients : pc[d] \in {"acc_begin", "acc_claim", "acc_transfer", "acc_200"} => tgt[c] # d
    BY <1>46 DEF EndDelete, Sockets, Leaves, OwnLists, Owning, OwnTargets, Ending, TypeOK
  <2>4. tgt[c] = Inc => term[Inc] = c
    BY <1>46 DEF EndDelete, TerminalMutex, Holding, OnTgt
  <2> QED
    BY <1>46, <2>1, <2>2, <2>3, <2>4 DEF TypeOK, AcceptsRinging, Unanswered, EndDelete, Goto,
        Return, EndReturn, TerminalMutex, Holding, OnInc, OnTgt
<1>47. ASSUME NEW c \in Clients, Sweep(c) \/ Swept(c) PROVE AcceptsRinging'
  BY <1>47 DEF TypeOK, AcceptsRinging, Unanswered, Goto, Sweep, Swept
<1>49. ASSUME NEW c \in Clients, NEW s \in Sids, HangupAsk(c, s) \/ ForceEnd(c, s)
      PROVE  AcceptsRinging'
  BY <1>49 DEF TypeOK, AcceptsRinging, Unanswered, ClaimedByOther, Goto, ActionFor, HangupAsk,
      ForceEnd
<1>51. CASE UNCHANGED vars
  BY <1>51 DEF vars, TypeOK, AcceptsRinging, Unanswered
<1> QED
  BY <1>1, <1>2, <1>3, <1>4, <1>5, <1>8, <1>9, <1>10, <1>11, <1>13, <1>14, <1>15, <1>16, <1>17,
      <1>18, <1>19, <1>20, <1>21, <1>22, <1>25, <1>28, <1>31, <1>32, <1>33, <1>34, <1>35, <1>36,
      <1>37, <1>38, <1>39, <1>40, <1>41, <1>42, <1>43, <1>44, <1>45, <1>46, <1>47, <1>49, <1>51 DEF
      Next, FarEnd, InviteRuns, TimerRuns, CancelRuns, ClientStarts, ClientRuns

(* An answered call is not accepted again. *)
LEMMA AcceptedOnceStep ==
  ASSUME TypeOK, Steady, TerminalMutex, Targeted, ClaimHeld, ClaimKept, ClaimMoves, AnsweredLeaves,
         ClaimantCarries, AcceptedOnce, [Next]_vars
  PROVE  AcceptedOnce'
<1> USE NameAssumption DEF Procs, System, Sids, sessVars, apiVars, sipVars, ctlVars, histVars
<1>1. CASE InviteArrives \/ CallerCancels \/ CallerAcks
  BY <1>1 DEF TypeOK, AcceptedOnce, ClaimMoves, Goto, SetState, Respond, InviteArrives,
      CallerCancels, CallerAcks
<1>4. CASE CallerByes \/ Admit \/ Presented
  BY <1>4 DEF TypeOK, AcceptedOnce, ClaimMoves, Goto, Respond, CallerByes, Admit, Presented
<1>7. CASE Refuse \/ RefuseBegin
  BY <1>7 DEF TypeOK, AcceptedOnce, ClaimMoves, Goto, Respond, CanBegin, Refuse, RefuseBegin
<1>9. CASE RefuseSend
  <2>1. \/ UNCHANGED <<state, tx>>
        \/ /\ state' = [state EXCEPT ![Inc] = "ended"]
           /\ tx' = IF tx = "pending" THEN "rejected" ELSE tx
    BY <1>9, RejectEffect DEF RefuseSend
  <2> QED
    BY <1>9, <2>1 DEF TypeOK, AcceptedOnce, ClaimMoves, RefuseSend, Goto, Respond
<1>10. CASE RefuseDelete \/ TimerCheck
  BY <1>10 DEF TypeOK, AcceptedOnce, ClaimMoves, Goto, Respond, RefuseDelete, TimerCheck
<1>12. CASE TimerBegin
  BY <1>12 DEF TypeOK, AcceptedOnce, ClaimMoves, TimerBegin, CanBeginIncoming, Goto, Respond
<1>13. CASE TimerFanout
  BY <1>13 DEF TypeOK, AcceptedOnce, ClaimMoves, TimerFanout, Goto, Respond
<1>14. CASE TimerSend
  <2>1. \/ UNCHANGED <<state, tx>>
        \/ /\ state' = [state EXCEPT ![Inc] = "ended"]
           /\ tx' = IF tx = "pending" THEN "rejected" ELSE tx
    BY <1>14, RejectEffect DEF TimerSend
  <2> QED
    BY <1>14, <2>1 DEF TypeOK, AcceptedOnce, ClaimMoves, TimerSend, Goto, Respond
<1>15. CASE TimerDelete \/ CancelCheck
  BY <1>15 DEF TypeOK, AcceptedOnce, ClaimMoves, Goto, Respond, Return, TimerDelete, CancelCheck
<1>17. CASE CancelBegin
  BY <1>17 DEF TypeOK, AcceptedOnce, ClaimMoves, CancelBegin, CanBeginIncoming, Goto, Return,
      Respond
<1>18. CASE Cancel487 \/ CancelFanout \/ CancelEnd
  BY <1>18 DEF TypeOK, AcceptedOnce, ClaimMoves, Goto, Respond, Return, Cancel487, CancelFanout,
      CancelEnd
<1>21. CASE ByeDelete
  BY <1>21 DEF TypeOK, AcceptedOnce, ClaimMoves, ByeDelete, Goto, Return, Respond
<1>22. ASSUME NEW c \in Clients, Present(c) \/ Connect(c) \/ Offer(c) PROVE AcceptedOnce'
  BY <1>22 DEF TypeOK, AcceptedOnce, ClaimMoves, CanBeginIncoming, Respond, Goto, CanClaim,
      Present, Connect, Offer
<1>25. ASSUME NEW c \in Clients, AcceptAsk(c) PROVE AcceptedOnce'
  BY <1>25 DEF TypeOK, AcceptedOnce, ClaimMoves, AcceptAsk, ClaimedByOther, Goto, Respond
<1>26. ASSUME NEW c \in Clients, RejectAsk(c) \/ Disconnect(c) PROVE AcceptedOnce'
  BY <1>26 DEF TypeOK, AcceptedOnce, ClaimMoves, Goto, Respond, RejectAsk, Disconnect
<1>28. ASSUME NEW c \in Clients, Replay(c) PROVE AcceptedOnce'
  BY <1>28 DEF TypeOK, AcceptedOnce, ClaimMoves, Replay, CanBeginIncoming, Goto, Respond
<1>29. ASSUME NEW c \in Clients, Offered(c) PROVE AcceptedOnce'
  BY <1>29 DEF TypeOK, AcceptedOnce, ClaimMoves, Offered, Goto, SetState, Respond
<1>30. ASSUME NEW c \in Clients, AcceptCheck(c) PROVE AcceptedOnce'
  BY <1>30 DEF TypeOK, AcceptedOnce, ClaimMoves, AcceptCheck, Goto, Respond, AnsweredLeaves,
      ClaimKept
<1>31. ASSUME NEW c \in Clients, AcceptBegin(c) PROVE AcceptedOnce'
  BY <1>31 DEF TypeOK, AcceptedOnce, ClaimMoves, AcceptBegin, CanBegin, ClaimedByOther, Goto,
      Return, Respond
<1>32. ASSUME NEW c \in Clients, AcceptLost(c) PROVE AcceptedOnce'
  BY <1>32 DEF TypeOK, AcceptedOnce, ClaimMoves, AcceptLost, Goto, Return, Respond
<1>33. ASSUME NEW c \in Clients, AcceptClaim(c) PROVE AcceptedOnce'
  BY <1>33 DEF TypeOK, AcceptedOnce, ClaimMoves, AcceptClaim, ClearTerminalAction, CanClaim,
      Goto, Return, Respond, ClaimantCarries
<1>34. ASSUME NEW c \in Clients, AcceptTransfer(c) PROVE AcceptedOnce'
  BY <1>34 DEF TypeOK, AcceptedOnce, ClaimMoves, AcceptTransfer, Goto, Respond
<1>35. ASSUME NEW c \in Clients, Accept200(c) PROVE AcceptedOnce'
  BY <1>35 DEF TypeOK, AcceptedOnce, ClaimMoves, Accept200, Goto, Respond, TerminalMutex,
      Holding, OnInc, ClaimHeld
<1>36. ASSUME NEW c \in Clients, AcceptActive(c) PROVE AcceptedOnce'
  BY <1>36 DEF TypeOK, AcceptedOnce, ClaimMoves, AcceptActive, Goto, Respond
<1>37. ASSUME NEW c \in Clients, AcceptFinish(c) PROVE AcceptedOnce'
  BY <1>37 DEF TypeOK, AcceptedOnce, ClaimMoves, AcceptFinish, ClearTerminalAction, Goto,
      Respond
<1>38. ASSUME NEW c \in Clients, AcceptFanout(c) PROVE AcceptedOnce'
  BY <1>38 DEF TypeOK, AcceptedOnce, ClaimMoves, AcceptFanout, Goto, Return, Respond
<1>39. ASSUME NEW c \in Clients, RejectBegin(c) PROVE AcceptedOnce'
  BY <1>39 DEF TypeOK, AcceptedOnce, ClaimMoves, RejectBegin, CanBeginIncoming, Goto, Respond
<1>40. ASSUME NEW c \in Clients, RejectSend(c) PROVE AcceptedOnce'
  <2>1. \/ UNCHANGED <<state, tx>>
        \/ /\ state' = [state EXCEPT ![Inc] = "ended"]
           /\ tx' = IF tx = "pending" THEN "rejected" ELSE tx
    BY <1>40, RejectEffect DEF RejectSend, RejectCall
  <2> QED
    BY <1>40, <2>1 DEF TypeOK, AcceptedOnce, ClaimMoves, RejectSend, Goto, RejectFails, Respond
<1>41. ASSUME NEW c \in Clients, RejectEnd(c) \/ HangupCheck(c) PROVE AcceptedOnce'
  BY <1>41 DEF TypeOK, AcceptedOnce, ClaimMoves, Goto, SetState, Respond, ActionFor, RejectEnd,
      HangupCheck
<1>43. ASSUME NEW c \in Clients, EndBegin(c) PROVE AcceptedOnce'
  BY <1>43 DEF TypeOK, AcceptedOnce, ClaimMoves, EndBegin, CanBegin, Goto, Return, EndReturn,
      Respond
<1>44. ASSUME NEW c \in Clients, EndSend(c) PROVE AcceptedOnce'
  <2>1. tgt[c] \in Sids
    BY <1>44 DEF EndSend, Targeted, Ending
  <2>2. \/ /\ state' = [state EXCEPT ![tgt[c]] = "ended"]
           /\ \/ tx' = tx
              \/ act[c] = "reject" /\ tx' = IF tx = "pending" THEN "rejected" ELSE tx
        \/ UNCHANGED <<state, tx>>
    BY <1>44, EndEffect, RejectEffect DEF EndSend, SetState
  <2> QED
    BY <1>44, <2>1, <2>2 DEF TypeOK, AcceptedOnce, ClaimMoves, EndSend, Goto, SetState, Respond
<1>45. ASSUME NEW c \in Clients, EndBye(c) PROVE AcceptedOnce'
  BY <1>45 DEF TypeOK, AcceptedOnce, ClaimMoves, EndBye, Goto, Respond
<1>46. ASSUME NEW c \in Clients, EndDelete(c) PROVE AcceptedOnce'
  BY <1>46 DEF TypeOK, AcceptedOnce, ClaimMoves, EndDelete, Goto, Return, EndReturn, Respond
<1>47. ASSUME NEW c \in Clients, Sweep(c) \/ Swept(c) PROVE AcceptedOnce'
  BY <1>47 DEF TypeOK, AcceptedOnce, ClaimMoves, Goto, Respond, Sweep, Swept
<1>49. ASSUME NEW c \in Clients, NEW s \in Sids, HangupAsk(c, s) PROVE AcceptedOnce'
  BY <1>49 DEF TypeOK, AcceptedOnce, ClaimMoves, HangupAsk, ClaimedByOther, Goto, Respond
<1>50. ASSUME NEW c \in Clients, NEW s \in Sids, ForceEnd(c, s) PROVE AcceptedOnce'
  BY <1>50 DEF TypeOK, AcceptedOnce, ClaimMoves, ForceEnd, Goto, ActionFor, Respond
<1>51. CASE UNCHANGED vars
  BY <1>51 DEF vars, TypeOK, AcceptedOnce, ClaimMoves
<1> QED
  BY <1>1, <1>4, <1>7, <1>9, <1>10, <1>12, <1>13, <1>14, <1>15, <1>17, <1>18, <1>21, <1>22, <1>25,
      <1>26, <1>28, <1>29, <1>30, <1>31, <1>32, <1>33, <1>34, <1>35, <1>36, <1>37, <1>38, <1>39,
      <1>40, <1>41, <1>43, <1>44, <1>45, <1>46, <1>47, <1>49, <1>50, <1>51 DEF Next, FarEnd,
      InviteRuns, TimerRuns, CancelRuns, ClientStarts, ClientRuns

(* Nobody hears of a call that is refused at once. *)
LEMMA UnheardStep ==
  ASSUME TypeOK, Steady, Targeted, Sockets, ClaimHeld, NewUnknown, ClaimMoves, Unheard, [Next]_vars
  PROVE  Unheard'
<1> USE NameAssumption DEF Procs, System, Sids, sessVars, apiVars, sipVars, ctlVars, histVars
<1>1. CASE InviteArrives
  BY <1>1 DEF TypeOK, Unheard, Admitting, ClaimMoves, MayAnswer, InviteArrives, Goto, SetState
<1>2. CASE CallerCancels
  BY <1>2 DEF TypeOK, Unheard, Admitting, ClaimMoves, MayAnswer, CallerCancels, Goto
<1>3. CASE CallerAcks
  <2>1. \/ UNCHANGED <<state, dialog>>
        \/ \E s \in mgr \cap callID : /\ s \notin dialog /\ dialog' = dialog \cup {s}
                                     /\ state' = [state EXCEPT ![s] = "active"]
    BY <1>3, ActivateEffect DEF CallerAcks, ActivateAndNotify
  <2> QED
    BY <1>3, <2>1 DEF TypeOK, Unheard, Admitting, ClaimMoves, MayAnswer, CallerAcks, OwnsLess
<1>4. CASE CallerByes
  <2>1. \/ UNCHANGED <<state, owned, pending, cur>>
        \/ \E s \in mgr \cap callID : state' = [state EXCEPT ![s] = "ended"] /\ OwnsLess /\ pending' \subseteq pending
    BY <1>4, EndEffect, EndOwns, EndPending DEF CallerByes, TypeOK
  <2> QED
    BY <1>4, <2>1 DEF TypeOK, Unheard, Admitting, ClaimMoves, MayAnswer, CallerByes, Goto, OwnsLess
<1>5. CASE Admit \/ Presented \/ Refuse
  BY <1>5 DEF TypeOK, Unheard, Admitting, ClaimMoves, MayAnswer, Goto, Admit, Presented, Refuse
<1>8. CASE RefuseBegin
  BY <1>8 DEF TypeOK, Unheard, Admitting, ClaimMoves, MayAnswer, RefuseBegin, CanBegin, Goto
<1>9. CASE RefuseSend
  <2>1. \/ UNCHANGED <<state, tx>>
        \/ /\ state' = [state EXCEPT ![Inc] = "ended"]
           /\ tx' = IF tx = "pending" THEN "rejected" ELSE tx
    BY <1>9, RejectEffect DEF RefuseSend
  <2>2. OwnsLess /\ pending' \subseteq pending
    BY <1>9, RejectOwns, RejectPending DEF RefuseSend
  <2> QED
    BY <1>9, <2>1, <2>2 DEF TypeOK, Unheard, Admitting, ClaimMoves, MayAnswer, RefuseSend, Goto,
        OwnsLess
<1>10. CASE RefuseDelete
  <2>1. \/ mgr' = mgr \ {Inc} /\ state' = [state EXCEPT ![Inc] = "ended"]
        \/ Inc \notin mgr /\ UNCHANGED <<mgr, state>>
    BY <1>10, DeleteEffect DEF RefuseDelete
  <2> QED
    BY <1>10, <2>1 DEF TypeOK, Unheard, Admitting, ClaimMoves, MayAnswer, RefuseDelete, Goto,
        OwnsLess
<1>11. CASE TimerCheck
  BY <1>11 DEF TypeOK, Unheard, Admitting, ClaimMoves, MayAnswer, TimerCheck, Goto
<1>12. CASE TimerBegin
  BY <1>12 DEF TypeOK, Unheard, Admitting, ClaimMoves, MayAnswer, TimerBegin, CanBeginIncoming,
      Goto
<1>13. CASE TimerFanout
  <2>1. pending' \subseteq pending
    BY <1>13 DEF TimerFanout, Fanout
  <2> QED
    BY <1>13, <2>1 DEF TypeOK, Unheard, Admitting, ClaimMoves, MayAnswer, TimerFanout, Goto,
        OwnsLess
<1>14. CASE TimerSend
  <2>1. \/ UNCHANGED <<state, tx>>
        \/ /\ state' = [state EXCEPT ![Inc] = "ended"]
           /\ tx' = IF tx = "pending" THEN "rejected" ELSE tx
    BY <1>14, RejectEffect DEF TimerSend
  <2>2. OwnsLess /\ pending' \subseteq pending
    BY <1>14, RejectOwns, RejectPending DEF TimerSend
  <2> QED
    BY <1>14, <2>1, <2>2 DEF TypeOK, Unheard, Admitting, ClaimMoves, MayAnswer, TimerSend, Goto,
        OwnsLess
<1>15. CASE TimerDelete
  <2>1. \/ mgr' = mgr \ {Inc} /\ state' = [state EXCEPT ![Inc] = "ended"]
        \/ Inc \notin mgr /\ UNCHANGED <<mgr, state>>
    BY <1>15, DeleteEffect DEF TimerDelete
  <2> QED
    BY <1>15, <2>1 DEF TypeOK, Unheard, Admitting, ClaimMoves, MayAnswer, TimerDelete, Goto,
        OwnsLess
<1>16. CASE CancelCheck
  BY <1>16 DEF TypeOK, Unheard, Admitting, ClaimMoves, MayAnswer, CancelCheck, Goto, Return
<1>17. CASE CancelBegin
  BY <1>17 DEF TypeOK, Unheard, Admitting, ClaimMoves, MayAnswer, CancelBegin, CanBeginIncoming,
      Goto, Return
<1>18. CASE Cancel487
  BY <1>18 DEF TypeOK, Unheard, Admitting, ClaimMoves, MayAnswer, Cancel487, Goto, Respond
<1>19. CASE CancelFanout
  <2>1. pending' \subseteq pending
    BY <1>19 DEF CancelFanout, Fanout
  <2> QED
    BY <1>19, <2>1 DEF TypeOK, Unheard, Admitting, ClaimMoves, MayAnswer, CancelFanout, Goto,
        OwnsLess
<1>20. CASE CancelEnd
  <2>1. tgt[CancelP] = Inc
    BY <1>20 DEF CancelEnd, Targeted
  <2>2. state' = [state EXCEPT ![Inc] = "ended"]
    BY <1>20, EndEffect, <2>1 DEF CancelEnd
  <2>3. OwnsLess /\ pending' \subseteq pending
    BY <1>20, EndOwns, EndPending, <2>1 DEF CancelEnd
  <2> QED
    BY <1>20, <2>1, <2>2, <2>3 DEF TypeOK, Unheard, Admitting, ClaimMoves, MayAnswer, CancelEnd,
        Goto, Return, OwnsLess
<1>21. CASE ByeDelete
  <2>1. \/ mgr' = mgr \ {tgt[ByeP]} /\ state' = [state EXCEPT ![tgt[ByeP]] = "ended"]
        \/ tgt[ByeP] \notin mgr /\ UNCHANGED <<mgr, state>>
    BY <1>21, DeleteEffect DEF ByeDelete
  <2> QED
    BY <1>21, <2>1 DEF TypeOK, Unheard, Admitting, ClaimMoves, MayAnswer, ByeDelete, Goto, Return,
        OwnsLess
<1>22. ASSUME NEW c \in Clients, Present(c) PROVE Unheard'
  BY <1>22 DEF TypeOK, Unheard, Admitting, ClaimMoves, MayAnswer, Present, CanBeginIncoming
<1>23. ASSUME NEW c \in Clients, Connect(c) PROVE Unheard'
  BY <1>23 DEF TypeOK, Unheard, Admitting, ClaimMoves, MayAnswer, Connect, Goto, Sockets
<1>24. ASSUME NEW c \in Clients, Offer(c) PROVE Unheard'
  BY <1>24 DEF TypeOK, Unheard, Admitting, ClaimMoves, MayAnswer, Offer, CanClaim, Goto, Steady
<1>25. ASSUME NEW c \in Clients, AcceptAsk(c) PROVE Unheard'
  BY <1>25 DEF TypeOK, Unheard, Admitting, ClaimMoves, MayAnswer, AcceptAsk, ClaimedByOther,
      Goto, Steady
<1>26. ASSUME NEW c \in Clients, RejectAsk(c) \/ Disconnect(c) PROVE Unheard'
  BY <1>26 DEF TypeOK, Unheard, Admitting, ClaimMoves, MayAnswer, Goto, RejectAsk, Disconnect
<1>28. ASSUME NEW c \in Clients, Replay(c) PROVE Unheard'
  BY <1>28 DEF TypeOK, Unheard, Admitting, ClaimMoves, MayAnswer, Replay, CanBeginIncoming,
      Goto, Sockets
<1>29. ASSUME NEW c \in Clients, Offered(c) PROVE Unheard'
  BY <1>29 DEF TypeOK, Unheard, Admitting, ClaimMoves, MayAnswer, Offered, Goto, SetState
<1>30. ASSUME NEW c \in Clients, AcceptCheck(c) PROVE Unheard'
  BY <1>30 DEF TypeOK, Unheard, Admitting, ClaimMoves, MayAnswer, AcceptCheck, Goto
<1>31. ASSUME NEW c \in Clients, AcceptBegin(c) PROVE Unheard'
  BY <1>31 DEF TypeOK, Unheard, Admitting, ClaimMoves, MayAnswer, AcceptBegin, CanBegin,
      ClaimedByOther, Goto, Return
<1>32. ASSUME NEW c \in Clients, AcceptLost(c) PROVE Unheard'
  BY <1>32 DEF TypeOK, Unheard, Admitting, ClaimMoves, MayAnswer, AcceptLost, Goto, Return
<1>33. ASSUME NEW c \in Clients, AcceptClaim(c) PROVE Unheard'
  BY <1>33 DEF TypeOK, Unheard, Admitting, ClaimMoves, MayAnswer, AcceptClaim,
      ClearTerminalAction, CanClaim, Goto, Return
<1>34. ASSUME NEW c \in Clients, AcceptTransfer(c) PROVE Unheard'
  BY <1>34 DEF TypeOK, Unheard, Admitting, ClaimMoves, MayAnswer, AcceptTransfer, Goto,
      ClaimHeld
<1>35. ASSUME NEW c \in Clients, Accept200(c) PROVE Unheard'
  BY <1>35 DEF TypeOK, Unheard, Admitting, ClaimMoves, MayAnswer, Accept200, Goto, Respond
<1>36. ASSUME NEW c \in Clients, AcceptActive(c) PROVE Unheard'
  <2>1. tgt[c] \in Sids
    BY <1>36 DEF AcceptActive, Targeted, Accepting
  <2>2. state' = [state EXCEPT ![tgt[c]] = "active"]
    BY <1>36, ActivateEffect DEF AcceptActive
  <2>3. dialog' = dialog \cup {tgt[c]}
    BY <1>36 DEF AcceptActive, ActivateAndNotify
  <2> QED
    BY <1>36, <2>1, <2>2, <2>3 DEF TypeOK, Unheard, Admitting, ClaimMoves, MayAnswer, AcceptActive,
        Goto, OwnsLess
<1>37. ASSUME NEW c \in Clients, AcceptFinish(c) PROVE Unheard'
  <2>1. tgt[c] \in Sids
    BY <1>37 DEF AcceptFinish, Targeted, Accepting
  <2>2. IF tgt[c] = Inc THEN UNCHANGED <<mgr, state>>
        ELSE \/ mgr' = mgr \ {Inc} /\ state' = [state EXCEPT ![Inc] = "ended"]
             \/ Inc \notin mgr /\ UNCHANGED <<mgr, state>>
    BY <1>37, DeleteEffect DEF AcceptFinish
  <2> QED
    BY <1>37, <2>1, <2>2 DEF TypeOK, Unheard, Admitting, ClaimMoves, MayAnswer, AcceptFinish,
        ClearTerminalAction, Goto, OwnsLess
<1>38. ASSUME NEW c \in Clients, AcceptFanout(c) PROVE Unheard'
  <2>1. pending' \subseteq pending
    BY <1>38 DEF AcceptFanout, Fanout
  <2> QED
    BY <1>38, <2>1 DEF TypeOK, Unheard, Admitting, ClaimMoves, MayAnswer, AcceptFanout, Goto,
        Return, OwnsLess
<1>39. ASSUME NEW c \in Clients, RejectBegin(c) PROVE Unheard'
  BY <1>39 DEF TypeOK, Unheard, Admitting, ClaimMoves, MayAnswer, RejectBegin, CanBeginIncoming,
      Goto
<1>40. ASSUME NEW c \in Clients, RejectSend(c) PROVE Unheard'
  <2>1. \/ UNCHANGED <<state, tx>>
        \/ /\ state' = [state EXCEPT ![Inc] = "ended"]
           /\ tx' = IF tx = "pending" THEN "rejected" ELSE tx
    BY <1>40, RejectEffect DEF RejectSend, RejectCall
  <2>2. OwnsLess /\ pending' \subseteq pending
    BY <1>40, RejectOwns, RejectPending DEF RejectSend, RejectCall
  <2> QED
    BY <1>40, <2>1, <2>2 DEF TypeOK, Unheard, Admitting, ClaimMoves, MayAnswer, RejectSend, Goto,
        RejectFails, OwnsLess
<1>41. ASSUME NEW c \in Clients, RejectEnd(c) PROVE Unheard'
  BY <1>41 DEF TypeOK, Unheard, Admitting, ClaimMoves, MayAnswer, RejectEnd, Goto, SetState
<1>42. ASSUME NEW c \in Clients, HangupCheck(c) PROVE Unheard'
  BY <1>42 DEF TypeOK, Unheard, Admitting, ClaimMoves, MayAnswer, HangupCheck, Goto, ActionFor
<1>43. ASSUME NEW c \in Clients, EndBegin(c) PROVE Unheard'
  <2>1. UNCHANGED <<pending, claim, owned, tx>>
        /\ \E l \in {"end_send", "idle", "own", "sweep"} : pc' = [pc EXCEPT ![c] = l]
    BY <1>43 DEF EndBegin, EndReturn, Return, Goto, TypeOK, apiVars, sipVars
  <2> QED
    BY <1>43, <2>1 DEF TypeOK, Unheard, Admitting, ClaimMoves, MayAnswer, EndBegin, CanBegin, Goto,
        Return, EndReturn
<1>44. ASSUME NEW c \in Clients, EndSend(c) PROVE Unheard'
  <2>1. tgt[c] \in Sids
    BY <1>44 DEF EndSend, Targeted, Ending
  <2>2. \/ /\ state' = [state EXCEPT ![tgt[c]] = "ended"]
           /\ \/ tx' = tx
              \/ act[c] = "reject" /\ tx' = IF tx = "pending" THEN "rejected" ELSE tx
        \/ UNCHANGED <<state, tx>>
    BY <1>44, EndEffect, RejectEffect DEF EndSend, SetState
  <2>3. \/ OwnsLess /\ pending' \subseteq pending
        \/ UNCHANGED <<owned, pending, cur>>
    BY <1>44, EndOwns, EndPending, RejectOwns, RejectPending, <2>1 DEF EndSend
  <2> QED
    BY <1>44, <2>1, <2>2, <2>3 DEF TypeOK, Unheard, Admitting, ClaimMoves, MayAnswer, EndSend, Goto,
        SetState, OwnsLess
<1>45. ASSUME NEW c \in Clients, EndBye(c) PROVE Unheard'
  <2>1. tgt[c] \in Sids
    BY <1>45 DEF EndBye, Targeted, Ending
  <2>2. state' = [state EXCEPT ![tgt[c]] = "ended"]
    BY <1>45, EndEffect DEF EndBye
  <2>3. OwnsLess /\ pending' \subseteq pending
    BY <1>45, EndOwns, EndPending, <2>1 DEF EndBye
  <2> QED
    BY <1>45, <2>1, <2>2, <2>3 DEF TypeOK, Unheard, Admitting, ClaimMoves, MayAnswer, EndBye, Goto,
        OwnsLess
<1>46. ASSUME NEW c \in Clients, EndDelete(c) PROVE Unheard'
  <2>1. tgt[c] \in Sids
    BY <1>46 DEF EndDelete, Targeted, Ending
  <2>2. \/ mgr' = mgr \ {tgt[c]} /\ state' = [state EXCEPT ![tgt[c]] = "ended"]
        \/ tgt[c] \notin mgr /\ UNCHANGED <<mgr, state>>
    BY <1>46, DeleteEffect DEF EndDelete
  <2>3. \/ OwnsLess /\ pending' \subseteq pending
        \/ UNCHANGED <<owned, pending, cur>>
    BY <1>46, UnbindOwns, <2>1 DEF EndDelete, Unbind
  <2> QED
    BY <1>46, <2>1, <2>2, <2>3 DEF TypeOK, Unheard, Admitting, ClaimMoves, MayAnswer, EndDelete,
        Goto, Return, EndReturn, OwnsLess
<1>47. ASSUME NEW c \in Clients, Sweep(c) \/ Swept(c) PROVE Unheard'
  BY <1>47 DEF TypeOK, Unheard, Admitting, ClaimMoves, MayAnswer, Goto, Sweep, Swept
<1>49. ASSUME NEW c \in Clients, NEW s \in Sids, HangupAsk(c, s) PROVE Unheard'
  BY <1>49 DEF TypeOK, Unheard, Admitting, ClaimMoves, MayAnswer, HangupAsk, ClaimedByOther,
      Goto
<1>50. ASSUME NEW c \in Clients, NEW s \in Sids, ForceEnd(c, s) PROVE Unheard'
  BY <1>50 DEF TypeOK, Unheard, Admitting, ClaimMoves, MayAnswer, ForceEnd, Goto, ActionFor
<1>51. CASE UNCHANGED vars
  BY <1>51 DEF vars, TypeOK, Unheard, Admitting, ClaimMoves, MayAnswer
<1> QED
  BY <1>1, <1>2, <1>3, <1>4, <1>5, <1>8, <1>9, <1>10, <1>11, <1>12, <1>13, <1>14, <1>15, <1>16,
      <1>17, <1>18, <1>19, <1>20, <1>21, <1>22, <1>23, <1>24, <1>25, <1>26, <1>28, <1>29, <1>30,
      <1>31, <1>32, <1>33, <1>34, <1>35, <1>36, <1>37, <1>38, <1>39, <1>40, <1>41, <1>42, <1>43,
      <1>44, <1>45, <1>46, <1>47, <1>49, <1>50, <1>51 DEF Next, FarEnd, InviteRuns, TimerRuns,
      CancelRuns, ClientStarts, ClientRuns

(* Whoever ended the ringing deletes no answered call. *)
LEMMA EndersLateStep ==
  ASSUME TypeOK, Steady, TerminalMutex, Targeted, RingEndersNeverKillAnswered, EndersLate,
         [Next]_vars
  PROVE  EndersLate'
<1> USE NameAssumption DEF Procs, System, Sids, sessVars, apiVars, sipVars, ctlVars, histVars
<1>1. CASE InviteArrives
  BY <1>1 DEF TypeOK, EndersLate, InviteArrives, Goto, SetState, Respond,
      RingEndersNeverKillAnswered, EndsRinging
<1>2. CASE CallerCancels
  BY <1>2 DEF TypeOK, EndersLate, CallerCancels, Goto, Respond, RingEndersNeverKillAnswered,
      EndsRinging
<1>3. CASE CallerAcks
  BY <1>3 DEF TypeOK, EndersLate, CallerAcks, Respond, RingEndersNeverKillAnswered, EndsRinging
<1>4. CASE CallerByes
  BY <1>4 DEF TypeOK, EndersLate, CallerByes, Goto, Respond, RingEndersNeverKillAnswered,
      EndsRinging
<1>5. CASE Admit
  BY <1>5 DEF TypeOK, EndersLate, Admit, Goto, Respond, RingEndersNeverKillAnswered, EndsRinging
<1>6. CASE Presented
  BY <1>6 DEF TypeOK, EndersLate, Presented, Respond, RingEndersNeverKillAnswered, EndsRinging
<1>7. CASE Refuse
  BY <1>7 DEF TypeOK, EndersLate, Refuse, Goto, Respond, RingEndersNeverKillAnswered,
      EndsRinging
<1>8. CASE RefuseBegin
  BY <1>8 DEF TypeOK, EndersLate, RefuseBegin, CanBegin, Goto, Respond,
      RingEndersNeverKillAnswered, EndsRinging
<1>9. CASE RefuseSend
  <2>1. \/ UNCHANGED <<state, tx>>
        \/ /\ state' = [state EXCEPT ![Inc] = "ended"]
           /\ tx' = IF tx = "pending" THEN "rejected" ELSE tx
    BY <1>9, RejectEffect DEF RefuseSend
  <2> QED
    BY <1>9, <2>1 DEF TypeOK, EndersLate, RefuseSend, Goto, Respond, RingEndersNeverKillAnswered,
        EndsRinging
<1>10. CASE RefuseDelete
  BY <1>10 DEF TypeOK, EndersLate, RefuseDelete, Goto, Respond, RingEndersNeverKillAnswered,
      EndsRinging
<1>11. CASE TimerCheck
  BY <1>11 DEF TypeOK, EndersLate, TimerCheck, Goto, Respond, RingEndersNeverKillAnswered,
      EndsRinging
<1>12. CASE TimerBegin
  BY <1>12 DEF TypeOK, EndersLate, TimerBegin, CanBeginIncoming, Goto, Respond,
      RingEndersNeverKillAnswered, EndsRinging
<1>13. CASE TimerFanout
  BY <1>13 DEF TypeOK, EndersLate, TimerFanout, Goto, Respond, RingEndersNeverKillAnswered,
      EndsRinging
<1>14. CASE TimerSend
  <2>1. \/ UNCHANGED <<state, tx>>
        \/ /\ state' = [state EXCEPT ![Inc] = "ended"]
           /\ tx' = IF tx = "pending" THEN "rejected" ELSE tx
    BY <1>14, RejectEffect DEF TimerSend
  <2> QED
    BY <1>14, <2>1 DEF TypeOK, EndersLate, TimerSend, Goto, Respond, RingEndersNeverKillAnswered,
        EndsRinging
<1>15. CASE TimerDelete
  BY <1>15 DEF TypeOK, EndersLate, TimerDelete, Goto, Respond, RingEndersNeverKillAnswered,
      EndsRinging
<1>16. CASE CancelCheck
  BY <1>16 DEF TypeOK, EndersLate, CancelCheck, Goto, Return, Respond,
      RingEndersNeverKillAnswered, EndsRinging
<1>17. CASE CancelBegin
  BY <1>17 DEF TypeOK, EndersLate, CancelBegin, CanBeginIncoming, Goto, Return, Respond,
      RingEndersNeverKillAnswered, EndsRinging
<1>18. CASE Cancel487
  BY <1>18 DEF TypeOK, EndersLate, Cancel487, Goto, Respond, RingEndersNeverKillAnswered,
      EndsRinging
<1>19. CASE CancelFanout
  BY <1>19 DEF TypeOK, EndersLate, CancelFanout, Goto, Respond, RingEndersNeverKillAnswered,
      EndsRinging
<1>20. CASE CancelEnd
  BY <1>20 DEF TypeOK, EndersLate, CancelEnd, Goto, Return, Respond,
      RingEndersNeverKillAnswered, EndsRinging
<1>21. CASE ByeDelete
  BY <1>21 DEF TypeOK, EndersLate, ByeDelete, Goto, Return, Respond,
      RingEndersNeverKillAnswered, EndsRinging
<1>22. ASSUME NEW c \in Clients, Present(c) PROVE EndersLate'
  BY <1>22 DEF TypeOK, EndersLate, Present, CanBeginIncoming, Respond,
      RingEndersNeverKillAnswered, EndsRinging
<1>23. ASSUME NEW c \in Clients, Connect(c) PROVE EndersLate'
  BY <1>23 DEF TypeOK, EndersLate, Connect, Goto, Respond, RingEndersNeverKillAnswered,
      EndsRinging
<1>24. ASSUME NEW c \in Clients, Offer(c) PROVE EndersLate'
  BY <1>24 DEF TypeOK, EndersLate, Offer, CanClaim, Goto, Respond, RingEndersNeverKillAnswered,
      EndsRinging
<1>25. ASSUME NEW c \in Clients, AcceptAsk(c) PROVE EndersLate'
  BY <1>25 DEF TypeOK, EndersLate, AcceptAsk, ClaimedByOther, Goto, Respond,
      RingEndersNeverKillAnswered, EndsRinging
<1>26. ASSUME NEW c \in Clients, RejectAsk(c) PROVE EndersLate'
  BY <1>26 DEF TypeOK, EndersLate, RejectAsk, Goto, Respond, RingEndersNeverKillAnswered,
      EndsRinging
<1>27. ASSUME NEW c \in Clients, Disconnect(c) PROVE EndersLate'
  BY <1>27 DEF TypeOK, EndersLate, Disconnect, Goto, Respond, RingEndersNeverKillAnswered,
      EndsRinging
<1>28. ASSUME NEW c \in Clients, Replay(c) PROVE EndersLate'
  BY <1>28 DEF TypeOK, EndersLate, Replay, CanBeginIncoming, Goto, Respond,
      RingEndersNeverKillAnswered, EndsRinging
<1>29. ASSUME NEW c \in Clients, Offered(c) PROVE EndersLate'
  BY <1>29 DEF TypeOK, EndersLate, Offered, Goto, SetState, Respond,
      RingEndersNeverKillAnswered, EndsRinging
<1>30. ASSUME NEW c \in Clients, AcceptCheck(c) PROVE EndersLate'
  BY <1>30 DEF TypeOK, EndersLate, AcceptCheck, Goto, Respond, RingEndersNeverKillAnswered,
      EndsRinging
<1>31. ASSUME NEW c \in Clients, AcceptBegin(c) PROVE EndersLate'
  BY <1>31 DEF TypeOK, EndersLate, AcceptBegin, CanBegin, ClaimedByOther, Goto, Return, Respond,
      RingEndersNeverKillAnswered, EndsRinging
<1>32. ASSUME NEW c \in Clients, AcceptLost(c) PROVE EndersLate'
  BY <1>32 DEF TypeOK, EndersLate, AcceptLost, Goto, Return, Respond,
      RingEndersNeverKillAnswered, EndsRinging
<1>33. ASSUME NEW c \in Clients, AcceptClaim(c) PROVE EndersLate'
  BY <1>33 DEF TypeOK, EndersLate, AcceptClaim, ClearTerminalAction, CanClaim, Goto, Return,
      Respond, RingEndersNeverKillAnswered, EndsRinging
<1>34. ASSUME NEW c \in Clients, AcceptTransfer(c) PROVE EndersLate'
  BY <1>34 DEF TypeOK, EndersLate, AcceptTransfer, Goto, Respond, RingEndersNeverKillAnswered,
      EndsRinging
<1>35. ASSUME NEW c \in Clients, Accept200(c) PROVE EndersLate'
  BY <1>35 DEF TypeOK, EndersLate, Accept200, Goto, Respond, TerminalMutex, Holding, OnInc,
      OnTgt, Targeted, RingEndersNeverKillAnswered, EndsRinging
<1>36. ASSUME NEW c \in Clients, AcceptActive(c) PROVE EndersLate'
  BY <1>36 DEF TypeOK, EndersLate, AcceptActive, Goto, Respond, RingEndersNeverKillAnswered,
      EndsRinging
<1>37. ASSUME NEW c \in Clients, AcceptFinish(c) PROVE EndersLate'
  BY <1>37 DEF TypeOK, EndersLate, AcceptFinish, ClearTerminalAction, Goto, Respond,
      RingEndersNeverKillAnswered, EndsRinging
<1>38. ASSUME NEW c \in Clients, AcceptFanout(c) PROVE EndersLate'
  BY <1>38 DEF TypeOK, EndersLate, AcceptFanout, Goto, Return, Respond,
      RingEndersNeverKillAnswered, EndsRinging
<1>39. ASSUME NEW c \in Clients, RejectBegin(c) PROVE EndersLate'
  BY <1>39 DEF TypeOK, EndersLate, RejectBegin, CanBeginIncoming, Goto, Respond,
      RingEndersNeverKillAnswered, EndsRinging
<1>40. ASSUME NEW c \in Clients, RejectSend(c) PROVE EndersLate'
  <2>1. \/ UNCHANGED <<state, tx>>
        \/ /\ state' = [state EXCEPT ![Inc] = "ended"]
           /\ tx' = IF tx = "pending" THEN "rejected" ELSE tx
    BY <1>40, RejectEffect DEF RejectSend, RejectCall
  <2> QED
    BY <1>40, <2>1 DEF TypeOK, EndersLate, RejectSend, Goto, RejectFails, Respond,
        RingEndersNeverKillAnswered, EndsRinging
<1>41. ASSUME NEW c \in Clients, RejectEnd(c) PROVE EndersLate'
  BY <1>41 DEF TypeOK, EndersLate, RejectEnd, Goto, SetState, Respond,
      RingEndersNeverKillAnswered, EndsRinging
<1>42. ASSUME NEW c \in Clients, HangupCheck(c) PROVE EndersLate'
  BY <1>42 DEF TypeOK, EndersLate, HangupCheck, Goto, ActionFor, Respond,
      RingEndersNeverKillAnswered, EndsRinging
<1>43. ASSUME NEW c \in Clients, EndBegin(c) PROVE EndersLate'
  <2>1. UNCHANGED <<pending, claim, owned, tx>>
        /\ \E l \in {"end_send", "idle", "own", "sweep"} : pc' = [pc EXCEPT ![c] = l]
    BY <1>43 DEF EndBegin, EndReturn, Return, Goto, TypeOK, apiVars, sipVars
  <2> QED
    BY <1>43, <2>1 DEF TypeOK, EndersLate, EndBegin, CanBegin, Goto, Return, EndReturn, Respond,
        RingEndersNeverKillAnswered, EndsRinging
<1>44. ASSUME NEW c \in Clients, EndSend(c) PROVE EndersLate'
  <2>1. tgt[c] \in Sids
    BY <1>44 DEF EndSend, Targeted, Ending
  <2>2. \/ /\ state' = [state EXCEPT ![tgt[c]] = "ended"]
           /\ \/ tx' = tx
              \/ act[c] = "reject" /\ tx' = IF tx = "pending" THEN "rejected" ELSE tx
        \/ UNCHANGED <<state, tx>>
    BY <1>44, EndEffect, RejectEffect DEF EndSend, SetState
  <2> QED
    BY <1>44, <2>1, <2>2 DEF TypeOK, EndersLate, EndSend, Goto, SetState, Respond,
        RingEndersNeverKillAnswered, EndsRinging
<1>45. ASSUME NEW c \in Clients, EndBye(c) PROVE EndersLate'
  BY <1>45 DEF TypeOK, EndersLate, EndBye, Goto, Respond, RingEndersNeverKillAnswered,
      EndsRinging
<1>46. ASSUME NEW c \in Clients, EndDelete(c) PROVE EndersLate'
  BY <1>46 DEF TypeOK, EndersLate, EndDelete, Goto, Return, EndReturn, Respond,
      RingEndersNeverKillAnswered, EndsRinging
<1>47. ASSUME NEW c \in Clients, Sweep(c) PROVE EndersLate'
  BY <1>47 DEF TypeOK, EndersLate, Sweep, Goto, Respond, RingEndersNeverKillAnswered,
      EndsRinging
<1>48. ASSUME NEW c \in Clients, Swept(c) PROVE EndersLate'
  BY <1>48 DEF TypeOK, EndersLate, Swept, Goto, Respond, RingEndersNeverKillAnswered,
      EndsRinging
<1>49. ASSUME NEW c \in Clients, NEW s \in Sids, HangupAsk(c, s) PROVE EndersLate'
  BY <1>49 DEF TypeOK, EndersLate, HangupAsk, ClaimedByOther, Goto, Respond,
      RingEndersNeverKillAnswered, EndsRinging
<1>50. ASSUME NEW c \in Clients, NEW s \in Sids, ForceEnd(c, s) PROVE EndersLate'
  BY <1>50 DEF TypeOK, EndersLate, ForceEnd, Goto, ActionFor, Respond,
      RingEndersNeverKillAnswered, EndsRinging
<1>51. CASE UNCHANGED vars
  BY <1>51 DEF vars, TypeOK, EndersLate
<1> QED
  BY <1>1, <1>2, <1>3, <1>4, <1>5, <1>6, <1>7, <1>8, <1>9, <1>10, <1>11, <1>12, <1>13, <1>14,
      <1>15, <1>16, <1>17, <1>18, <1>19, <1>20, <1>21, <1>22, <1>23, <1>24, <1>25, <1>26, <1>27,
      <1>28, <1>29, <1>30, <1>31, <1>32, <1>33, <1>34, <1>35, <1>36, <1>37, <1>38, <1>39, <1>40,
      <1>41, <1>42, <1>43, <1>44, <1>45, <1>46, <1>47, <1>48, <1>49, <1>50, <1>51 DEF Next,
      FarEnd, InviteRuns, TimerRuns, CancelRuns, ClientStarts, ClientRuns

(* A client at work on its own session is alone with it. *)
LEMMA OwnSessionAlone ==
  ASSUME TypeOK, OwnTargets, OwnLists, Sockets, NEW c \in Clients, NEW d \in Clients, c # d,
         tgt[d] = c \/ (pc[d] \in {"own", "sweep"} /\ c \in todo[d]),
         pc[c] \notin Ending \cup {"own", "sweep", "gone"}
  PROVE  FALSE
<1> USE NameAssumption DEF System
<1>1. c \in conn BY DEF Sockets, Leaves, OwnTargets
<1>2. pc[d] # "sweep" /\ back[d] # "sweep" BY <1>1 DEF Sockets
<1>3. ~Owning(d) BY DEF OwnLists
<1>4. back[d] = "idle" /\ pc[d] # "own" BY <1>2, <1>3 DEF Owning, TypeOK
<1> QED BY <1>2, <1>4 DEF OwnTargets

(* An answer on the INVITE goes out for a session that carries the call. *)
LEMMA AnswerBears ==
  ASSUME TypeOK, Steady, TerminalMutex, Targeted, OnlyIncRings, ClaimHeld, OwnTargets, Sockets,
         OwnLists, StaleEnds, AcceptsRinging, AcceptedOnce,
         NEW c \in Clients, Accept200(c), tx = "pending", tx' = "answered"
  PROVE  \E s \in Sids : Bearer(s)'
<1> USE NameAssumption DEF Procs, System, Sids
<1>0. pc[c] = "acc_200" /\ tgt[c] \in Sids BY DEF Accept200, Targeted, Accepting
<1>1. PICK w \in Sids : w = tgt[c] /\ pc[c] = "acc_200" BY <1>0
<1>2. pc' = [pc EXCEPT ![c] = "acc_active"]
  BY DEF Accept200, Goto, Steady, Respond
<1>3. UNCHANGED <<mgr, state, callID, dialog, tgt, act>> BY DEF Accept200, sessVars
<1>4. back[c] = "idle" /\ w \in {c, Inc} BY <1>1 DEF OwnTargets, Ending
<1>5. state[Inc] = "incoming" /\ Inc \in mgr /\ (w = c => c \in mgr)
  BY <1>1 DEF AcceptsRinging, Unanswered, OnlyIncRings
<1>6. w \in mgr \cap callID BY <1>1, <1>4, <1>5 DEF AcceptedOnce
<1>7. term[Inc] = c /\ claim = c /\ c \in conn
  BY <1>1, <1>4 DEF TerminalMutex, Holding, OnInc, ClaimHeld, Sockets, Leaves
<1>8. ASSUME NEW d \in Clients, d # c, tgt[d] = w
      PROVE  /\ pc[d] \notin {"end_bye", "end_delete", "end_send"}
             /\ pc[d] = "end_begin" => act[d] = "bye"
  <2>1. w = Inc BY <1>1, <1>4, <1>8, OwnSessionAlone DEF Ending
  <2>2. pc[d] \notin {"end_bye", "end_delete", "end_send"}
    BY <1>7, <1>8, <2>1 DEF TerminalMutex, Holding, OnTgt
  <2>3. pc[d] = "end_begin" => act[d] = "bye"
    BY <1>5, <1>7, <1>8, <2>1 DEF StaleEnds
  <2> QED BY <2>2, <2>3
<1>9. \A d \in Clients : d # c => pc[d] \notin {"acc_active", "acc_finish"}
  BY <1>7 DEF TerminalMutex, Holding, OnInc
<1>10. \A d \in Clients : pc'[d] = IF d = c THEN "acc_active" ELSE pc[d]
  BY <1>2 DEF TypeOK
<1>11. \A d \in Clients : pc'[d] \in {"acc_active", "acc_finish"} => d = c
  BY <1>9, <1>10
<1>12. \A d \in Clients : tgt[d] = w =>
         /\ pc'[d] \notin {"end_bye", "end_delete"}
         /\ pc'[d] \in {"end_begin", "end_send"} => act[d] = "bye"
  BY <1>8, <1>10
<1>13. Bearer(w)'
  BY <1>1, <1>3, <1>5, <1>6, <1>10, <1>11, <1>12 DEF Bearer
<1> QED BY <1>1, <1>13

(* Nobody takes the session of a call that goes on. *)
LEMMA BearerKept ==
  ASSUME TypeOK, Steady, TerminalMutex, Targeted, OnlyIncRings, InviteOnce, ClaimHeld, ClaimKept,
         RingEndersNeverKillAnswered, OwnTargets, ClaimantCarries, HangupsMine, Sockets, OwnLists,
         OwnersClaim, FarEndKnows, AcceptedOnce, Unheard, EndersLate,
         NEW w \in Sids, GoesOn, GoesOn', Bearer(w), [Next]_vars
  PROVE  Bearer(w)'
<1> USE NameAssumption DEF Procs, System, Sids, sessVars, apiVars, sipVars, ctlVars, histVars
<1>a. pc[InviteP] \notin Admitting
  BY DEF Unheard, ClaimantCarries, GoesOn
<1>b. pc[TimerP] # "tmo_delete" /\ pc[CancelP] # "cxl_end" /\ \A c \in Clients : pc[c] # "rej_end"
  BY DEF EndersLate, GoesOn
<1>c. pc[ByeP] = "idle"
  BY DEF FarEndKnows, GoesOn
<1>d. \A p \in Procs : pc[p] \notin {"rej_send", "tmo_send"}
  BY DEF RingEndersNeverKillAnswered, EndsRinging, GoesOn
<1>e. \A c \in Clients : pc[c] # "acc_200"
  BY DEF AcceptedOnce, GoesOn
<1>f. ASSUME w \notin dialog, NEW c \in Clients,
             \/ tgt[c] = w /\ pc[c] \in {"hup_check", "end_send"}
             \/ pc[c] \in {"own", "sweep"} /\ w \in todo[c]
      PROVE  FALSE
  <2>1. PICK d \in Clients : pc[d] = "acc_active" /\ tgt[d] = w /\ (w = Inc => state[Inc] = "incoming")
    BY <1>f DEF Bearer
  <2>2. c # d /\ back[d] = "idle" /\ d \in conn
    BY <1>f, <2>1 DEF OwnTargets, Ending, Sockets, Leaves
  <2>3. w = Inc
    BY <1>f, <2>1, <2>2, OwnSessionAlone DEF OwnTargets, Ending
  <2>4. term[Inc] = d /\ claim = d
    BY <2>1 DEF TerminalMutex, Holding, OnInc, ClaimKept
  <2>5. pc[c] \notin {"end_send", "sweep"}
    BY <1>f, <2>2, <2>3, <2>4 DEF TerminalMutex, Holding, OnTgt, Sockets
  <2>6. pc[c] # "hup_check"
    BY <1>f, <2>1, <2>2, <2>3, <2>4 DEF HangupsMine, LostUnclaimed, OwnTargets, Ending
  <2>7. pc[c] # "own"
    BY <1>f, <2>1, <2>2, <2>3, <2>4, <2>5 DEF OwnersClaim, Owning
  <2> QED BY <1>f, <2>5, <2>6, <2>7
<1>g. \A c \in Clients : pc[c] = "acc_active" /\ tgt[c] = Inc => term[Inc] = c
  BY DEF TerminalMutex, Holding, OnInc
<1>h. Inc \in dialog => state[Inc] # "incoming"
  BY DEF FarEndKnows
<1>1. CASE InviteArrives
  BY <1>1 DEF TypeOK, Bearer, InviteArrives, Goto, SetState, GoesOn, InviteOnce
<1>2. CASE CallerCancels
  <2>1. \A c \in Clients : pc'[c] = pc[c] /\ tgt'[c] = tgt[c] /\ act'[c] = act[c]
    BY <1>2 DEF TypeOK, CallerCancels, Goto
  <2>2. UNCHANGED <<mgr, callID, dialog, state>>
    BY <1>2 DEF CallerCancels
  <2> QED
    BY <2>1, <2>2 DEF Bearer
<1>3. CASE CallerAcks
  <2>1. \/ UNCHANGED <<state, dialog>>
        \/ \E s \in mgr \cap callID : /\ s \notin dialog /\ dialog' = dialog \cup {s}
                                     /\ state' = [state EXCEPT ![s] = "active"]
    BY <1>3, ActivateEffect DEF CallerAcks, ActivateAndNotify
  <2> QED
    BY <1>3, <2>1 DEF TypeOK, Bearer, CallerAcks
<1>4. CASE CallerByes
  <2>1. \/ UNCHANGED <<state, owned, pending, cur>>
        \/ \E s \in mgr \cap callID : state' = [state EXCEPT ![s] = "ended"] /\ OwnsLess /\ pending' \subseteq pending
    BY <1>4, EndEffect, EndOwns, EndPending DEF CallerByes, TypeOK
  <2> QED
    BY <1>4, <2>1 DEF TypeOK, Bearer, CallerByes, Goto, GoesOn
<1>5. CASE Admit \/ Presented \/ Refuse
  BY <1>5 DEF TypeOK, Bearer, Goto, Admit, Presented, Refuse
<1>8. CASE RefuseBegin
  BY <1>8 DEF TypeOK, Bearer, RefuseBegin, CanBegin, Goto
<1>9. CASE RefuseSend \/ RefuseDelete
  BY <1>9, <1>a DEF Admitting, RefuseSend, RefuseDelete
<1>11. CASE TimerCheck \/ TimerBegin
  BY <1>11 DEF TypeOK, Bearer, Goto, CanBeginIncoming, TimerCheck, TimerBegin
<1>13. CASE TimerFanout
  <2>1. pending' \subseteq pending
    BY <1>13 DEF TimerFanout, Fanout
  <2> QED
    BY <1>13, <2>1 DEF TypeOK, Bearer, TimerFanout, Goto
<1>14. CASE TimerSend
  <2>1. \/ UNCHANGED <<state, tx>>
        \/ /\ state' = [state EXCEPT ![Inc] = "ended"]
           /\ tx' = IF tx = "pending" THEN "rejected" ELSE tx
    BY <1>14, RejectEffect DEF TimerSend
  <2> QED
    BY <1>14, <2>1, <1>d DEF TypeOK, Bearer, TimerSend, Goto
<1>15. CASE TimerDelete
  <2>1. \/ mgr' = mgr \ {Inc} /\ state' = [state EXCEPT ![Inc] = "ended"]
        \/ Inc \notin mgr /\ UNCHANGED <<mgr, state>>
    BY <1>15, DeleteEffect DEF TimerDelete
  <2> QED
    BY <1>15, <2>1, <1>b DEF TypeOK, Bearer, TimerDelete, Goto
<1>16. CASE CancelCheck \/ CancelBegin \/ Cancel487
  BY <1>16 DEF TypeOK, Bearer, Goto, Return, CanBeginIncoming, Respond, CancelCheck, CancelBegin,
      Cancel487
<1>19. CASE CancelFanout
  <2>1. pending' \subseteq pending
    BY <1>19 DEF CancelFanout, Fanout
  <2> QED
    BY <1>19, <2>1 DEF TypeOK, Bearer, CancelFanout, Goto
<1>20. CASE CancelEnd
  <2>1. tgt[CancelP] = Inc
    BY <1>20 DEF CancelEnd, Targeted
  <2>2. state' = [state EXCEPT ![Inc] = "ended"]
    BY <1>20, EndEffect, <2>1 DEF CancelEnd
  <2> QED
    BY <1>20, <2>1, <2>2, <1>b DEF TypeOK, Bearer, CancelEnd, Goto, Return
<1>21. CASE ByeDelete
  <2>1. \/ mgr' = mgr \ {tgt[ByeP]} /\ state' = [state EXCEPT ![tgt[ByeP]] = "ended"]
        \/ tgt[ByeP] \notin mgr /\ UNCHANGED <<mgr, state>>
    BY <1>21, DeleteEffect DEF ByeDelete
  <2> QED
    BY <1>21, <2>1, <1>c DEF TypeOK, Bearer, ByeDelete, Goto, Return
<1>22. ASSUME NEW c \in Clients, Present(c) \/ Connect(c) \/ Offer(c) PROVE Bearer(w)'
  BY <1>22 DEF TypeOK, Bearer, CanBeginIncoming, Goto, CanClaim, Present, Connect, Offer
<1>25. ASSUME NEW c \in Clients, AcceptAsk(c) \/ RejectAsk(c) \/ Disconnect(c) PROVE Bearer(w)'
  BY <1>25 DEF TypeOK, Bearer, ClaimedByOther, Goto, AcceptAsk, RejectAsk, Disconnect
<1>28. ASSUME NEW c \in Clients, Replay(c) \/ Offered(c) \/ AcceptCheck(c) PROVE Bearer(w)'
  BY <1>28 DEF TypeOK, Bearer, CanBeginIncoming, Goto, SetState, Replay, Offered, AcceptCheck
<1>31. ASSUME NEW c \in Clients, AcceptBegin(c) \/ AcceptLost(c) \/ AcceptClaim(c) PROVE Bearer(w)'
  BY <1>31 DEF TypeOK, Bearer, CanBegin, ClaimedByOther, Goto, Return, ClearTerminalAction,
      CanClaim, AcceptBegin, AcceptLost, AcceptClaim
<1>34. ASSUME NEW c \in Clients, AcceptTransfer(c) PROVE Bearer(w)'
  BY <1>34 DEF TypeOK, Bearer, AcceptTransfer, Goto
<1>35. ASSUME NEW c \in Clients, Accept200(c) PROVE Bearer(w)'
  BY <1>35, <1>e DEF TypeOK, Bearer, Accept200, Goto, Respond
<1>36. ASSUME NEW c \in Clients, AcceptActive(c) PROVE Bearer(w)'
  <2>1. tgt[c] \in Sids
    BY <1>36 DEF AcceptActive, Targeted, Accepting
  <2>2. state' = [state EXCEPT ![tgt[c]] = "active"]
    BY <1>36, ActivateEffect DEF AcceptActive
  <2>3. dialog' = dialog \cup {tgt[c]}
    BY <1>36 DEF AcceptActive, ActivateAndNotify
  <2> QED
    BY <1>36, <2>1, <2>2, <2>3 DEF TypeOK, Bearer, AcceptActive, Goto
<1>37. ASSUME NEW c \in Clients, AcceptFinish(c) PROVE Bearer(w)'
  <2>1. tgt[c] \in Sids
    BY <1>37 DEF AcceptFinish, Targeted, Accepting
  <2>2. IF tgt[c] = Inc THEN UNCHANGED <<mgr, state>>
        ELSE \/ mgr' = mgr \ {Inc} /\ state' = [state EXCEPT ![Inc] = "ended"]
             \/ Inc \notin mgr /\ UNCHANGED <<mgr, state>>
    BY <1>37, DeleteEffect DEF AcceptFinish
  <2> QED
    BY <1>37, <2>1, <2>2, <1>g DEF TypeOK, Bearer, AcceptFinish, ClearTerminalAction, Goto,
        TerminalMutex, Holding, OnInc
<1>38. ASSUME NEW c \in Clients, AcceptFanout(c) PROVE Bearer(w)'
  <2>1. pending' \subseteq pending
    BY <1>38 DEF AcceptFanout, Fanout
  <2> QED
    BY <1>38, <2>1 DEF TypeOK, Bearer, AcceptFanout, Goto, Return
<1>39. ASSUME NEW c \in Clients, RejectBegin(c) PROVE Bearer(w)'
  BY <1>39 DEF TypeOK, Bearer, RejectBegin, CanBeginIncoming, Goto
<1>40. ASSUME NEW c \in Clients, RejectSend(c) PROVE Bearer(w)'
  <2>1. \/ UNCHANGED <<state, tx>>
        \/ /\ state' = [state EXCEPT ![Inc] = "ended"]
           /\ tx' = IF tx = "pending" THEN "rejected" ELSE tx
    BY <1>40, RejectEffect DEF RejectSend, RejectCall
  <2> QED
    BY <1>40, <2>1, <1>d DEF TypeOK, Bearer, RejectSend, Goto, RejectFails
<1>41. ASSUME NEW c \in Clients, RejectEnd(c) PROVE Bearer(w)'
  BY <1>41, <1>b DEF TypeOK, Bearer, RejectEnd, Goto, SetState
<1>42. ASSUME NEW c \in Clients, HangupCheck(c) PROVE Bearer(w)'
  BY <1>42, <1>f, <1>h DEF TypeOK, Bearer, HangupCheck, Goto, ActionFor, OnlyIncRings
<1>43. ASSUME NEW c \in Clients, EndBegin(c) PROVE Bearer(w)'
  BY <1>43 DEF TypeOK, Bearer, EndBegin, CanBegin, Goto, Return, EndReturn
<1>44. ASSUME NEW c \in Clients, EndSend(c) PROVE Bearer(w)'
  <2>1. tgt[c] \in Sids
    BY <1>44 DEF EndSend, Targeted, Ending
  <2>2. \/ /\ state' = [state EXCEPT ![tgt[c]] = "ended"]
           /\ \/ tx' = tx
              \/ act[c] = "reject" /\ tx' = IF tx = "pending" THEN "rejected" ELSE tx
        \/ UNCHANGED <<state, tx>>
    BY <1>44, EndEffect, RejectEffect DEF EndSend, SetState
  <2> QED
    BY <1>44, <2>1, <2>2, <1>f, <1>g DEF TypeOK, Bearer, EndSend, Goto, SetState, GoesOn,
        TerminalMutex, Holding, OnTgt
<1>45. ASSUME NEW c \in Clients, EndBye(c) PROVE Bearer(w)'
  <2>1. tgt[c] \in Sids
    BY <1>45 DEF EndBye, Targeted, Ending
  <2>2. state' = [state EXCEPT ![tgt[c]] = "ended"]
    BY <1>45, EndEffect DEF EndBye
  <2> QED
    BY <1>45, <2>1, <2>2, <1>g DEF TypeOK, Bearer, EndBye, Goto, TerminalMutex, Holding, OnTgt
<1>46. ASSUME NEW c \in Clients, EndDelete(c) PROVE Bearer(w)'
  <2>1. tgt[c] \in Sids
    BY <1>46 DEF EndDelete, Targeted, Ending
  <2>2. \/ mgr' = mgr \ {tgt[c]} /\ state' = [state EXCEPT ![tgt[c]] = "ended"]
        \/ tgt[c] \notin mgr /\ UNCHANGED <<mgr, state>>
    BY <1>46, DeleteEffect DEF EndDelete
  <2> QED
    BY <1>46, <2>1, <2>2, <1>g DEF TypeOK, Bearer, EndDelete, Goto, Return, EndReturn,
        TerminalMutex, Holding, OnTgt
<1>47. ASSUME NEW c \in Clients, Sweep(c) \/ Swept(c) PROVE Bearer(w)'
  BY <1>47 DEF TypeOK, Bearer, Goto, Sweep, Swept
<1>49. ASSUME NEW c \in Clients, NEW s \in Sids, HangupAsk(c, s) PROVE Bearer(w)'
  BY <1>49 DEF TypeOK, Bearer, HangupAsk, ClaimedByOther, Goto
<1>50. ASSUME NEW c \in Clients, NEW s \in Sids, ForceEnd(c, s) PROVE Bearer(w)'
  <2>1. \A d \in Clients :
          \/ pc'[d] = pc[d] /\ tgt'[d] = tgt[d] /\ act'[d] = act[d]
          \/ d = c /\ pc'[d] = "end_begin" /\ tgt'[d] = s /\ act'[d] = ActionFor(s)
    BY <1>50 DEF TypeOK, ForceEnd, Goto
  <2>2. s = w => ActionFor(s) = "bye"
    BY <1>50, <1>f, <1>h DEF ForceEnd, ActionFor, OnlyIncRings
  <2>3. UNCHANGED <<mgr, callID, dialog, state>>
    BY <1>50 DEF ForceEnd
  <2>4. pc[c] \in {"own", "sweep"}
    BY <1>50 DEF ForceEnd
  <2> QED
    BY <2>1, <2>2, <2>3, <2>4 DEF Bearer
<1>51. CASE UNCHANGED vars
  BY <1>51 DEF vars, TypeOK, Bearer
<1> QED
  BY <1>1, <1>2, <1>3, <1>4, <1>5, <1>8, <1>9, <1>11, <1>13, <1>14, <1>15, <1>16, <1>19, <1>20,
      <1>21, <1>22, <1>25, <1>28, <1>31, <1>34, <1>35, <1>36, <1>37, <1>38, <1>39, <1>40, <1>41,
      <1>42, <1>43, <1>44, <1>45, <1>46, <1>47, <1>49, <1>50, <1>51 DEF Next, FarEnd, InviteRuns,
      TimerRuns, CancelRuns, ClientStarts, ClientRuns

(* A call starts to go on with the 200 an accept sends. *)
LEMMA AnswerStep ==
  ASSUME TypeOK, Targeted, GoesOn', [Next]_vars
  PROVE  GoesOn \/ (tx = "pending" /\ \E d \in Clients : Accept200(d))
<1> USE NameAssumption DEF Procs, System, Sids, sessVars, apiVars, sipVars, ctlVars, histVars
<1>1. CASE InviteArrives \/ CallerCancels \/ CallerAcks
  BY <1>1 DEF GoesOn, Goto, SetState, Respond, InviteArrives, CallerCancels, CallerAcks
<1>4. CASE CallerByes \/ Admit \/ Presented
  BY <1>4 DEF GoesOn, Goto, Respond, CallerByes, Admit, Presented
<1>7. CASE Refuse \/ RefuseBegin
  BY <1>7 DEF GoesOn, Goto, Respond, CanBegin, Refuse, RefuseBegin
<1>9. CASE RefuseSend
  <2>1. \/ UNCHANGED <<state, tx>>
        \/ /\ state' = [state EXCEPT ![Inc] = "ended"]
           /\ tx' = IF tx = "pending" THEN "rejected" ELSE tx
    BY <1>9, RejectEffect DEF RefuseSend
  <2> QED
    BY <1>9, <2>1 DEF GoesOn, RefuseSend, Goto
<1>10. CASE RefuseDelete \/ TimerCheck \/ TimerBegin
  BY <1>10 DEF GoesOn, Goto, Respond, CanBeginIncoming, RefuseDelete, TimerCheck, TimerBegin
<1>13. CASE TimerFanout
  BY <1>13 DEF GoesOn, TimerFanout, Goto, Respond
<1>14. CASE TimerSend
  <2>1. \/ UNCHANGED <<state, tx>>
        \/ /\ state' = [state EXCEPT ![Inc] = "ended"]
           /\ tx' = IF tx = "pending" THEN "rejected" ELSE tx
    BY <1>14, RejectEffect DEF TimerSend
  <2> QED
    BY <1>14, <2>1 DEF GoesOn, TimerSend, Goto
<1>15. CASE TimerDelete \/ CancelCheck \/ CancelBegin
  BY <1>15 DEF GoesOn, Goto, Respond, Return, CanBeginIncoming, TimerDelete, CancelCheck,
      CancelBegin
<1>18. CASE Cancel487 \/ CancelFanout \/ CancelEnd
  BY <1>18 DEF GoesOn, Goto, Respond, Return, Cancel487, CancelFanout, CancelEnd
<1>21. CASE ByeDelete
  BY <1>21 DEF GoesOn, ByeDelete, Goto, Return, Respond
<1>22. ASSUME NEW c \in Clients, Present(c)
      PROVE  GoesOn \/ (tx = "pending" /\ \E d \in Clients : Accept200(d))
  BY <1>22 DEF GoesOn, Present, CanBeginIncoming, Respond
<1>23. ASSUME NEW c \in Clients, Connect(c)
      PROVE  GoesOn \/ (tx = "pending" /\ \E d \in Clients : Accept200(d))
  BY <1>23 DEF GoesOn, Connect, Goto, Respond
<1>24. ASSUME NEW c \in Clients, Offer(c)
      PROVE  GoesOn \/ (tx = "pending" /\ \E d \in Clients : Accept200(d))
  BY <1>24 DEF GoesOn, Offer, CanClaim, Goto, Respond
<1>25. ASSUME NEW c \in Clients, AcceptAsk(c)
      PROVE  GoesOn \/ (tx = "pending" /\ \E d \in Clients : Accept200(d))
  BY <1>25 DEF GoesOn, AcceptAsk, ClaimedByOther, Goto, Respond
<1>26. ASSUME NEW c \in Clients, RejectAsk(c)
      PROVE  GoesOn \/ (tx = "pending" /\ \E d \in Clients : Accept200(d))
  BY <1>26 DEF GoesOn, RejectAsk, Goto, Respond
<1>27. ASSUME NEW c \in Clients, Disconnect(c)
      PROVE  GoesOn \/ (tx = "pending" /\ \E d \in Clients : Accept200(d))
  BY <1>27 DEF GoesOn, Disconnect, Goto, Respond
<1>28. ASSUME NEW c \in Clients, Replay(c)
      PROVE  GoesOn \/ (tx = "pending" /\ \E d \in Clients : Accept200(d))
  BY <1>28 DEF GoesOn, Replay, CanBeginIncoming, Goto, Respond
<1>29. ASSUME NEW c \in Clients, Offered(c)
      PROVE  GoesOn \/ (tx = "pending" /\ \E d \in Clients : Accept200(d))
  BY <1>29 DEF GoesOn, Offered, Goto, SetState, Respond
<1>30. ASSUME NEW c \in Clients, AcceptCheck(c)
      PROVE  GoesOn \/ (tx = "pending" /\ \E d \in Clients : Accept200(d))
  BY <1>30 DEF GoesOn, AcceptCheck, Goto, Respond
<1>31. ASSUME NEW c \in Clients, AcceptBegin(c)
      PROVE  GoesOn \/ (tx = "pending" /\ \E d \in Clients : Accept200(d))
  BY <1>31 DEF GoesOn, AcceptBegin, CanBegin, ClaimedByOther, Goto, Return, Respond
<1>32. ASSUME NEW c \in Clients, AcceptLost(c)
      PROVE  GoesOn \/ (tx = "pending" /\ \E d \in Clients : Accept200(d))
  BY <1>32 DEF GoesOn, AcceptLost, Goto, Return, Respond
<1>33. ASSUME NEW c \in Clients, AcceptClaim(c)
      PROVE  GoesOn \/ (tx = "pending" /\ \E d \in Clients : Accept200(d))
  BY <1>33 DEF GoesOn, AcceptClaim, ClearTerminalAction, CanClaim, Goto, Return, Respond
<1>34. ASSUME NEW c \in Clients, AcceptTransfer(c)
      PROVE  GoesOn \/ (tx = "pending" /\ \E d \in Clients : Accept200(d))
  BY <1>34 DEF GoesOn, AcceptTransfer, Goto, Respond
<1>35. ASSUME NEW c \in Clients, Accept200(c)
      PROVE  GoesOn \/ (tx = "pending" /\ \E d \in Clients : Accept200(d))
  BY <1>35 DEF GoesOn, Accept200, Goto, Respond
<1>36. ASSUME NEW c \in Clients, AcceptActive(c)
      PROVE  GoesOn \/ (tx = "pending" /\ \E d \in Clients : Accept200(d))
  BY <1>36 DEF GoesOn, AcceptActive, Goto, Respond
<1>37. ASSUME NEW c \in Clients, AcceptFinish(c)
      PROVE  GoesOn \/ (tx = "pending" /\ \E d \in Clients : Accept200(d))
  BY <1>37 DEF GoesOn, AcceptFinish, ClearTerminalAction, Goto, Respond
<1>38. ASSUME NEW c \in Clients, AcceptFanout(c)
      PROVE  GoesOn \/ (tx = "pending" /\ \E d \in Clients : Accept200(d))
  BY <1>38 DEF GoesOn, AcceptFanout, Goto, Return, Respond
<1>39. ASSUME NEW c \in Clients, RejectBegin(c)
      PROVE  GoesOn \/ (tx = "pending" /\ \E d \in Clients : Accept200(d))
  BY <1>39 DEF GoesOn, RejectBegin, CanBeginIncoming, Goto, Respond
<1>40. ASSUME NEW c \in Clients, RejectSend(c)
      PROVE  GoesOn \/ (tx = "pending" /\ \E d \in Clients : Accept200(d))
  <2>1. \/ UNCHANGED <<state, tx>>
        \/ /\ state' = [state EXCEPT ![Inc] = "ended"]
           /\ tx' = IF tx = "pending" THEN "rejected" ELSE tx
    BY <1>40, RejectEffect DEF RejectSend, RejectCall
  <2> QED
    BY <1>40, <2>1 DEF GoesOn, RejectSend, Goto, RejectFails
<1>41. ASSUME NEW c \in Clients, RejectEnd(c)
      PROVE  GoesOn \/ (tx = "pending" /\ \E d \in Clients : Accept200(d))
  BY <1>41 DEF GoesOn, RejectEnd, Goto, SetState, Respond
<1>42. ASSUME NEW c \in Clients, HangupCheck(c)
      PROVE  GoesOn \/ (tx = "pending" /\ \E d \in Clients : Accept200(d))
  BY <1>42 DEF GoesOn, HangupCheck, Goto, ActionFor, Respond
<1>43. ASSUME NEW c \in Clients, EndBegin(c)
      PROVE  GoesOn \/ (tx = "pending" /\ \E d \in Clients : Accept200(d))
  BY <1>43 DEF GoesOn, EndBegin, CanBegin, Goto, Return, EndReturn, Respond
<1>44. ASSUME NEW c \in Clients, EndSend(c)
      PROVE  GoesOn \/ (tx = "pending" /\ \E d \in Clients : Accept200(d))
  <2>1. tgt[c] \in Sids
    BY <1>44 DEF EndSend, Targeted, Ending
  <2>2. \/ /\ state' = [state EXCEPT ![tgt[c]] = "ended"]
           /\ \/ tx' = tx
              \/ act[c] = "reject" /\ tx' = IF tx = "pending" THEN "rejected" ELSE tx
        \/ UNCHANGED <<state, tx>>
    BY <1>44, EndEffect, RejectEffect DEF EndSend, SetState
  <2> QED
    BY <1>44, <2>1, <2>2 DEF GoesOn, EndSend, Goto, SetState
<1>45. ASSUME NEW c \in Clients, EndBye(c)
      PROVE  GoesOn \/ (tx = "pending" /\ \E d \in Clients : Accept200(d))
  BY <1>45 DEF GoesOn, EndBye, Goto, Respond
<1>46. ASSUME NEW c \in Clients, EndDelete(c)
      PROVE  GoesOn \/ (tx = "pending" /\ \E d \in Clients : Accept200(d))
  BY <1>46 DEF GoesOn, EndDelete, Goto, Return, EndReturn, Respond
<1>47. ASSUME NEW c \in Clients, Sweep(c)
      PROVE  GoesOn \/ (tx = "pending" /\ \E d \in Clients : Accept200(d))
  BY <1>47 DEF GoesOn, Sweep, Goto, Respond
<1>48. ASSUME NEW c \in Clients, Swept(c)
      PROVE  GoesOn \/ (tx = "pending" /\ \E d \in Clients : Accept200(d))
  BY <1>48 DEF GoesOn, Swept, Goto, Respond
<1>49. ASSUME NEW c \in Clients, NEW s \in Sids, HangupAsk(c, s)
      PROVE  GoesOn \/ (tx = "pending" /\ \E d \in Clients : Accept200(d))
  BY <1>49 DEF GoesOn, HangupAsk, ClaimedByOther, Goto, Respond
<1>50. ASSUME NEW c \in Clients, NEW s \in Sids, ForceEnd(c, s)
      PROVE  GoesOn \/ (tx = "pending" /\ \E d \in Clients : Accept200(d))
  BY <1>50 DEF GoesOn, ForceEnd, Goto, ActionFor, Respond
<1>51. CASE UNCHANGED vars
  BY <1>51 DEF vars, GoesOn
<1> QED
  BY <1>1, <1>4, <1>7, <1>9, <1>10, <1>13, <1>14, <1>15, <1>18, <1>21, <1>22, <1>23, <1>24, <1>25,
      <1>26, <1>27, <1>28, <1>29, <1>30, <1>31, <1>32, <1>33, <1>34, <1>35, <1>36, <1>37, <1>38,
      <1>39, <1>40, <1>41, <1>42, <1>43, <1>44, <1>45, <1>46, <1>47, <1>48, <1>49, <1>50, <1>51 DEF
      Next, FarEnd, InviteRuns, TimerRuns, CancelRuns, ClientStarts, ClientRuns

(* When all clients are agents connected from the start and every write
   succeeds, every part of CallInv holds throughout. *)
LEMMA CallInvariance == Steady => (Spec => []CallInv)
<1> SUFFICES ASSUME Steady PROVE Spec => []CallInv
  OBVIOUS
<1>1. Init => CallInv
  BY ClientAssumption, NameAssumption DEF Init, CallInv, Sockets, Leaves, OwnLists, Owning,
      OwnersClaim, StaleEnds, FarEndKnows, AcceptsRinging, Unanswered, AcceptedOnce, Unheard,
      Admitting, EndersLate, Carried, GoesOn, Steady, Procs, System, Sids
<1>2. ASSUME IInv, RingInv, FinalInv, GuardInv, HangupInv, CallInv, [Next]_vars PROVE CallInv'
  <2>1. /\ TypeOK /\ TerminalMutex /\ Targeted /\ OnlyIncRings /\ AnsweredLeaves /\ ClaimHeld
        /\ InviteOnce /\ RingEndersNeverKillAnswered /\ ClaimKept /\ BeforeInvite /\ RingsStored
    BY <1>2 DEF IInv, RingInv, FinalInv, GuardInv
  <2>2. /\ OwnSessions /\ OwnTargets /\ ClaimantCarries /\ NewUnknown /\ LostStays
        /\ OwnersKnow /\ HangupsMine
    BY <1>2 DEF HangupInv
  <2>3. /\ Sockets /\ OwnLists /\ OwnersClaim /\ StaleEnds /\ FarEndKnows /\ AcceptsRinging
        /\ AcceptedOnce /\ Unheard /\ EndersLate /\ Carried
    BY <1>2 DEF CallInv
  <2>4. ClaimMoves /\ (LostUnclaimed => LostUnclaimed')
    BY <1>2, <2>1, <2>2, ClaimSteps, StateSteps, LostKept
  <2>5. Sockets' /\ OwnLists' BY <1>2, <2>1, <2>2, <2>3, SocketsStep, OwnListsStep
  <2>6. OwnersClaim' BY <1>2, <2>1, <2>2, <2>3, <2>4, OwnersClaimStep
  <2>7. StaleEnds' BY <1>2, <2>1, <2>2, <2>3, <2>4, StaleEndsStep
  <2>8. FarEndKnows' /\ AcceptsRinging'
    BY <1>2, <2>1, <2>2, <2>3, FarEndKnowsStep, AcceptsRingingStep
  <2>9. AcceptedOnce' BY <1>2, <2>1, <2>2, <2>3, <2>4, AcceptedOnceStep
  <2>10. Unheard' BY <1>2, <2>1, <2>2, <2>3, <2>4, UnheardStep
  <2>11. EndersLate' BY <1>2, <2>1, <2>3, EndersLateStep
  <2>12. Carried'
    <3> SUFFICES ASSUME GoesOn' PROVE \E s \in Sids : Bearer(s)'
      BY DEF Carried
    <3>1. CASE GoesOn
      <4>1. PICK w \in Sids : Bearer(w) BY <2>3, <3>1 DEF Carried
      <4>2. Bearer(w)' BY <1>2, <2>1, <2>2, <2>3, <3>1, <4>1, BearerKept
      <4> QED BY <4>2
    <3>2. ASSUME tx = "pending", NEW c \in Clients, Accept200(c) PROVE \E s \in Sids : Bearer(s)'
      <4>1. tx' = "answered" BY DEF GoesOn
      <4> QED BY <2>1, <2>2, <2>3, <3>2, <4>1, AnswerBears
    <3> QED BY <1>2, <2>1, <3>1, <3>2, AnswerStep
  <2> QED BY <2>5, <2>6, <2>7, <2>8, <2>9, <2>10, <2>11, <2>12 DEF CallInv
<1>3. Agents = Clients /\ ~Faults BY DEF Steady
<1> QED
  BY <1>1, <1>2, <1>3, Invariance, RingInvariance, FinalInvariance, HangupInvariance, PTL DEF Spec

(* With agents that are all connected when the INVITE arrives, and writes that
   succeed, the manager's map always has a session of a confirmed call, and no
   guard is left on the call.  It says nothing of who is still connected: that is
   AnswererEnds and SomebodyEnds, below. *)
THEOREM CallsStayFindable == Steady => (Spec => []StaysFindable)
<1> SUFFICES ASSUME Steady PROVE Spec => []StaysFindable
  OBVIOUS
<1>1. CallInv => NoOrphanDialog
  BY DEF CallInv, NoOrphanDialog, FarEndKnows, Carried, GoesOn, Bearer
<1>2. ~Faults BY DEF Steady
<1>3. NoOrphanDialog /\ NoGuardLeak => StaysFindable BY DEF StaysFindable
<1> QED BY <1>1, <1>2, <1>3, CallInvariance, GuardsReturn, PTL

-----------------------------------------------------------------------------
(* The agent that answered in place takes the call with it: it owns the call,
   has it on its list when its socket has closed, or somebody is about to
   delete it. *)
InPlace == Steady /\ WithMedia = {}

(* Where each goroutine can be. *)
Roles ==
  /\ pc[InviteP] \in {"idle", "admit", "present", "refuse", "refuse_begin", "refuse_send",
                      "refuse_delete", "done"}
  /\ pc[TimerP] \in {"idle", "armed", "tmo_begin", "tmo_fanout", "tmo_send", "tmo_delete", "done"}
  /\ pc[CancelP] \in {"idle", "cxl_check", "cxl_begin", "cxl_487", "cxl_fanout", "cxl_end", "done"}
  /\ pc[ByeP] \in {"idle", "bye_delete", "done"}
  /\ \A c \in Clients :
       pc[c] \in Accepting \cup Ending \cup
         {"off", "idle", "replay", "offered", "gone", "own", "sweep", "acc_check", "rej_begin",
          "rej_send", "rej_end", "hup_check"}

(* Whose current session is the call owns it. *)
CurOwned == \A c \in Clients : cur[c] = Inc => Inc \in owned[c]

(* There is no session but the call's; it is accepted for its claimant. *)
InPlaceOnly ==
  /\ mgr \subseteq {Inc} /\ \A p \in Procs : tgt[p] \in {Inc, None}
  /\ \A c \in Clients :
       /\ pc[c] \in {"acc_begin", "acc_claim", "acc_transfer", "acc_200"} => claim = c
       /\ pc[c] = "acc_200" /\ Unanswered => Inc \in owned[c]

(* Somebody is about to delete the call. *)
Doomed ==
  \/ \E c \in Clients : pc[c] \in {"end_send", "end_bye", "end_delete"} /\ tgt[c] = Inc
  \/ pc[ByeP] = "bye_delete" /\ tgt[ByeP] = Inc

EndedDoomed == tx = "answered" /\ Inc \in mgr /\ state[Inc] = "ended" => Doomed

Minds(c) ==
  \/ c \in conn /\ Inc \in owned[c]
  \/ pc[c] = "own" /\ Inc \in todo[c]
  \/ pc[c] = "end_begin" /\ tgt[c] = Inc /\ back[c] # "idle"
AnswererMinds == \A c \in answeredBy : Inc \in mgr => Doomed \/ Minds(c)

PlaceInv == Roles /\ CurOwned /\ InPlaceOnly /\ EndedDoomed /\ AnswererMinds

(* Every goroutine keeps to its handlers. *)
LEMMA RolesStep ==
  ASSUME TypeOK, Roles, [Next]_vars
  PROVE  Roles'
<1> USE NameAssumption DEF Procs, System, Sids, sessVars, apiVars, sipVars, ctlVars, histVars
<1>1. CASE InviteArrives \/ CallerCancels \/ CallerAcks
  BY <1>1 DEF TypeOK, Roles, Accepting, Ending, Goto, SetState, InviteArrives, CallerCancels,
      CallerAcks
<1>4. CASE CallerByes \/ Admit \/ Presented
  BY <1>4 DEF TypeOK, Roles, Accepting, Ending, Goto, CallerByes, Admit, Presented
<1>7. CASE Refuse \/ RefuseBegin \/ RefuseSend
  BY <1>7 DEF TypeOK, Roles, Accepting, Ending, Goto, CanBegin, Refuse, RefuseBegin, RefuseSend
<1>10. CASE RefuseDelete \/ TimerCheck \/ TimerBegin
  BY <1>10 DEF TypeOK, Roles, Accepting, Ending, Goto, CanBeginIncoming, RefuseDelete, TimerCheck,
      TimerBegin
<1>13. CASE TimerFanout \/ TimerSend \/ TimerDelete
  BY <1>13 DEF TypeOK, Roles, Accepting, Ending, Goto, TimerFanout, TimerSend, TimerDelete
<1>16. CASE CancelCheck
  BY <1>16 DEF TypeOK, Roles, Accepting, Ending, CancelCheck, Goto, Return
<1>17. CASE CancelBegin
  BY <1>17 DEF TypeOK, Roles, Accepting, Ending, CancelBegin, CanBeginIncoming, Goto, Return
<1>18. CASE Cancel487 \/ CancelFanout \/ CancelEnd
  BY <1>18 DEF TypeOK, Roles, Accepting, Ending, Goto, Respond, Return, Cancel487, CancelFanout,
      CancelEnd
<1>21. CASE ByeDelete
  BY <1>21 DEF TypeOK, Roles, Accepting, Ending, ByeDelete, Goto, Return
<1>22. ASSUME NEW c \in Clients, Present(c) \/ Connect(c) PROVE Roles'
  BY <1>22, SMTT(40) DEF TypeOK, Roles, Accepting, Ending, CanBeginIncoming, Goto, Present, Connect
<1>24. ASSUME NEW c \in Clients, Offer(c) PROVE Roles'
  <2>1. \E l \in Accepting \cup Ending \cup
          {"idle", "own", "sweep", "gone", "offered", "acc_check", "rej_begin", "rej_send", "rej_end",
           "hup_check"} : pc' = [pc EXCEPT ![c] = l] \/ pc' = pc
    BY <1>24 DEF TypeOK, Accepting, Ending, Offer, CanClaim, Goto
  <2> QED BY <2>1 DEF TypeOK, Roles
<1>25. ASSUME NEW c \in Clients, AcceptAsk(c) PROVE Roles'
  <2>1. \E l \in Accepting \cup Ending \cup
          {"idle", "own", "sweep", "gone", "offered", "acc_check", "rej_begin", "rej_send", "rej_end",
           "hup_check"} : pc' = [pc EXCEPT ![c] = l] \/ pc' = pc
    BY <1>25 DEF TypeOK, Accepting, Ending, AcceptAsk, ClaimedByOther, Goto
  <2> QED BY <2>1 DEF TypeOK, Roles
<1>26. ASSUME NEW c \in Clients, RejectAsk(c) PROVE Roles'
  <2>1. \E l \in Accepting \cup Ending \cup
          {"idle", "own", "sweep", "gone", "offered", "acc_check", "rej_begin", "rej_send", "rej_end",
           "hup_check"} : pc' = [pc EXCEPT ![c] = l] \/ pc' = pc
    BY <1>26 DEF TypeOK, Accepting, Ending, RejectAsk, Goto
  <2> QED BY <2>1 DEF TypeOK, Roles
<1>27. ASSUME NEW c \in Clients, Disconnect(c) PROVE Roles'
  <2>1. \E l \in Accepting \cup Ending \cup
          {"idle", "own", "sweep", "gone", "offered", "acc_check", "rej_begin", "rej_send", "rej_end",
           "hup_check"} : pc' = [pc EXCEPT ![c] = l] \/ pc' = pc
    BY <1>27 DEF TypeOK, Accepting, Ending, Disconnect, Goto
  <2> QED BY <2>1 DEF TypeOK, Roles
<1>28. ASSUME NEW c \in Clients, Replay(c) \/ Offered(c) PROVE Roles'
  BY <1>28, SMTT(40) DEF TypeOK, Roles, Accepting, Ending, CanBeginIncoming, Goto, SetState, Replay, Offered
<1>30. ASSUME NEW c \in Clients, AcceptCheck(c) PROVE Roles'
  <2>1. \E l \in Accepting \cup Ending \cup
          {"idle", "own", "sweep", "gone", "offered", "acc_check", "rej_begin", "rej_send", "rej_end",
           "hup_check"} : pc' = [pc EXCEPT ![c] = l] \/ pc' = pc
    BY <1>30 DEF TypeOK, Accepting, Ending, AcceptCheck, Goto
  <2> QED BY <2>1 DEF TypeOK, Roles
<1>31. ASSUME NEW c \in Clients, AcceptBegin(c) PROVE Roles'
  <2>1. \E l \in Accepting \cup Ending \cup
          {"idle", "own", "sweep", "gone", "offered", "acc_check", "rej_begin", "rej_send", "rej_end",
           "hup_check"} : pc' = [pc EXCEPT ![c] = l] \/ pc' = pc
    BY <1>31 DEF TypeOK, Accepting, Ending, AcceptBegin, CanBegin, ClaimedByOther, Goto, Return
  <2> QED BY <2>1 DEF TypeOK, Roles
<1>32. ASSUME NEW c \in Clients, AcceptLost(c) PROVE Roles'
  BY <1>32 DEF TypeOK, Roles, Accepting, Ending, AcceptLost, Goto, Return
<1>33. ASSUME NEW c \in Clients, AcceptClaim(c) PROVE Roles'
  <2>1. \E l \in Accepting \cup Ending \cup
          {"idle", "own", "sweep", "gone", "offered", "acc_check", "rej_begin", "rej_send", "rej_end",
           "hup_check"} : pc' = [pc EXCEPT ![c] = l] \/ pc' = pc
    BY <1>33 DEF TypeOK, Accepting, Ending, AcceptClaim, ClearTerminalAction, CanClaim, Goto, Return
  <2> QED BY <2>1 DEF TypeOK, Roles
<1>34. ASSUME NEW c \in Clients, AcceptTransfer(c) \/ Accept200(c) \/ AcceptActive(c) PROVE Roles'
  BY <1>34, SMTT(40) DEF TypeOK, Roles, Accepting, Ending, Goto, Respond, AcceptTransfer, Accept200,
      AcceptActive
<1>37. ASSUME NEW c \in Clients, AcceptFinish(c) PROVE Roles'
  BY <1>37 DEF TypeOK, Roles, Accepting, Ending, AcceptFinish, ClearTerminalAction, Goto
<1>38. ASSUME NEW c \in Clients, AcceptFanout(c) PROVE Roles'
  BY <1>38 DEF TypeOK, Roles, Accepting, Ending, AcceptFanout, Goto, Return
<1>39. ASSUME NEW c \in Clients, RejectBegin(c) PROVE Roles'
  <2>1. \E l \in Accepting \cup Ending \cup
          {"idle", "own", "sweep", "gone", "offered", "acc_check", "rej_begin", "rej_send", "rej_end",
           "hup_check"} : pc' = [pc EXCEPT ![c] = l] \/ pc' = pc
    BY <1>39 DEF TypeOK, Accepting, Ending, RejectBegin, CanBeginIncoming, Goto
  <2> QED BY <2>1 DEF TypeOK, Roles
<1>40. ASSUME NEW c \in Clients, RejectSend(c) PROVE Roles'
  <2>1. \E l \in Accepting \cup Ending \cup
          {"idle", "own", "sweep", "gone", "offered", "acc_check", "rej_begin", "rej_send", "rej_end",
           "hup_check"} : pc' = [pc EXCEPT ![c] = l] \/ pc' = pc
    BY <1>40 DEF TypeOK, Accepting, Ending, RejectSend, Goto, RejectFails
  <2> QED BY <2>1 DEF TypeOK, Roles
<1>41. ASSUME NEW c \in Clients, RejectEnd(c) \/ HangupCheck(c) PROVE Roles'
  BY <1>41 DEF TypeOK, Roles, Accepting, Ending, Goto, SetState, ActionFor, RejectEnd, HangupCheck
<1>43. ASSUME NEW c \in Clients, EndBegin(c) PROVE Roles'
  <2>1. \E l \in Accepting \cup Ending \cup
          {"idle", "own", "sweep", "gone", "offered", "acc_check", "rej_begin", "rej_send", "rej_end",
           "hup_check"} : pc' = [pc EXCEPT ![c] = l] \/ pc' = pc
    BY <1>43 DEF TypeOK, Accepting, Ending, EndBegin, CanBegin, Goto, Return, EndReturn
  <2> QED BY <2>1 DEF TypeOK, Roles
<1>44. ASSUME NEW c \in Clients, EndSend(c) \/ EndBye(c) \/ EndDelete(c) PROVE Roles'
  BY <1>44 DEF TypeOK, Roles, Accepting, Ending, Goto, SetState, Return, EndReturn, EndSend,
      EndBye, EndDelete
<1>47. ASSUME NEW c \in Clients, Sweep(c) PROVE Roles'
  <2>1. \E l \in Accepting \cup Ending \cup
          {"idle", "own", "sweep", "gone", "offered", "acc_check", "rej_begin", "rej_send", "rej_end",
           "hup_check"} : pc' = [pc EXCEPT ![c] = l] \/ pc' = pc
    BY <1>47 DEF TypeOK, Accepting, Ending, Sweep, Goto
  <2> QED BY <2>1 DEF TypeOK, Roles
<1>48. ASSUME NEW c \in Clients, Swept(c) PROVE Roles'
  BY <1>48 DEF TypeOK, Roles, Accepting, Ending, Swept, Goto
<1>49. ASSUME NEW c \in Clients, NEW s \in Sids, HangupAsk(c, s) PROVE Roles'
  <2>1. \E l \in Accepting \cup Ending \cup
          {"idle", "own", "sweep", "gone", "offered", "acc_check", "rej_begin", "rej_send", "rej_end",
           "hup_check"} : pc' = [pc EXCEPT ![c] = l] \/ pc' = pc
    BY <1>49 DEF TypeOK, Accepting, Ending, HangupAsk, ClaimedByOther, Goto
  <2> QED BY <2>1 DEF TypeOK, Roles
<1>50. ASSUME NEW c \in Clients, NEW s \in Sids, ForceEnd(c, s) PROVE Roles'
  BY <1>50 DEF TypeOK, Roles, Accepting, Ending, ForceEnd, Goto, ActionFor
<1>51. CASE UNCHANGED vars
  BY <1>51 DEF vars, Roles
<1> QED
  BY <1>1, <1>4, <1>7, <1>10, <1>13, <1>16, <1>17, <1>18, <1>21, <1>22, <1>24, <1>25, <1>26,
      <1>27, <1>28, <1>30, <1>31, <1>32, <1>33, <1>34, <1>37, <1>38, <1>39, <1>40, <1>41, <1>43,
      <1>44, <1>47, <1>48, <1>49, <1>50, <1>51 DEF Next, FarEnd, InviteRuns, TimerRuns,
      CancelRuns, ClientStarts, ClientRuns

(* Unbinding keeps current sessions owned, ... *)
LEMMA UnbindCur ==
  ASSUME TypeOK, CurOwned, NEW c \in Clients, NEW s, Unbind(c, s) PROVE CurOwned'
<1> DEFINE rest == owned[c] \ {s}
<1>1. PICK t \in IF cur[c] # s THEN {cur[c]} ELSE IF rest # {} THEN rest ELSE {None} :
        cur' = [cur EXCEPT ![c] = t]
  BY DEF Unbind
<1>2. owned' = [owned EXCEPT ![c] = rest] BY DEF Unbind
<1>3. t = Inc => Inc \in rest BY <1>1, NameAssumption DEF CurOwned
<1> QED BY <1>1, <1>2, <1>3 DEF CurOwned, TypeOK

(* ... so does the notification about an ended session, ... *)
LEMMA EndCur ==
  ASSUME TypeOK, CurOwned, NEW s \in Sids, EndAndNotify(s) PROVE CurOwned'
<1>1. CASE UNCHANGED <<owned, pending, cur, bound, ui>> BY <1>1 DEF CurOwned
<1>2. ASSUME NEW c \in Targets(s), Unbind(c, s) PROVE CurOwned'
  <2>1. c \in Clients BY <1>2 DEF Targets, TypeOK
  <2> QED BY <1>2, <2>1, UnbindCur
<1> QED BY <1>1, <1>2 DEF EndAndNotify

(* ... and a refusal. *)
LEMMA RejectCur ==
  ASSUME TypeOK, CurOwned, NEW s \in Sids, RejectCall(s) PROVE CurOwned'
BY EndCur DEF RejectCall, RejectFails, RejectSent, CurOwned

(* Every step keeps it so. *)
LEMMA CurOwnedStep ==
  ASSUME TypeOK, Targeted, CurOwned, [Next]_vars
  PROVE  CurOwned'
<1> USE NameAssumption DEF Procs, System, Sids, sessVars, apiVars, sipVars, ctlVars, histVars
<1>1. CASE InviteArrives \/ CallerCancels \/ CallerAcks
  BY <1>1 DEF TypeOK, CurOwned, Goto, SetState, InviteArrives, CallerCancels, CallerAcks
<1>4. CASE CallerByes
  BY <1>4, EndCur DEF CallerByes, CurOwned, TypeOK
<1>5. CASE Admit \/ Presented \/ Refuse
  BY <1>5 DEF TypeOK, CurOwned, Goto, Admit, Presented, Refuse
<1>8. CASE RefuseBegin
  BY <1>8 DEF TypeOK, CurOwned, RefuseBegin, CanBegin, Goto
<1>9. CASE RefuseSend
  BY <1>9, RejectCur DEF RefuseSend, CurOwned, TypeOK
<1>10. CASE RefuseDelete \/ TimerCheck \/ TimerBegin
  BY <1>10 DEF TypeOK, CurOwned, Goto, CanBeginIncoming, RefuseDelete, TimerCheck, TimerBegin
<1>13. CASE TimerFanout
  BY <1>13 DEF TypeOK, CurOwned, TimerFanout, Goto
<1>14. CASE TimerSend
  BY <1>14, RejectCur DEF TimerSend, CurOwned, TypeOK
<1>15. CASE TimerDelete \/ CancelCheck \/ CancelBegin
  BY <1>15 DEF TypeOK, CurOwned, Goto, Return, CanBeginIncoming, TimerDelete, CancelCheck,
      CancelBegin
<1>18. CASE Cancel487 \/ CancelFanout
  BY <1>18 DEF TypeOK, CurOwned, Goto, Respond, Cancel487, CancelFanout
<1>20. CASE CancelEnd
  <2>1. tgt[CancelP] \in Sids
    BY <1>20 DEF CancelEnd, Targeted, Ending, OnTgt
  <2> QED
    BY <1>20, <2>1, EndCur DEF CancelEnd, CurOwned
<1>21. CASE ByeDelete
  BY <1>21 DEF TypeOK, CurOwned, ByeDelete, Goto, Return
<1>22. ASSUME NEW c \in Clients, Present(c) \/ Connect(c) \/ Offer(c) PROVE CurOwned'
  BY <1>22 DEF TypeOK, CurOwned, CanBeginIncoming, Goto, CanClaim, Bind, Present, Connect, Offer
<1>25. ASSUME NEW c \in Clients, AcceptAsk(c) \/ RejectAsk(c) \/ Disconnect(c) PROVE CurOwned'
  BY <1>25 DEF TypeOK, CurOwned, ClaimedByOther, Goto, AcceptAsk, RejectAsk, Disconnect
<1>28. ASSUME NEW c \in Clients, Replay(c) \/ Offered(c) \/ AcceptCheck(c) PROVE CurOwned'
  BY <1>28 DEF TypeOK, CurOwned, CanBeginIncoming, Goto, SetState, Replay, Offered, AcceptCheck
<1>31. ASSUME NEW c \in Clients, AcceptBegin(c) \/ AcceptLost(c) PROVE CurOwned'
  BY <1>31 DEF TypeOK, CurOwned, CanBegin, ClaimedByOther, Goto, Return, AcceptBegin, AcceptLost
<1>33. ASSUME NEW c \in Clients, AcceptClaim(c) PROVE CurOwned'
  BY <1>33 DEF TypeOK, CurOwned, AcceptClaim, ClearTerminalAction, CanClaim, Goto, Return
<1>34. ASSUME NEW c \in Clients, AcceptTransfer(c) \/ Accept200(c) \/ AcceptActive(c)
      PROVE  CurOwned'
  BY <1>34 DEF TypeOK, CurOwned, Goto, Bind, Respond, AcceptTransfer, Accept200, AcceptActive
<1>37. ASSUME NEW c \in Clients, AcceptFinish(c) \/ AcceptFanout(c) \/ RejectBegin(c)
      PROVE  CurOwned'
  BY <1>37 DEF TypeOK, CurOwned, ClearTerminalAction, Goto, Return, CanBeginIncoming,
      AcceptFinish, AcceptFanout, RejectBegin
<1>40. ASSUME NEW c \in Clients, RejectSend(c) PROVE CurOwned'
  BY <1>40, RejectCur DEF RejectSend, CurOwned, TypeOK, RejectCall
<1>41. ASSUME NEW c \in Clients, RejectEnd(c) \/ HangupCheck(c) \/ EndBegin(c) PROVE CurOwned'
  BY <1>41 DEF TypeOK, CurOwned, Goto, SetState, ActionFor, CanBegin, Return, EndReturn,
      RejectEnd, HangupCheck, EndBegin
<1>44. ASSUME NEW c \in Clients, EndSend(c) PROVE CurOwned'
  <2>1. tgt[c] \in Sids
    BY <1>44 DEF EndSend, Targeted, Ending, OnTgt
  <2> QED
    BY <1>44, <2>1, EndCur, RejectCur DEF EndSend, CurOwned
<1>45. ASSUME NEW c \in Clients, EndBye(c) PROVE CurOwned'
  <2>1. tgt[c] \in Sids
    BY <1>45 DEF EndBye, Targeted, Ending, OnTgt
  <2> QED
    BY <1>45, <2>1, EndCur DEF EndBye, CurOwned
<1>46. ASSUME NEW c \in Clients, EndDelete(c) PROVE CurOwned'
  <2>1. tgt[c] \in Sids
    BY <1>46 DEF EndDelete, Targeted, Ending, OnTgt
  <2> QED
    BY <1>46, <2>1, UnbindCur DEF EndDelete, CurOwned
<1>47. ASSUME NEW c \in Clients, Sweep(c) \/ Swept(c) PROVE CurOwned'
  BY <1>47 DEF TypeOK, CurOwned, Goto, Sweep, Swept
<1>49. ASSUME NEW c \in Clients, NEW s \in Sids, HangupAsk(c, s) \/ ForceEnd(c, s) PROVE CurOwned'
  BY <1>49 DEF TypeOK, CurOwned, ClaimedByOther, Goto, ActionFor, HangupAsk, ForceEnd
<1>51. CASE UNCHANGED vars
  BY <1>51 DEF vars, CurOwned
<1> QED
  BY <1>1, <1>4, <1>5, <1>8, <1>9, <1>10, <1>13, <1>14, <1>15, <1>18, <1>20, <1>21, <1>22, <1>25,
      <1>28, <1>31, <1>33, <1>34, <1>37, <1>40, <1>41, <1>44, <1>45, <1>46, <1>47, <1>49, <1>51 DEF
      Next, FarEnd, InviteRuns, TimerRuns, CancelRuns, ClientStarts, ClientRuns

(* There is never a session but the call's. *)
LEMMA InPlaceOnlyStep ==
  ASSUME TypeOK, TerminalMutex, Targeted, ClaimHeld, InviteOnce, OwnersClaim, FarEndKnows,
         CurOwned, InPlaceOnly, [Next]_vars
  PROVE  InPlaceOnly'
<1> USE NameAssumption DEF Procs, System, Sids, sessVars, apiVars, sipVars, ctlVars, histVars
<1>1. CASE InviteArrives
  BY <1>1 DEF TypeOK, InPlaceOnly, Unanswered, InviteArrives, Goto, SetState, InviteOnce
<1>2. CASE CallerCancels \/ CallerAcks
  BY <1>2 DEF TypeOK, InPlaceOnly, Unanswered, Goto, CallerCancels, CallerAcks
<1>4. CASE CallerByes
  <2>1. ~Unanswered /\ tx' = tx
    BY <1>4 DEF CallerByes, FarEndKnows, Unanswered
  <2>2. tgt' = tgt \/ tgt' = [tgt EXCEPT ![ByeP] = Inc]
    BY <1>4 DEF CallerByes, InPlaceOnly
  <2> QED
    BY <1>4, <2>1, <2>2 DEF TypeOK, InPlaceOnly, Unanswered, CallerByes, Goto
<1>5. CASE Admit \/ Presented \/ Refuse
  BY <1>5 DEF TypeOK, InPlaceOnly, Unanswered, Goto, Admit, Presented, Refuse
<1>8. CASE RefuseBegin
  BY <1>8 DEF TypeOK, InPlaceOnly, Unanswered, RefuseBegin, CanBegin, Goto
<1>9. CASE RefuseSend
  <2>2. term[Inc] = InviteP
    BY <1>9 DEF RefuseSend, TerminalMutex, Holding, OnInc, OnTgt
  <2>3. \A d \in Clients : pc[d] # "acc_200"
    BY <1>9, <2>2 DEF RefuseSend, TerminalMutex, Holding, OnInc
  <2> QED
    BY <1>9, <2>3 DEF TypeOK, InPlaceOnly, Unanswered, RefuseSend, Goto
<1>10. CASE RefuseDelete \/ TimerCheck \/ TimerBegin
  BY <1>10 DEF TypeOK, InPlaceOnly, Unanswered, Goto, Delete, CanBeginIncoming, RefuseDelete,
      TimerCheck, TimerBegin
<1>13. CASE TimerFanout
  BY <1>13 DEF TypeOK, InPlaceOnly, Unanswered, TimerFanout, Goto
<1>14. CASE TimerSend
  <2>2. term[Inc] = TimerP
    BY <1>14 DEF TimerSend, TerminalMutex, Holding, OnInc, OnTgt
  <2>3. \A d \in Clients : pc[d] # "acc_200"
    BY <1>14, <2>2 DEF TimerSend, TerminalMutex, Holding, OnInc
  <2> QED
    BY <1>14, <2>3 DEF TypeOK, InPlaceOnly, Unanswered, TimerSend, Goto
<1>15. CASE TimerDelete \/ CancelCheck
  BY <1>15 DEF TypeOK, InPlaceOnly, Unanswered, Goto, Delete, Return, TimerDelete, CancelCheck
<1>17. CASE CancelBegin
  BY <1>17 DEF TypeOK, InPlaceOnly, Unanswered, CancelBegin, CanBeginIncoming, Goto, Return
<1>18. CASE Cancel487 \/ CancelFanout
  BY <1>18 DEF TypeOK, InPlaceOnly, Unanswered, Goto, Respond, Cancel487, CancelFanout
<1>20. CASE CancelEnd
  <2>1. tgt[CancelP] = Inc
    BY <1>20 DEF CancelEnd, Targeted, Ending, OnTgt, InPlaceOnly
  <2>2. term[Inc] = CancelP
    BY <1>20, <2>1 DEF CancelEnd, TerminalMutex, Holding, OnInc, OnTgt
  <2>3. \A d \in Clients : pc[d] # "acc_200"
    BY <1>20, <2>2 DEF CancelEnd, TerminalMutex, Holding, OnInc
  <2> QED
    BY <1>20, <2>3 DEF TypeOK, InPlaceOnly, Unanswered, CancelEnd, Goto, Return
<1>21. CASE ByeDelete
  BY <1>21 DEF TypeOK, InPlaceOnly, Unanswered, ByeDelete, Goto, Return, Delete
<1>22. ASSUME NEW c \in Clients, Present(c) \/ Connect(c) \/ Offer(c) PROVE InPlaceOnly'
  BY <1>22 DEF TypeOK, InPlaceOnly, Unanswered, CanBeginIncoming, Goto, CanClaim, Bind, Present,
      Connect, Offer
<1>25. ASSUME NEW c \in Clients, AcceptAsk(c) \/ RejectAsk(c) \/ Disconnect(c) PROVE InPlaceOnly'
  BY <1>25 DEF TypeOK, InPlaceOnly, Unanswered, ClaimedByOther, Goto, AcceptAsk, RejectAsk,
      Disconnect
<1>28. ASSUME NEW c \in Clients, Replay(c) \/ Offered(c) PROVE InPlaceOnly'
  BY <1>28 DEF TypeOK, InPlaceOnly, Unanswered, CanBeginIncoming, Goto, SetState, Replay, Offered
<1>30. ASSUME NEW c \in Clients, AcceptCheck(c) PROVE InPlaceOnly'
  <2>1. cur[c] \in mgr => cur[c] = Inc /\ Inc \in owned[c]
    BY <1>30 DEF InPlaceOnly, CurOwned
  <2>2. state[Inc] = "incoming" /\ cur[c] \in mgr => claim = c
    BY <1>30, <2>1 DEF OwnersClaim
  <2> QED
    BY <1>30, <2>1, <2>2 DEF TypeOK, InPlaceOnly, Unanswered, AcceptCheck, Goto
<1>31. ASSUME NEW c \in Clients, AcceptBegin(c) PROVE InPlaceOnly'
  BY <1>31 DEF TypeOK, InPlaceOnly, Unanswered, AcceptBegin, CanBegin, ClaimedByOther, Goto,
      Return
<1>32. ASSUME NEW c \in Clients, AcceptLost(c) PROVE InPlaceOnly'
  BY <1>32 DEF TypeOK, InPlaceOnly, Unanswered, AcceptLost, Goto, Return
<1>33. ASSUME NEW c \in Clients, AcceptClaim(c) PROVE InPlaceOnly'
  BY <1>33 DEF TypeOK, InPlaceOnly, Unanswered, AcceptClaim, ClearTerminalAction, CanClaim,
      Goto, Return
<1>34. ASSUME NEW c \in Clients, AcceptTransfer(c) PROVE InPlaceOnly'
  BY <1>34 DEF TypeOK, InPlaceOnly, Unanswered, AcceptTransfer, Goto, Bind, ClaimHeld, Targeted,
      Accepting
<1>35. ASSUME NEW c \in Clients, Accept200(c) \/ AcceptActive(c) PROVE InPlaceOnly'
  BY <1>35 DEF TypeOK, InPlaceOnly, Unanswered, Goto, Respond, Accept200, AcceptActive
<1>37. ASSUME NEW c \in Clients, AcceptFinish(c) PROVE InPlaceOnly'
  BY <1>37 DEF TypeOK, InPlaceOnly, Unanswered, AcceptFinish, ClearTerminalAction, Goto, Delete
<1>38. ASSUME NEW c \in Clients, AcceptFanout(c) \/ RejectBegin(c) PROVE InPlaceOnly'
  BY <1>38 DEF TypeOK, InPlaceOnly, Unanswered, Goto, Return, CanBeginIncoming, AcceptFanout,
      RejectBegin
<1>40. ASSUME NEW c \in Clients, RejectSend(c) PROVE InPlaceOnly'
  <2>2. term[Inc] = c
    BY <1>40 DEF RejectSend, TerminalMutex, Holding, OnInc, OnTgt
  <2>3. \A d \in Clients : pc[d] # "acc_200"
    BY <1>40, <2>2 DEF RejectSend, TerminalMutex, Holding, OnInc
  <2> QED
    BY <1>40, <2>3 DEF TypeOK, InPlaceOnly, Unanswered, RejectSend, Goto, RejectFails
<1>41. ASSUME NEW c \in Clients, RejectEnd(c) \/ HangupCheck(c) PROVE InPlaceOnly'
  BY <1>41 DEF TypeOK, InPlaceOnly, Unanswered, Goto, SetState, ActionFor, RejectEnd, HangupCheck
<1>43. ASSUME NEW c \in Clients, EndBegin(c) PROVE InPlaceOnly'
  BY <1>43 DEF TypeOK, InPlaceOnly, Unanswered, EndBegin, CanBegin, Goto, Return, EndReturn
<1>44. ASSUME NEW c \in Clients, EndSend(c) PROVE InPlaceOnly'
  <2>1. tgt[c] = Inc
    BY <1>44 DEF EndSend, Targeted, Ending, OnTgt, InPlaceOnly
  <2>2. term[Inc] = c
    BY <1>44, <2>1 DEF EndSend, TerminalMutex, Holding, OnInc, OnTgt
  <2>3. \A d \in Clients : pc[d] # "acc_200"
    BY <1>44, <2>2 DEF EndSend, TerminalMutex, Holding, OnInc
  <2> QED
    BY <1>44, <2>3 DEF TypeOK, InPlaceOnly, Unanswered, EndSend, Goto, SetState
<1>45. ASSUME NEW c \in Clients, EndBye(c) PROVE InPlaceOnly'
  <2>1. tgt[c] = Inc
    BY <1>45 DEF EndBye, Targeted, Ending, OnTgt, InPlaceOnly
  <2>2. term[Inc] = c
    BY <1>45, <2>1 DEF EndBye, TerminalMutex, Holding, OnInc, OnTgt
  <2>3. \A d \in Clients : pc[d] # "acc_200"
    BY <1>45, <2>2 DEF EndBye, TerminalMutex, Holding, OnInc
  <2> QED
    BY <1>45, <2>3 DEF TypeOK, InPlaceOnly, Unanswered, EndBye, Goto
<1>46. ASSUME NEW c \in Clients, EndDelete(c) PROVE InPlaceOnly'
  <2>1. tgt[c] = Inc
    BY <1>46 DEF EndDelete, Targeted, Ending, OnTgt, InPlaceOnly
  <2>2. term[Inc] = c
    BY <1>46, <2>1 DEF EndDelete, TerminalMutex, Holding, OnInc, OnTgt
  <2>3. \A d \in Clients : pc[d] # "acc_200"
    BY <1>46, <2>2 DEF EndDelete, TerminalMutex, Holding, OnInc
  <2> QED
    BY <1>46, <2>3 DEF TypeOK, InPlaceOnly, Unanswered, EndDelete, Goto, Return, EndReturn, Delete
<1>47. ASSUME NEW c \in Clients, Sweep(c) \/ Swept(c) PROVE InPlaceOnly'
  BY <1>47 DEF TypeOK, InPlaceOnly, Unanswered, Goto, Sweep, Swept
<1>49. ASSUME NEW c \in Clients, NEW s \in Sids, HangupAsk(c, s) \/ ForceEnd(c, s)
      PROVE  InPlaceOnly'
  BY <1>49 DEF TypeOK, InPlaceOnly, Unanswered, ClaimedByOther, Goto, ActionFor, HangupAsk,
      ForceEnd
<1>51. CASE UNCHANGED vars
  BY <1>51 DEF vars, InPlaceOnly, Unanswered
<1> QED
  BY <1>1, <1>2, <1>4, <1>5, <1>8, <1>9, <1>10, <1>13, <1>14, <1>15, <1>17, <1>18, <1>20, <1>21,
      <1>22, <1>25, <1>28, <1>30, <1>31, <1>32, <1>33, <1>34, <1>35, <1>37, <1>38, <1>40, <1>41,
      <1>43, <1>44, <1>45, <1>46, <1>47, <1>49, <1>51 DEF Next, FarEnd, InviteRuns, TimerRuns,
      CancelRuns, ClientStarts, ClientRuns

(* A call that somebody is about to delete stays so until it is. *)
LEMMA DoomedStep ==
  ASSUME TypeOK, Doomed, [Next]_vars
  PROVE  Doomed' \/ Inc \notin mgr'
<1> USE NameAssumption DEF Procs, System, Sids, sessVars, apiVars, sipVars, ctlVars, histVars
<1>1. CASE InviteArrives
  BY <1>1 DEF TypeOK, Doomed, InviteArrives, Goto, SetState
<1>2. CASE CallerCancels
  <2>1. \A c \in Clients : pc'[c] = pc[c] /\ tgt'[c] = tgt[c]
    BY <1>2 DEF TypeOK, CallerCancels, Goto
  <2>2. pc'[ByeP] = pc[ByeP] /\ tgt'[ByeP] = tgt[ByeP]
    BY <1>2 DEF TypeOK, CallerCancels, Goto
  <2> QED
    BY <1>2, <2>1, <2>2 DEF Doomed
<1>3. CASE CallerAcks \/ CallerByes \/ Admit
  BY <1>3 DEF TypeOK, Doomed, Goto, CallerAcks, CallerByes, Admit
<1>6. CASE Presented \/ Refuse \/ RefuseBegin
  BY <1>6 DEF TypeOK, Doomed, Goto, CanBegin, Presented, Refuse, RefuseBegin
<1>9. CASE RefuseSend \/ RefuseDelete \/ TimerCheck
  BY <1>9 DEF TypeOK, Doomed, Goto, RefuseSend, RefuseDelete, TimerCheck
<1>12. CASE TimerBegin \/ TimerFanout \/ TimerSend
  BY <1>12 DEF TypeOK, Doomed, CanBeginIncoming, Goto, TimerBegin, TimerFanout, TimerSend
<1>15. CASE TimerDelete
  BY <1>15 DEF TypeOK, Doomed, TimerDelete, Goto
<1>16. CASE CancelCheck
  <2>1. \A c \in Clients : pc'[c] = pc[c] /\ tgt'[c] = tgt[c]
    BY <1>16 DEF TypeOK, CancelCheck, Goto, Return
  <2>2. pc'[ByeP] = pc[ByeP] /\ tgt'[ByeP] = tgt[ByeP]
    BY <1>16 DEF TypeOK, CancelCheck, Goto, Return
  <2> QED
    BY <1>16, <2>1, <2>2 DEF Doomed
<1>17. CASE CancelBegin
  <2>1. \A c \in Clients : pc'[c] = pc[c] /\ tgt'[c] = tgt[c]
    BY <1>17 DEF TypeOK, CancelBegin, CanBeginIncoming, Goto, Return
  <2>2. pc'[ByeP] = pc[ByeP] /\ tgt'[ByeP] = tgt[ByeP]
    BY <1>17 DEF TypeOK, CancelBegin, CanBeginIncoming, Goto, Return
  <2> QED
    BY <1>17, <2>1, <2>2 DEF Doomed
<1>18. CASE Cancel487 \/ CancelFanout \/ CancelEnd
  BY <1>18 DEF TypeOK, Doomed, Goto, Respond, Return, Cancel487, CancelFanout, CancelEnd
<1>21. CASE ByeDelete
  <2>1. \/ mgr' = mgr \ {tgt[ByeP]} /\ state' = [state EXCEPT ![tgt[ByeP]] = "ended"]
        \/ tgt[ByeP] \notin mgr /\ UNCHANGED <<mgr, state>>
    BY <1>21, DeleteEffect DEF ByeDelete
  <2> QED
    BY <1>21, <2>1 DEF TypeOK, Doomed, ByeDelete, Goto, Return
<1>22. ASSUME NEW c \in Clients, Present(c) \/ Connect(c) \/ Offer(c)
      PROVE  Doomed' \/ Inc \notin mgr'
  BY <1>22, SMTT(40) DEF TypeOK, Doomed, CanBeginIncoming, Goto, CanClaim, Present, Connect, Offer
<1>25. ASSUME NEW c \in Clients, AcceptAsk(c) \/ RejectAsk(c) \/ Disconnect(c)
      PROVE  Doomed' \/ Inc \notin mgr'
  BY <1>25 DEF TypeOK, Doomed, ClaimedByOther, Goto, AcceptAsk, RejectAsk, Disconnect
<1>28. ASSUME NEW c \in Clients, Replay(c) \/ Offered(c) PROVE Doomed' \/ Inc \notin mgr'
  BY <1>28 DEF TypeOK, Doomed, CanBeginIncoming, Goto, SetState, Replay, Offered
<1>30. ASSUME NEW c \in Clients, AcceptCheck(c) PROVE Doomed' \/ Inc \notin mgr'
  <2>1. \A d \in Clients \ {c} : pc'[d] = pc[d] /\ tgt'[d] = tgt[d]
    BY <1>30 DEF TypeOK, AcceptCheck, Goto
  <2>2. pc'[ByeP] = pc[ByeP] /\ tgt'[ByeP] = tgt[ByeP]
    BY <1>30 DEF TypeOK, AcceptCheck, Goto
  <2>3. pc[c] \notin {"end_send", "end_bye", "end_delete"}
    BY <1>30 DEF AcceptCheck
  <2> QED
    BY <1>30, <2>1, <2>2, <2>3 DEF Doomed
<1>31. ASSUME NEW c \in Clients, AcceptBegin(c) PROVE Doomed' \/ Inc \notin mgr'
  <2>1. \A d \in Clients \ {c} : pc'[d] = pc[d] /\ tgt'[d] = tgt[d]
    BY <1>31 DEF TypeOK, AcceptBegin, CanBegin, ClaimedByOther, Goto, Return
  <2>2. pc'[ByeP] = pc[ByeP] /\ tgt'[ByeP] = tgt[ByeP]
    BY <1>31 DEF TypeOK, AcceptBegin, CanBegin, ClaimedByOther, Goto, Return
  <2>3. pc[c] \notin {"end_send", "end_bye", "end_delete"}
    BY <1>31 DEF AcceptBegin
  <2> QED
    BY <1>31, <2>1, <2>2, <2>3 DEF Doomed
<1>32. ASSUME NEW c \in Clients, AcceptLost(c) PROVE Doomed' \/ Inc \notin mgr'
  BY <1>32 DEF TypeOK, Doomed, AcceptLost, Goto, Return
<1>33. ASSUME NEW c \in Clients, AcceptClaim(c) PROVE Doomed' \/ Inc \notin mgr'
  <2>1. \A d \in Clients \ {c} : pc'[d] = pc[d] /\ tgt'[d] = tgt[d]
    BY <1>33 DEF TypeOK, AcceptClaim, ClearTerminalAction, CanClaim, Goto, Return
  <2>2. pc'[ByeP] = pc[ByeP] /\ tgt'[ByeP] = tgt[ByeP]
    BY <1>33 DEF TypeOK, AcceptClaim, ClearTerminalAction, CanClaim, Goto, Return
  <2>3. pc[c] \notin {"end_send", "end_bye", "end_delete"}
    BY <1>33 DEF AcceptClaim
  <2> QED
    BY <1>33, <2>1, <2>2, <2>3 DEF Doomed
<1>34. ASSUME NEW c \in Clients, AcceptTransfer(c) \/ Accept200(c) \/ AcceptActive(c)
      PROVE  Doomed' \/ Inc \notin mgr'
  BY <1>34 DEF TypeOK, Doomed, Goto, Respond, AcceptTransfer, Accept200, AcceptActive
<1>37. ASSUME NEW c \in Clients, AcceptFinish(c) \/ AcceptFanout(c) \/ RejectBegin(c)
      PROVE  Doomed' \/ Inc \notin mgr'
  BY <1>37, SMTT(40) DEF TypeOK, Doomed, ClearTerminalAction, Goto, Return, CanBeginIncoming, AcceptFinish,
      AcceptFanout, RejectBegin
<1>40. ASSUME NEW c \in Clients, RejectSend(c) \/ RejectEnd(c) \/ HangupCheck(c)
      PROVE  Doomed' \/ Inc \notin mgr'
  BY <1>40 DEF TypeOK, Doomed, Goto, RejectFails, SetState, ActionFor, RejectSend, RejectEnd,
      HangupCheck
<1>43. ASSUME NEW c \in Clients, EndBegin(c) PROVE Doomed' \/ Inc \notin mgr'
  <2>1. \A d \in Clients \ {c} : pc'[d] = pc[d] /\ tgt'[d] = tgt[d]
    BY <1>43 DEF TypeOK, EndBegin, CanBegin, Goto, Return, EndReturn
  <2>2. pc'[ByeP] = pc[ByeP] /\ tgt'[ByeP] = tgt[ByeP]
    BY <1>43 DEF TypeOK, EndBegin, CanBegin, Goto, Return, EndReturn
  <2>3. pc[c] \notin {"end_send", "end_bye", "end_delete"}
    BY <1>43 DEF EndBegin
  <2> QED
    BY <1>43, <2>1, <2>2, <2>3 DEF Doomed
<1>44. ASSUME NEW c \in Clients, EndSend(c) \/ EndBye(c) PROVE Doomed' \/ Inc \notin mgr'
  BY <1>44, SMTT(40) DEF TypeOK, Doomed, Goto, SetState, EndSend, EndBye
<1>46. ASSUME NEW c \in Clients, EndDelete(c) PROVE Doomed' \/ Inc \notin mgr'
  <2>1. \/ mgr' = mgr \ {tgt[c]} /\ state' = [state EXCEPT ![tgt[c]] = "ended"]
        \/ tgt[c] \notin mgr /\ UNCHANGED <<mgr, state>>
    BY <1>46, DeleteEffect DEF EndDelete
  <2> QED
    BY <1>46, <2>1 DEF TypeOK, Doomed, EndDelete, Goto, Return, EndReturn
<1>47. ASSUME NEW c \in Clients, Sweep(c) \/ Swept(c) PROVE Doomed' \/ Inc \notin mgr'
  BY <1>47 DEF TypeOK, Doomed, Goto, Sweep, Swept
<1>49. ASSUME NEW c \in Clients, NEW s \in Sids, HangupAsk(c, s) PROVE Doomed' \/ Inc \notin mgr'
  <2>1. \A d \in Clients \ {c} : pc'[d] = pc[d] /\ tgt'[d] = tgt[d]
    BY <1>49 DEF TypeOK, HangupAsk, ClaimedByOther, Goto
  <2>2. pc'[ByeP] = pc[ByeP] /\ tgt'[ByeP] = tgt[ByeP]
    BY <1>49 DEF TypeOK, HangupAsk, ClaimedByOther, Goto
  <2>3. pc[c] \notin {"end_send", "end_bye", "end_delete"}
    BY <1>49 DEF HangupAsk
  <2> QED
    BY <1>49, <2>1, <2>2, <2>3 DEF Doomed
<1>50. ASSUME NEW c \in Clients, NEW s \in Sids, ForceEnd(c, s) PROVE Doomed' \/ Inc \notin mgr'
  BY <1>50 DEF TypeOK, Doomed, ForceEnd, Goto, ActionFor
<1>51. CASE UNCHANGED vars
  BY <1>51 DEF vars, Doomed
<1> QED
  BY <1>1, <1>2, <1>3, <1>6, <1>9, <1>12, <1>15, <1>16, <1>17, <1>18, <1>21, <1>22, <1>25, <1>28,
      <1>30, <1>31, <1>32, <1>33, <1>34, <1>37, <1>40, <1>43, <1>44, <1>46, <1>47, <1>49, <1>50,
      <1>51 DEF Next, FarEnd, InviteRuns, TimerRuns, CancelRuns, ClientStarts, ClientRuns

(* An answered call that has ended in the map is about to be deleted. *)
LEMMA EndedDoomedStep ==
  ASSUME TypeOK, Steady, TerminalMutex, Targeted, InviteOnce, RingEndersNeverKillAnswered,
         ClaimantCarries, AcceptsRinging, Unheard, EndersLate, InPlaceOnly, EndedDoomed, [Next]_vars
  PROVE  EndedDoomed'
<1> USE NameAssumption DEF Procs, System, Sids, sessVars, apiVars, sipVars, ctlVars, histVars
<1>a. tx = "answered" => pc[InviteP] \notin Admitting
  BY DEF Unheard, ClaimantCarries
<1>b. tx = "answered" =>
        /\ pc[TimerP] # "tmo_delete" /\ pc[CancelP] # "cxl_end"
        /\ \A c \in Clients : pc[c] # "rej_end"
  BY DEF EndersLate
<1>c. tx = "answered" => \A p \in Procs : pc[p] \notin {"rej_send", "tmo_send"}
  BY DEF RingEndersNeverKillAnswered, EndsRinging
<1>d. Doomed => Doomed' \/ Inc \notin mgr'
  BY DoomedStep
<1>1. CASE InviteArrives
  BY <1>1, <1>d DEF TypeOK, EndedDoomed, InviteArrives, Goto, SetState, InviteOnce, Respond
<1>2. CASE CallerCancels
  BY <1>2, <1>d DEF TypeOK, EndedDoomed, CallerCancels, Goto, Respond
<1>3. CASE CallerAcks
  <2>1. UNCHANGED <<mgr, tx>>
    BY <1>3 DEF CallerAcks
  <2>2. state'[Inc] = "ended" => state[Inc] = "ended"
    BY <1>3, ActivateEffect DEF CallerAcks, TypeOK, Sids
  <2> QED
    BY <1>3, <2>1, <2>2, <1>d DEF EndedDoomed
<1>4. CASE CallerByes
  <2>1. UNCHANGED <<mgr, tx>>
    BY <1>4 DEF CallerByes
  <2>2. \/ state' = state
        \/ tgt' = [tgt EXCEPT ![ByeP] = Inc] /\ pc' = [pc EXCEPT ![ByeP] = "bye_delete"]
    BY <1>4 DEF CallerByes, InPlaceOnly, Goto
  <2> QED
    BY <1>4, <2>1, <2>2, <1>d DEF EndedDoomed, Doomed, TypeOK
<1>5. CASE Admit \/ Presented \/ Refuse
  BY <1>5, <1>d DEF TypeOK, EndedDoomed, Goto, Respond, Admit, Presented, Refuse
<1>8. CASE RefuseBegin
  BY <1>8, <1>d DEF TypeOK, EndedDoomed, RefuseBegin, CanBegin, Goto, Respond
<1>9. CASE RefuseSend
  BY <1>9, <1>a, <1>d, RejectEffect, DeleteEffect DEF TypeOK, EndedDoomed, RefuseSend, Admitting,
      Goto
<1>10. CASE RefuseDelete
  BY <1>10, <1>a, <1>d, RejectEffect, DeleteEffect DEF TypeOK, EndedDoomed, RefuseDelete, Admitting,
      Goto
<1>11. CASE TimerCheck \/ TimerBegin \/ TimerFanout
  BY <1>11, <1>d DEF TypeOK, EndedDoomed, Goto, Respond, CanBeginIncoming, TimerCheck, TimerBegin,
      TimerFanout
<1>14. CASE TimerSend
  <2>1. \/ UNCHANGED <<state, tx>>
        \/ /\ state' = [state EXCEPT ![Inc] = "ended"]
           /\ tx' = IF tx = "pending" THEN "rejected" ELSE tx
    BY <1>14, RejectEffect DEF TimerSend
  <2> QED
    BY <1>14, <2>1, <1>c, <1>d DEF TypeOK, EndedDoomed, TimerSend
<1>15. CASE TimerDelete
  <2>1. UNCHANGED tx
    BY <1>15 DEF TimerDelete, sipVars
  <2> QED
    BY <1>15, <2>1, <1>b DEF EndedDoomed, TimerDelete
<1>16. CASE CancelCheck
  BY <1>16, <1>d DEF TypeOK, EndedDoomed, CancelCheck, Goto, Return, Respond
<1>17. CASE CancelBegin
  BY <1>17, <1>d DEF TypeOK, EndedDoomed, CancelBegin, CanBeginIncoming, Goto, Return, Respond
<1>18. CASE Cancel487 \/ CancelFanout
  BY <1>18, <1>d DEF TypeOK, EndedDoomed, Goto, Respond, Cancel487, CancelFanout
<1>20. CASE CancelEnd
  <2>1. UNCHANGED tx
    BY <1>20 DEF CancelEnd, sipVars
  <2> QED
    BY <1>20, <2>1, <1>b DEF EndedDoomed, CancelEnd
<1>21. CASE ByeDelete
  <2>1. \/ mgr' = mgr \ {tgt[ByeP]} /\ state' = [state EXCEPT ![tgt[ByeP]] = "ended"]
        \/ tgt[ByeP] \notin mgr /\ UNCHANGED <<mgr, state>>
    BY <1>21, DeleteEffect DEF ByeDelete
  <2> QED
    BY <1>21, <2>1, <1>d DEF TypeOK, EndedDoomed, ByeDelete, InPlaceOnly
<1>22. ASSUME NEW c \in Clients, Present(c) \/ Connect(c) \/ Offer(c) PROVE EndedDoomed'
  BY <1>22, <1>d DEF TypeOK, EndedDoomed, CanBeginIncoming, Respond, Goto, CanClaim, Present,
      Connect, Offer
<1>25. ASSUME NEW c \in Clients, AcceptAsk(c) \/ RejectAsk(c) \/ Disconnect(c) PROVE EndedDoomed'
  BY <1>25, <1>d DEF TypeOK, EndedDoomed, ClaimedByOther, Goto, Respond, AcceptAsk, RejectAsk,
      Disconnect
<1>28. ASSUME NEW c \in Clients, Replay(c) \/ Offered(c) \/ AcceptCheck(c) PROVE EndedDoomed'
  BY <1>28, <1>d DEF TypeOK, EndedDoomed, CanBeginIncoming, Goto, Respond, SetState, Replay,
      Offered, AcceptCheck
<1>31. ASSUME NEW c \in Clients, AcceptBegin(c) PROVE EndedDoomed'
  BY <1>31, <1>d DEF TypeOK, EndedDoomed, AcceptBegin, CanBegin, ClaimedByOther, Goto, Return,
      Respond
<1>32. ASSUME NEW c \in Clients, AcceptLost(c) PROVE EndedDoomed'
  BY <1>32, <1>d DEF TypeOK, EndedDoomed, AcceptLost, Goto, Return, Respond
<1>33. ASSUME NEW c \in Clients, AcceptClaim(c) PROVE EndedDoomed'
  BY <1>33, <1>d DEF TypeOK, EndedDoomed, AcceptClaim, ClearTerminalAction, CanClaim, Goto,
      Return, Respond
<1>34. ASSUME NEW c \in Clients, AcceptTransfer(c) PROVE EndedDoomed'
  BY <1>34, <1>d DEF TypeOK, EndedDoomed, AcceptTransfer, Goto, Respond
<1>35. ASSUME NEW c \in Clients, Accept200(c) PROVE EndedDoomed'
  <2>1. Unanswered => state[Inc] = "incoming"
    BY <1>35 DEF Accept200, AcceptsRinging
  <2>2. UNCHANGED <<mgr, state>> /\ (tx' = "answered" => tx = "answered" \/ tx = "pending")
    BY <1>35 DEF Accept200, Respond
  <2> QED
    BY <1>35, <2>1, <2>2, <1>d DEF EndedDoomed, Unanswered
<1>36. ASSUME NEW c \in Clients, AcceptActive(c) PROVE EndedDoomed'
  <2>1. state' = [state EXCEPT ![tgt[c]] = "active"]
    BY <1>36, ActivateEffect DEF AcceptActive
  <2> QED
    BY <1>36, <2>1, <1>d DEF TypeOK, EndedDoomed, AcceptActive
<1>37. ASSUME NEW c \in Clients, AcceptFinish(c) PROVE EndedDoomed'
  <2>1. tgt[c] = Inc
    BY <1>37 DEF AcceptFinish, InPlaceOnly, Targeted, Accepting
  <2> QED
    BY <1>37, <2>1, <1>d DEF EndedDoomed, AcceptFinish
<1>38. ASSUME NEW c \in Clients, AcceptFanout(c) \/ RejectBegin(c) PROVE EndedDoomed'
  BY <1>38, <1>d DEF TypeOK, EndedDoomed, Goto, Return, Respond, CanBeginIncoming, AcceptFanout,
      RejectBegin
<1>40. ASSUME NEW c \in Clients, RejectSend(c) PROVE EndedDoomed'
  <2>1. \/ UNCHANGED <<state, tx>>
        \/ /\ state' = [state EXCEPT ![Inc] = "ended"]
           /\ tx' = IF tx = "pending" THEN "rejected" ELSE tx
    BY <1>40, RejectEffect DEF RejectSend, RejectCall
  <2> QED
    BY <1>40, <2>1, <1>c, <1>d DEF TypeOK, EndedDoomed, RejectSend
<1>41. ASSUME NEW c \in Clients, RejectEnd(c) PROVE EndedDoomed'
  <2>1. UNCHANGED tx
    BY <1>41 DEF RejectEnd, sipVars
  <2> QED
    BY <1>41, <2>1, <1>b DEF EndedDoomed, RejectEnd
<1>42. ASSUME NEW c \in Clients, HangupCheck(c) PROVE EndedDoomed'
  BY <1>42, <1>d DEF TypeOK, EndedDoomed, HangupCheck, Goto, ActionFor, Respond
<1>43. ASSUME NEW c \in Clients, EndBegin(c) PROVE EndedDoomed'
  BY <1>43, <1>d DEF TypeOK, EndedDoomed, EndBegin, CanBegin, Goto, Return, EndReturn, Respond
<1>44. ASSUME NEW c \in Clients, EndSend(c) PROVE EndedDoomed'
  <2>1. tgt[c] = Inc /\ tx' \in {tx, "rejected"}
    BY <1>44, RejectEffect DEF EndSend, InPlaceOnly, Targeted, Ending
  <2>2. pc' = [pc EXCEPT ![c] = "end_bye"] \/ pc' = [pc EXCEPT ![c] = "end_delete"]
    BY <1>44 DEF EndSend, Goto
  <2>3. tgt' = tgt
    BY <1>44 DEF EndSend
  <2> QED
    BY <1>44, <2>1, <2>2, <2>3 DEF Doomed, EndedDoomed, TypeOK
<1>45. ASSUME NEW c \in Clients, EndBye(c) PROVE EndedDoomed'
  <2>1. tgt[c] = Inc
    BY <1>45 DEF EndBye, InPlaceOnly, Targeted, Ending
  <2> QED
    BY <1>45, <2>1 DEF Doomed, EndedDoomed, TypeOK, EndBye, Goto
<1>46. ASSUME NEW c \in Clients, EndDelete(c) PROVE EndedDoomed'
  <2>1. Inc \notin mgr'
    BY <1>46, DeleteEffect DEF EndDelete, InPlaceOnly, Targeted, Ending
  <2> QED
    BY <1>46, <2>1 DEF EndedDoomed
<1>47. ASSUME NEW c \in Clients, Sweep(c) \/ Swept(c) PROVE EndedDoomed'
  BY <1>47, <1>d DEF TypeOK, EndedDoomed, Goto, Respond, Sweep, Swept
<1>49. ASSUME NEW c \in Clients, NEW s \in Sids, HangupAsk(c, s) \/ ForceEnd(c, s)
      PROVE  EndedDoomed'
  BY <1>49, <1>d DEF TypeOK, EndedDoomed, ClaimedByOther, Goto, Respond, ActionFor, HangupAsk,
      ForceEnd
<1>51. CASE UNCHANGED vars
  BY <1>51 DEF vars, EndedDoomed, Doomed
<1> QED
  BY <1>1, <1>2, <1>3, <1>4, <1>5, <1>8, <1>9, <1>10, <1>11, <1>14, <1>15, <1>16, <1>17, <1>18,
      <1>20, <1>21, <1>22, <1>25, <1>28, <1>31, <1>32, <1>33, <1>34, <1>35, <1>36, <1>37, <1>38,
      <1>40, <1>41, <1>42, <1>43, <1>44, <1>45, <1>46, <1>47, <1>49, <1>51 DEF Next, FarEnd,
      InviteRuns, TimerRuns, CancelRuns, ClientStarts, ClientRuns

(* The guard of an answered call is held by the answer, or by who is about to
   delete the call. *)
LEMMA AnsweredHolder ==
  ASSUME TypeOK, AnsweredTx, ClaimKept, ClaimantCarries, RingEndersNeverKillAnswered, AcceptedOnce,
         Unheard, EndersLate, HolderWorks, Roles, InPlaceOnly,
         answeredBy # {}, Inc \in mgr, term[Inc] # None, ~Doomed,
         NEW d \in answeredBy
  PROVE  pc[d] \in {"acc_active", "acc_finish"}
<1> USE NameAssumption DEF Procs, System
<1>e. answeredBy # {} => tx = "answered"
  BY DEF AnsweredTx
<1>f. answeredBy # {} => pc[InviteP] \notin Admitting
  BY <1>e DEF Unheard, ClaimantCarries
<1>g. answeredBy # {} =>
        /\ pc[TimerP] # "tmo_delete" /\ pc[CancelP] # "cxl_end"
        /\ \A c \in Clients : pc[c] # "rej_end"
  BY <1>e DEF EndersLate
<1>h. answeredBy # {} =>
        \A p \in Procs : pc[p] \notin {"rej_send", "tmo_fanout", "tmo_send", "cxl_487", "cxl_fanout"}
  BY <1>e DEF RingEndersNeverKillAnswered, EndsRinging
<1>1. PICK p \in Procs : term[Inc] = p /\ Holding(p)
  BY DEF HolderWorks, TypeOK, Sids
<1>2. p \in Clients
  BY <1>1, <1>f, <1>g, <1>h DEF Holding, OnInc, OnTgt, Roles, Admitting
<1>3. pc[p] \notin OnTgt
  BY <1>1, <1>2, <1>h DEF Holding, OnInc, OnTgt, Doomed, Roles, Accepting, Ending
<1>4. pc[p] \in {"acc_active", "acc_finish"}
  BY <1>1, <1>2, <1>3, <1>e, <1>f, <1>g, <1>h
      DEF Holding, OnInc, Roles, Accepting, Ending, AcceptedOnce, InPlaceOnly
<1>5. claim = p BY <1>2, <1>4 DEF ClaimKept
<1>6. d = p BY <1>5 DEF ClaimantCarries
<1> QED BY <1>4, <1>6

(* The agent that answered takes the call with it. *)
LEMMA AnswererMindsStep ==
  ASSUME TypeOK, Steady, TerminalMutex, Targeted, InviteOnce, AnsweredTx, ClaimKept,
         ClaimantCarries,
         RingEndersNeverKillAnswered, OwnTargets, Sockets, AcceptedOnce, Unheard, EndersLate,
         HolderWorks, Roles, InPlaceOnly, EndedDoomed, AnswererMinds, [Next]_vars
  PROVE  AnswererMinds'
<1> USE NameAssumption DEF Procs, System, Sids, sessVars, apiVars, sipVars, ctlVars, histVars
<1>e. answeredBy # {} => tx = "answered"
  BY DEF AnsweredTx
<1>f. answeredBy # {} => pc[InviteP] \notin Admitting
  BY <1>e DEF Unheard, ClaimantCarries
<1>g. answeredBy # {} =>
        /\ pc[TimerP] # "tmo_delete" /\ pc[CancelP] # "cxl_end"
        /\ \A c \in Clients : pc[c] # "rej_end"
  BY <1>e DEF EndersLate
<1>h. answeredBy # {} =>
        \A p \in Procs : pc[p] \notin {"rej_send", "tmo_fanout", "tmo_send", "cxl_487", "cxl_fanout"}
  BY <1>e DEF RingEndersNeverKillAnswered, EndsRinging
<1>i. Doomed => Doomed' \/ Inc \notin mgr'
  BY DoomedStep
<1>1. CASE InviteArrives
  <2>1. \A d \in Clients : Minds(d) => Minds(d)'
    BY <1>1 DEF Minds, TypeOK, InviteArrives, Goto, SetState
  <2>2. UNCHANGED answeredBy /\ (Inc \in mgr' /\ answeredBy # {} => Inc \in mgr)
    BY <1>1, <1>e DEF InviteArrives, InviteOnce
  <2> QED
    BY <1>1, <2>1, <2>2, <1>i DEF AnswererMinds, TypeOK
<1>2. CASE CallerCancels
  <2>1. \A d \in Clients : Minds(d) => Minds(d)'
    BY <1>2 DEF Minds, TypeOK, CallerCancels, Goto
  <2>2. UNCHANGED answeredBy /\ (Inc \in mgr' /\ answeredBy # {} => Inc \in mgr)
    BY <1>2 DEF CallerCancels
  <2> QED
    BY <1>2, <2>1, <2>2, <1>i DEF AnswererMinds, TypeOK
<1>3. CASE CallerAcks
  <2>1. \A d \in Clients : Minds(d) => Minds(d)'
    BY <1>3 DEF Minds, TypeOK, CallerAcks
  <2>2. UNCHANGED answeredBy /\ (Inc \in mgr' /\ answeredBy # {} => Inc \in mgr)
    BY <1>3 DEF CallerAcks
  <2> QED
    BY <1>3, <2>1, <2>2, <1>i DEF AnswererMinds, TypeOK
<1>4. CASE CallerByes
  <2>1. UNCHANGED <<mgr, conn, answeredBy, todo, back>> /\ \A d \in Clients : pc'[d] = pc[d] /\ tgt'[d] = tgt[d]
    BY <1>4 DEF CallerByes, TypeOK, Goto
  <2>2. \/ UNCHANGED owned
        \/ tgt' = [tgt EXCEPT ![ByeP] = Inc] /\ pc' = [pc EXCEPT ![ByeP] = "bye_delete"]
    BY <1>4 DEF CallerByes, InPlaceOnly, Goto
  <2>3. Doomed' \/ UNCHANGED owned
    BY <1>4, <2>2 DEF Doomed, TypeOK
  <2> QED
    BY <1>4, <2>1, <2>3, <1>i DEF AnswererMinds, Minds, TypeOK
<1>5. CASE Admit
  <2>1. \A d \in Clients : Minds(d) => Minds(d)'
    BY <1>5 DEF Minds, TypeOK, Admit, Goto
  <2>2. UNCHANGED answeredBy /\ (Inc \in mgr' /\ answeredBy # {} => Inc \in mgr)
    BY <1>5 DEF Admit
  <2> QED
    BY <1>5, <2>1, <2>2, <1>i DEF AnswererMinds, TypeOK
<1>6. CASE Presented
  <2>1. \A d \in Clients : Minds(d) => Minds(d)'
    BY <1>6 DEF Minds, TypeOK, Presented
  <2>2. UNCHANGED answeredBy /\ (Inc \in mgr' /\ answeredBy # {} => Inc \in mgr)
    BY <1>6 DEF Presented
  <2> QED
    BY <1>6, <2>1, <2>2, <1>i DEF AnswererMinds, TypeOK
<1>7. CASE Refuse
  <2>1. \A d \in Clients : Minds(d) => Minds(d)'
    BY <1>7 DEF Minds, TypeOK, Refuse, Goto
  <2>2. UNCHANGED answeredBy /\ (Inc \in mgr' /\ answeredBy # {} => Inc \in mgr)
    BY <1>7 DEF Refuse
  <2> QED
    BY <1>7, <2>1, <2>2, <1>i DEF AnswererMinds, TypeOK
<1>8. CASE RefuseBegin
  <2>1. \A d \in Clients : Minds(d) => Minds(d)'
    BY <1>8 DEF Minds, TypeOK, RefuseBegin, CanBegin, Goto
  <2>2. UNCHANGED answeredBy /\ (Inc \in mgr' /\ answeredBy # {} => Inc \in mgr)
    BY <1>8 DEF RefuseBegin
  <2> QED
    BY <1>8, <2>1, <2>2, <1>i DEF AnswererMinds, TypeOK
<1>9. CASE RefuseSend
  <2>1. UNCHANGED answeredBy
    BY <1>9 DEF RefuseSend, histVars
  <2> QED
    BY <1>9, <2>1, <1>f DEF RefuseSend, Admitting, AnswererMinds
<1>10. CASE RefuseDelete
  <2>1. UNCHANGED answeredBy
    BY <1>10 DEF RefuseDelete, histVars
  <2> QED
    BY <1>10, <2>1, <1>f DEF RefuseDelete, Admitting, AnswererMinds
<1>11. CASE TimerCheck
  <2>1. \A d \in Clients : Minds(d) => Minds(d)'
    BY <1>11 DEF Minds, TypeOK, TimerCheck, Goto
  <2>2. UNCHANGED answeredBy /\ (Inc \in mgr' /\ answeredBy # {} => Inc \in mgr)
    BY <1>11 DEF TimerCheck
  <2> QED
    BY <1>11, <2>1, <2>2, <1>i DEF AnswererMinds, TypeOK
<1>12. CASE TimerBegin
  <2>1. \A d \in Clients : Minds(d) => Minds(d)'
    BY <1>12 DEF Minds, TypeOK, TimerBegin, CanBeginIncoming, Goto
  <2>2. UNCHANGED answeredBy /\ (Inc \in mgr' /\ answeredBy # {} => Inc \in mgr)
    BY <1>12 DEF TimerBegin
  <2> QED
    BY <1>12, <2>1, <2>2, <1>i DEF AnswererMinds, TypeOK
<1>13. CASE TimerFanout
  <2>1. \A d \in Clients : Minds(d) => Minds(d)'
    BY <1>13 DEF Minds, TypeOK, TimerFanout, Goto
  <2>2. UNCHANGED answeredBy /\ (Inc \in mgr' /\ answeredBy # {} => Inc \in mgr)
    BY <1>13 DEF TimerFanout
  <2> QED
    BY <1>13, <2>1, <2>2, <1>i DEF AnswererMinds, TypeOK
<1>14. CASE TimerSend
  <2>1. UNCHANGED answeredBy
    BY <1>14 DEF TimerSend, histVars
  <2> QED
    BY <1>14, <2>1, <1>h DEF TimerSend, AnswererMinds
<1>15. CASE TimerDelete
  <2>1. UNCHANGED answeredBy
    BY <1>15 DEF TimerDelete, histVars
  <2> QED
    BY <1>15, <2>1, <1>g DEF TimerDelete, AnswererMinds
<1>16. CASE CancelCheck
  <2>1. \A d \in Clients : Minds(d) => Minds(d)'
    BY <1>16 DEF Minds, TypeOK, CancelCheck, Goto, Return
  <2>2. UNCHANGED answeredBy /\ (Inc \in mgr' /\ answeredBy # {} => Inc \in mgr)
    BY <1>16 DEF CancelCheck
  <2> QED
    BY <1>16, <2>1, <2>2, <1>i DEF AnswererMinds, TypeOK
<1>17. CASE CancelBegin
  <2>1. \A d \in Clients : Minds(d) => Minds(d)'
    BY <1>17 DEF Minds, TypeOK, CancelBegin, CanBeginIncoming, Goto, Return
  <2>2. UNCHANGED answeredBy /\ (Inc \in mgr' /\ answeredBy # {} => Inc \in mgr)
    BY <1>17 DEF CancelBegin
  <2> QED
    BY <1>17, <2>1, <2>2, <1>i DEF AnswererMinds, TypeOK
<1>18. CASE Cancel487
  <2>1. \A d \in Clients : Minds(d) => Minds(d)'
    BY <1>18 DEF Minds, TypeOK, Cancel487, Goto, Respond
  <2>2. UNCHANGED answeredBy /\ (Inc \in mgr' /\ answeredBy # {} => Inc \in mgr)
    BY <1>18 DEF Cancel487
  <2> QED
    BY <1>18, <2>1, <2>2, <1>i DEF AnswererMinds, TypeOK
<1>19. CASE CancelFanout
  <2>1. \A d \in Clients : Minds(d) => Minds(d)'
    BY <1>19 DEF Minds, TypeOK, CancelFanout, Goto
  <2>2. UNCHANGED answeredBy /\ (Inc \in mgr' /\ answeredBy # {} => Inc \in mgr)
    BY <1>19 DEF CancelFanout
  <2> QED
    BY <1>19, <2>1, <2>2, <1>i DEF AnswererMinds, TypeOK
<1>20. CASE CancelEnd
  <2>1. UNCHANGED answeredBy
    BY <1>20 DEF CancelEnd, histVars
  <2> QED
    BY <1>20, <2>1, <1>g DEF CancelEnd, AnswererMinds
<1>21. CASE ByeDelete
  <2>1. \A d \in Clients : Minds(d) => Minds(d)'
    BY <1>21 DEF Minds, TypeOK, ByeDelete, Goto, Return
  <2>2. UNCHANGED answeredBy /\ (Inc \in mgr' /\ answeredBy # {} => Inc \in mgr)
    BY <1>21, DeleteEffect DEF ByeDelete
  <2> QED
    BY <1>21, <2>1, <2>2, <1>i DEF AnswererMinds, TypeOK
<1>22. ASSUME NEW c \in Clients, Present(c) PROVE AnswererMinds'
  <2>1. \A d \in Clients : Minds(d) => Minds(d)'
    BY <1>22 DEF Minds, TypeOK, Present, CanBeginIncoming
  <2>2. UNCHANGED answeredBy /\ (Inc \in mgr' /\ answeredBy # {} => Inc \in mgr)
    BY <1>22 DEF Present
  <2> QED
    BY <1>22, <2>1, <2>2, <1>i DEF AnswererMinds, TypeOK
<1>23. ASSUME NEW c \in Clients, Connect(c) PROVE AnswererMinds'
  <2>1. \A d \in Clients : Minds(d) => Minds(d)'
    BY <1>23 DEF Minds, TypeOK, Connect, Goto
  <2>2. UNCHANGED answeredBy /\ (Inc \in mgr' /\ answeredBy # {} => Inc \in mgr)
    BY <1>23 DEF Connect
  <2> QED
    BY <1>23, <2>1, <2>2, <1>i DEF AnswererMinds, TypeOK
<1>24. ASSUME NEW c \in Clients, Offer(c) PROVE AnswererMinds'
  <2>1. \A d \in Clients : Minds(d) => Minds(d)'
    BY <1>24 DEF Bind, Minds, TypeOK, Offer, CanClaim, Goto
  <2>2. UNCHANGED answeredBy /\ (Inc \in mgr' /\ answeredBy # {} => Inc \in mgr)
    BY <1>24 DEF Offer
  <2> QED
    BY <1>24, <2>1, <2>2, <1>i DEF AnswererMinds, TypeOK
<1>25. ASSUME NEW c \in Clients, AcceptAsk(c) PROVE AnswererMinds'
  <2>1. \A d \in Clients : Minds(d) => Minds(d)'
    BY <1>25 DEF Minds, TypeOK, AcceptAsk, ClaimedByOther, Goto
  <2>2. UNCHANGED answeredBy /\ (Inc \in mgr' /\ answeredBy # {} => Inc \in mgr)
    BY <1>25 DEF AcceptAsk
  <2> QED
    BY <1>25, <2>1, <2>2, <1>i DEF AnswererMinds, TypeOK
<1>26. ASSUME NEW c \in Clients, RejectAsk(c) PROVE AnswererMinds'
  <2>1. \A d \in Clients : Minds(d) => Minds(d)'
    BY <1>26 DEF Minds, TypeOK, RejectAsk, Goto
  <2>2. UNCHANGED answeredBy /\ (Inc \in mgr' /\ answeredBy # {} => Inc \in mgr)
    BY <1>26 DEF RejectAsk
  <2> QED
    BY <1>26, <2>1, <2>2, <1>i DEF AnswererMinds, TypeOK
<1>27. ASSUME NEW c \in Clients, Disconnect(c) PROVE AnswererMinds'
  <2>1. \A d \in Clients : Minds(d) => Minds(d)'
    BY <1>27 DEF Steady, Minds, TypeOK, Disconnect, Goto
  <2>2. UNCHANGED answeredBy /\ (Inc \in mgr' /\ answeredBy # {} => Inc \in mgr)
    BY <1>27 DEF Disconnect
  <2> QED
    BY <1>27, <2>1, <2>2, <1>i DEF AnswererMinds, TypeOK
<1>28. ASSUME NEW c \in Clients, Replay(c) PROVE AnswererMinds'
  <2>1. \A d \in Clients : Minds(d) => Minds(d)'
    BY <1>28 DEF Minds, TypeOK, Replay, CanBeginIncoming, Goto
  <2>2. UNCHANGED answeredBy /\ (Inc \in mgr' /\ answeredBy # {} => Inc \in mgr)
    BY <1>28 DEF Replay
  <2> QED
    BY <1>28, <2>1, <2>2, <1>i DEF AnswererMinds, TypeOK
<1>29. ASSUME NEW c \in Clients, Offered(c) PROVE AnswererMinds'
  <2>1. \A d \in Clients : Minds(d) => Minds(d)'
    BY <1>29 DEF Minds, TypeOK, Offered, Goto, SetState
  <2>2. UNCHANGED answeredBy /\ (Inc \in mgr' /\ answeredBy # {} => Inc \in mgr)
    BY <1>29 DEF Offered
  <2> QED
    BY <1>29, <2>1, <2>2, <1>i DEF AnswererMinds, TypeOK
<1>30. ASSUME NEW c \in Clients, AcceptCheck(c) PROVE AnswererMinds'
  <2>1. \A d \in Clients : Minds(d) => Minds(d)'
    BY <1>30 DEF Minds, TypeOK, AcceptCheck, Goto
  <2>2. UNCHANGED answeredBy /\ (Inc \in mgr' /\ answeredBy # {} => Inc \in mgr)
    BY <1>30 DEF AcceptCheck
  <2> QED
    BY <1>30, <2>1, <2>2, <1>i DEF AnswererMinds, TypeOK
<1>31. ASSUME NEW c \in Clients, AcceptBegin(c) PROVE AnswererMinds'
  <2>1. \A d \in Clients : Minds(d) => Minds(d)'
    BY <1>31 DEF Minds, TypeOK, AcceptBegin, CanBegin, ClaimedByOther, Goto, Return
  <2>2. UNCHANGED answeredBy /\ (Inc \in mgr' /\ answeredBy # {} => Inc \in mgr)
    BY <1>31 DEF AcceptBegin
  <2> QED
    BY <1>31, <2>1, <2>2, <1>i DEF AnswererMinds, TypeOK
<1>32. ASSUME NEW c \in Clients, AcceptLost(c) PROVE AnswererMinds'
  <2>1. \A d \in Clients : Minds(d) => Minds(d)'
    BY <1>32 DEF Minds, TypeOK, AcceptLost, Goto, Return
  <2>2. UNCHANGED answeredBy /\ (Inc \in mgr' /\ answeredBy # {} => Inc \in mgr)
    BY <1>32 DEF AcceptLost
  <2> QED
    BY <1>32, <2>1, <2>2, <1>i DEF AnswererMinds, TypeOK
<1>33. ASSUME NEW c \in Clients, AcceptClaim(c) PROVE AnswererMinds'
  <2>1. \A d \in Clients : Minds(d) => Minds(d)'
    BY <1>33 DEF Minds, TypeOK, AcceptClaim, ClearTerminalAction, CanClaim, Goto, Return
  <2>2. UNCHANGED answeredBy /\ (Inc \in mgr' /\ answeredBy # {} => Inc \in mgr)
    BY <1>33 DEF AcceptClaim
  <2> QED
    BY <1>33, <2>1, <2>2, <1>i DEF AnswererMinds, TypeOK
<1>34. ASSUME NEW c \in Clients, AcceptTransfer(c) PROVE AnswererMinds'
  <2>1. \A d \in Clients : Minds(d) => Minds(d)'
    BY <1>34 DEF Bind, Minds, TypeOK, AcceptTransfer, Goto
  <2>2. UNCHANGED answeredBy /\ (Inc \in mgr' /\ answeredBy # {} => Inc \in mgr)
    BY <1>34 DEF AcceptTransfer
  <2> QED
    BY <1>34, <2>1, <2>2, <1>i DEF AnswererMinds, TypeOK
<1>35. ASSUME NEW c \in Clients, Accept200(c) PROVE AnswererMinds'
  <2>1. answeredBy' \subseteq answeredBy \/ (answeredBy' = answeredBy \cup {c} /\ tx = "pending")
    BY <1>35 DEF Accept200
  <2>2. tx = "pending" => Minds(c)
    BY <1>35 DEF Accept200, InPlaceOnly, Unanswered, Minds, Sockets, Leaves, OwnTargets, Ending
  <2>3. UNCHANGED <<mgr, conn, owned, todo, back, tgt>> /\ pc[c] = "acc_200"
    BY <1>35 DEF Accept200
  <2>4. \A d \in Clients : Minds(d) => Minds(d)'
    BY <1>35, <2>3 DEF Minds, Accept200, Goto, TypeOK
  <2> QED
    BY <1>35, <2>1, <2>2, <2>3, <2>4, <1>i DEF AnswererMinds, TypeOK
<1>36. ASSUME NEW c \in Clients, AcceptActive(c) PROVE AnswererMinds'
  <2>1. \A d \in Clients : Minds(d) => Minds(d)'
    BY <1>36 DEF Minds, TypeOK, AcceptActive, Goto
  <2>2. UNCHANGED answeredBy /\ (Inc \in mgr' /\ answeredBy # {} => Inc \in mgr)
    BY <1>36 DEF AcceptActive
  <2> QED
    BY <1>36, <2>1, <2>2, <1>i DEF AnswererMinds, TypeOK
<1>37. ASSUME NEW c \in Clients, AcceptFinish(c) PROVE AnswererMinds'
  <2>1. \A d \in Clients : Minds(d) => Minds(d)'
    BY <1>37 DEF Minds, TypeOK, AcceptFinish, ClearTerminalAction, Goto
  <2>2. UNCHANGED answeredBy /\ (Inc \in mgr' /\ answeredBy # {} => Inc \in mgr)
    BY <1>37, DeleteEffect DEF AcceptFinish
  <2> QED
    BY <1>37, <2>1, <2>2, <1>i DEF AnswererMinds, TypeOK
<1>38. ASSUME NEW c \in Clients, AcceptFanout(c) PROVE AnswererMinds'
  <2>1. \A d \in Clients : Minds(d) => Minds(d)'
    BY <1>38 DEF Minds, TypeOK, AcceptFanout, Goto, Return
  <2>2. UNCHANGED answeredBy /\ (Inc \in mgr' /\ answeredBy # {} => Inc \in mgr)
    BY <1>38 DEF AcceptFanout
  <2> QED
    BY <1>38, <2>1, <2>2, <1>i DEF AnswererMinds, TypeOK
<1>39. ASSUME NEW c \in Clients, RejectBegin(c) PROVE AnswererMinds'
  <2>1. \A d \in Clients : Minds(d) => Minds(d)'
    BY <1>39 DEF Minds, TypeOK, RejectBegin, CanBeginIncoming, Goto
  <2>2. UNCHANGED answeredBy /\ (Inc \in mgr' /\ answeredBy # {} => Inc \in mgr)
    BY <1>39 DEF RejectBegin
  <2> QED
    BY <1>39, <2>1, <2>2, <1>i DEF AnswererMinds, TypeOK
<1>40. ASSUME NEW c \in Clients, RejectSend(c) PROVE AnswererMinds'
  <2>1. UNCHANGED answeredBy
    BY <1>40 DEF RejectSend, histVars
  <2> QED
    BY <1>40, <2>1, <1>h DEF RejectSend, AnswererMinds
<1>41. ASSUME NEW c \in Clients, RejectEnd(c) PROVE AnswererMinds'
  <2>1. UNCHANGED answeredBy
    BY <1>41 DEF RejectEnd, histVars
  <2> QED
    BY <1>41, <2>1, <1>g DEF RejectEnd, AnswererMinds
<1>42. ASSUME NEW c \in Clients, HangupCheck(c) PROVE AnswererMinds'
  <2>1. \A d \in Clients : Minds(d) => Minds(d)'
    BY <1>42 DEF Minds, TypeOK, HangupCheck, Goto, ActionFor
  <2>2. UNCHANGED answeredBy /\ (Inc \in mgr' /\ answeredBy # {} => Inc \in mgr)
    BY <1>42 DEF HangupCheck
  <2> QED
    BY <1>42, <2>1, <2>2, <1>i DEF AnswererMinds, TypeOK
<1>43. ASSUME NEW c \in Clients, EndBegin(c) PROVE AnswererMinds'
  <2>1. UNCHANGED <<mgr, conn, owned, todo, answeredBy>> /\ pc[c] = "end_begin"
    BY <1>43 DEF EndBegin
  <2>2. \A d \in Clients \ {c} : Minds(d) => Minds(d)'
    BY <1>43, <2>1 DEF Minds, EndBegin, EndReturn, Return, Goto, TypeOK
  <2>3. c \in conn /\ Inc \in owned[c] => Minds(c)'
    BY <1>43, <2>1 DEF Minds
  <2>4. tgt[c] = Inc /\ CanBegin(Inc) => Doomed'
    BY <1>43 DEF EndBegin, Doomed, Goto, TypeOK
  <2>5. tgt[c] = Inc /\ ~CanBegin(Inc) /\ c \in answeredBy /\ Inc \in mgr => Doomed
    BY <1>43, <2>1, AnsweredHolder DEF CanBegin
  <2>6. c \in answeredBy /\ Inc \in mgr /\ Minds(c) => Minds(c)' \/ Doomed' \/ Inc \notin mgr'
    BY <1>43, <2>1, <2>3, <2>4, <2>5, <1>i DEF Minds
  <2> QED
    BY <1>43, <2>1, <2>2, <2>6, <1>i DEF AnswererMinds, TypeOK
<1>44. ASSUME NEW c \in Clients, EndSend(c) PROVE AnswererMinds'
  <2>1. tgt[c] = Inc
    BY <1>44 DEF EndSend, InPlaceOnly, Targeted, Ending
  <2>2. pc' = [pc EXCEPT ![c] = "end_bye"] \/ pc' = [pc EXCEPT ![c] = "end_delete"]
    BY <1>44 DEF EndSend, Goto
  <2>3. tgt' = tgt
    BY <1>44 DEF EndSend
  <2>4. Doomed'
    BY <1>44, <2>1, <2>2, <2>3 DEF Doomed, TypeOK
  <2> QED
    BY <1>44, <2>4 DEF AnswererMinds
<1>45. ASSUME NEW c \in Clients, EndBye(c) PROVE AnswererMinds'
  <2>1. tgt[c] = Inc
    BY <1>45 DEF EndBye, InPlaceOnly, Targeted, Ending
  <2>2. Doomed'
    BY <1>45, <2>1 DEF Doomed, TypeOK, EndBye, Goto
  <2> QED
    BY <1>45, <2>2 DEF AnswererMinds
<1>46. ASSUME NEW c \in Clients, EndDelete(c) PROVE AnswererMinds'
  <2>1. Inc \notin mgr'
    BY <1>46, DeleteEffect DEF EndDelete, InPlaceOnly, Targeted, Ending
  <2> QED
    BY <1>46, <2>1 DEF AnswererMinds
<1>47. ASSUME NEW c \in Clients, Sweep(c) PROVE AnswererMinds'
  <2>1. \A d \in Clients : Minds(d) => Minds(d)'
    BY <1>47 DEF Minds, TypeOK, Sweep, Goto
  <2>2. UNCHANGED answeredBy /\ (Inc \in mgr' /\ answeredBy # {} => Inc \in mgr)
    BY <1>47 DEF Sweep
  <2> QED
    BY <1>47, <2>1, <2>2, <1>i DEF AnswererMinds, TypeOK
<1>48. ASSUME NEW c \in Clients, Swept(c) PROVE AnswererMinds'
  <2>1. \A d \in Clients : Minds(d) => Minds(d)'
    BY <1>48 DEF Minds, TypeOK, Swept, Goto
  <2>2. UNCHANGED answeredBy /\ (Inc \in mgr' /\ answeredBy # {} => Inc \in mgr)
    BY <1>48 DEF Swept
  <2> QED
    BY <1>48, <2>1, <2>2, <1>i DEF AnswererMinds, TypeOK
<1>49. ASSUME NEW c \in Clients, NEW s \in Sids, HangupAsk(c, s) PROVE AnswererMinds'
  <2>1. \A d \in Clients : Minds(d) => Minds(d)'
    BY <1>49 DEF Minds, TypeOK, HangupAsk, ClaimedByOther, Goto
  <2>2. UNCHANGED answeredBy /\ (Inc \in mgr' /\ answeredBy # {} => Inc \in mgr)
    BY <1>49 DEF HangupAsk
  <2> QED
    BY <1>49, <2>1, <2>2, <1>i DEF AnswererMinds, TypeOK
<1>50. ASSUME NEW c \in Clients, NEW s \in Sids, ForceEnd(c, s) PROVE AnswererMinds'
  <2>1. UNCHANGED <<mgr, conn, owned, answeredBy>> /\ pc[c] \in {"own", "sweep"}
    BY <1>50 DEF ForceEnd
  <2>2. \A d \in Clients \ {c} : Minds(d) => Minds(d)'
    BY <1>50, <2>1 DEF Minds, ForceEnd, Goto, TypeOK
  <2>3. c \in conn /\ Inc \in owned[c] => Minds(c)'
    BY <1>50, <2>1 DEF Minds
  <2>4. s # Inc => s \notin mgr
    BY <1>50 DEF InPlaceOnly
  <2>5. s # Inc /\ pc[c] = "own" /\ Inc \in todo[c] => Minds(c)'
    BY <1>50, <2>4 DEF ForceEnd, Minds, TypeOK
  <2>6. s = Inc /\ pc[c] = "own" /\ Inc \in mgr /\ state[Inc] # "ended" => Minds(c)'
    BY <1>50 DEF ForceEnd, Minds, TypeOK, Goto
  <2>7. answeredBy # {} /\ Inc \in mgr /\ state[Inc] = "ended" => Doomed
    BY <1>50, <1>e DEF EndedDoomed
  <2>8. c \in answeredBy /\ Inc \in mgr /\ Minds(c) => Minds(c)' \/ Doomed' \/ Inc \notin mgr'
    BY <1>50, <2>1, <2>3, <2>5, <2>6, <2>7, <1>i DEF Minds
  <2> QED
    BY <1>50, <2>1, <2>2, <2>8, <1>i DEF AnswererMinds, TypeOK
<1>51. CASE UNCHANGED vars
  BY <1>51 DEF vars, AnswererMinds, Minds, Doomed
<1> QED
  BY <1>1, <1>2, <1>3, <1>4, <1>5, <1>6, <1>7, <1>8, <1>9, <1>10, <1>11, <1>12, <1>13, <1>14,
      <1>15, <1>16, <1>17, <1>18, <1>19, <1>20, <1>21, <1>22, <1>23, <1>24, <1>25, <1>26, <1>27,
      <1>28, <1>29, <1>30, <1>31, <1>32, <1>33, <1>34, <1>35, <1>36, <1>37, <1>38, <1>39, <1>40,
      <1>41, <1>42, <1>43, <1>44, <1>45, <1>46, <1>47, <1>48, <1>49, <1>50, <1>51 DEF Next,
      FarEnd, InviteRuns, TimerRuns, CancelRuns, ClientStarts, ClientRuns

(* When no client has a session of its own, every part of PlaceInv holds too. *)
LEMMA PlaceInvariance == InPlace => (Spec => []PlaceInv)
<1> SUFFICES ASSUME InPlace PROVE Spec => []PlaceInv
  OBVIOUS
<1>1. Init => PlaceInv
  BY ClientAssumption, NameAssumption DEF Init, PlaceInv, Roles, Accepting, Ending, CurOwned,
      InPlaceOnly, EndedDoomed, AnswererMinds, InPlace, Procs, System, Sids
<1>2. Steady /\ ~Faults /\ Agents = Clients BY DEF InPlace, Steady
<1>3. ASSUME IInv, RingInv, GuardInv, HangupInv, CallInv, PlaceInv, [Next]_vars PROVE PlaceInv'
  <2>1. /\ TypeOK /\ TerminalMutex /\ Targeted /\ ClaimHeld /\ InviteOnce
        /\ RingEndersNeverKillAnswered /\ ClaimKept /\ AnsweredTx /\ HolderWorks
    BY <1>3 DEF IInv, RingInv, GuardInv
  <2>2. OwnTargets /\ ClaimantCarries BY <1>3 DEF HangupInv
  <2>3. /\ Sockets /\ OwnersClaim /\ FarEndKnows /\ AcceptsRinging /\ AcceptedOnce /\ Unheard
        /\ EndersLate
    BY <1>3 DEF CallInv
  <2>4. Roles /\ CurOwned /\ InPlaceOnly /\ EndedDoomed /\ AnswererMinds BY <1>3 DEF PlaceInv
  <2>5. Roles' /\ CurOwned' BY <1>3, <2>1, <2>4, RolesStep, CurOwnedStep
  <2>6. InPlaceOnly' BY <1>3, <2>1, <2>3, <2>4, InPlaceOnlyStep
  <2>7. EndedDoomed' BY <1>2, <1>3, <2>1, <2>2, <2>3, <2>4, EndedDoomedStep
  <2>8. AnswererMinds' BY <1>2, <1>3, <2>1, <2>2, <2>3, <2>4, AnswererMindsStep
  <2> QED BY <2>5, <2>6, <2>7, <2>8 DEF PlaceInv
<1> QED
  BY <1>1, <1>2, <1>3, Invariance, RingInvariance, FinalInvariance, HangupInvariance,
      CallInvariance, PTL DEF Spec

(* With agents that answer in place, the call an agent answered is over once that
   agent's socket has closed and its cleanup is done. *)
THEOREM DisconnectEnds == InPlace => (Spec => []DisconnectEndsCall)
<1> SUFFICES ASSUME InPlace PROVE Spec => []DisconnectEndsCall
  OBVIOUS
<1>1. CallInv /\ PlaceInv => DisconnectEndsCall
  <2> SUFFICES ASSUME CallInv, PlaceInv, Quiescent, NEW c \in answeredBy \cap Agents,
                      pc[c] = "gone"
               PROVE  Inc \notin mgr
    BY DEF DisconnectEndsCall, PlaceInv, InPlaceOnly
  <2>1. ~Doomed
    BY DEF Quiescent, Doomed, Procs, System
  <2>2. ~Minds(c)
    BY ClientAssumption DEF CallInv, Sockets, Leaves, Minds
  <2> QED BY <2>1, <2>2 DEF PlaceInv, AnswererMinds
<1>2. Steady BY DEF InPlace
<1> QED BY <1>1, <1>2, CallInvariance, PlaceInvariance, PTL

-----------------------------------------------------------------------------
(* Who may end a call that goes on *)

(* A session's guard is taken by its ends. *)
Ends(d, s) == pc[d] \in {"end_send", "end_bye", "end_delete"} /\ tgt[d] = s
OwnGuards ==
  \A s \in Clients \cap mgr : term[s] # None => \E d \in Clients : Ends(d, s)

(* Who takes a session from the lists of its client. *)
Unlists(p, s) ==
  \/ p \in Clients /\ tgt[p] = s /\ pc[p] \in {"end_bye", "end_delete"}
  \/ p \in Clients /\ tgt[p] = s /\ pc[p] = "end_send" /\ act[p] # "bye"
  \/ s = Inc /\ \/ pc[p] \in {"tmo_send", "rej_send"}
                \/ p = InviteP /\ pc[p] = "refuse_send"
                \/ p = CancelP /\ pc[p] = "cxl_end"

(* A client owns the session its accept answers with, and whoever answered owns
   the session of the call that goes on. *)
AcceptOwns == \A c \in Clients : pc[c] = "acc_200" => tgt[c] \in owned[c]
AnswererOwns ==
  GoesOn =>
    /\ answeredBy # {}
    /\ \E s \in Sids : Bearer(s) /\ \A c \in answeredBy \cap conn : s \in owned[c]

LEMMA UnbindKeeps ==
  ASSUME TypeOK, NEW s \in Sids, EndAndNotify(s) \/ RejectCall(s)
  PROVE  \A d \in Clients : owned[d] \ {s} \subseteq owned'[d]
BY DEF TypeOK, EndAndNotify, RejectCall, RejectFails, RejectSent, Unbind

(* A connected client loses a session only to who ends it, an accept answers
   with the session it has bound, and a session's guard is taken by its ends. *)
ListMoves ==
  /\ \A c \in conn', s \in Sids :
       s \in owned[c] => s \in owned'[c] \/ CallerByes \/ \E p \in Procs : Unlists(p, s)
  /\ \A c \in Clients : pc'[c] = "acc_200" =>
       (pc[c] = "acc_200" /\ tgt'[c] = tgt[c]) \/ tgt'[c] \in owned'[c]
  /\ OwnGuards'

LEMMA ListSteps ==
  ASSUME TypeOK, Targeted, OnlyIncRings, OwnGuards, [Next]_vars
  PROVE  ListMoves
<1> USE NameAssumption DEF Procs, System, Sids, sessVars, apiVars, sipVars, ctlVars, histVars
<1>1. CASE InviteArrives \/ CallerCancels \/ CallerAcks \/ CallerByes
  BY <1>1 DEF TypeOK, ListMoves, OwnGuards, Ends, Goto, InviteArrives, CallerCancels,
      CallerAcks, CallerByes
<1>2. CASE Admit \/ Presented \/ Refuse \/ RefuseBegin
  BY <1>2 DEF TypeOK, ListMoves, OwnGuards, Ends, Goto, Admit, Presented, Refuse, RefuseBegin
<1>3. CASE RefuseSend \/ TimerSend
  BY <1>3, UnbindKeeps DEF TypeOK, ListMoves, OwnGuards, Ends, Unlists, Goto, RefuseSend, TimerSend
<1>4. CASE RefuseDelete \/ TimerDelete \/ ByeDelete
  BY <1>4, DeleteEffect DEF TypeOK, ListMoves, OwnGuards, Ends, Goto, Return, RefuseDelete,
      TimerDelete, ByeDelete
<1>5. CASE TimerCheck \/ TimerBegin \/ TimerFanout
  BY <1>5 DEF TypeOK, ListMoves, OwnGuards, Ends, Goto, TimerCheck, TimerBegin, TimerFanout
<1>6. CASE CancelCheck \/ CancelBegin \/ Cancel487 \/ CancelFanout
  BY <1>6 DEF TypeOK, ListMoves, OwnGuards, Ends, Goto, Return, CanBeginIncoming, Targeted,
      OnlyIncRings, CancelCheck, CancelBegin, Cancel487, CancelFanout
<1>7. CASE CancelEnd
  BY <1>7, UnbindKeeps DEF TypeOK, ListMoves, OwnGuards, Ends, Unlists, Goto, Return, Targeted,
      CancelEnd
<1>8. ASSUME NEW c \in Clients, Present(c) \/ Connect(c) \/ AcceptAsk(c) \/ RejectAsk(c)
      PROVE  ListMoves
  BY <1>8 DEF TypeOK, ListMoves, OwnGuards, Ends, Goto, Present, Connect, AcceptAsk, RejectAsk
<1>9. ASSUME NEW c \in Clients, Offered(c) PROVE ListMoves
  BY <1>9 DEF TypeOK, ListMoves, OwnGuards, Ends, Goto, Offered
<1>23. ASSUME NEW c \in Clients, Offer(c) PROVE ListMoves
  BY <1>23, SMTT(40) DEF TypeOK, ListMoves, OwnGuards, Ends, Goto, Bind, Offer
<1>10. ASSUME NEW c \in Clients, Disconnect(c) PROVE ListMoves
  BY <1>10 DEF TypeOK, ListMoves, OwnGuards, Ends, Goto, Disconnect
<1>11. ASSUME NEW c \in Clients, Replay(c) \/ AcceptCheck(c) \/ AcceptBegin(c) \/ AcceptLost(c)
       PROVE  ListMoves
  BY <1>11 DEF TypeOK, ListMoves, OwnGuards, Ends, Goto, Return, Replay, AcceptCheck,
      AcceptBegin, AcceptLost
<1>12. ASSUME NEW c \in Clients, AcceptClaim(c) \/ AcceptTransfer(c) PROVE ListMoves
  BY <1>12 DEF TypeOK, ListMoves, OwnGuards, Ends, Goto, Return, Bind, ClearTerminalAction,
      AcceptClaim, AcceptTransfer
<1>13. ASSUME NEW c \in Clients, Accept200(c) \/ AcceptActive(c) \/ AcceptFanout(c)
       PROVE  ListMoves
  BY <1>13 DEF TypeOK, ListMoves, OwnGuards, Ends, Goto, Return, Accept200, AcceptActive,
      AcceptFanout
<1>14. ASSUME NEW c \in Clients, AcceptFinish(c) PROVE ListMoves
  BY <1>14, DeleteEffect DEF TypeOK, ListMoves, OwnGuards, Ends, Goto, ClearTerminalAction,
      Targeted, Accepting, AcceptFinish
<1>15. ASSUME NEW c \in Clients, RejectBegin(c) \/ RejectEnd(c) \/ HangupCheck(c) PROVE ListMoves
  BY <1>15 DEF TypeOK, ListMoves, OwnGuards, Ends, Goto, RejectBegin, RejectEnd, HangupCheck
<1>16. ASSUME NEW c \in Clients, RejectSend(c) PROVE ListMoves
  BY <1>16, UnbindKeeps DEF TypeOK, ListMoves, OwnGuards, Ends, Unlists, Goto, RejectCall, RejectSend
<1>17. ASSUME NEW c \in Clients, EndBegin(c) PROVE ListMoves
  BY <1>17 DEF TypeOK, ListMoves, OwnGuards, Ends, Goto, Return, EndReturn, Targeted, Ending,
      EndBegin
<1>18. ASSUME NEW c \in Clients, EndSend(c) \/ EndBye(c) PROVE ListMoves
  BY <1>18, UnbindKeeps DEF TypeOK, ListMoves, OwnGuards, Ends, Unlists, Goto, Targeted, Ending,
      EndSend, EndBye
<1>19. ASSUME NEW c \in Clients, EndDelete(c) PROVE ListMoves
  BY <1>19, DeleteEffect DEF TypeOK, ListMoves, OwnGuards, Ends, Unlists, Goto, Return,
      EndReturn, Unbind, Targeted, Ending, EndDelete
<1>20. ASSUME NEW c \in Clients, Sweep(c) \/ Swept(c) PROVE ListMoves
  BY <1>20 DEF TypeOK, ListMoves, OwnGuards, Ends, Goto, Sweep, Swept
<1>21. ASSUME NEW c \in Clients, NEW s \in Sids, HangupAsk(c, s) \/ ForceEnd(c, s) PROVE ListMoves
  BY <1>21 DEF TypeOK, ListMoves, OwnGuards, Ends, Goto, HangupAsk, ForceEnd
<1>22. CASE UNCHANGED vars
  BY <1>22 DEF vars, TypeOK, ListMoves, OwnGuards, Ends
<1> QED
  BY <1>1, <1>2, <1>3, <1>4, <1>5, <1>6, <1>7, <1>8, <1>9, <1>10, <1>11, <1>12, <1>13, <1>14,
      <1>15, <1>16, <1>17, <1>18, <1>19, <1>20, <1>21, <1>22, <1>23 DEF Next, FarEnd, InviteRuns,
      TimerRuns, CancelRuns, ClientStarts, ClientRuns

(* Only who holds the guard takes the presented call from a list. *)
LEMMA UnlistsHold ==
  ASSUME Targeted, NEW p \in Procs, Unlists(p, Inc) PROVE Holding(p)
BY DEF Targeted, Unlists, Holding, OnInc, OnTgt

(* A client still owns the session it answers with when it answers, ... *)
LEMMA AcceptOwnsStep ==
  ASSUME TypeOK, Targeted, TerminalMutex, OwnTargets, OwnLists, Sockets, FarEndKnows, AcceptedOnce,
         AcceptOwns, ListMoves, OwnTargets', Sockets'
  PROVE  AcceptOwns'
<1> SUFFICES ASSUME NEW c \in Clients, pc'[c] = "acc_200", tgt'[c] \notin owned'[c]
             PROVE  FALSE
  BY DEF AcceptOwns
<1>1. pc[c] = "acc_200" /\ tgt'[c] = tgt[c] /\ tgt[c] \in owned[c]
  BY DEF ListMoves, AcceptOwns
<1>2. c \in conn' /\ tgt[c] \in Sids /\ tgt[c] \in {c, Inc}
  <2>1. c \in conn' BY DEF Sockets, Leaves, OwnTargets, Ending
  <2>2. tgt[c] \in Sids BY <1>1 DEF Targeted, Accepting, Procs
  <2>3. tgt[c] \in {c, Inc, None} BY <1>1 DEF OwnTargets, Ending
  <2> QED BY <2>1, <2>2, <2>3, NameAssumption DEF Sids
<1>3. ~CallerByes BY <1>1 DEF CallerByes, FarEndKnows, AcceptedOnce
<1>4. PICK p \in Procs : Unlists(p, tgt[c]) BY <1>1, <1>2, <1>3 DEF ListMoves
<1>5. p # c BY <1>1, <1>4 DEF Unlists
<1>6. CASE tgt[c] = Inc
  <2>1. Holding(c) /\ c \in Procs BY <1>1 DEF Holding, OnInc, Procs
  <2>2. Holding(p) BY <1>4, <1>6, UnlistsHold
  <2> QED BY <1>5, <2>1, <2>2 DEF TerminalMutex
<1>7. CASE tgt[c] = c /\ c # Inc
  <2>1. p \in Clients /\ tgt[p] = c BY <1>4, <1>7 DEF Unlists
  <2> QED BY <1>1, <1>5, <2>1, OwnSessionAlone DEF Ending
<1> QED BY <1>2, <1>6, <1>7

(* ... and nobody takes it from the list as long as the call goes on. *)
LEMMA BearerListed ==
  ASSUME RingEndersNeverKillAnswered, ClaimantCarries, Unheard, EndersLate, FarEndKnows, GoesOn,
         NEW w \in Sids, Bearer(w), NEW p \in Procs, Unlists(p, w)
  PROVE  FALSE
<1>1. ASSUME p \in Clients, tgt[p] = w
      PROVE  pc[p] \notin {"end_bye", "end_delete"} /\ (pc[p] = "end_send" => act[p] = "bye")
  BY <1>1 DEF Bearer
<1>2. pc[p] \notin {"tmo_send", "rej_send"} BY DEF RingEndersNeverKillAnswered, EndsRinging, GoesOn
<1>3. pc[InviteP] # "refuse_send" BY DEF Unheard, Admitting, ClaimantCarries, GoesOn
<1>4. pc[CancelP] # "cxl_end" BY DEF EndersLate, GoesOn
<1> QED BY <1>1, <1>2, <1>3, <1>4 DEF Unlists

(* All three hold throughout. *)
AnswererInv == OwnGuards /\ AcceptOwns /\ AnswererOwns

LEMMA AnswererInvariance == Steady => (Spec => []AnswererInv)
<1> SUFFICES ASSUME Steady PROVE Spec => []AnswererInv
  OBVIOUS
<1>1. Init => AnswererInv
  BY ClientAssumption, NameAssumption DEF Init, AnswererInv, OwnGuards, AcceptOwns, AnswererOwns,
      GoesOn, Procs, System, Sids
<1>2. ASSUME IInv, RingInv, HangupInv, CallInv, AnswererInv, [Next]_vars, HangupInv', CallInv'
      PROVE  AnswererInv'
  <2>1. /\ TypeOK /\ TerminalMutex /\ Targeted /\ OnlyIncRings /\ InviteOnce /\ ClaimHeld
        /\ RingEndersNeverKillAnswered /\ ClaimKept /\ AnsweredTx /\ RingStep
    BY <1>2, RingSteps DEF IInv, RingInv
  <2>2. OwnTargets /\ ClaimantCarries /\ HangupsMine /\ OwnTargets' BY <1>2 DEF HangupInv
  <2>3. /\ Sockets /\ OwnLists /\ OwnersClaim /\ StaleEnds /\ FarEndKnows /\ AcceptsRinging
        /\ AcceptedOnce /\ Unheard /\ EndersLate /\ Sockets'
    BY <1>2 DEF CallInv
  <2>4. OwnGuards /\ AcceptOwns /\ AnswererOwns BY <1>2 DEF AnswererInv
  <2>5. ListMoves BY <1>2, <2>1, <2>4, ListSteps
  <2>6. AcceptOwns' BY <2>1, <2>2, <2>3, <2>4, <2>5, AcceptOwnsStep
  <2>7. conn' \subseteq conn
    BY <1>2, <2>3, ConnSteps DEF Connect, Disconnect, Sockets
  <2>8. ASSUME GoesOn, GoesOn' PROVE AnswererOwns'
    <3>1. PICK w \in Sids : Bearer(w) /\ \A c \in answeredBy \cap conn : w \in owned[c]
      BY <2>4, <2>8 DEF AnswererOwns
    <3>2. Bearer(w)' BY <1>2, <2>1, <2>2, <2>3, <2>8, <3>1, BearerKept
    <3>3. answeredBy' = answeredBy
      BY <2>1, <2>3, <2>8 DEF RingStep, Accept200, AcceptedOnce, GoesOn
    <3>4. ~CallerByes BY <2>8 DEF CallerByes, GoesOn
    <3>5. \A p \in Procs : ~Unlists(p, w) BY <2>1, <2>2, <2>3, <2>8, <3>1, BearerListed
    <3>6. \A c \in answeredBy \cap conn' : w \in owned'[c]
      BY <2>1, <2>5, <2>7, <3>1, <3>4, <3>5 DEF ListMoves
    <3> QED BY <2>4, <2>8, <3>2, <3>3, <3>6 DEF AnswererOwns
  <2>9. ASSUME GoesOn', tx = "pending", NEW d \in Clients, Accept200(d) PROVE AnswererOwns'
    <3>1. tx' = "answered" BY <2>9 DEF GoesOn
    <3>2. PICK s \in Sids : Bearer(s)'
      BY <2>1, <2>2, <2>3, <2>9, <3>1, AnswerBears
    <3>3. /\ answeredBy = {} /\ answeredBy' = {d} /\ UNCHANGED <<owned, tgt>>
          /\ pc[d] = "acc_200" /\ pc'[d] = "acc_active"
      BY <2>1, <2>9, <3>1 DEF Accept200, Respond, AnsweredTx, apiVars, Goto, TypeOK, Procs
    <3>4. s = tgt[d] BY <3>2, <3>3 DEF Bearer
    <3> QED BY <2>4, <3>2, <3>3, <3>4 DEF AnswererOwns, AcceptOwns
  <2>10. AnswererOwns' BY <1>2, <2>1, <2>8, <2>9, AnswerStep DEF AnswererOwns
  <2> QED BY <2>5, <2>6, <2>10 DEF AnswererInv, ListMoves
<1>3. Agents = Clients /\ ~Faults BY DEF Steady
<1> QED
  BY <1>1, <1>2, <1>3, Invariance, RingInvariance, HangupInvariance, CallInvariance, PTL DEF Spec

(* A client that answered and is still connected can end the call its caller is
   in: it owns the session, holds the claim and finds the guard free. *)
THEOREM AnswererEnds == Steady => (Spec => []AnswererMayEnd)
<1> SUFFICES ASSUME Steady PROVE Spec => []AnswererMayEnd
  OBVIOUS
<1>1. ASSUME IInv, HangupInv, CallInv, AnswererInv, NoGuardLeak PROVE AnswererMayEnd
  <2> SUFFICES ASSUME Quiescent, caller = "confirmed", NEW c \in conn \cap answeredBy
               PROVE  EndableBy(c)
    BY DEF AnswererMayEnd
  <2>1. GoesOn BY <1>1 DEF CallInv, FarEndKnows, GoesOn
  <2>2. PICK s \in Sids : Bearer(s) /\ s \in owned[c]
    BY <1>1, <2>1 DEF AnswererInv, AnswererOwns
  <2>3. \A d \in Clients : pc[d] \in {"off", "idle", "gone", "done"} BY DEF Quiescent, Procs
  <2>4. s \in mgr \cap callID \cap dialog BY <2>2, <2>3 DEF Bearer
  <2>5. ActionFor(s) = "bye"
    BY <1>1, <2>2, <2>4 DEF ActionFor, CallInv, FarEndKnows, IInv, OnlyIncRings
  <2>6. CanBegin(s)
    <3>1. CASE s = Inc BY <1>1, <2>4, <3>1 DEF CanBegin, NoGuardLeak
    <3>2. CASE s \in Clients
      BY <1>1, <2>3, <2>4, <3>2 DEF CanBegin, AnswererInv, OwnGuards, Ends
    <3> QED BY <2>2, <3>1, <3>2 DEF Sids
  <2>7. MayHangup(c, s) BY <1>1, <2>2 DEF MayHangup, Steady, IInv, TypeOK
  <2>8. ~ClaimedByOther(s, c) BY <1>1 DEF ClaimedByOther, HangupInv, ClaimantCarries
  <2> QED BY <2>4, <2>5, <2>6, <2>7, <2>8 DEF EndableBy
<1>2. Agents = Clients /\ ~Faults BY DEF Steady
<1> QED
  BY <1>1, <1>2, Invariance, GuardsReturn, HangupInvariance, CallInvariance, AnswererInvariance, PTL

(* With agents that answer in place there is always such a client: when
   everything is quiet, a caller's confirmed call has a connected agent whose
   hangup ends it. *)
THEOREM SomebodyEnds ==
  InPlace => (Spec => [](Quiescent /\ caller = "confirmed" => \E c \in conn : EndableBy(c)))
<1> SUFFICES ASSUME InPlace
             PROVE  Spec => [](Quiescent /\ caller = "confirmed" => \E c \in conn : EndableBy(c))
  OBVIOUS
<1>1. ASSUME TypeOK, HangupInv, CallInv, AnswererInv, StaysFindable, DisconnectEndsCall, AnswererMayEnd,
             Quiescent, caller = "confirmed"
      PROVE  \E c \in conn : EndableBy(c)
  <2>1. PICK c \in answeredBy : TRUE
    BY <1>1 DEF AnswererInv, AnswererOwns, GoesOn, CallInv, FarEndKnows
  <2>2. c \in Clients /\ c \in Agents BY <1>1 DEF TypeOK, InPlace, Steady
  <2>3. pc[c] # "gone"
    BY <1>1, <2>2 DEF DisconnectEndsCall, StaysFindable, NoOrphanDialog
  <2>4. c \in conn
    BY <1>1, <2>2, <2>3 DEF CallInv, Sockets, Leaves, Quiescent, Procs, HangupInv,
      OwnTargets, Ending
  <2> QED BY <1>1, <2>1, <2>4 DEF AnswererMayEnd
<1>2. Steady /\ Agents = Clients BY DEF InPlace, Steady
<1> QED
  BY <1>1, <1>2, TypeCorrect, HangupInvariance, CallInvariance, AnswererInvariance, CallsStayFindable,
      DisconnectEnds, AnswererEnds, PTL

=============================================================================
