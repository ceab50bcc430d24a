----------------------- MODULE OutboundCall_proofs -----------------------
(* What OutboundCall keeps true for any number of requests to end the call,
   any number of ICE failures and of lost messages. *)
EXTENDS OutboundCall, TLAPS

(* Append adds its element to what a queue holds, and nothing else. *)
LEMMA NewIn ==
  ASSUME NEW S, NEW s \in Seq(S), NEW x \in S, NEW m
  PROVE  In(m, Append(s, x)) <=> In(m, s) \/ m = x
<1>1. ASSUME In(m, Append(s, x)) PROVE In(m, s) \/ m = x BY <1>1 DEF In
<1>2. ASSUME In(m, s) PROVE In(m, Append(s, x)) BY <1>2 DEF In
<1>3. ASSUME m = x PROVE In(m, Append(s, x))
  <2>1. Append(s, x)[Len(s) + 1] = x /\ Len(s) + 1 \in 1..Len(Append(s, x)) OBVIOUS
  <2>. QED BY <1>3, <2>1 DEF In
<1>. QED BY <1>1, <1>2, <1>3

(* A queue that loses its head holds its head and what is left. *)
LEMMA OldIn ==
  ASSUME NEW S, NEW s \in Seq(S), s # <<>>, NEW m
  PROVE  In(m, s) <=> In(m, Tail(s)) \/ m = Head(s)
<1>1. ASSUME In(m, Tail(s)) PROVE In(m, s)
  <2>1. PICK i \in 1..Len(Tail(s)) : Tail(s)[i] = m BY <1>1 DEF In
  <2>2. i + 1 \in 1..Len(s) /\ s[i + 1] = m BY <2>1
  <2>. QED BY <2>2 DEF In
<1>2. ASSUME m = Head(s) PROVE In(m, s)
  <2>1. 1 \in 1..Len(s) /\ s[1] = m BY <1>2
  <2>. QED BY <2>1 DEF In
<1>3. ASSUME In(m, s), m # Head(s) PROVE In(m, Tail(s))
  <2>1. PICK i \in 1..Len(s) : s[i] = m BY <1>3 DEF In
  <2>2. i # 1 BY <2>1, <1>3
  <2>3. i - 1 \in 1..Len(Tail(s)) /\ Tail(s)[i - 1] = m BY <2>1, <2>2
  <2>. QED BY <2>3 DEF In
<1>. QED BY <1>1, <1>2, <1>3

(* An empty queue holds nothing. *)
LEMMA EmptyIn == ASSUME NEW m PROVE ~In(m, <<>>)
  BY DEF In

(* The same for messages to the callee, whose kind is known. *)
LEMMA UpIn ==
  ASSUME up \in Seq(Ups), NEW x \in Ups
  PROVE  /\ Append(up, x) \in Seq(Ups)
         /\ \A m : In(m, Append(up, x)) <=> In(m, up) \/ m = x
  BY NewIn

(* The same for messages to the gateway. *)
LEMMA DownIn ==
  ASSUME down \in Seq(Downs), NEW x \in Downs
  PROVE  /\ Append(down, x) \in Seq(Downs)
         /\ \A m : In(m, Append(down, x)) <=> In(m, down) \/ m = x
  BY NewIn

(* What is left of the queues holds messages of their kinds. *)
LEMMA TailTypes ==
  /\ up \in Seq(Ups) /\ up # <<>> => Tail(up) \in Seq(Ups) /\ Head(up) \in Ups
  /\ down \in Seq(Downs) /\ down # <<>> => Tail(down) \in Seq(Downs) /\ Head(down) \in Downs
  OBVIOUS

(* Adding another message, or the only one, keeps a message unique. *)
LEMMA OnceIn ==
  ASSUME NEW S, NEW s \in Seq(S), NEW x \in S, NEW m, Once(m, s), x # m \/ ~In(m, s)
  PROVE  Once(m, Append(s, x))
<1>. SUFFICES ASSUME NEW i \in 1..Len(Append(s, x)), NEW j \in 1..Len(Append(s, x)),
                     Append(s, x)[i] = m, Append(s, x)[j] = m
              PROVE  i = j
  BY DEF Once
<1>1. CASE i \in 1..Len(s) /\ j \in 1..Len(s) BY <1>1 DEF Once
<1>2. CASE i = Len(s) + 1 /\ j = Len(s) + 1 BY <1>2
<1>3. CASE x = m
  <2>1. \A k \in 1..Len(s) : s[k] # m BY <1>3 DEF In
  <2>2. \A k \in 1..Len(s) : Append(s, x)[k] = s[k] OBVIOUS
  <2>. QED BY <2>1, <2>2, <1>2
<1>4. CASE x # m
  <2>1. Append(s, x)[Len(s) + 1] = x OBVIOUS
  <2>. QED BY <2>1, <1>4, <1>1
<1>. QED BY <1>3, <1>4

(* Losing the head keeps a message unique; a unique head is gone. *)
LEMMA OnceOut ==
  ASSUME NEW S, NEW s \in Seq(S), s # <<>>, NEW m, Once(m, s)
  PROVE  Once(m, Tail(s)) /\ (Head(s) = m => ~In(m, Tail(s)))
<1>1. \A i \in 1..Len(Tail(s)) : Tail(s)[i] = s[i + 1] /\ i + 1 \in 1..Len(s) OBVIOUS
<1>2. Once(m, Tail(s))
  <2>. SUFFICES ASSUME NEW i \in 1..Len(Tail(s)), NEW j \in 1..Len(Tail(s)),
                       Tail(s)[i] = m, Tail(s)[j] = m
                PROVE  i = j
    BY DEF Once
  <2>1. s[i + 1] = m /\ s[j + 1] = m /\ i + 1 \in 1..Len(s) /\ j + 1 \in 1..Len(s) BY <1>1
  <2>2. i + 1 = j + 1 BY <2>1 DEF Once
  <2>. QED BY <2>2
<1>3. ASSUME Head(s) = m, In(m, Tail(s)) PROVE FALSE
  <2>1. PICK i \in 1..Len(Tail(s)) : Tail(s)[i] = m BY <1>3 DEF In
  <2>2. s[i + 1] = m /\ i + 1 \in 1..Len(s) BY <2>1, <1>1
  <2>3. 1 \in 1..Len(s) /\ s[1] = m BY <1>3
  <2>4. i + 1 = 1 BY <2>2, <2>3 DEF Once
  <2>. QED BY <2>4
<1>. QED BY <1>2, <1>3

(* Open keeps the invariant. *)
LEMMA OpenKeeps == ASSUME IInv, Open PROVE IInv'
<1>. USE BoundsAssumption, EndersAssumption DEF IInv, TypeOK
<1>1. SessionOK'
  BY DEF SessionOK, States, Open, makerOnly, history
<1>2. ProcessOK'
  BY DEF ProcessOK, MakerAt, EnderAt, Open, makerOnly, history
<1>3. up' = up
  BY DEF Open, makerOnly, history
<1>4. up' \in Seq(Ups)
  BY <1>3 DEF NetworkOK
<1>5. down' = down
  BY DEF Open, makerOnly, history
<1>6. down' \in Seq(Downs)
  BY <1>5 DEF NetworkOK
<1>7. NetworkOK'
  BY <1>4, <1>6 DEF NetworkOK, AnswerInv, Callees, Ups, Open, makerOnly, history
<1>8. MediaInv'
  BY DEF SessionOK, ProcessOK, NetworkOK, MediaInv, Open, makerOnly, history
<1>9. LiveInv'
  BY DEF SessionOK, ProcessOK, NetworkOK, LiveInv, MediaInv, OpenAt, Open, makerOnly, history
<1>10. InviteInv'
  BY <1>3, <1>5 DEF InviteInv, AnswerInv, InUp, InDown, Open, makerOnly, history
<1>11. AnswerInv'
  BY <1>3, <1>5 DEF AnswerInv, InviteInv, InUp, InDown, Talked, NetworkOK, Open, makerOnly, history
<1>12. HangupInv'
  BY <1>3, <1>5 DEF HangupInv, InviteInv, AnswerInv, InUp, Talked, OpenAt, ProcessOK, Open,
     makerOnly, history
<1>. QED BY <1>1, <1>2, <1>7, <1>8, <1>9, <1>10, <1>11, <1>12

(* Primed keeps the invariant. *)
LEMMA PrimedKeeps == ASSUME IInv, Primed PROVE IInv'
<1>. USE BoundsAssumption, EndersAssumption DEF IInv, TypeOK
<1>1. SessionOK'
  BY DEF SessionOK, States, Primed, CtxDone, SetState, makerOnly, history
<1>2. ProcessOK'
  BY DEF ProcessOK, MakerAt, EnderAt, Primed, CtxDone, SetState, makerOnly, history
<1>3. up' = up
  BY DEF Primed, CtxDone, SetState, makerOnly, history
<1>4. up' \in Seq(Ups)
  BY <1>3 DEF NetworkOK
<1>5. down' = down
  BY DEF Primed, CtxDone, SetState, makerOnly, history
<1>6. down' \in Seq(Downs)
  BY <1>5 DEF NetworkOK
<1>7. NetworkOK'
  BY <1>4, <1>6 DEF NetworkOK, AnswerInv, Callees, Ups, Primed, CtxDone, SetState, makerOnly,
     history
<1>8. MediaInv'
  BY DEF SessionOK, ProcessOK, NetworkOK, MediaInv, Primed, CtxDone, SetState, makerOnly, history
<1>9. LiveInv'
  BY DEF SessionOK, ProcessOK, NetworkOK, LiveInv, MediaInv, OpenAt, Primed, CtxDone, SetState,
     makerOnly, history
<1>10. InviteInv'
  BY <1>3, <1>5 DEF InviteInv, AnswerInv, InUp, InDown, Primed, CtxDone, SetState, makerOnly,
     history
<1>11. AnswerInv'
  BY <1>3, <1>5 DEF AnswerInv, InviteInv, InUp, InDown, Talked, NetworkOK, Primed, CtxDone,
     SetState, makerOnly, history
<1>12. HangupInv'
  BY <1>3, <1>5 DEF HangupInv, InviteInv, AnswerInv, InUp, Talked, OpenAt, ProcessOK, Primed,
     CtxDone, SetState, makerOnly, history
<1>. QED BY <1>1, <1>2, <1>7, <1>8, <1>9, <1>10, <1>11, <1>12

(* SendInvite keeps the invariant. *)
LEMMA SendInviteKeeps == ASSUME IInv, SendInvite PROVE IInv'
<1>. USE BoundsAssumption, EndersAssumption DEF IInv, TypeOK
<1>1. SessionOK'
  BY DEF SessionOK, States, SendInvite, SetState, makerOnly, history
<1>2. ProcessOK'
  BY DEF ProcessOK, MakerAt, EnderAt, SendInvite, SetState, makerOnly, history
<1>3. up' = up \/ up' = Append(up, "INVITE1")
  BY DEF SendInvite, SetState, makerOnly, history
<1>4. "INVITE1" \in Ups
  BY DEF Ups
<1>5. up' \in Seq(Ups)
  BY <1>3, <1>4, UpIn DEF NetworkOK
<1>6. \A m : (In(m, up) => In(m, up')) /\ (In(m, up') => In(m, up) \/ m \in {"INVITE1"})
  BY <1>3, <1>4, UpIn DEF NetworkOK
<1>7. \A m : (m \notin {"INVITE1"} \/ ~In(m, up)) /\ Once(m, up) => Once(m, up')
  BY <1>3, <1>4, OnceIn DEF NetworkOK
<1>8. down' = down
  BY DEF SendInvite, SetState, makerOnly, history
<1>9. down' \in Seq(Downs)
  BY <1>8 DEF NetworkOK
<1>10. NetworkOK'
  BY <1>5, <1>9 DEF NetworkOK, AnswerInv, Callees, Ups, SendInvite, SetState, makerOnly, history
<1>11. MediaInv'
  BY DEF SessionOK, ProcessOK, NetworkOK, MediaInv, SendInvite, SetState, makerOnly, history
<1>12. LiveInv'
  BY DEF SessionOK, ProcessOK, NetworkOK, LiveInv, MediaInv, OpenAt, SendInvite, SetState,
     makerOnly, history
<1>13. InviteInv'
  BY <1>3, <1>4, <1>6, <1>7, <1>8 DEF InviteInv, AnswerInv, InUp, InDown, SendInvite, SetState,
     makerOnly, history
<1>14. AnswerInv'
  BY <1>3, <1>4, <1>6, <1>7, <1>8 DEF AnswerInv, InviteInv, InUp, InDown, Talked, NetworkOK,
     SendInvite, SetState, makerOnly, history
<1>15. HangupInv'
  BY <1>3, <1>4, <1>6, <1>7, <1>8 DEF HangupInv, InviteInv, AnswerInv, InUp, Talked, OpenAt,
     ProcessOK, SendInvite, SetState, makerOnly, history
<1>. QED BY <1>1, <1>2, <1>10, <1>11, <1>12, <1>13, <1>14, <1>15

(* StoreInvite keeps the invariant. *)
LEMMA StoreInviteKeeps == ASSUME IInv, StoreInvite PROVE IInv'
<1>. USE BoundsAssumption, EndersAssumption DEF IInv, TypeOK
<1>1. SessionOK'
  BY DEF SessionOK, States, StoreInvite, makerOnly, history
<1>2. ProcessOK'
  BY DEF ProcessOK, MakerAt, EnderAt, StoreInvite, makerOnly, history
<1>3. up' = up
  BY DEF StoreInvite, makerOnly, history
<1>4. up' \in Seq(Ups)
  BY <1>3 DEF NetworkOK
<1>5. down' = down
  BY DEF StoreInvite, makerOnly, history
<1>6. down' \in Seq(Downs)
  BY <1>5 DEF NetworkOK
<1>7. NetworkOK'
  BY <1>4, <1>6 DEF NetworkOK, AnswerInv, Callees, Ups, StoreInvite, makerOnly, history
<1>8. MediaInv'
  BY DEF SessionOK, ProcessOK, NetworkOK, MediaInv, StoreInvite, makerOnly, history
<1>9. LiveInv'
  BY DEF SessionOK, ProcessOK, NetworkOK, LiveInv, MediaInv, OpenAt, StoreInvite, makerOnly, history
<1>10. InviteInv'
  BY <1>3, <1>5 DEF InviteInv, AnswerInv, InUp, InDown, StoreInvite, makerOnly, history
<1>11. AnswerInv'
  BY <1>3, <1>5 DEF AnswerInv, InviteInv, InUp, InDown, Talked, NetworkOK, StoreInvite, makerOnly,
     history
<1>12. HangupInv'
  BY <1>3, <1>5 DEF HangupInv, InviteInv, AnswerInv, InUp, Talked, OpenAt, ProcessOK, StoreInvite,
     makerOnly, history
<1>. QED BY <1>1, <1>2, <1>7, <1>8, <1>9, <1>10, <1>11, <1>12

(* OnRinging keeps the invariant. *)
LEMMA OnRingingKeeps == ASSUME IInv, OnRinging PROVE IInv'
<1>. USE BoundsAssumption, EndersAssumption DEF IInv, TypeOK
<1>1. SessionOK'
  BY DEF SessionOK, States, OnRinging, Arrives, SetState, makerOnly, history
<1>2. ProcessOK'
  BY DEF ProcessOK, MakerAt, EnderAt, OnRinging, Arrives, SetState, makerOnly, history
<1>3. up' = up
  BY DEF OnRinging, Arrives, SetState, makerOnly, history
<1>4. up' \in Seq(Ups)
  BY <1>3 DEF NetworkOK
<1>5. (down # <<>> /\ down' = Tail(down))
  BY DEF OnRinging, Arrives, SetState, makerOnly, history
<1>6. down' \in Seq(Downs)
  BY <1>5, TailTypes DEF NetworkOK
<1>7. \A m : In(m, down') => In(m, down)
  BY <1>5, OldIn DEF NetworkOK
<1>8. In(Head(down), down)
  BY <1>5, OldIn DEF NetworkOK
<1>9. down = <<>> => down' = <<>>
  BY <1>5
<1>10. NetworkOK'
  BY <1>4, <1>6 DEF NetworkOK, AnswerInv, Callees, Ups, OnRinging, Arrives, SetState, makerOnly,
     history
<1>11. MediaInv'
  BY DEF SessionOK, ProcessOK, NetworkOK, MediaInv, OnRinging, Arrives, SetState, makerOnly, history
<1>12. LiveInv'
  BY DEF SessionOK, ProcessOK, NetworkOK, LiveInv, MediaInv, OpenAt, OnRinging, Arrives, SetState,
     makerOnly, history
<1>13. InviteInv'
  BY <1>3, <1>5, <1>7, <1>8, <1>9 DEF InviteInv, AnswerInv, InUp, InDown, OnRinging, Arrives,
     SetState, makerOnly, history
<1>14. AnswerInv'
  BY <1>3, <1>5, <1>7, <1>8, <1>9 DEF AnswerInv, InviteInv, InUp, InDown, Talked, NetworkOK,
     OnRinging, Arrives, SetState, makerOnly, history
<1>15. HangupInv'
  BY <1>3, <1>5, <1>7, <1>8, <1>9 DEF HangupInv, InviteInv, AnswerInv, InUp, Talked, OpenAt,
     ProcessOK, OnRinging, Arrives, SetState, makerOnly, history
<1>. QED BY <1>1, <1>2, <1>10, <1>11, <1>12, <1>13, <1>14, <1>15

(* OnOk keeps the invariant. *)
LEMMA OnOkKeeps == ASSUME IInv, OnOk PROVE IInv'
<1>. USE BoundsAssumption, EndersAssumption DEF IInv, TypeOK
<1>1. SessionOK'
  BY DEF SessionOK, States, OnOk, Arrives, makerOnly, history
<1>2. ProcessOK'
  BY DEF ProcessOK, MakerAt, EnderAt, OnOk, Arrives, makerOnly, history
<1>3. up' = up
  BY DEF OnOk, Arrives, makerOnly, history
<1>4. up' \in Seq(Ups)
  BY <1>3 DEF NetworkOK
<1>5. (down # <<>> /\ down' = Tail(down))
  BY DEF OnOk, Arrives, makerOnly, history
<1>6. down' \in Seq(Downs)
  BY <1>5, TailTypes DEF NetworkOK
<1>7. \A m : In(m, down') => In(m, down)
  BY <1>5, OldIn DEF NetworkOK
<1>8. In(Head(down), down)
  BY <1>5, OldIn DEF NetworkOK
<1>9. down = <<>> => down' = <<>>
  BY <1>5
<1>10. In(<<1, "ok">>, down)
  BY <1>8 DEF OnOk, Arrives, makerOnly, history
<1>11. NetworkOK'
  BY <1>4, <1>6 DEF NetworkOK, AnswerInv, Callees, Ups, OnOk, Arrives, makerOnly, history
<1>12. MediaInv'
  BY DEF SessionOK, ProcessOK, NetworkOK, MediaInv, OnOk, Arrives, makerOnly, history
<1>13. LiveInv'
  BY DEF SessionOK, ProcessOK, NetworkOK, LiveInv, MediaInv, OpenAt, OnOk, Arrives, makerOnly,
     history
<1>14. InviteInv'
  BY <1>3, <1>5, <1>7, <1>8, <1>9, <1>10 DEF InviteInv, AnswerInv, InUp, InDown, OnOk, Arrives,
     makerOnly, history
<1>15. AnswerInv'
  BY <1>3, <1>5, <1>7, <1>8, <1>9, <1>10 DEF AnswerInv, InviteInv, InUp, InDown, Talked,
     NetworkOK, OnOk, Arrives, makerOnly, history
<1>16. HangupInv'
  BY <1>3, <1>5, <1>7, <1>8, <1>9, <1>10 DEF HangupInv, InviteInv, AnswerInv, InUp, Talked,
     OpenAt, ProcessOK, OnOk, Arrives, makerOnly, history
<1>. QED BY <1>1, <1>2, <1>11, <1>12, <1>13, <1>14, <1>15, <1>16

(* OnRefused keeps the invariant. *)
LEMMA OnRefusedKeeps == ASSUME IInv, OnRefused PROVE IInv'
<1>. USE BoundsAssumption, EndersAssumption DEF IInv, TypeOK
<1>1. SessionOK'
  BY DEF SessionOK, States, OnRefused, Arrives, SetState, makerOnly, history
<1>2. ProcessOK'
  BY DEF ProcessOK, MakerAt, EnderAt, OnRefused, Arrives, SetState, makerOnly, history
<1>3. up' = up
  BY DEF OnRefused, Arrives, SetState, makerOnly, history
<1>4. up' \in Seq(Ups)
  BY <1>3 DEF NetworkOK
<1>5. (down # <<>> /\ down' = Tail(down))
  BY DEF OnRefused, Arrives, SetState, makerOnly, history
<1>6. down' \in Seq(Downs)
  BY <1>5, TailTypes DEF NetworkOK
<1>7. \A m : In(m, down') => In(m, down)
  BY <1>5, OldIn DEF NetworkOK
<1>8. In(Head(down), down)
  BY <1>5, OldIn DEF NetworkOK
<1>9. down = <<>> => down' = <<>>
  BY <1>5
<1>10. NetworkOK'
  BY <1>4, <1>6 DEF NetworkOK, AnswerInv, Callees, Ups, OnRefused, Arrives, SetState, makerOnly,
     history
<1>11. MediaInv'
  BY DEF SessionOK, ProcessOK, NetworkOK, MediaInv, OnRefused, Arrives, SetState, makerOnly, history
<1>12. LiveInv'
  BY DEF SessionOK, ProcessOK, NetworkOK, LiveInv, MediaInv, OpenAt, OnRefused, Arrives, SetState,
     makerOnly, history
<1>13. InviteInv'
  BY <1>3, <1>5, <1>7, <1>8, <1>9 DEF InviteInv, AnswerInv, InUp, InDown, OnRefused, Arrives,
     SetState, makerOnly, history
<1>14. AnswerInv'
  BY <1>3, <1>5, <1>7, <1>8, <1>9 DEF AnswerInv, InviteInv, InUp, InDown, Talked, NetworkOK,
     OnRefused, Arrives, SetState, makerOnly, history
<1>15. HangupInv'
  BY <1>3, <1>5, <1>7, <1>8, <1>9 DEF HangupInv, InviteInv, AnswerInv, InUp, Talked, OpenAt,
     ProcessOK, OnRefused, Arrives, SetState, makerOnly, history
<1>. QED BY <1>1, <1>2, <1>10, <1>11, <1>12, <1>13, <1>14, <1>15

(* OnChallenge keeps the invariant. *)
LEMMA OnChallengeKeeps == ASSUME IInv, OnChallenge PROVE IInv'
<1>. USE BoundsAssumption, EndersAssumption DEF IInv, TypeOK
<1>1. SessionOK'
  BY DEF SessionOK, States, OnChallenge, Arrives, makerOnly, history
<1>2. ProcessOK'
  BY DEF ProcessOK, MakerAt, EnderAt, OnChallenge, Arrives, makerOnly, history
<1>3. up' = up
  BY DEF OnChallenge, Arrives, makerOnly, history
<1>4. up' \in Seq(Ups)
  BY <1>3 DEF NetworkOK
<1>5. (down # <<>> /\ down' = Tail(down))
  BY DEF OnChallenge, Arrives, makerOnly, history
<1>6. down' \in Seq(Downs)
  BY <1>5, TailTypes DEF NetworkOK
<1>7. \A m : In(m, down') => In(m, down)
  BY <1>5, OldIn DEF NetworkOK
<1>8. In(Head(down), down)
  BY <1>5, OldIn DEF NetworkOK
<1>9. down = <<>> => down' = <<>>
  BY <1>5
<1>10. NetworkOK'
  BY <1>4, <1>6 DEF NetworkOK, AnswerInv, Callees, Ups, OnChallenge, Arrives, makerOnly, history
<1>11. MediaInv'
  BY DEF SessionOK, ProcessOK, NetworkOK, MediaInv, OnChallenge, Arrives, makerOnly, history
<1>12. LiveInv'
  BY DEF SessionOK, ProcessOK, NetworkOK, LiveInv, MediaInv, OpenAt, OnChallenge, Arrives,
     makerOnly, history
<1>13. InviteInv'
  BY <1>3, <1>5, <1>7, <1>8, <1>9 DEF InviteInv, AnswerInv, InUp, InDown, OnChallenge, Arrives,
     makerOnly, history
<1>14. AnswerInv'
  BY <1>3, <1>5, <1>7, <1>8, <1>9 DEF AnswerInv, InviteInv, InUp, InDown, Talked, NetworkOK,
     OnChallenge, Arrives, makerOnly, history
<1>15. HangupInv'
  BY <1>3, <1>5, <1>7, <1>8, <1>9 DEF HangupInv, InviteInv, AnswerInv, InUp, Talked, OpenAt,
     ProcessOK, OnChallenge, Arrives, makerOnly, history
<1>. QED BY <1>1, <1>2, <1>10, <1>11, <1>12, <1>13, <1>14, <1>15

(* SendAuth keeps the invariant. *)
LEMMA SendAuthKeeps == ASSUME IInv, SendAuth PROVE IInv'
<1>. USE BoundsAssumption, EndersAssumption DEF IInv, TypeOK
<1>1. SessionOK'
  BY DEF SessionOK, States, SendAuth, makerOnly, history
<1>2. ProcessOK'
  BY DEF ProcessOK, MakerAt, EnderAt, SendAuth, makerOnly, history
<1>3. up' = up \/ up' = Append(up, "INVITE2")
  BY DEF SendAuth, makerOnly, history
<1>4. "INVITE2" \in Ups
  BY DEF Ups
<1>5. up' \in Seq(Ups)
  BY <1>3, <1>4, UpIn DEF NetworkOK
<1>6. \A m : (In(m, up) => In(m, up')) /\ (In(m, up') => In(m, up) \/ m \in {"INVITE2"})
  BY <1>3, <1>4, UpIn DEF NetworkOK
<1>7. \A m : (m \notin {"INVITE2"} \/ ~In(m, up)) /\ Once(m, up) => Once(m, up')
  BY <1>3, <1>4, OnceIn DEF NetworkOK
<1>8. down' = down
  BY DEF SendAuth, makerOnly, history
<1>9. down' \in Seq(Downs)
  BY <1>8 DEF NetworkOK
<1>10. NetworkOK'
  BY <1>5, <1>9 DEF NetworkOK, AnswerInv, Callees, Ups, SendAuth, makerOnly, history
<1>11. MediaInv'
  BY DEF SessionOK, ProcessOK, NetworkOK, MediaInv, SendAuth, makerOnly, history
<1>12. LiveInv'
  BY DEF SessionOK, ProcessOK, NetworkOK, LiveInv, MediaInv, OpenAt, SendAuth, makerOnly, history
<1>13. InviteInv'
  BY <1>3, <1>4, <1>6, <1>7, <1>8 DEF InviteInv, AnswerInv, InUp, InDown, SendAuth, makerOnly,
     history
<1>14. AnswerInv'
  BY <1>3, <1>4, <1>6, <1>7, <1>8 DEF AnswerInv, InviteInv, InUp, InDown, Talked, NetworkOK,
     SendAuth, makerOnly, history
<1>15. HangupInv'
  BY <1>3, <1>4, <1>6, <1>7, <1>8 DEF HangupInv, InviteInv, AnswerInv, InUp, Talked, OpenAt,
     ProcessOK, SendAuth, makerOnly, history
<1>. QED BY <1>1, <1>2, <1>10, <1>11, <1>12, <1>13, <1>14, <1>15

(* AuthRings keeps the invariant. *)
LEMMA AuthRingsKeeps == ASSUME IInv, AuthRings PROVE IInv'
<1>. USE BoundsAssumption, EndersAssumption DEF IInv, TypeOK
<1>1. SessionOK'
  BY DEF SessionOK, States, AuthRings, Arrives, makerOnly, history
<1>2. ProcessOK'
  BY DEF ProcessOK, MakerAt, EnderAt, AuthRings, Arrives, makerOnly, history
<1>3. up' = up
  BY DEF AuthRings, Arrives, makerOnly, history
<1>4. up' \in Seq(Ups)
  BY <1>3 DEF NetworkOK
<1>5. (down # <<>> /\ down' = Tail(down))
  BY DEF AuthRings, Arrives, makerOnly, history
<1>6. down' \in Seq(Downs)
  BY <1>5, TailTypes DEF NetworkOK
<1>7. \A m : In(m, down') => In(m, down)
  BY <1>5, OldIn DEF NetworkOK
<1>8. In(Head(down), down)
  BY <1>5, OldIn DEF NetworkOK
<1>9. down = <<>> => down' = <<>>
  BY <1>5
<1>10. NetworkOK'
  BY <1>4, <1>6 DEF NetworkOK, AnswerInv, Callees, Ups, AuthRings, Arrives, makerOnly, history
<1>11. MediaInv'
  BY DEF SessionOK, ProcessOK, NetworkOK, MediaInv, AuthRings, Arrives, makerOnly, history
<1>12. LiveInv'
  BY DEF SessionOK, ProcessOK, NetworkOK, LiveInv, MediaInv, OpenAt, AuthRings, Arrives,
     makerOnly, history
<1>13. InviteInv'
  BY <1>3, <1>5, <1>7, <1>8, <1>9 DEF InviteInv, AnswerInv, InUp, InDown, AuthRings, Arrives,
     makerOnly, history
<1>14. AnswerInv'
  BY <1>3, <1>5, <1>7, <1>8, <1>9 DEF AnswerInv, InviteInv, InUp, InDown, Talked, NetworkOK,
     AuthRings, Arrives, makerOnly, history
<1>15. HangupInv'
  BY <1>3, <1>5, <1>7, <1>8, <1>9 DEF HangupInv, InviteInv, AnswerInv, InUp, Talked, OpenAt,
     ProcessOK, AuthRings, Arrives, makerOnly, history
<1>. QED BY <1>1, <1>2, <1>10, <1>11, <1>12, <1>13, <1>14, <1>15

(* AuthOk keeps the invariant. *)
LEMMA AuthOkKeeps == ASSUME IInv, AuthOk PROVE IInv'
<1>. USE BoundsAssumption, EndersAssumption DEF IInv, TypeOK
<1>1. SessionOK'
  BY DEF SessionOK, States, AuthOk, Arrives, makerOnly, history
<1>2. ProcessOK'
  BY DEF ProcessOK, MakerAt, EnderAt, AuthOk, Arrives, makerOnly, history
<1>3. up' = up
  BY DEF AuthOk, Arrives, makerOnly, history
<1>4. up' \in Seq(Ups)
  BY <1>3 DEF NetworkOK
<1>5. (down # <<>> /\ down' = Tail(down))
  BY DEF AuthOk, Arrives, makerOnly, history
<1>6. down' \in Seq(Downs)
  BY <1>5, TailTypes DEF NetworkOK
<1>7. \A m : In(m, down') => In(m, down)
  BY <1>5, OldIn DEF NetworkOK
<1>8. In(Head(down), down)
  BY <1>5, OldIn DEF NetworkOK
<1>9. down = <<>> => down' = <<>>
  BY <1>5
<1>10. In(<<2, "ok">>, down)
  BY <1>8 DEF AuthOk, Arrives, makerOnly, history
<1>11. NetworkOK'
  BY <1>4, <1>6 DEF NetworkOK, AnswerInv, Callees, Ups, AuthOk, Arrives, makerOnly, history
<1>12. MediaInv'
  BY DEF SessionOK, ProcessOK, NetworkOK, MediaInv, AuthOk, Arrives, makerOnly, history
<1>13. LiveInv'
  BY DEF SessionOK, ProcessOK, NetworkOK, LiveInv, MediaInv, OpenAt, AuthOk, Arrives, makerOnly,
     history
<1>14. InviteInv'
  BY <1>3, <1>5, <1>7, <1>8, <1>9, <1>10 DEF InviteInv, AnswerInv, InUp, InDown, AuthOk, Arrives,
     makerOnly, history
<1>15. AnswerInv'
  BY <1>3, <1>5, <1>7, <1>8, <1>9, <1>10 DEF AnswerInv, InviteInv, InUp, InDown, Talked,
     NetworkOK, AuthOk, Arrives, makerOnly, history
<1>16. HangupInv'
  BY <1>3, <1>5, <1>7, <1>8, <1>9, <1>10 DEF HangupInv, InviteInv, AnswerInv, InUp, Talked,
     OpenAt, ProcessOK, AuthOk, Arrives, makerOnly, history
<1>. QED BY <1>1, <1>2, <1>11, <1>12, <1>13, <1>14, <1>15, <1>16

(* AuthFails keeps the invariant. *)
LEMMA AuthFailsKeeps == ASSUME IInv, AuthFails PROVE IInv'
<1>. USE BoundsAssumption, EndersAssumption DEF IInv, TypeOK
<1>1. SessionOK'
  BY DEF SessionOK, States, AuthFails, Arrives, CtxDone, SetState, makerOnly, history
<1>2. ProcessOK'
  BY DEF ProcessOK, MakerAt, EnderAt, AuthFails, Arrives, CtxDone, SetState, makerOnly, history
<1>3. up' = up
  BY DEF AuthFails, Arrives, CtxDone, SetState, makerOnly, history
<1>4. up' \in Seq(Ups)
  BY <1>3 DEF NetworkOK
<1>5. (down # <<>> /\ down' = Tail(down)) \/ down' = down
  BY DEF AuthFails, Arrives, CtxDone, SetState, makerOnly, history
<1>6. down' \in Seq(Downs)
  BY <1>5, TailTypes DEF NetworkOK
<1>7. \A m : In(m, down') => In(m, down)
  BY <1>5, OldIn DEF NetworkOK
<1>8. down = <<>> => down' = <<>>
  BY <1>5
<1>9. NetworkOK'
  BY <1>4, <1>6 DEF NetworkOK, AnswerInv, Callees, Ups, AuthFails, Arrives, CtxDone, SetState,
     makerOnly, history
<1>10. MediaInv'
  BY DEF SessionOK, ProcessOK, NetworkOK, MediaInv, AuthFails, Arrives, CtxDone, SetState,
     makerOnly, history
<1>11. LiveInv'
  BY DEF SessionOK, ProcessOK, NetworkOK, LiveInv, MediaInv, OpenAt, AuthFails, Arrives, CtxDone,
     SetState, makerOnly, history
<1>12. InviteInv'
  BY <1>3, <1>5, <1>7, <1>8 DEF InviteInv, AnswerInv, InUp, InDown, AuthFails, Arrives, CtxDone,
     SetState, makerOnly, history
<1>13. AnswerInv'
  BY <1>3, <1>5, <1>7, <1>8 DEF AnswerInv, InviteInv, InUp, InDown, Talked, NetworkOK, AuthFails,
     Arrives, CtxDone, SetState, makerOnly, history
<1>14. HangupInv'
  BY <1>3, <1>5, <1>7, <1>8 DEF HangupInv, InviteInv, AnswerInv, InUp, Talked, OpenAt, ProcessOK,
     AuthFails, Arrives, CtxDone, SetState, makerOnly, history
<1>. QED BY <1>1, <1>2, <1>9, <1>10, <1>11, <1>12, <1>13, <1>14

(* AckOk keeps the invariant. *)
LEMMA AckOkKeeps == ASSUME IInv, AckOk PROVE IInv'
<1>. USE BoundsAssumption, EndersAssumption DEF IInv, TypeOK
<1>1. SessionOK'
  BY DEF SessionOK, States, AckOk, makerOnly, history
<1>2. ProcessOK'
  BY DEF ProcessOK, MakerAt, EnderAt, AckOk, makerOnly, history
<1>3. up' = up \/ up' = Append(up, "ACK")
  BY DEF AckOk, makerOnly, history
<1>4. "ACK" \in Ups
  BY DEF Ups
<1>5. up' \in Seq(Ups)
  BY <1>3, <1>4, UpIn DEF NetworkOK
<1>6. \A m : (In(m, up) => In(m, up')) /\ (In(m, up') => In(m, up) \/ m \in {"ACK"})
  BY <1>3, <1>4, UpIn DEF NetworkOK
<1>7. \A m : (m \notin {"ACK"} \/ ~In(m, up)) /\ Once(m, up) => Once(m, up')
  BY <1>3, <1>4, OnceIn DEF NetworkOK
<1>8. down' = down
  BY DEF AckOk, makerOnly, history
<1>9. down' \in Seq(Downs)
  BY <1>8 DEF NetworkOK
<1>10. NetworkOK'
  BY <1>5, <1>9 DEF NetworkOK, AnswerInv, Callees, Ups, AckOk, makerOnly, history
<1>11. MediaInv'
  BY DEF SessionOK, ProcessOK, NetworkOK, MediaInv, AckOk, makerOnly, history
<1>12. LiveInv'
  BY DEF SessionOK, ProcessOK, NetworkOK, LiveInv, MediaInv, OpenAt, AckOk, makerOnly, history
<1>13. InviteInv'
  BY <1>3, <1>4, <1>6, <1>7, <1>8 DEF InviteInv, AnswerInv, InUp, InDown, AckOk, makerOnly, history
<1>14. AnswerInv'
  BY <1>3, <1>4, <1>6, <1>7, <1>8 DEF AnswerInv, InviteInv, InUp, InDown, Talked, NetworkOK,
     AckOk, makerOnly, history
<1>15. HangupInv'
  BY <1>3, <1>4, <1>6, <1>7, <1>8 DEF HangupInv, InviteInv, AnswerInv, InUp, Talked, OpenAt,
     ProcessOK, AckOk, makerOnly, history
<1>. QED BY <1>1, <1>2, <1>10, <1>11, <1>12, <1>13, <1>14, <1>15

(* Activate keeps the invariant. *)
LEMMA ActivateKeeps == ASSUME IInv, Activate PROVE IInv'
<1>. USE BoundsAssumption, EndersAssumption DEF IInv, TypeOK
<1>1. SessionOK'
  BY DEF SessionOK, States, Activate, SetState, makerOnly, history
<1>2. ProcessOK'
  BY DEF ProcessOK, MakerAt, EnderAt, Activate, SetState, makerOnly, history
<1>3. up' = up
  BY DEF Activate, SetState, makerOnly, history
<1>4. up' \in Seq(Ups)
  BY <1>3 DEF NetworkOK
<1>5. down' = down
  BY DEF Activate, SetState, makerOnly, history
<1>6. down' \in Seq(Downs)
  BY <1>5 DEF NetworkOK
<1>7. NetworkOK'
  BY <1>4, <1>6 DEF NetworkOK, AnswerInv, Callees, Ups, Activate, SetState, makerOnly, history
<1>8. MediaInv'
  BY DEF SessionOK, ProcessOK, NetworkOK, MediaInv, Activate, SetState, makerOnly, history
<1>9. LiveInv'
  BY DEF SessionOK, ProcessOK, NetworkOK, LiveInv, MediaInv, OpenAt, Activate, SetState,
     makerOnly, history
<1>10. InviteInv'
  BY <1>3, <1>5 DEF InviteInv, AnswerInv, InUp, InDown, Activate, SetState, makerOnly, history
<1>11. AnswerInv'
  BY <1>3, <1>5 DEF AnswerInv, InviteInv, InUp, InDown, Talked, NetworkOK, Activate, SetState,
     makerOnly, history
<1>12. HangupInv'
  BY <1>3, <1>5 DEF HangupInv, InviteInv, AnswerInv, InUp, Talked, OpenAt, ProcessOK, Activate,
     SetState, makerOnly, history
<1>. QED BY <1>1, <1>2, <1>7, <1>8, <1>9, <1>10, <1>11, <1>12

(* TxDone keeps the invariant. *)
LEMMA TxDoneKeeps == ASSUME IInv, TxDone PROVE IInv'
<1>. USE BoundsAssumption, EndersAssumption DEF IInv, TypeOK
<1>1. SessionOK'
  BY DEF SessionOK, States, TxDone, SetState, makerOnly, history
<1>2. ProcessOK'
  BY DEF ProcessOK, MakerAt, EnderAt, TxDone, SetState, makerOnly, history
<1>3. up' = up
  BY DEF TxDone, SetState, makerOnly, history
<1>4. up' \in Seq(Ups)
  BY <1>3 DEF NetworkOK
<1>5. down' = down
  BY DEF TxDone, SetState, makerOnly, history
<1>6. down' \in Seq(Downs)
  BY <1>5 DEF NetworkOK
<1>7. NetworkOK'
  BY <1>4, <1>6 DEF NetworkOK, AnswerInv, Callees, Ups, TxDone, SetState, makerOnly, history
<1>8. MediaInv'
  BY DEF SessionOK, ProcessOK, NetworkOK, MediaInv, TxDone, SetState, makerOnly, history
<1>9. LiveInv'
  BY DEF SessionOK, ProcessOK, NetworkOK, LiveInv, MediaInv, OpenAt, TxDone, SetState, makerOnly,
     history
<1>10. InviteInv'
  BY <1>3, <1>5 DEF InviteInv, AnswerInv, InUp, InDown, TxDone, SetState, makerOnly, history
<1>11. AnswerInv'
  BY <1>3, <1>5 DEF AnswerInv, InviteInv, InUp, InDown, Talked, NetworkOK, TxDone, SetState,
     makerOnly, history
<1>12. HangupInv'
  BY <1>3, <1>5 DEF HangupInv, InviteInv, AnswerInv, InUp, Talked, OpenAt, ProcessOK, TxDone,
     SetState, makerOnly, history
<1>. QED BY <1>1, <1>2, <1>7, <1>8, <1>9, <1>10, <1>11, <1>12

(* CtxEnds keeps the invariant. *)
LEMMA CtxEndsKeeps == ASSUME IInv, CtxEnds PROVE IInv'
<1>. USE BoundsAssumption, EndersAssumption DEF IInv, TypeOK
<1>1. SessionOK'
  BY DEF SessionOK, States, CtxEnds, CtxDone, makerOnly, history
<1>2. ProcessOK'
  BY DEF ProcessOK, MakerAt, EnderAt, CtxEnds, CtxDone, makerOnly, history
<1>3. up' = up \/ up' = Append(up, "CANCEL1")
  BY DEF CtxEnds, CtxDone, makerOnly, history
<1>4. "CANCEL1" \in Ups
  BY DEF Ups
<1>5. up' \in Seq(Ups)
  BY <1>3, <1>4, UpIn DEF NetworkOK
<1>6. \A m : (In(m, up) => In(m, up')) /\ (In(m, up') => In(m, up) \/ m \in {"CANCEL1"})
  BY <1>3, <1>4, UpIn DEF NetworkOK
<1>7. \A m : (m \notin {"CANCEL1"} \/ ~In(m, up)) /\ Once(m, up) => Once(m, up')
  BY <1>3, <1>4, OnceIn DEF NetworkOK
<1>8. down' = down
  BY DEF CtxEnds, CtxDone, makerOnly, history
<1>9. down' \in Seq(Downs)
  BY <1>8 DEF NetworkOK
<1>10. NetworkOK'
  BY <1>5, <1>9 DEF NetworkOK, AnswerInv, Callees, Ups, CtxEnds, CtxDone, makerOnly, history
<1>11. MediaInv'
  BY DEF SessionOK, ProcessOK, NetworkOK, MediaInv, CtxEnds, CtxDone, makerOnly, history
<1>12. LiveInv'
  BY DEF SessionOK, ProcessOK, NetworkOK, LiveInv, MediaInv, OpenAt, CtxEnds, CtxDone, makerOnly,
     history
<1>13. InviteInv'
  BY <1>3, <1>4, <1>6, <1>7, <1>8 DEF InviteInv, AnswerInv, InUp, InDown, CtxEnds, CtxDone,
     makerOnly, history
<1>14. AnswerInv'
  BY <1>3, <1>4, <1>6, <1>7, <1>8 DEF AnswerInv, InviteInv, InUp, InDown, Talked, NetworkOK,
     CtxEnds, CtxDone, makerOnly, history
<1>15. HangupInv'
  BY <1>3, <1>4, <1>6, <1>7, <1>8 DEF HangupInv, InviteInv, AnswerInv, InUp, Talked, OpenAt,
     ProcessOK, CtxEnds, CtxDone, makerOnly, history
<1>. QED BY <1>1, <1>2, <1>10, <1>11, <1>12, <1>13, <1>14, <1>15

(* Cancelled keeps the invariant. *)
LEMMA CancelledKeeps == ASSUME IInv, Cancelled PROVE IInv'
<1>. USE BoundsAssumption, EndersAssumption DEF IInv, TypeOK
<1>1. SessionOK'
  BY DEF SessionOK, States, Cancelled, SetState, makerOnly, history
<1>2. ProcessOK'
  BY DEF ProcessOK, MakerAt, EnderAt, Cancelled, SetState, makerOnly, history
<1>3. up' = up
  BY DEF Cancelled, SetState, makerOnly, history
<1>4. up' \in Seq(Ups)
  BY <1>3 DEF NetworkOK
<1>5. down' = down
  BY DEF Cancelled, SetState, makerOnly, history
<1>6. down' \in Seq(Downs)
  BY <1>5 DEF NetworkOK
<1>7. NetworkOK'
  BY <1>4, <1>6 DEF NetworkOK, AnswerInv, Callees, Ups, Cancelled, SetState, makerOnly, history
<1>8. MediaInv'
  BY DEF SessionOK, ProcessOK, NetworkOK, MediaInv, Cancelled, SetState, makerOnly, history
<1>9. LiveInv'
  BY DEF SessionOK, ProcessOK, NetworkOK, LiveInv, MediaInv, OpenAt, Cancelled, SetState,
     makerOnly, history
<1>10. InviteInv'
  BY <1>3, <1>5 DEF InviteInv, AnswerInv, InUp, InDown, Cancelled, SetState, makerOnly, history
<1>11. AnswerInv'
  BY <1>3, <1>5 DEF AnswerInv, InviteInv, InUp, InDown, Talked, NetworkOK, Cancelled, SetState,
     makerOnly, history
<1>12. HangupInv'
  BY <1>3, <1>5 DEF HangupInv, InviteInv, AnswerInv, InUp, Talked, OpenAt, ProcessOK, Cancelled,
     SetState, makerOnly, history
<1>. QED BY <1>1, <1>2, <1>7, <1>8, <1>9, <1>10, <1>11, <1>12

(* Return keeps the invariant. *)
LEMMA ReturnKeeps == ASSUME IInv, Return PROVE IInv'
<1>. USE BoundsAssumption, EndersAssumption DEF IInv, TypeOK
<1>1. SessionOK'
  BY DEF SessionOK, States, Return, makerOnly, history
<1>2. ProcessOK'
  BY DEF ProcessOK, MakerAt, EnderAt, Return, makerOnly, history
<1>3. up' = up
  BY DEF Return, makerOnly, history
<1>4. up' \in Seq(Ups)
  BY <1>3 DEF NetworkOK
<1>5. down' = down
  BY DEF Return, makerOnly, history
<1>6. down' \in Seq(Downs)
  BY <1>5 DEF NetworkOK
<1>7. NetworkOK'
  BY <1>4, <1>6 DEF NetworkOK, AnswerInv, Callees, Ups, Return, makerOnly, history
<1>8. MediaInv'
  BY DEF SessionOK, ProcessOK, NetworkOK, MediaInv, Return, makerOnly, history
<1>9. LiveInv'
  BY DEF SessionOK, ProcessOK, NetworkOK, LiveInv, MediaInv, OpenAt, Return, makerOnly, history
<1>10. InviteInv'
  BY <1>3, <1>5 DEF InviteInv, AnswerInv, InUp, InDown, Return, makerOnly, history
<1>11. AnswerInv'
  BY <1>3, <1>5 DEF AnswerInv, InviteInv, InUp, InDown, Talked, NetworkOK, Return, makerOnly,
     history
<1>12. HangupInv'
  BY <1>3, <1>5 DEF HangupInv, InviteInv, AnswerInv, InUp, Talked, OpenAt, ProcessOK, Return,
     makerOnly, history
<1>. QED BY <1>1, <1>2, <1>7, <1>8, <1>9, <1>10, <1>11, <1>12

(* TimeOut keeps the invariant. *)
LEMMA TimeOutKeeps == ASSUME IInv, TimeOut PROVE IInv'
<1>. USE BoundsAssumption, EndersAssumption DEF IInv, TypeOK
<1>1. SessionOK'
  BY DEF SessionOK, States, TimeOut, session, history, network
<1>2. ProcessOK'
  BY DEF ProcessOK, MakerAt, EnderAt, TimeOut, session, history, network
<1>3. up' = up
  BY DEF TimeOut, session, history, network
<1>4. up' \in Seq(Ups)
  BY <1>3 DEF NetworkOK
<1>5. down' = down
  BY DEF TimeOut, session, history, network
<1>6. down' \in Seq(Downs)
  BY <1>5 DEF NetworkOK
<1>7. NetworkOK'
  BY <1>4, <1>6 DEF NetworkOK, AnswerInv, Callees, Ups, TimeOut, session, history, network
<1>8. MediaInv'
  BY DEF SessionOK, ProcessOK, NetworkOK, MediaInv, TimeOut, session, history, network
<1>9. LiveInv'
  BY DEF SessionOK, ProcessOK, NetworkOK, LiveInv, MediaInv, OpenAt, TimeOut, session, history,
     network
<1>10. InviteInv'
  BY <1>3, <1>5 DEF InviteInv, AnswerInv, InUp, InDown, TimeOut, session, history, network
<1>11. AnswerInv'
  BY <1>3, <1>5 DEF AnswerInv, InviteInv, InUp, InDown, Talked, NetworkOK, TimeOut, session,
     history, network
<1>12. HangupInv'
  BY <1>3, <1>5 DEF HangupInv, InviteInv, AnswerInv, InUp, Talked, OpenAt, ProcessOK, TimeOut,
     session, history, network
<1>. QED BY <1>1, <1>2, <1>7, <1>8, <1>9, <1>10, <1>11, <1>12

(* IceDown keeps the invariant. *)
LEMMA IceDownKeeps == ASSUME IInv, IceDown PROVE IInv'
<1>. USE BoundsAssumption, EndersAssumption DEF IInv, TypeOK
<1>1. SessionOK'
  BY DEF SessionOK, States, IceDown, TerminalCleanup, iceOnly, history, network
<1>2. ProcessOK'
  BY DEF ProcessOK, MakerAt, EnderAt, IceDown, TerminalCleanup, iceOnly, history, network
<1>3. up' = up
  BY DEF IceDown, TerminalCleanup, iceOnly, history, network
<1>4. up' \in Seq(Ups)
  BY <1>3 DEF NetworkOK
<1>5. down' = down
  BY DEF IceDown, TerminalCleanup, iceOnly, history, network
<1>6. down' \in Seq(Downs)
  BY <1>5 DEF NetworkOK
<1>7. NetworkOK'
  BY <1>4, <1>6 DEF NetworkOK, AnswerInv, Callees, Ups, IceDown, TerminalCleanup, iceOnly,
     history, network
<1>8. MediaInv'
  BY DEF SessionOK, ProcessOK, NetworkOK, MediaInv, IceDown, TerminalCleanup, iceOnly, history,
     network
<1>9. LiveInv'
  BY DEF SessionOK, ProcessOK, NetworkOK, LiveInv, MediaInv, OpenAt, IceDown, TerminalCleanup,
     iceOnly, history, network
<1>10. InviteInv'
  BY <1>3, <1>5 DEF InviteInv, AnswerInv, InUp, InDown, IceDown, TerminalCleanup, iceOnly,
     history, network
<1>11. AnswerInv'
  BY <1>3, <1>5 DEF AnswerInv, InviteInv, InUp, InDown, Talked, NetworkOK, IceDown,
     TerminalCleanup, iceOnly, history, network
<1>12. HangupInv'
  BY <1>3, <1>5 DEF HangupInv, InviteInv, AnswerInv, InUp, Talked, OpenAt, ProcessOK, IceDown,
     TerminalCleanup, iceOnly, history, network
<1>. QED BY <1>1, <1>2, <1>7, <1>8, <1>9, <1>10, <1>11, <1>12

(* IceUp keeps the invariant. *)
LEMMA IceUpKeeps == ASSUME IInv, IceUp PROVE IInv'
<1>. USE BoundsAssumption, EndersAssumption DEF IInv, TypeOK
<1>1. SessionOK'
  BY DEF SessionOK, States, IceUp, iceOnly, history, network
<1>2. ProcessOK'
  BY DEF ProcessOK, MakerAt, EnderAt, IceUp, iceOnly, history, network
<1>3. up' = up
  BY DEF IceUp, iceOnly, history, network
<1>4. up' \in Seq(Ups)
  BY <1>3 DEF NetworkOK
<1>5. down' = down
  BY DEF IceUp, iceOnly, history, network
<1>6. down' \in Seq(Downs)
  BY <1>5 DEF NetworkOK
<1>7. NetworkOK'
  BY <1>4, <1>6 DEF NetworkOK, AnswerInv, Callees, Ups, IceUp, iceOnly, history, network
<1>8. MediaInv'
  BY DEF SessionOK, ProcessOK, NetworkOK, MediaInv, IceUp, iceOnly, history, network
<1>9. LiveInv'
  BY DEF SessionOK, ProcessOK, NetworkOK, LiveInv, MediaInv, OpenAt, IceUp, iceOnly, history,
     network
<1>10. InviteInv'
  BY <1>3, <1>5 DEF InviteInv, AnswerInv, InUp, InDown, IceUp, iceOnly, history, network
<1>11. AnswerInv'
  BY <1>3, <1>5 DEF AnswerInv, InviteInv, InUp, InDown, Talked, NetworkOK, IceUp, iceOnly,
     history, network
<1>12. HangupInv'
  BY <1>3, <1>5 DEF HangupInv, InviteInv, AnswerInv, InUp, Talked, OpenAt, ProcessOK, IceUp,
     iceOnly, history, network
<1>. QED BY <1>1, <1>2, <1>7, <1>8, <1>9, <1>10, <1>11, <1>12

(* IceFails keeps the invariant. *)
LEMMA IceFailsKeeps == ASSUME IInv, IceFails PROVE IInv'
<1>. USE BoundsAssumption, EndersAssumption DEF IInv, TypeOK
<1>1. SessionOK'
  BY DEF SessionOK, States, IceFails, TerminalCleanup, SetState, iceOnly, history, network
<1>2. ProcessOK'
  BY DEF ProcessOK, MakerAt, EnderAt, IceFails, TerminalCleanup, SetState, iceOnly, history, network
<1>3. up' = up
  BY DEF IceFails, TerminalCleanup, SetState, iceOnly, history, network
<1>4. up' \in Seq(Ups)
  BY <1>3 DEF NetworkOK
<1>5. down' = down
  BY DEF IceFails, TerminalCleanup, SetState, iceOnly, history, network
<1>6. down' \in Seq(Downs)
  BY <1>5 DEF NetworkOK
<1>7. NetworkOK'
  BY <1>4, <1>6 DEF NetworkOK, AnswerInv, Callees, Ups, IceFails, TerminalCleanup, SetState,
     iceOnly, history, network
<1>8. MediaInv'
  BY DEF SessionOK, ProcessOK, NetworkOK, MediaInv, IceFails, TerminalCleanup, SetState, iceOnly,
     history, network
<1>9. LiveInv'
  BY DEF SessionOK, ProcessOK, NetworkOK, LiveInv, MediaInv, OpenAt, IceFails, TerminalCleanup,
     SetState, iceOnly, history, network
<1>10. InviteInv'
  BY <1>3, <1>5 DEF InviteInv, AnswerInv, InUp, InDown, IceFails, TerminalCleanup, SetState,
     iceOnly, history, network
<1>11. AnswerInv'
  BY <1>3, <1>5 DEF AnswerInv, InviteInv, InUp, InDown, Talked, NetworkOK, IceFails,
     TerminalCleanup, SetState, iceOnly, history, network
<1>12. HangupInv'
  BY <1>3, <1>5 DEF HangupInv, InviteInv, AnswerInv, InUp, Talked, OpenAt, ProcessOK, IceFails,
     TerminalCleanup, SetState, iceOnly, history, network
<1>. QED BY <1>1, <1>2, <1>7, <1>8, <1>9, <1>10, <1>11, <1>12

(* IceGraceEnds keeps the invariant. *)
LEMMA IceGraceEndsKeeps == ASSUME IInv, IceGraceEnds PROVE IInv'
<1>. USE BoundsAssumption, EndersAssumption DEF IInv, TypeOK
<1>1. SessionOK'
  BY DEF SessionOK, States, IceGraceEnds, SetState, iceOnly, history, network
<1>2. ProcessOK'
  BY DEF ProcessOK, MakerAt, EnderAt, IceGraceEnds, SetState, iceOnly, history, network
<1>3. up' = up
  BY DEF IceGraceEnds, SetState, iceOnly, history, network
<1>4. up' \in Seq(Ups)
  BY <1>3 DEF NetworkOK
<1>5. down' = down
  BY DEF IceGraceEnds, SetState, iceOnly, history, network
<1>6. down' \in Seq(Downs)
  BY <1>5 DEF NetworkOK
<1>7. NetworkOK'
  BY <1>4, <1>6 DEF NetworkOK, AnswerInv, Callees, Ups, IceGraceEnds, SetState, iceOnly, history,
     network
<1>8. MediaInv'
  BY DEF SessionOK, ProcessOK, NetworkOK, MediaInv, IceGraceEnds, SetState, iceOnly, history,
     network
<1>9. LiveInv'
  BY DEF SessionOK, ProcessOK, NetworkOK, LiveInv, MediaInv, OpenAt, IceGraceEnds, SetState,
     iceOnly, history, network
<1>10. InviteInv'
  BY <1>3, <1>5 DEF InviteInv, AnswerInv, InUp, InDown, IceGraceEnds, SetState, iceOnly, history,
     network
<1>11. AnswerInv'
  BY <1>3, <1>5 DEF AnswerInv, InviteInv, InUp, InDown, Talked, NetworkOK, IceGraceEnds, SetState,
     iceOnly, history, network
<1>12. HangupInv'
  BY <1>3, <1>5 DEF HangupInv, InviteInv, AnswerInv, InUp, Talked, OpenAt, ProcessOK,
     IceGraceEnds, SetState, iceOnly, history, network
<1>. QED BY <1>1, <1>2, <1>7, <1>8, <1>9, <1>10, <1>11, <1>12

(* Janitor keeps the invariant. *)
LEMMA JanitorKeeps == ASSUME IInv, Janitor PROVE IInv'
<1>. USE BoundsAssumption, EndersAssumption DEF IInv, TypeOK
<1>1. SessionOK'
  BY DEF SessionOK, States, Janitor, history, network
<1>2. ProcessOK'
  BY DEF ProcessOK, MakerAt, EnderAt, Janitor, history, network
<1>3. up' = up
  BY DEF Janitor, history, network
<1>4. up' \in Seq(Ups)
  BY <1>3 DEF NetworkOK
<1>5. down' = down
  BY DEF Janitor, history, network
<1>6. down' \in Seq(Downs)
  BY <1>5 DEF NetworkOK
<1>7. NetworkOK'
  BY <1>4, <1>6 DEF NetworkOK, AnswerInv, Callees, Ups, Janitor, history, network
<1>8. MediaInv'
  BY DEF SessionOK, ProcessOK, NetworkOK, MediaInv, Janitor, history, network
<1>9. LiveInv'
  BY DEF SessionOK, ProcessOK, NetworkOK, LiveInv, MediaInv, OpenAt, Janitor, history, network
<1>10. InviteInv'
  BY <1>3, <1>5 DEF InviteInv, AnswerInv, InUp, InDown, Janitor, history, network
<1>11. AnswerInv'
  BY <1>3, <1>5 DEF AnswerInv, InviteInv, InUp, InDown, Talked, NetworkOK, Janitor, history, network
<1>12. HangupInv'
  BY <1>3, <1>5 DEF HangupInv, InviteInv, AnswerInv, InUp, Talked, OpenAt, ProcessOK, Janitor,
     history, network
<1>. QED BY <1>1, <1>2, <1>7, <1>8, <1>9, <1>10, <1>11, <1>12

(* The callee reads a message: the invariant message by message. *)
LEMMA CalleeReadsKeeps == ASSUME IInv, CalleeReads PROVE IInv'
<1>. USE BoundsAssumption, EndersAssumption DEF IInv, TypeOK
<1>1. SessionOK'
  BY DEF SessionOK, States, CalleeReads, calleeOnly, session, history
<1>2. ProcessOK'
  BY DEF ProcessOK, MakerAt, EnderAt, CalleeReads, calleeOnly, session, history
<1>3. up # <<>> /\ up' = Tail(up) /\ UNCHANGED <<maker, session, ender, byeIn, saw, blips, lost>>
  BY DEF CalleeReads, calleeOnly, session, history
<1>4. up' \in Seq(Ups) /\ Head(up) \in Ups
  BY <1>3, TailTypes DEF NetworkOK
<1>5. \A m : In(m, up) <=> In(m, up') \/ m = Head(up)
  BY <1>3, OldIn DEF NetworkOK
<1>6. \A m : Once(m, up) => Once(m, up') /\ (Head(up) = m => ~In(m, up'))
  BY <1>3, OnceOut DEF NetworkOK
<1>7. MediaInv'
  BY <1>3 DEF MediaInv, session
<1>8. LiveInv'
  BY <1>3 DEF LiveInv, OpenAt, session
<1>9. maker' = maker /\ dialog' = dialog /\ callID' = callID /\ winner' = winner /\ blips' = blips
   /\ lost' = lost
  BY <1>3 DEF session
<1>10. ASSUME Head(up) = "INVITE1" PROVE NetworkOK' /\ InviteInv' /\ AnswerInv' /\ HangupInv'
  <2>1. callee' = "invited" /\ cseq' = 1 /\ down' = down
    BY <1>10 DEF CalleeReads, CalleeInvited
  <2>3. down' \in Seq(Downs) BY <2>1 DEF NetworkOK
  <2>7. NetworkOK'
    BY <1>4, <1>9, <2>1, <2>3 DEF NetworkOK, Callees
  <2>8. InviteInv'
    BY <2>1, <1>10, <1>5, <1>6, <1>9 DEF InviteInv, AnswerInv, InUp
  <2>9. AnswerInv'
    BY <2>1, <1>10, <1>5, <1>9 DEF AnswerInv, InviteInv, InUp, InDown, Talked, NetworkOK
  <2>10. HangupInv'
    BY <2>1, <1>10, <1>3, <1>5, <1>9 DEF HangupInv, AnswerInv, InviteInv, InUp, Talked, OpenAt
  <2>. QED BY <2>7, <2>8, <2>9, <2>10
<1>11. ASSUME Head(up) = "INVITE2" PROVE NetworkOK' /\ InviteInv' /\ AnswerInv' /\ HangupInv'
  <2>1. callee' = "invited" /\ cseq' = 2 /\ down' = down
    BY <1>11 DEF CalleeReads, CalleeInvited
  <2>3. down' \in Seq(Downs) BY <2>1 DEF NetworkOK
  <2>7. NetworkOK'
    BY <1>4, <1>9, <2>1, <2>3 DEF NetworkOK, Callees
  <2>8. InviteInv'
    BY <2>1, <1>11, <1>5, <1>6, <1>9 DEF InviteInv, AnswerInv, InUp
  <2>9. AnswerInv'
    BY <2>1, <1>11, <1>5, <1>9 DEF AnswerInv, InviteInv, InUp, InDown, Talked, NetworkOK
  <2>10. HangupInv'
    BY <2>1, <1>11, <1>3, <1>5, <1>9 DEF HangupInv, AnswerInv, InviteInv, InUp, Talked, OpenAt
  <2>. QED BY <2>7, <2>8, <2>9, <2>10
<1>12. ASSUME Head(up) = "CANCEL1" PROVE NetworkOK' /\ InviteInv' /\ AnswerInv' /\ HangupInv'
  <2>1. /\ cseq' = cseq
        /\ \/ callee' = callee /\ down' = down
           \/ callee \in {"invited", "ringing"} /\ callee' = "over" /\ down' = Append(down, <<1,
              "refused">>)
    BY <1>12 DEF CalleeReads, CalleeCancelled, Sends
  <2>2. <<1, "refused">> \in Downs BY DEF Downs
  <2>3. down' \in Seq(Downs) BY <2>1, <2>2, DownIn DEF NetworkOK
  <2>4. \A m : In(m, down') => In(m, down) \/ m = <<1, "refused">>
    BY <2>1, <2>2, DownIn DEF NetworkOK
  <2>5. \A d : In(<<1, d>>, down') => In(<<1, d>>, down) \/ d = "refused"
    BY <2>4
  <2>6. \A d : In(<<2, d>>, down') => In(<<2, d>>, down)
    BY <2>4
  <2>7. NetworkOK'
    BY <1>4, <1>9, <2>1, <2>3 DEF NetworkOK, Callees
  <2>8. InviteInv'
    BY <2>1, <2>5, <2>6, <1>12, <1>5, <1>6, <1>9 DEF InviteInv, AnswerInv, InUp
  <2>9. AnswerInv'
    BY <2>1, <2>5, <2>6, <1>12, <1>5, <1>9 DEF AnswerInv, InviteInv, InUp, InDown, Talked, NetworkOK
  <2>10. HangupInv'
    BY <2>1, <1>12, <1>3, <1>5, <1>9 DEF HangupInv, AnswerInv, InviteInv, InUp, Talked, OpenAt
  <2>. QED BY <2>7, <2>8, <2>9, <2>10
<1>13. ASSUME Head(up) = "CANCEL2" PROVE NetworkOK' /\ InviteInv' /\ AnswerInv' /\ HangupInv'
  <2>1. /\ cseq' = cseq
        /\ \/ callee' = callee /\ down' = down
           \/ callee \in {"invited", "ringing"} /\ callee' = "over" /\ down' = Append(down, <<2,
              "refused">>)
    BY <1>13 DEF CalleeReads, CalleeCancelled, Sends
  <2>2. <<2, "refused">> \in Downs BY DEF Downs
  <2>3. down' \in Seq(Downs) BY <2>1, <2>2, DownIn DEF NetworkOK
  <2>4. \A m : In(m, down') => In(m, down) \/ m = <<2, "refused">>
    BY <2>1, <2>2, DownIn DEF NetworkOK
  <2>5. \A d : In(<<1, d>>, down') => In(<<1, d>>, down) \/ d = "refused"
    BY <2>4
  <2>6. \A d : In(<<2, d>>, down') => In(<<2, d>>, down) \/ (d = "refused" /\ cseq = 2)
    BY <2>4, <1>13 DEF CalleeReads, CalleeCancelled
  <2>7. NetworkOK'
    BY <1>4, <1>9, <2>1, <2>3 DEF NetworkOK, Callees
  <2>8. InviteInv'
    BY <2>1, <2>5, <2>6, <1>13, <1>5, <1>6, <1>9 DEF InviteInv, AnswerInv, InUp
  <2>9. AnswerInv'
    BY <2>1, <2>5, <2>6, <1>13, <1>5, <1>9 DEF AnswerInv, InviteInv, InUp, InDown, Talked, NetworkOK
  <2>10. HangupInv'
    BY <2>1, <1>13, <1>3, <1>5, <1>9 DEF HangupInv, AnswerInv, InviteInv, InUp, Talked, OpenAt
  <2>. QED BY <2>7, <2>8, <2>9, <2>10
<1>14. ASSUME Head(up) = "ACK" PROVE NetworkOK' /\ InviteInv' /\ AnswerInv' /\ HangupInv'
  <2>1. cseq' = cseq /\ down' = down /\ callee' = IF callee \in {"answered"} THEN "talking" ELSE
     callee
    BY <1>14 DEF CalleeReads, CalleeMoves
  <2>3. down' \in Seq(Downs) BY <2>1 DEF NetworkOK
  <2>7. NetworkOK'
    BY <1>4, <1>9, <2>1, <2>3 DEF NetworkOK, Callees
  <2>8. InviteInv'
    BY <2>1, <1>14, <1>5, <1>6, <1>9 DEF InviteInv, AnswerInv, InUp
  <2>9. AnswerInv'
    BY <2>1, <1>14, <1>5, <1>9 DEF AnswerInv, InviteInv, InUp, InDown, Talked, NetworkOK
  <2>10. HangupInv'
    BY <2>1, <1>14, <1>3, <1>5, <1>9 DEF HangupInv, AnswerInv, InviteInv, InUp, Talked, OpenAt
  <2>. QED BY <2>7, <2>8, <2>9, <2>10
<1>15. ASSUME Head(up) = "BYE" PROVE NetworkOK' /\ InviteInv' /\ AnswerInv' /\ HangupInv'
  <2>1. cseq' = cseq /\ down' = down /\ callee' = IF callee \in {"answered", "talking"} THEN
     "over" ELSE callee
    BY <1>15 DEF CalleeReads, CalleeMoves
  <2>3. down' \in Seq(Downs) BY <2>1 DEF NetworkOK
  <2>7. NetworkOK'
    BY <1>4, <1>9, <2>1, <2>3 DEF NetworkOK, Callees
  <2>8. InviteInv'
    BY <2>1, <1>15, <1>5, <1>6, <1>9 DEF InviteInv, AnswerInv, InUp
  <2>9. AnswerInv'
    BY <2>1, <1>15, <1>5, <1>9 DEF AnswerInv, InviteInv, InUp, InDown, Talked, NetworkOK
  <2>10. HangupInv'
    BY <2>1, <1>15, <1>3, <1>5, <1>9 DEF HangupInv, AnswerInv, InviteInv, InUp, Talked, OpenAt
  <2>. QED BY <2>7, <2>8, <2>9, <2>10
<1>16. NetworkOK' /\ InviteInv' /\ AnswerInv' /\ HangupInv'
  BY <1>4, <1>10, <1>11, <1>12, <1>13, <1>14, <1>15 DEF Ups
<1>. QED BY <1>1, <1>2, <1>7, <1>8, <1>16

(* Unhandled keeps the invariant. *)
LEMMA UnhandledKeeps == ASSUME IInv, Unhandled PROVE IInv'
<1>. USE BoundsAssumption, EndersAssumption DEF IInv, TypeOK
<1>1. SessionOK'
  BY DEF SessionOK, States, Unhandled, calleeOnly, session, history
<1>2. ProcessOK'
  BY DEF ProcessOK, MakerAt, EnderAt, Unhandled, calleeOnly, session, history
<1>3. up' = up \/ up' = Append(up, "ACK")
  BY DEF Unhandled, calleeOnly, session, history
<1>4. "ACK" \in Ups
  BY DEF Ups
<1>5. up' \in Seq(Ups)
  BY <1>3, <1>4, UpIn DEF NetworkOK
<1>6. \A m : (In(m, up) => In(m, up')) /\ (In(m, up') => In(m, up) \/ m \in {"ACK"})
  BY <1>3, <1>4, UpIn DEF NetworkOK
<1>7. \A m : (m \notin {"ACK"} \/ ~In(m, up)) /\ Once(m, up) => Once(m, up')
  BY <1>3, <1>4, OnceIn DEF NetworkOK
<1>8. (down # <<>> /\ down' = Tail(down))
  BY DEF Unhandled, calleeOnly, session, history
<1>9. down' \in Seq(Downs)
  BY <1>8, TailTypes DEF NetworkOK
<1>10. \A m : In(m, down') => In(m, down)
  BY <1>8, OldIn DEF NetworkOK
<1>11. In(Head(down), down)
  BY <1>8, OldIn DEF NetworkOK
<1>12. down = <<>> => down' = <<>>
  BY <1>8
<1>13. NetworkOK'
  BY <1>5, <1>9 DEF NetworkOK, AnswerInv, Callees, Ups, Unhandled, calleeOnly, session, history
<1>14. MediaInv'
  BY DEF SessionOK, ProcessOK, NetworkOK, MediaInv, Unhandled, calleeOnly, session, history
<1>15. LiveInv'
  BY DEF SessionOK, ProcessOK, NetworkOK, LiveInv, MediaInv, OpenAt, Unhandled, calleeOnly,
     session, history
<1>16. InviteInv'
  BY <1>3, <1>4, <1>6, <1>7, <1>8, <1>10, <1>11, <1>12 DEF InviteInv, AnswerInv, InUp, InDown,
     Unhandled, calleeOnly, session, history
<1>17. AnswerInv'
  BY <1>3, <1>4, <1>6, <1>7, <1>8, <1>10, <1>11, <1>12 DEF AnswerInv, InviteInv, InUp, InDown,
     Talked, NetworkOK, Unhandled, calleeOnly, session, history
<1>18. HangupInv'
  BY <1>3, <1>4, <1>6, <1>7, <1>8, <1>10, <1>11, <1>12 DEF HangupInv, InviteInv, AnswerInv, InUp,
     Talked, OpenAt, ProcessOK, Unhandled, calleeOnly, session, history
<1>. QED BY <1>1, <1>2, <1>13, <1>14, <1>15, <1>16, <1>17, <1>18

(* ByeIn keeps the invariant. *)
LEMMA ByeInKeeps == ASSUME IInv, ByeIn PROVE IInv'
<1>. USE BoundsAssumption, EndersAssumption DEF IInv, TypeOK
<1>1. SessionOK'
  BY DEF SessionOK, States, ByeIn, SetState, history
<1>2. ProcessOK'
  BY DEF ProcessOK, MakerAt, EnderAt, ByeIn, SetState, history
<1>3. up' = up
  BY DEF ByeIn, SetState, history
<1>4. up' \in Seq(Ups)
  BY <1>3 DEF NetworkOK
<1>5. (down # <<>> /\ down' = Tail(down))
  BY DEF ByeIn, SetState, history
<1>6. down' \in Seq(Downs)
  BY <1>5, TailTypes DEF NetworkOK
<1>7. \A m : In(m, down') => In(m, down)
  BY <1>5, OldIn DEF NetworkOK
<1>8. In(Head(down), down)
  BY <1>5, OldIn DEF NetworkOK
<1>9. down = <<>> => down' = <<>>
  BY <1>5
<1>10. NetworkOK'
  BY <1>4, <1>6 DEF NetworkOK, AnswerInv, Callees, Ups, ByeIn, SetState, history
<1>11. MediaInv'
  BY DEF SessionOK, ProcessOK, NetworkOK, MediaInv, ByeIn, SetState, history
<1>12. LiveInv'
  BY DEF SessionOK, ProcessOK, NetworkOK, LiveInv, MediaInv, OpenAt, ByeIn, SetState, history
<1>13. InviteInv'
  BY <1>3, <1>5, <1>7, <1>8, <1>9 DEF InviteInv, AnswerInv, InUp, InDown, ByeIn, SetState, history
<1>14. AnswerInv'
  BY <1>3, <1>5, <1>7, <1>8, <1>9 DEF AnswerInv, InviteInv, InUp, InDown, Talked, NetworkOK,
     ByeIn, SetState, history
<1>15. HangupInv'
  BY <1>3, <1>5, <1>7, <1>8, <1>9 DEF HangupInv, InviteInv, AnswerInv, InUp, Talked, OpenAt,
     ProcessOK, ByeIn, SetState, history
<1>. QED BY <1>1, <1>2, <1>10, <1>11, <1>12, <1>13, <1>14, <1>15

(* ByeClean keeps the invariant. *)
LEMMA ByeCleanKeeps == ASSUME IInv, ByeClean PROVE IInv'
<1>. USE BoundsAssumption, EndersAssumption DEF IInv, TypeOK
<1>1. SessionOK'
  BY DEF SessionOK, States, ByeClean, SetState, history
<1>2. ProcessOK'
  BY DEF ProcessOK, MakerAt, EnderAt, ByeClean, SetState, history
<1>3. up' = up
  BY DEF ByeClean, SetState, history
<1>4. up' \in Seq(Ups)
  BY <1>3 DEF NetworkOK
<1>5. down' = down
  BY DEF ByeClean, SetState, history
<1>6. down' \in Seq(Downs)
  BY <1>5 DEF NetworkOK
<1>7. NetworkOK'
  BY <1>4, <1>6 DEF NetworkOK, AnswerInv, Callees, Ups, ByeClean, SetState, history
<1>8. MediaInv'
  BY DEF SessionOK, ProcessOK, NetworkOK, MediaInv, ByeClean, SetState, history
<1>9. LiveInv'
  BY DEF SessionOK, ProcessOK, NetworkOK, LiveInv, MediaInv, OpenAt, ByeClean, SetState, history
<1>10. InviteInv'
  BY <1>3, <1>5 DEF InviteInv, AnswerInv, InUp, InDown, ByeClean, SetState, history
<1>11. AnswerInv'
  BY <1>3, <1>5 DEF AnswerInv, InviteInv, InUp, InDown, Talked, NetworkOK, ByeClean, SetState,
     history
<1>12. HangupInv'
  BY <1>3, <1>5 DEF HangupInv, InviteInv, AnswerInv, InUp, Talked, OpenAt, ProcessOK, ByeClean,
     SetState, history
<1>. QED BY <1>1, <1>2, <1>7, <1>8, <1>9, <1>10, <1>11, <1>12

(* Loses keeps the invariant. *)
LEMMA LosesKeeps == ASSUME IInv, Loses PROVE IInv'
<1>. USE BoundsAssumption, EndersAssumption DEF IInv, TypeOK
<1>1. SessionOK'
  BY DEF SessionOK, States, Loses, calleeOnly, session, history
<1>2. ProcessOK'
  BY DEF ProcessOK, MakerAt, EnderAt, Loses, calleeOnly, session, history
<1>3. up # <<>> /\ up' = Tail(up)
  BY DEF Loses, calleeOnly, session, history
<1>4. up' \in Seq(Ups) /\ Head(up) \in Ups
  BY <1>3, TailTypes DEF NetworkOK
<1>5. \A m : In(m, up) <=> In(m, up') \/ m = Head(up)
  BY <1>3, OldIn DEF NetworkOK
<1>6. \A m : Once(m, up) => Once(m, up') /\ (Head(up) = m => ~In(m, up'))
  BY <1>3, OnceOut DEF NetworkOK
<1>7. down' = down
  BY DEF Loses, calleeOnly, session, history
<1>8. down' \in Seq(Downs)
  BY <1>7 DEF NetworkOK
<1>9. NetworkOK'
  BY <1>4, <1>8 DEF NetworkOK, AnswerInv, Callees, Ups, Loses, calleeOnly, session, history
<1>10. MediaInv'
  BY DEF SessionOK, ProcessOK, NetworkOK, MediaInv, Loses, calleeOnly, session, history
<1>11. LiveInv'
  BY DEF SessionOK, ProcessOK, NetworkOK, LiveInv, MediaInv, OpenAt, Loses, calleeOnly, session,
     history
<1>12. InviteInv'
  BY <1>3, <1>5, <1>6, <1>4, <1>7 DEF InviteInv, AnswerInv, InUp, InDown, Loses, calleeOnly,
     session, history
<1>13. AnswerInv'
  BY <1>3, <1>5, <1>6, <1>4, <1>7 DEF AnswerInv, InviteInv, InUp, InDown, Talked, NetworkOK,
     Loses, calleeOnly, session, history
<1>14. HangupInv'
  BY <1>3, <1>5, <1>6, <1>4, <1>7 DEF HangupInv, InviteInv, AnswerInv, InUp, Talked, OpenAt,
     ProcessOK, Loses, calleeOnly, session, history
<1>. QED BY <1>1, <1>2, <1>9, <1>10, <1>11, <1>12, <1>13, <1>14

(* CalleeRings keeps the invariant. *)
LEMMA CalleeRingsKeeps == ASSUME IInv, CalleeRings PROVE IInv'
<1>. USE BoundsAssumption, EndersAssumption DEF IInv, TypeOK
<1>1. SessionOK'
  BY DEF SessionOK, States, CalleeRings, CalleeSays, Sends, calleeOnly, session, history
<1>2. ProcessOK'
  BY DEF ProcessOK, MakerAt, EnderAt, CalleeRings, CalleeSays, Sends, calleeOnly, session, history
<1>3. up' = up
  BY DEF CalleeRings, CalleeSays, Sends, calleeOnly, session, history
<1>4. up' \in Seq(Ups)
  BY <1>3 DEF NetworkOK
<1>5. cseq \in 1..2 /\ down' = Append(down, <<cseq, "ringing">>)
  BY DEF NetworkOK, AnswerInv, CalleeRings, CalleeSays, Sends, calleeOnly, session, history
<1>6. <<cseq, "ringing">> \in Downs
  BY <1>5 DEF Downs
<1>7. down' \in Seq(Downs)
  BY <1>5, <1>6, DownIn DEF NetworkOK
<1>8. \A m : In(m, down') => In(m, down) \/ m = <<cseq, "ringing">>
  BY <1>6, <1>5, DownIn DEF NetworkOK
<1>9. \A d : In(<<1, d>>, down') => In(<<1, d>>, down) \/ (cseq = 1 /\ d = "ringing")
  BY <1>8
<1>10. \A d : In(<<2, d>>, down') => In(<<2, d>>, down) \/ (cseq = 2 /\ d = "ringing")
  BY <1>8
<1>11. NetworkOK'
  BY <1>4, <1>7 DEF NetworkOK, AnswerInv, Callees, Ups, CalleeRings, CalleeSays, Sends,
     calleeOnly, session, history
<1>12. MediaInv'
  BY DEF SessionOK, ProcessOK, NetworkOK, MediaInv, CalleeRings, CalleeSays, Sends, calleeOnly,
     session, history
<1>13. LiveInv'
  BY DEF SessionOK, ProcessOK, NetworkOK, LiveInv, MediaInv, OpenAt, CalleeRings, CalleeSays,
     Sends, calleeOnly, session, history
<1>14. InviteInv'
  BY <1>3, <1>5, <1>9, <1>10 DEF InviteInv, AnswerInv, InUp, InDown, CalleeRings, CalleeSays,
     Sends, calleeOnly, session, history
<1>15. UNCHANGED <<cseq, maker, dialog>> /\ callee = "invited" /\ callee' # "none"
  BY DEF CalleeRings, CalleeSays, Sends, calleeOnly, session, history
<1>16. (In(<<1, "ok">>, down) => cseq = 2) /\ ~In(<<2, "ok">>, down) /\ ~dialog /\ maker \notin
   {"ack", "activate"}
  BY <1>15 DEF AnswerInv, InDown, Talked
<1>17. (In(<<1, "ok">>, down') => cseq = 2) /\ ~In(<<2, "ok">>, down')
  BY <1>16, <1>10, <1>9
<1>18. cseq < 2 => \A d \in {"ringing", "ok", "auth", "refused"} : ~In(<<2, d>>, down)
  BY DEF AnswerInv, InDown
<1>19. cseq < 2 => cseq # 2
  BY DEF NetworkOK
<1>20. cseq' < 2 => \A d \in {"ringing", "ok", "auth", "refused"} : ~In(<<2, d>>, down')
  BY <1>10, <1>15, <1>18, <1>19, Zenon
<1>21. cseq > 0
  BY <1>15 DEF AnswerInv
<1>22. AnswerInv'
  BY <1>15, <1>16, <1>17, <1>20, <1>21, Zenon DEF AnswerInv, InDown
<1>23. HangupInv'
  BY <1>3, <1>5, <1>9, <1>10 DEF HangupInv, InviteInv, AnswerInv, InUp, Talked, OpenAt, ProcessOK,
     CalleeRings, CalleeSays, Sends, calleeOnly, session, history
<1>. QED BY <1>1, <1>2, <1>11, <1>12, <1>13, <1>14, <1>22, <1>23

(* CalleeAnswers keeps the invariant. *)
LEMMA CalleeAnswersKeeps == ASSUME IInv, CalleeAnswers PROVE IInv'
<1>. USE BoundsAssumption, EndersAssumption DEF IInv, TypeOK
<1>1. SessionOK'
  BY DEF SessionOK, States, CalleeAnswers, CalleeSays, Sends, calleeOnly, session, history
<1>2. ProcessOK'
  BY DEF ProcessOK, MakerAt, EnderAt, CalleeAnswers, CalleeSays, Sends, calleeOnly, session, history
<1>3. up' = up
  BY DEF CalleeAnswers, CalleeSays, Sends, calleeOnly, session, history
<1>4. up' \in Seq(Ups)
  BY <1>3 DEF NetworkOK
<1>5. cseq \in 1..2 /\ down' = Append(down, <<cseq, "ok">>)
  BY DEF NetworkOK, AnswerInv, CalleeAnswers, CalleeSays, Sends, calleeOnly, session, history
<1>6. <<cseq, "ok">> \in Downs
  BY <1>5 DEF Downs
<1>7. down' \in Seq(Downs)
  BY <1>5, <1>6, DownIn DEF NetworkOK
<1>8. \A m : In(m, down') => In(m, down) \/ m = <<cseq, "ok">>
  BY <1>6, <1>5, DownIn DEF NetworkOK
<1>9. \A d : In(<<1, d>>, down') => In(<<1, d>>, down) \/ (cseq = 1 /\ d = "ok")
  BY <1>8
<1>10. \A d : In(<<2, d>>, down') => In(<<2, d>>, down) \/ (cseq = 2 /\ d = "ok")
  BY <1>8
<1>11. NetworkOK'
  BY <1>4, <1>7 DEF NetworkOK, AnswerInv, Callees, Ups, CalleeAnswers, CalleeSays, Sends,
     calleeOnly, session, history
<1>12. MediaInv'
  BY DEF SessionOK, ProcessOK, NetworkOK, MediaInv, CalleeAnswers, CalleeSays, Sends, calleeOnly,
     session, history
<1>13. LiveInv'
  BY DEF SessionOK, ProcessOK, NetworkOK, LiveInv, MediaInv, OpenAt, CalleeAnswers, CalleeSays,
     Sends, calleeOnly, session, history
<1>14. InviteInv'
  BY <1>3, <1>5, <1>9, <1>10 DEF InviteInv, AnswerInv, InUp, InDown, CalleeAnswers, CalleeSays,
     Sends, calleeOnly, session, history
<1>15. callee' \in Talked /\ callee' # "none" /\ cseq' = cseq
  BY DEF Talked, CalleeAnswers, CalleeSays, Sends, calleeOnly, session, history
<1>16. cseq < 2 => \A d \in {"ringing", "ok", "auth", "refused"} : ~In(<<2, d>>, down)
  BY DEF AnswerInv, InDown
<1>17. cseq < 2 => cseq # 2
  BY DEF NetworkOK
<1>18. cseq' < 2 => \A d \in {"ringing", "ok", "auth", "refused"} : ~In(<<2, d>>, down')
  BY <1>10, <1>15, <1>16, <1>17, Zenon
<1>19. callee # "none" => cseq > 0
  BY DEF AnswerInv
<1>20. callee # "none"
  BY DEF CalleeAnswers, CalleeSays, Sends, calleeOnly, session, history
<1>21. AnswerInv'
  BY <1>18, <1>15, <1>19, <1>20, Zenon DEF AnswerInv, InDown
<1>22. HangupInv'
  BY <1>3, <1>5, <1>9, <1>10 DEF HangupInv, InviteInv, AnswerInv, InUp, Talked, OpenAt, ProcessOK,
     CalleeAnswers, CalleeSays, Sends, calleeOnly, session, history
<1>. QED BY <1>1, <1>2, <1>11, <1>12, <1>13, <1>14, <1>21, <1>22

(* CalleeRefuses keeps the invariant. *)
LEMMA CalleeRefusesKeeps == ASSUME IInv, CalleeRefuses PROVE IInv'
<1>. USE BoundsAssumption, EndersAssumption DEF IInv, TypeOK
<1>1. SessionOK'
  BY DEF SessionOK, States, CalleeRefuses, CalleeSays, Sends, calleeOnly, session, history
<1>2. ProcessOK'
  BY DEF ProcessOK, MakerAt, EnderAt, CalleeRefuses, CalleeSays, Sends, calleeOnly, session, history
<1>3. up' = up
  BY DEF CalleeRefuses, CalleeSays, Sends, calleeOnly, session, history
<1>4. up' \in Seq(Ups)
  BY <1>3 DEF NetworkOK
<1>5. cseq \in 1..2 /\ down' = Append(down, <<cseq, "refused">>)
  BY DEF NetworkOK, AnswerInv, CalleeRefuses, CalleeSays, Sends, calleeOnly, session, history
<1>6. <<cseq, "refused">> \in Downs
  BY <1>5 DEF Downs
<1>7. down' \in Seq(Downs)
  BY <1>5, <1>6, DownIn DEF NetworkOK
<1>8. \A m : In(m, down') => In(m, down) \/ m = <<cseq, "refused">>
  BY <1>6, <1>5, DownIn DEF NetworkOK
<1>9. \A d : In(<<1, d>>, down') => In(<<1, d>>, down) \/ (cseq = 1 /\ d = "refused")
  BY <1>8
<1>10. \A d : In(<<2, d>>, down') => In(<<2, d>>, down) \/ (cseq = 2 /\ d = "refused")
  BY <1>8
<1>11. NetworkOK'
  BY <1>4, <1>7 DEF NetworkOK, AnswerInv, Callees, Ups, CalleeRefuses, CalleeSays, Sends,
     calleeOnly, session, history
<1>12. MediaInv'
  BY DEF SessionOK, ProcessOK, NetworkOK, MediaInv, CalleeRefuses, CalleeSays, Sends, calleeOnly,
     session, history
<1>13. LiveInv'
  BY DEF SessionOK, ProcessOK, NetworkOK, LiveInv, MediaInv, OpenAt, CalleeRefuses, CalleeSays,
     Sends, calleeOnly, session, history
<1>14. InviteInv'
  BY <1>3, <1>5, <1>9, <1>10 DEF InviteInv, AnswerInv, InUp, InDown, CalleeRefuses, CalleeSays,
     Sends, calleeOnly, session, history
<1>15. callee' \in Talked /\ callee' # "none" /\ cseq' = cseq
  BY DEF Talked, CalleeRefuses, CalleeSays, Sends, calleeOnly, session, history
<1>16. cseq < 2 => \A d \in {"ringing", "ok", "auth", "refused"} : ~In(<<2, d>>, down)
  BY DEF AnswerInv, InDown
<1>17. cseq < 2 => cseq # 2
  BY DEF NetworkOK
<1>18. cseq' < 2 => \A d \in {"ringing", "ok", "auth", "refused"} : ~In(<<2, d>>, down')
  BY <1>10, <1>15, <1>16, <1>17, Zenon
<1>19. callee # "none" => cseq > 0
  BY DEF AnswerInv
<1>20. callee # "none"
  BY DEF CalleeRefuses, CalleeSays, Sends, calleeOnly, session, history
<1>21. AnswerInv'
  BY <1>18, <1>15, <1>19, <1>20, Zenon DEF AnswerInv, InDown
<1>22. HangupInv'
  BY <1>3, <1>5, <1>9, <1>10 DEF HangupInv, InviteInv, AnswerInv, InUp, Talked, OpenAt, ProcessOK,
     CalleeRefuses, CalleeSays, Sends, calleeOnly, session, history
<1>. QED BY <1>1, <1>2, <1>11, <1>12, <1>13, <1>14, <1>21, <1>22

(* CalleeChallenges keeps the invariant. *)
LEMMA CalleeChallengesKeeps == ASSUME IInv, CalleeChallenges PROVE IInv'
<1>. USE BoundsAssumption, EndersAssumption DEF IInv, TypeOK
<1>1. SessionOK'
  BY DEF SessionOK, States, CalleeChallenges, CalleeSays, Sends, calleeOnly, session, history
<1>2. ProcessOK'
  BY DEF ProcessOK, MakerAt, EnderAt, CalleeChallenges, CalleeSays, Sends, calleeOnly, session,
     history
<1>3. up' = up
  BY DEF CalleeChallenges, CalleeSays, Sends, calleeOnly, session, history
<1>4. up' \in Seq(Ups)
  BY <1>3 DEF NetworkOK
<1>5. cseq \in 1..2 /\ down' = Append(down, <<cseq, "auth">>)
  BY DEF NetworkOK, AnswerInv, CalleeChallenges, CalleeSays, Sends, calleeOnly, session, history
<1>6. <<cseq, "auth">> \in Downs
  BY <1>5 DEF Downs
<1>7. down' \in Seq(Downs)
  BY <1>5, <1>6, DownIn DEF NetworkOK
<1>8. \A m : In(m, down') => In(m, down) \/ m = <<cseq, "auth">>
  BY <1>6, <1>5, DownIn DEF NetworkOK
<1>9. \A d : In(<<1, d>>, down') => In(<<1, d>>, down) \/ (cseq = 1 /\ d = "auth")
  BY <1>8
<1>10. \A d : In(<<2, d>>, down') => In(<<2, d>>, down) \/ (cseq = 2 /\ d = "auth")
  BY <1>8
<1>11. NetworkOK'
  BY <1>4, <1>7 DEF NetworkOK, AnswerInv, Callees, Ups, CalleeChallenges, CalleeSays, Sends,
     calleeOnly, session, history
<1>12. MediaInv'
  BY DEF SessionOK, ProcessOK, NetworkOK, MediaInv, CalleeChallenges, CalleeSays, Sends,
     calleeOnly, session, history
<1>13. LiveInv'
  BY DEF SessionOK, ProcessOK, NetworkOK, LiveInv, MediaInv, OpenAt, CalleeChallenges, CalleeSays,
     Sends, calleeOnly, session, history
<1>14. InviteInv'
  BY <1>3, <1>5, <1>9, <1>10 DEF InviteInv, AnswerInv, InUp, InDown, CalleeChallenges, CalleeSays,
     Sends, calleeOnly, session, history
<1>15. UNCHANGED <<cseq, maker, dialog>> /\ callee = "invited" /\ callee' # "none"
  BY DEF CalleeChallenges, CalleeSays, Sends, calleeOnly, session, history
<1>16. (In(<<1, "ok">>, down) => cseq = 2) /\ ~In(<<2, "ok">>, down) /\ ~dialog /\ maker \notin
   {"ack", "activate"}
  BY <1>15 DEF AnswerInv, InDown, Talked
<1>17. (In(<<1, "ok">>, down') => cseq = 2) /\ ~In(<<2, "ok">>, down')
  BY <1>16, <1>10, <1>9
<1>18. cseq < 2 => \A d \in {"ringing", "ok", "auth", "refused"} : ~In(<<2, d>>, down)
  BY DEF AnswerInv, InDown
<1>19. cseq < 2 => cseq # 2
  BY DEF NetworkOK
<1>20. cseq' < 2 => \A d \in {"ringing", "ok", "auth", "refused"} : ~In(<<2, d>>, down')
  BY <1>10, <1>15, <1>18, <1>19, Zenon
<1>21. cseq > 0
  BY <1>15 DEF AnswerInv
<1>22. AnswerInv'
  BY <1>15, <1>16, <1>17, <1>20, <1>21, Zenon DEF AnswerInv, InDown
<1>23. HangupInv'
  BY <1>3, <1>5, <1>9, <1>10 DEF HangupInv, InviteInv, AnswerInv, InUp, Talked, OpenAt, ProcessOK,
     CalleeChallenges, CalleeSays, Sends, calleeOnly, session, history
<1>. QED BY <1>1, <1>2, <1>11, <1>12, <1>13, <1>14, <1>22, <1>23

(* CalleeRepeats keeps the invariant. *)
LEMMA CalleeRepeatsKeeps == ASSUME IInv, CalleeRepeats PROVE IInv'
<1>. USE BoundsAssumption, EndersAssumption DEF IInv, TypeOK
<1>1. SessionOK'
  BY DEF SessionOK, States, CalleeRepeats, CalleeSays, Sends, calleeOnly, session, history
<1>2. ProcessOK'
  BY DEF ProcessOK, MakerAt, EnderAt, CalleeRepeats, CalleeSays, Sends, calleeOnly, session, history
<1>3. up' = up
  BY DEF CalleeRepeats, CalleeSays, Sends, calleeOnly, session, history
<1>4. up' \in Seq(Ups)
  BY <1>3 DEF NetworkOK
<1>5. cseq \in 1..2 /\ down' = Append(down, <<cseq, "ok">>)
  BY DEF NetworkOK, AnswerInv, CalleeRepeats, CalleeSays, Sends, calleeOnly, session, history
<1>6. <<cseq, "ok">> \in Downs
  BY <1>5 DEF Downs
<1>7. down' \in Seq(Downs)
  BY <1>5, <1>6, DownIn DEF NetworkOK
<1>8. \A m : In(m, down') => In(m, down) \/ m = <<cseq, "ok">>
  BY <1>6, <1>5, DownIn DEF NetworkOK
<1>9. \A d : In(<<1, d>>, down') => In(<<1, d>>, down) \/ (cseq = 1 /\ d = "ok")
  BY <1>8
<1>10. \A d : In(<<2, d>>, down') => In(<<2, d>>, down) \/ (cseq = 2 /\ d = "ok")
  BY <1>8
<1>11. NetworkOK'
  BY <1>4, <1>7 DEF NetworkOK, AnswerInv, Callees, Ups, CalleeRepeats, CalleeSays, Sends,
     calleeOnly, session, history
<1>12. MediaInv'
  BY DEF SessionOK, ProcessOK, NetworkOK, MediaInv, CalleeRepeats, CalleeSays, Sends, calleeOnly,
     session, history
<1>13. LiveInv'
  BY DEF SessionOK, ProcessOK, NetworkOK, LiveInv, MediaInv, OpenAt, CalleeRepeats, CalleeSays,
     Sends, calleeOnly, session, history
<1>14. InviteInv'
  BY <1>3, <1>5, <1>9, <1>10 DEF InviteInv, AnswerInv, InUp, InDown, CalleeRepeats, CalleeSays,
     Sends, calleeOnly, session, history
<1>15. AnswerInv'
  BY <1>3, <1>5, <1>9, <1>10 DEF AnswerInv, InviteInv, InUp, InDown, Talked, NetworkOK,
     CalleeRepeats, CalleeSays, Sends, calleeOnly, session, history
<1>16. HangupInv'
  BY <1>3, <1>5, <1>9, <1>10 DEF HangupInv, InviteInv, AnswerInv, InUp, Talked, OpenAt, ProcessOK,
     CalleeRepeats, CalleeSays, Sends, calleeOnly, session, history
<1>. QED BY <1>1, <1>2, <1>11, <1>12, <1>13, <1>14, <1>15, <1>16

(* CalleeHangsUp keeps the invariant. *)
LEMMA CalleeHangsUpKeeps == ASSUME IInv, CalleeHangsUp PROVE IInv'
<1>. USE BoundsAssumption, EndersAssumption DEF IInv, TypeOK
<1>1. SessionOK'
  BY DEF SessionOK, States, CalleeHangsUp, Sends, calleeOnly, session, history
<1>2. ProcessOK'
  BY DEF ProcessOK, MakerAt, EnderAt, CalleeHangsUp, Sends, calleeOnly, session, history
<1>3. up' = up
  BY DEF CalleeHangsUp, Sends, calleeOnly, session, history
<1>4. up' \in Seq(Ups)
  BY <1>3 DEF NetworkOK
<1>5. down' = Append(down, Bye) /\ Bye \in Downs
  BY DEF Downs, CalleeHangsUp, Sends, calleeOnly, session, history
<1>6. down' \in Seq(Downs)
  BY <1>5, DownIn DEF NetworkOK
<1>7. \A m : In(m, down') => In(m, down) \/ m = Bye
  BY <1>5, DownIn DEF NetworkOK
<1>8. \A c : In(<<1, c>>, down') => In(<<1, c>>, down)
  BY <1>7 DEF Bye
<1>9. \A c : In(<<2, c>>, down') => In(<<2, c>>, down)
  BY <1>7 DEF Bye
<1>10. NetworkOK'
  BY <1>4, <1>6 DEF NetworkOK, AnswerInv, Callees, Ups, CalleeHangsUp, Sends, calleeOnly, session,
     history
<1>11. MediaInv'
  BY DEF SessionOK, ProcessOK, NetworkOK, MediaInv, CalleeHangsUp, Sends, calleeOnly, session,
     history
<1>12. LiveInv'
  BY DEF SessionOK, ProcessOK, NetworkOK, LiveInv, MediaInv, OpenAt, CalleeHangsUp, Sends,
     calleeOnly, session, history
<1>13. InviteInv'
  BY <1>3, <1>5, <1>8, <1>9 DEF InviteInv, AnswerInv, InUp, InDown, CalleeHangsUp, Sends,
     calleeOnly, session, history
<1>14. AnswerInv'
  BY <1>3, <1>5, <1>8, <1>9 DEF AnswerInv, InviteInv, InUp, InDown, Talked, NetworkOK,
     CalleeHangsUp, Sends, calleeOnly, session, history
<1>15. HangupInv'
  BY <1>3, <1>5, <1>8, <1>9 DEF HangupInv, InviteInv, AnswerInv, InUp, Talked, OpenAt, ProcessOK,
     CalleeHangsUp, Sends, calleeOnly, session, history
<1>. QED BY <1>1, <1>2, <1>10, <1>11, <1>12, <1>13, <1>14, <1>15

(* Hangup keeps the invariant. *)
LEMMA HangupKeeps == ASSUME NEW h \in Enders, IInv, Hangup(h) PROVE IInv'
<1>. USE BoundsAssumption, EndersAssumption DEF IInv, TypeOK
<1>1. SessionOK'
  BY DEF SessionOK, States, Hangup, Go, Choice, enderOnly, session
<1>2. ProcessOK'
  BY DEF ProcessOK, MakerAt, EnderAt, Hangup, Go, Choice, enderOnly, session
<1>3. up' = up
  BY DEF Hangup, Go, Choice, enderOnly, session
<1>4. up' \in Seq(Ups)
  BY <1>3 DEF NetworkOK
<1>5. down' = down
  BY DEF Hangup, Go, Choice, enderOnly, session
<1>6. down' \in Seq(Downs)
  BY <1>5 DEF NetworkOK
<1>7. NetworkOK'
  BY <1>4, <1>6 DEF NetworkOK, AnswerInv, Callees, Ups, Hangup, Go, Choice, enderOnly, session
<1>8. MediaInv'
  BY DEF SessionOK, ProcessOK, NetworkOK, MediaInv, Hangup, Go, Choice, enderOnly, session
<1>9. LiveInv'
  BY DEF SessionOK, ProcessOK, NetworkOK, LiveInv, MediaInv, OpenAt, Hangup, Go, Choice,
     enderOnly, session
<1>10. InviteInv'
  BY <1>3, <1>5 DEF InviteInv, AnswerInv, InUp, InDown, Hangup, Go, Choice, enderOnly, session
<1>11. AnswerInv'
  BY <1>3, <1>5 DEF AnswerInv, InviteInv, InUp, InDown, Talked, NetworkOK, Hangup, Go, Choice,
     enderOnly, session
<1>12. HangupInv'
  BY <1>3, <1>5 DEF HangupInv, InviteInv, AnswerInv, InUp, Talked, OpenAt, ProcessOK, Hangup, Go,
     Choice, enderOnly, session
<1>. QED BY <1>1, <1>2, <1>7, <1>8, <1>9, <1>10, <1>11, <1>12

(* PeerHangup keeps the invariant. *)
LEMMA PeerHangupKeeps == ASSUME NEW h \in Enders, IInv, PeerHangup(h) PROVE IInv'
<1>. USE BoundsAssumption, EndersAssumption DEF IInv, TypeOK
<1>1. SessionOK'
  BY DEF SessionOK, States, PeerHangup, Go, enderOnly, session
<1>2. ProcessOK'
  BY DEF ProcessOK, MakerAt, EnderAt, PeerHangup, Go, enderOnly, session
<1>3. up' = up
  BY DEF PeerHangup, Go, enderOnly, session
<1>4. up' \in Seq(Ups)
  BY <1>3 DEF NetworkOK
<1>5. down' = down
  BY DEF PeerHangup, Go, enderOnly, session
<1>6. down' \in Seq(Downs)
  BY <1>5 DEF NetworkOK
<1>7. NetworkOK'
  BY <1>4, <1>6 DEF NetworkOK, AnswerInv, Callees, Ups, PeerHangup, Go, enderOnly, session
<1>8. MediaInv'
  BY DEF SessionOK, ProcessOK, NetworkOK, MediaInv, PeerHangup, Go, enderOnly, session
<1>9. LiveInv'
  BY DEF SessionOK, ProcessOK, NetworkOK, LiveInv, MediaInv, OpenAt, PeerHangup, Go, enderOnly,
     session
<1>10. InviteInv'
  BY <1>3, <1>5 DEF InviteInv, AnswerInv, InUp, InDown, PeerHangup, Go, enderOnly, session
<1>11. AnswerInv'
  BY <1>3, <1>5 DEF AnswerInv, InviteInv, InUp, InDown, Talked, NetworkOK, PeerHangup, Go,
     enderOnly, session
<1>12. HangupInv'
  BY <1>3, <1>5 DEF HangupInv, InviteInv, AnswerInv, InUp, Talked, OpenAt, ProcessOK, PeerHangup,
     Go, enderOnly, session
<1>. QED BY <1>1, <1>2, <1>7, <1>8, <1>9, <1>10, <1>11, <1>12

(* RestHangup keeps the invariant. *)
LEMMA RestHangupKeeps == ASSUME NEW h \in Enders, IInv, RestHangup(h) PROVE IInv'
<1>. USE BoundsAssumption, EndersAssumption DEF IInv, TypeOK
<1>1. SessionOK'
  BY DEF SessionOK, States, RestHangup, Go, enderOnly, session, history
<1>2. ProcessOK'
  BY DEF ProcessOK, MakerAt, EnderAt, RestHangup, Go, enderOnly, session, history
<1>3. up' = up
  BY DEF RestHangup, Go, enderOnly, session, history
<1>4. up' \in Seq(Ups)
  BY <1>3 DEF NetworkOK
<1>5. down' = down
  BY DEF RestHangup, Go, enderOnly, session, history
<1>6. down' \in Seq(Downs)
  BY <1>5 DEF NetworkOK
<1>7. NetworkOK'
  BY <1>4, <1>6 DEF NetworkOK, AnswerInv, Callees, Ups, RestHangup, Go, enderOnly, session, history
<1>8. MediaInv'
  BY DEF SessionOK, ProcessOK, NetworkOK, MediaInv, RestHangup, Go, enderOnly, session, history
<1>9. LiveInv'
  BY DEF SessionOK, ProcessOK, NetworkOK, LiveInv, MediaInv, OpenAt, RestHangup, Go, enderOnly,
     session, history
<1>10. InviteInv'
  BY <1>3, <1>5 DEF InviteInv, AnswerInv, InUp, InDown, RestHangup, Go, enderOnly, session, history
<1>11. AnswerInv'
  BY <1>3, <1>5 DEF AnswerInv, InviteInv, InUp, InDown, Talked, NetworkOK, RestHangup, Go,
     enderOnly, session, history
<1>12. HangupInv'
  BY <1>3, <1>5 DEF HangupInv, InviteInv, AnswerInv, InUp, Talked, OpenAt, ProcessOK, RestHangup,
     Go, enderOnly, session, history
<1>. QED BY <1>1, <1>2, <1>7, <1>8, <1>9, <1>10, <1>11, <1>12

(* Take keeps the invariant. *)
LEMMA TakeKeeps == ASSUME NEW h \in Enders, IInv, Take(h) PROVE IInv'
<1>. USE BoundsAssumption, EndersAssumption DEF IInv, TypeOK
<1>1. SessionOK'
  BY DEF SessionOK, States, Take, Go, enderOnly, history
<1>2. ProcessOK'
  BY DEF ProcessOK, MakerAt, EnderAt, Take, Go, enderOnly, history
<1>3. up' = up
  BY DEF Take, Go, enderOnly, history
<1>4. up' \in Seq(Ups)
  BY <1>3 DEF NetworkOK
<1>5. down' = down
  BY DEF Take, Go, enderOnly, history
<1>6. down' \in Seq(Downs)
  BY <1>5 DEF NetworkOK
<1>7. NetworkOK'
  BY <1>4, <1>6 DEF NetworkOK, AnswerInv, Callees, Ups, Take, Go, enderOnly, history
<1>8. MediaInv'
  BY DEF SessionOK, ProcessOK, NetworkOK, MediaInv, Take, Go, enderOnly, history
<1>9. LiveInv'
  BY DEF SessionOK, ProcessOK, NetworkOK, LiveInv, MediaInv, OpenAt, Take, Go, enderOnly, history
<1>10. InviteInv'
  BY <1>3, <1>5 DEF InviteInv, AnswerInv, InUp, InDown, Take, Go, enderOnly, history
<1>11. AnswerInv'
  BY <1>3, <1>5 DEF AnswerInv, InviteInv, InUp, InDown, Talked, NetworkOK, Take, Go, enderOnly,
     history
<1>12. HangupInv'
  BY <1>3, <1>5 DEF HangupInv, InviteInv, AnswerInv, InUp, Talked, OpenAt, ProcessOK, Take, Go,
     enderOnly, history
<1>. QED BY <1>1, <1>2, <1>7, <1>8, <1>9, <1>10, <1>11, <1>12

(* SendBye keeps the invariant. *)
LEMMA SendByeKeeps == ASSUME NEW h \in Enders, IInv, SendBye(h) PROVE IInv'
<1>. USE BoundsAssumption, EndersAssumption DEF IInv, TypeOK
<1>1. SessionOK'
  BY DEF SessionOK, States, SendBye, Go, enderOnly, session, history
<1>2. ProcessOK'
  BY DEF ProcessOK, MakerAt, EnderAt, SendBye, Go, enderOnly, session, history
<1>3. up' = up \/ up' = Append(up, "BYE")
  BY DEF SendBye, Go, enderOnly, session, history
<1>4. "BYE" \in Ups
  BY DEF Ups
<1>5. up' \in Seq(Ups)
  BY <1>3, <1>4, UpIn DEF NetworkOK
<1>6. \A m : (In(m, up) => In(m, up')) /\ (In(m, up') => In(m, up) \/ m \in {"BYE"})
  BY <1>3, <1>4, UpIn DEF NetworkOK
<1>7. \A m : (m \notin {"BYE"} \/ ~In(m, up)) /\ Once(m, up) => Once(m, up')
  BY <1>3, <1>4, OnceIn DEF NetworkOK
<1>8. callID => up' = Append(up, "BYE")
  BY DEF SendBye, Go, enderOnly, session, history
<1>9. callID => In("BYE", up')
  BY <1>8, <1>4, UpIn DEF NetworkOK
<1>10. down' = down
  BY DEF SendBye, Go, enderOnly, session, history
<1>11. down' \in Seq(Downs)
  BY <1>10 DEF NetworkOK
<1>12. NetworkOK'
  BY <1>5, <1>11 DEF NetworkOK, AnswerInv, Callees, Ups, SendBye, Go, enderOnly, session, history
<1>13. MediaInv'
  BY DEF SessionOK, ProcessOK, NetworkOK, MediaInv, SendBye, Go, enderOnly, session, history
<1>14. LiveInv'
  BY DEF SessionOK, ProcessOK, NetworkOK, LiveInv, MediaInv, OpenAt, SendBye, Go, enderOnly,
     session, history
<1>15. InviteInv'
  BY <1>3, <1>4, <1>6, <1>7, <1>9, <1>10 DEF InviteInv, AnswerInv, InUp, InDown, SendBye, Go,
     enderOnly, session, history
<1>16. AnswerInv'
  BY <1>3, <1>4, <1>6, <1>7, <1>9, <1>10 DEF AnswerInv, InviteInv, InUp, InDown, Talked,
     NetworkOK, SendBye, Go, enderOnly, session, history
<1>17. HangupInv'
  BY <1>3, <1>4, <1>6, <1>7, <1>9, <1>10 DEF HangupInv, InviteInv, AnswerInv, InUp, Talked,
     OpenAt, ProcessOK, SendBye, Go, enderOnly, session, history
<1>. QED BY <1>1, <1>2, <1>12, <1>13, <1>14, <1>15, <1>16, <1>17

(* ByeSent keeps the invariant. *)
LEMMA ByeSentKeeps == ASSUME NEW h \in Enders, IInv, ByeSent(h) PROVE IInv'
<1>. USE BoundsAssumption, EndersAssumption DEF IInv, TypeOK
<1>1. SessionOK'
  BY DEF SessionOK, States, ByeSent, Go, SetState, enderOnly, history
<1>2. ProcessOK'
  BY DEF ProcessOK, MakerAt, EnderAt, ByeSent, Go, SetState, enderOnly, history
<1>3. up' = up
  BY DEF ByeSent, Go, SetState, enderOnly, history
<1>4. up' \in Seq(Ups)
  BY <1>3 DEF NetworkOK
<1>5. down' = down
  BY DEF ByeSent, Go, SetState, enderOnly, history
<1>6. down' \in Seq(Downs)
  BY <1>5 DEF NetworkOK
<1>7. NetworkOK'
  BY <1>4, <1>6 DEF NetworkOK, AnswerInv, Callees, Ups, ByeSent, Go, SetState, enderOnly, history
<1>8. MediaInv'
  BY DEF SessionOK, ProcessOK, NetworkOK, MediaInv, ByeSent, Go, SetState, enderOnly, history
<1>9. LiveInv'
  BY DEF SessionOK, ProcessOK, NetworkOK, LiveInv, MediaInv, OpenAt, ByeSent, Go, SetState,
     enderOnly, history
<1>10. InviteInv'
  BY <1>3, <1>5 DEF InviteInv, AnswerInv, InUp, InDown, ByeSent, Go, SetState, enderOnly, history
<1>11. AnswerInv'
  BY <1>3, <1>5 DEF AnswerInv, InviteInv, InUp, InDown, Talked, NetworkOK, ByeSent, Go, SetState,
     enderOnly, history
<1>12. HangupInv'
  BY <1>3, <1>5 DEF HangupInv, InviteInv, AnswerInv, InUp, Talked, OpenAt, ProcessOK, ByeSent, Go,
     SetState, enderOnly, history
<1>. QED BY <1>1, <1>2, <1>7, <1>8, <1>9, <1>10, <1>11, <1>12

(* Cancel keeps the invariant. *)
LEMMA CancelKeeps == ASSUME NEW h \in Enders, IInv, Cancel(h) PROVE IInv'
<1>. USE BoundsAssumption, EndersAssumption DEF IInv, TypeOK
<1>1. SessionOK'
  BY DEF SessionOK, States, Cancel, Go, enderOnly
<1>2. ProcessOK'
  BY DEF ProcessOK, MakerAt, EnderAt, Cancel, Go, enderOnly
<1>3. up' = up \/ up' = Append(up, "CANCEL1") \/ up' = Append(up, "CANCEL2")
  BY DEF Cancel, Go, enderOnly
<1>4. "CANCEL1" \in Ups /\ "CANCEL2" \in Ups
  BY DEF Ups
<1>5. up' \in Seq(Ups)
  BY <1>3, <1>4, UpIn DEF NetworkOK
<1>6. \A m : (In(m, up) => In(m, up')) /\ (In(m, up') => In(m, up) \/ m \in {"CANCEL1", "CANCEL2"})
  BY <1>3, <1>4, UpIn DEF NetworkOK
<1>7. \A m : (m \notin {"CANCEL1", "CANCEL2"} \/ ~In(m, up)) /\ Once(m, up) => Once(m, up')
  BY <1>3, <1>4, OnceIn DEF NetworkOK
<1>8. down' = down
  BY DEF Cancel, Go, enderOnly
<1>9. down' \in Seq(Downs)
  BY <1>8 DEF NetworkOK
<1>10. NetworkOK'
  BY <1>5, <1>9 DEF NetworkOK, AnswerInv, Callees, Ups, Cancel, Go, enderOnly
<1>11. MediaInv'
  BY DEF SessionOK, ProcessOK, NetworkOK, MediaInv, Cancel, Go, enderOnly
<1>12. LiveInv'
  BY DEF SessionOK, ProcessOK, NetworkOK, LiveInv, MediaInv, OpenAt, Cancel, Go, enderOnly
<1>13. InviteInv'
  BY <1>3, <1>4, <1>6, <1>7, <1>8 DEF InviteInv, AnswerInv, InUp, InDown, Cancel, Go, enderOnly
<1>14. AnswerInv'
  BY <1>3, <1>4, <1>6, <1>7, <1>8 DEF AnswerInv, InviteInv, InUp, InDown, Talked, NetworkOK,
     Cancel, Go, enderOnly
<1>15. HangupInv'
  BY <1>3, <1>4, <1>6, <1>7, <1>8 DEF HangupInv, InviteInv, AnswerInv, InUp, Talked, OpenAt,
     ProcessOK, Cancel, Go, enderOnly
<1>. QED BY <1>1, <1>2, <1>10, <1>11, <1>12, <1>13, <1>14, <1>15

(* Drain keeps the invariant. *)
LEMMA DrainKeeps == ASSUME NEW h \in Enders, IInv, Drain(h) PROVE IInv'
<1>. USE BoundsAssumption, EndersAssumption DEF IInv, TypeOK
<1>1. SessionOK'
  BY DEF SessionOK, States, Drain, Go, Arrives, enderOnly, session, history
<1>2. ProcessOK'
  BY DEF ProcessOK, MakerAt, EnderAt, Drain, Go, Arrives, enderOnly, session, history
<1>3. up' = up
  BY DEF Drain, Go, Arrives, enderOnly, session, history
<1>4. up' \in Seq(Ups)
  BY <1>3 DEF NetworkOK
<1>5. (down # <<>> /\ down' = Tail(down)) \/ down' = down
  BY DEF Drain, Go, Arrives, enderOnly, session, history
<1>6. down' \in Seq(Downs)
  BY <1>5, TailTypes DEF NetworkOK
<1>7. \A m : In(m, down') => In(m, down)
  BY <1>5, OldIn DEF NetworkOK
<1>8. down = <<>> => down' = <<>>
  BY <1>5
<1>9. NetworkOK'
  BY <1>4, <1>6 DEF NetworkOK, AnswerInv, Callees, Ups, Drain, Go, Arrives, enderOnly, session,
     history
<1>10. MediaInv'
  BY DEF SessionOK, ProcessOK, NetworkOK, MediaInv, Drain, Go, Arrives, enderOnly, session, history
<1>11. LiveInv'
  BY DEF SessionOK, ProcessOK, NetworkOK, LiveInv, MediaInv, OpenAt, Drain, Go, Arrives,
     enderOnly, session, history
<1>12. InviteInv'
  BY <1>3, <1>5, <1>7, <1>8 DEF InviteInv, AnswerInv, InUp, InDown, Drain, Go, Arrives, enderOnly,
     session, history
<1>13. AnswerInv'
  BY <1>3, <1>5, <1>7, <1>8 DEF AnswerInv, InviteInv, InUp, InDown, Talked, NetworkOK, Drain, Go,
     Arrives, enderOnly, session, history
<1>14. HangupInv'
  BY <1>3, <1>5, <1>7, <1>8 DEF HangupInv, InviteInv, AnswerInv, InUp, Talked, OpenAt, ProcessOK,
     Drain, Go, Arrives, enderOnly, session, history
<1>. QED BY <1>1, <1>2, <1>9, <1>10, <1>11, <1>12, <1>13, <1>14

(* Forget keeps the invariant. *)
LEMMA ForgetKeeps == ASSUME NEW h \in Enders, IInv, Forget(h) PROVE IInv'
<1>. USE BoundsAssumption, EndersAssumption DEF IInv, TypeOK
<1>1. SessionOK'
  BY DEF SessionOK, States, Forget, Go, SetState, enderOnly, history
<1>2. ProcessOK'
  BY DEF ProcessOK, MakerAt, EnderAt, Forget, Go, SetState, enderOnly, history
<1>3. up' = up
  BY DEF Forget, Go, SetState, enderOnly, history
<1>4. up' \in Seq(Ups)
  BY <1>3 DEF NetworkOK
<1>5. down' = down
  BY DEF Forget, Go, SetState, enderOnly, history
<1>6. down' \in Seq(Downs)
  BY <1>5 DEF NetworkOK
<1>7. NetworkOK'
  BY <1>4, <1>6 DEF NetworkOK, AnswerInv, Callees, Ups, Forget, Go, SetState, enderOnly, history
<1>8. MediaInv'
  BY DEF SessionOK, ProcessOK, NetworkOK, MediaInv, Forget, Go, SetState, enderOnly, history
<1>9. LiveInv'
  BY DEF SessionOK, ProcessOK, NetworkOK, LiveInv, MediaInv, OpenAt, Forget, Go, SetState,
     enderOnly, history
<1>10. InviteInv'
  BY <1>3, <1>5 DEF InviteInv, AnswerInv, InUp, InDown, Forget, Go, SetState, enderOnly, history
<1>11. AnswerInv'
  BY <1>3, <1>5 DEF AnswerInv, InviteInv, InUp, InDown, Talked, NetworkOK, Forget, Go, SetState,
     enderOnly, history
<1>12. HangupInv'
  BY <1>3, <1>5 DEF HangupInv, InviteInv, AnswerInv, InUp, Talked, OpenAt, ProcessOK, Forget, Go,
     SetState, enderOnly, history
<1>. QED BY <1>1, <1>2, <1>7, <1>8, <1>9, <1>10, <1>11, <1>12

(* Clean keeps the invariant. *)
LEMMA CleanKeeps == ASSUME NEW h \in Enders, IInv, Clean(h) PROVE IInv'
<1>. USE BoundsAssumption, EndersAssumption DEF IInv, TypeOK
<1>1. SessionOK'
  BY DEF SessionOK, States, Clean, Go, SetState, enderOnly, history
<1>2. ProcessOK'
  BY DEF ProcessOK, MakerAt, EnderAt, Clean, Go, SetState, enderOnly, history
<1>3. up' = up
  BY DEF Clean, Go, SetState, enderOnly, history
<1>4. up' \in Seq(Ups)
  BY <1>3 DEF NetworkOK
<1>5. down' = down
  BY DEF Clean, Go, SetState, enderOnly, history
<1>6. down' \in Seq(Downs)
  BY <1>5 DEF NetworkOK
<1>7. NetworkOK'
  BY <1>4, <1>6 DEF NetworkOK, AnswerInv, Callees, Ups, Clean, Go, SetState, enderOnly, history
<1>8. MediaInv'
  BY DEF SessionOK, ProcessOK, NetworkOK, MediaInv, Clean, Go, SetState, enderOnly, history
<1>9. LiveInv'
  BY DEF SessionOK, ProcessOK, NetworkOK, LiveInv, MediaInv, OpenAt, Clean, Go, SetState,
     enderOnly, history
<1>10. InviteInv'
  BY <1>3, <1>5 DEF InviteInv, AnswerInv, InUp, InDown, Clean, Go, SetState, enderOnly, history
<1>11. AnswerInv'
  BY <1>3, <1>5 DEF AnswerInv, InviteInv, InUp, InDown, Talked, NetworkOK, Clean, Go, SetState,
     enderOnly, history
<1>12. HangupInv'
  BY <1>3, <1>5 DEF HangupInv, InviteInv, AnswerInv, InUp, Talked, OpenAt, ProcessOK, Clean, Go,
     SetState, enderOnly, history
<1>. QED BY <1>1, <1>2, <1>7, <1>8, <1>9, <1>10, <1>11, <1>12

(* Release keeps the invariant. *)
LEMMA ReleaseKeeps == ASSUME NEW h \in Enders, IInv, Release(h) PROVE IInv'
<1>. USE BoundsAssumption, EndersAssumption DEF IInv, TypeOK
<1>1. SessionOK'
  BY DEF SessionOK, States, Release, Go, SetState, enderOnly, history
<1>2. ProcessOK'
  BY DEF ProcessOK, MakerAt, EnderAt, Release, Go, SetState, enderOnly, history
<1>3. up' = up
  BY DEF Release, Go, SetState, enderOnly, history
<1>4. up' \in Seq(Ups)
  BY <1>3 DEF NetworkOK
<1>5. down' = down
  BY DEF Release, Go, SetState, enderOnly, history
<1>6. down' \in Seq(Downs)
  BY <1>5 DEF NetworkOK
<1>7. NetworkOK'
  BY <1>4, <1>6 DEF NetworkOK, AnswerInv, Callees, Ups, Release, Go, SetState, enderOnly, history
<1>8. MediaInv'
  BY DEF SessionOK, ProcessOK, NetworkOK, MediaInv, Release, Go, SetState, enderOnly, history
<1>9. LiveInv'
  BY DEF SessionOK, ProcessOK, NetworkOK, LiveInv, MediaInv, OpenAt, Release, Go, SetState,
     enderOnly, history
<1>10. InviteInv'
  BY <1>3, <1>5 DEF InviteInv, AnswerInv, InUp, InDown, Release, Go, SetState, enderOnly, history
<1>11. AnswerInv'
  BY <1>3, <1>5 DEF AnswerInv, InviteInv, InUp, InDown, Talked, NetworkOK, Release, Go, SetState,
     enderOnly, history
<1>12. HangupInv'
  BY <1>3, <1>5 DEF HangupInv, InviteInv, AnswerInv, InUp, Talked, OpenAt, ProcessOK, Release, Go,
     SetState, enderOnly, history
<1>. QED BY <1>1, <1>2, <1>7, <1>8, <1>9, <1>10, <1>11, <1>12

(* The initial states satisfy the invariant. *)
LEMMA InitInv == Init => IInv
<1>. SUFFICES ASSUME Init PROVE IInv OBVIOUS
<1>. USE BoundsAssumption, EndersAssumption DEF Init
<1>1. SessionOK BY DEF SessionOK, States
<1>2. ProcessOK BY DEF ProcessOK, MakerAt, EnderAt
<1>3. NetworkOK BY DEF NetworkOK, Callees
<1>4. MediaInv BY DEF MediaInv
<1>5. LiveInv BY DEF LiveInv, OpenAt
<1>6. InviteInv BY DEF InviteInv, InUp, In, Once
<1>7. AnswerInv BY DEF AnswerInv, InDown, In
<1>8. HangupInv BY DEF HangupInv, OpenAt
<1>. QED BY <1>1, <1>2, <1>3, <1>4, <1>5, <1>6, <1>7, <1>8 DEF IInv, TypeOK

(* A step that changes nothing keeps the invariant. *)
LEMMA StutterInv == ASSUME IInv, UNCHANGED vars PROVE IInv'
<1>1. TypeOK'
  BY DEF IInv, TypeOK, SessionOK, ProcessOK, NetworkOK, vars, session, network, history
<1>2. MediaInv' /\ LiveInv' BY DEF IInv, MediaInv, LiveInv, vars, session, network
<1>3. InviteInv' /\ AnswerInv'
  BY DEF IInv, InviteInv, AnswerInv, InUp, InDown, vars, session, network
<1>4. HangupInv' BY DEF IInv, HangupInv, InUp, vars, session, network, history
<1>. QED BY <1>1, <1>2, <1>3, <1>4 DEF IInv

(* Every step of makeCall, of an ender and of everybody else keeps it. *)
LEMMA NextInv == ASSUME IInv, Next PROVE IInv'
<1>1. CASE MakerStep
  BY <1>1, OpenKeeps, PrimedKeeps, SendInviteKeeps, StoreInviteKeeps, OnRingingKeeps,
     OnOkKeeps, OnRefusedKeeps, OnChallengeKeeps, SendAuthKeeps, AuthRingsKeeps,
     AuthOkKeeps, AuthFailsKeeps, AckOkKeeps, ActivateKeeps, TxDoneKeeps,
     CtxEndsKeeps, CancelledKeeps, ReturnKeeps DEF MakerStep
<1>2. CASE \E h \in Enders : EnderStarts(h) \/ EnderStep(h)
  <2>. PICK h \in Enders : EnderStarts(h) \/ EnderStep(h) BY <1>2
  <2>1. CASE EnderStarts(h)
    BY <2>1, HangupKeeps, PeerHangupKeeps, RestHangupKeeps DEF EnderStarts
  <2>2. CASE EnderStep(h)
    BY <2>2, TakeKeeps, SendByeKeeps, ByeSentKeeps, CancelKeeps, DrainKeeps, ForgetKeeps,
       CleanKeeps,
       ReleaseKeeps DEF EnderStep
  <2>. QED BY <2>1, <2>2
<1>3. CASE IceStep \/ Janitor \/ TimeOut
  BY <1>3, IceDownKeeps, IceUpKeeps, IceFailsKeeps, IceGraceEndsKeeps, JanitorKeeps, TimeOutKeeps
     DEF IceStep
<1>4. CASE CalleeStep \/ CalleeHangsUp \/ Loses
  BY <1>4, CalleeRingsKeeps, CalleeAnswersKeeps, CalleeRefusesKeeps, CalleeChallengesKeeps,
     CalleeRepeatsKeeps, CalleeHangsUpKeeps, LosesKeeps DEF CalleeStep
<1>5. CASE NetworkStep
  BY <1>5, CalleeReadsKeeps, UnhandledKeeps, ByeInKeeps, ByeCleanKeeps DEF NetworkStep
<1>. QED BY <1>1, <1>2, <1>3, <1>4, <1>5 DEF Next

(* The invariant holds in every reachable state, for every set of enders and
   every bound on ICE failures and losses. *)
THEOREM Invariance == Spec => []IInv
<1>1. IInv /\ [Next]_vars => IInv' BY NextInv, StutterInv
<1>. QED BY <1>1, InitInv, PTL DEF Spec

(* The RTP sockets of a session that is gone are closed once makeCall has
   returned (the deferred cleanup of makeCall against DeleteSession). *)
THEOREM Releases == Spec => []MediaReleased
<1>1. IInv => MediaReleased BY DEF IInv, MediaInv, MediaReleased
<1>. QED BY <1>1, Invariance, PTL

(* A call that is up, and whose ICE never failed, has its RTP sockets. *)
THEOREM LiveCalls == Spec => []LiveHasMedia
<1>1. IInv => LiveHasMedia
  BY DEF IInv, TypeOK, SessionOK, ProcessOK, LiveInv, OpenAt, LiveHasMedia
<1>. QED BY <1>1, Invariance, PTL

(* A hangup that won after it had seen the dialog has sent a BYE. *)
THEOREM HangsUp == Spec => []DialogHungUp
<1>1. IInv => DialogHungUp BY DEF IInv, HangupInv, DialogHungUp, InUp, In
<1>. QED BY <1>1, Invariance, PTL

(* MediaReleased and LiveHasMedia together: the RTP sockets live as long as
   the call does. *)
THEOREM MediaFollows == Spec => []MediaFollowsCall
<1>1. MediaReleased /\ LiveHasMedia => MediaFollowsCall BY DEF MediaFollowsCall
<1>. QED BY <1>1, Releases, LiveCalls, PTL

-----------------------------------------------------------------------------
(* What the proof of RingsOnWithCause adds to IInv. *)

(* The part of RingInv that speaks of the enders and of makeCall. *)
EarlyOK ==
  maker \in {"new", "prime", "send", "store"} =>
    /\ invite = "none" /\ ~InUp("CANCEL1")
    /\ \A h \in Enders : ender[h] \notin {"drain", "cancelSent"}
WaitOK ==
  Rings /\ ~Stopped =>
    /\ maker \in {"store", "wait"} /\ tx = "live"
    /\ maker = "wait" => invite = "first"
    /\ \A h \in Enders : ender[h] \notin {"drain", "cancelSent"}

(* A step by which the callee reads and says nothing, and that sends no first
   INVITE, leaves what rings as it is, and takes no cancel back. *)
LEMMA SameRing ==
  ASSUME TypeOK, RingInv, UNCHANGED <<callee, cseq>>, missed \subseteq missed',
         up' = up \/ \E m \in Ups \ {"INVITE1"} : up' = Append(up, m),
         down' = down \/ (down # <<>> /\ down' = Tail(down))
  PROVE  /\ Rings' <=> Rings
         /\ Stopped => Stopped'
         /\ \A i, j \in 1..Len(up') : up'[i] = "INVITE1" /\ up'[j] = "CANCEL1" => i < j
         /\ Rings' => \A c \in {"ok", "auth", "refused"} : ~InDown(<<1, c>>)'
<1>0. up \in Seq(Ups) /\ down \in Seq(Downs) BY DEF TypeOK, NetworkOK
<1>1. /\ InUp("INVITE1")' <=> InUp("INVITE1")
      /\ InUp("CANCEL1") => InUp("CANCEL1")'
  <2>1. CASE up' = up BY <2>1 DEF InUp, In
  <2>2. ASSUME NEW m \in Ups \ {"INVITE1"}, up' = Append(up, m)
        PROVE  /\ InUp("INVITE1")' <=> InUp("INVITE1")
               /\ InUp("CANCEL1") => InUp("CANCEL1")'
    <3>1. \A x : In(x, Append(up, m)) <=> In(x, up) \/ x = m BY <1>0, UpIn
    <3>. QED BY <2>2, <3>1 DEF InUp
  <2>. QED BY <2>1, <2>2
<1>2. Rings' <=> Rings BY <1>1 DEF Rings
<1>3. Stopped => Stopped' BY <1>1 DEF Stopped
<1>4. \A i, j \in 1..Len(up') : up'[i] = "INVITE1" /\ up'[j] = "CANCEL1" => i < j
  <2>1. CASE up' = up BY <2>1 DEF RingInv
  <2>2. ASSUME NEW m \in Ups \ {"INVITE1"}, up' = Append(up, m),
               NEW i \in 1..Len(up'), NEW j \in 1..Len(up'),
               up'[i] = "INVITE1", up'[j] = "CANCEL1"
        PROVE  i < j
    <3>1. Len(up') = Len(up) + 1 /\ up'[Len(up) + 1] = m BY <1>0, <2>2
    <3>2. \A k \in 1..Len(up) : up'[k] = up[k] BY <1>0, <2>2
    <3>3. i \in 1..Len(up) /\ up[i] = "INVITE1" BY <1>0, <2>2, <3>1, <3>2
    <3>4. CASE j \in 1..Len(up) BY <2>2, <3>2, <3>3, <3>4 DEF RingInv
    <3>5. CASE j = Len(up) + 1 BY <1>0, <3>3, <3>5
    <3>. QED BY <1>0, <3>1, <3>4, <3>5
  <2>. QED BY <2>1, <2>2
<1>5. \A x : InDown(x)' => InDown(x)
  <2>1. CASE down' = down BY <2>1 DEF InDown, In
  <2>2. CASE down # <<>> /\ down' = Tail(down) BY <1>0, <2>2, OldIn DEF InDown
  <2>. QED BY <2>1, <2>2
<1>. QED BY <1>2, <1>3, <1>4, <1>5 DEF RingInv

(* Such a step keeps RingInv when it keeps the two parts that are about the
   enders and makeCall. *)
LEMMA FrameRings ==
  ASSUME TypeOK, RingInv, UNCHANGED <<callee, cseq>>, missed \subseteq missed',
         up' = up \/ \E m \in Ups \ {"INVITE1"} : up' = Append(up, m),
         down' = down \/ (down # <<>> /\ down' = Tail(down)),
         EarlyOK', WaitOK',
         \A h \in Enders : ender'[h] = "cancelNone" => h \in missed'
  PROVE  RingInv'
  BY SameRing DEF RingInv, EarlyOK, WaitOK

(* The INVITE is stored while its transaction lives. *)
LEMMA StoreInviteRings == ASSUME IInv, RingInv, StoreInvite PROVE RingInv'
<1>. USE EndersAssumption
<1>0. TypeOK BY DEF IInv
<1>1. UNCHANGED <<callee, cseq, missed, ender>>
  BY DEF StoreInvite, makerOnly, history
<1>2. down' = down \/ (down # <<>> /\ down' = Tail(down))
  BY DEF StoreInvite, Arrives
<1>3. up' = up \/ \E m \in Ups \ {"INVITE1"} : up' = Append(up, m)
  BY DEF StoreInvite, Ups
<1>4. EarlyOK' BY DEF EarlyOK, StoreInvite
<1>5. WaitOK'
  <2>1. Rings' <=> Rings BY <1>0, <1>1, <1>2, <1>3, SameRing
  <2>2. Stopped => Stopped' BY <1>0, <1>1, <1>2, <1>3, SameRing
  <2>. QED BY <1>1, <2>1, <2>2 DEF WaitOK, RingInv, StoreInvite
<1>. QED BY <1>0, <1>1, <1>2, <1>3, <1>4, <1>5, FrameRings DEF RingInv

(* makeCall goes on waiting. *)
LEMMA OnRingingRings == ASSUME IInv, RingInv, OnRinging PROVE RingInv'
<1>. USE EndersAssumption
<1>0. TypeOK BY DEF IInv
<1>1. UNCHANGED <<callee, cseq, missed, ender>>
  BY DEF OnRinging, makerOnly, history
<1>2. down' = down \/ (down # <<>> /\ down' = Tail(down))
  BY DEF OnRinging, Arrives
<1>3. up' = up \/ \E m \in Ups \ {"INVITE1"} : up' = Append(up, m)
  BY DEF OnRinging, Ups
<1>4. EarlyOK' BY DEF EarlyOK, OnRinging
<1>5. WaitOK'
  <2>1. (Rings' <=> Rings) /\ (Stopped => Stopped') BY <1>0, <1>1, <1>2, <1>3, SameRing
  <2>. QED BY <1>1, <2>1 DEF WaitOK, RingInv, OnRinging
<1>. QED BY <1>0, <1>1, <1>2, <1>3, <1>4, <1>5, FrameRings DEF RingInv

(* A callee that has sent this answer does not ring any more. *)
LEMMA OnOkRings == ASSUME IInv, RingInv, OnOk PROVE RingInv'
<1>. USE EndersAssumption
<1>0. TypeOK BY DEF IInv
<1>1. UNCHANGED <<callee, cseq, missed, ender>>
  BY DEF OnOk, makerOnly, history
<1>2. down' = down \/ (down # <<>> /\ down' = Tail(down))
  BY DEF OnOk, Arrives
<1>3. up' = up \/ \E m \in Ups \ {"INVITE1"} : up' = Append(up, m)
  BY DEF OnOk, Ups
<1>4. EarlyOK' BY DEF EarlyOK, OnOk
<1>5. WaitOK'
  <2>1. (Rings' <=> Rings) /\ (Stopped => Stopped') BY <1>0, <1>1, <1>2, <1>3, SameRing
  <2>2. InDown(<<1, "ok">>)
    <3>1. Len(down) > 0 /\ down[1] = <<1, "ok">>
      BY <1>0 DEF OnOk, Arrives, TypeOK, NetworkOK
    <3>2. 1 \in 1..Len(down) BY <1>0, <3>1 DEF TypeOK, NetworkOK
    <3>. QED BY <3>1, <3>2 DEF InDown, In
  <2>3. ~Rings BY <2>2 DEF RingInv
  <2>. QED BY <2>1, <2>3 DEF WaitOK
<1>. QED BY <1>0, <1>1, <1>2, <1>3, <1>4, <1>5, FrameRings DEF RingInv

(* A callee that has sent this answer does not ring any more. *)
LEMMA OnRefusedRings == ASSUME IInv, RingInv, OnRefused PROVE RingInv'
<1>. USE EndersAssumption
<1>0. TypeOK BY DEF IInv
<1>1. UNCHANGED <<callee, cseq, missed, ender>>
  BY DEF OnRefused, makerOnly, history
<1>2. down' = down \/ (down # <<>> /\ down' = Tail(down))
  BY DEF OnRefused, Arrives
<1>3. up' = up \/ \E m \in Ups \ {"INVITE1"} : up' = Append(up, m)
  BY DEF OnRefused, Ups
<1>4. EarlyOK' BY DEF EarlyOK, OnRefused
<1>5. WaitOK'
  <2>1. (Rings' <=> Rings) /\ (Stopped => Stopped') BY <1>0, <1>1, <1>2, <1>3, SameRing
  <2>2. InDown(<<1, "refused">>)
    <3>1. Len(down) > 0 /\ down[1] = <<1, "refused">>
      BY <1>0 DEF OnRefused, Arrives, TypeOK, NetworkOK
    <3>2. 1 \in 1..Len(down) BY <1>0, <3>1 DEF TypeOK, NetworkOK
    <3>. QED BY <3>1, <3>2 DEF InDown, In
  <2>3. ~Rings BY <2>2 DEF RingInv
  <2>. QED BY <2>1, <2>3 DEF WaitOK
<1>. QED BY <1>0, <1>1, <1>2, <1>3, <1>4, <1>5, FrameRings DEF RingInv

(* A callee that has sent this answer does not ring any more. *)
LEMMA OnChallengeRings == ASSUME IInv, RingInv, OnChallenge PROVE RingInv'
<1>. USE EndersAssumption
<1>0. TypeOK BY DEF IInv
<1>1. UNCHANGED <<callee, cseq, missed, ender>>
  BY DEF OnChallenge, makerOnly, history
<1>2. down' = down \/ (down # <<>> /\ down' = Tail(down))
  BY DEF OnChallenge, Arrives
<1>3. up' = up \/ \E m \in Ups \ {"INVITE1"} : up' = Append(up, m)
  BY DEF OnChallenge, Ups
<1>4. EarlyOK' BY DEF EarlyOK, OnChallenge
<1>5. WaitOK'
  <2>1. (Rings' <=> Rings) /\ (Stopped => Stopped') BY <1>0, <1>1, <1>2, <1>3, SameRing
  <2>2. InDown(<<1, "auth">>)
    <3>1. Len(down) > 0 /\ down[1] = <<1, "auth">>
      BY <1>0 DEF OnChallenge, Arrives, TypeOK, NetworkOK
    <3>2. 1 \in 1..Len(down) BY <1>0, <3>1 DEF TypeOK, NetworkOK
    <3>. QED BY <3>1, <3>2 DEF InDown, In
  <2>3. ~Rings BY <2>2 DEF RingInv
  <2>. QED BY <2>1, <2>3 DEF WaitOK
<1>. QED BY <1>0, <1>1, <1>2, <1>3, <1>4, <1>5, FrameRings DEF RingInv

(* makeCall did not wait any more: what rings is being stopped. *)
LEMMA SendAuthRings == ASSUME IInv, RingInv, SendAuth PROVE RingInv'
<1>. USE EndersAssumption
<1>0. TypeOK BY DEF IInv
<1>1. UNCHANGED <<callee, cseq, missed, ender>>
  BY DEF SendAuth, makerOnly, history
<1>2. down' = down \/ (down # <<>> /\ down' = Tail(down))
  BY DEF SendAuth, Arrives
<1>3. up' = up \/ \E m \in Ups \ {"INVITE1"} : up' = Append(up, m)
  BY DEF SendAuth, Ups
<1>4. EarlyOK' BY DEF EarlyOK, SendAuth
<1>5. WaitOK'
  <2>1. (Rings' <=> Rings) /\ (Stopped => Stopped') BY <1>0, <1>1, <1>2, <1>3, SameRing
  <2>2. maker \notin {"store", "wait"} BY DEF SendAuth
  <2>. QED BY <2>1, <2>2 DEF WaitOK, RingInv
<1>. QED BY <1>0, <1>1, <1>2, <1>3, <1>4, <1>5, FrameRings DEF RingInv

(* makeCall did not wait any more: what rings is being stopped. *)
LEMMA AuthRingsRings == ASSUME IInv, RingInv, AuthRings PROVE RingInv'
<1>. USE EndersAssumption
<1>0. TypeOK BY DEF IInv
<1>1. UNCHANGED <<callee, cseq, missed, ender>>
  BY DEF AuthRings, makerOnly, history
<1>2. down' = down \/ (down # <<>> /\ down' = Tail(down))
  BY DEF AuthRings, Arrives
<1>3. up' = up \/ \E m \in Ups \ {"INVITE1"} : up' = Append(up, m)
  BY DEF AuthRings, Ups
<1>4. EarlyOK' BY DEF EarlyOK, AuthRings
<1>5. WaitOK'
  <2>1. (Rings' <=> Rings) /\ (Stopped => Stopped') BY <1>0, <1>1, <1>2, <1>3, SameRing
  <2>2. maker \notin {"store", "wait"} BY DEF AuthRings
  <2>. QED BY <2>1, <2>2 DEF WaitOK, RingInv
<1>. QED BY <1>0, <1>1, <1>2, <1>3, <1>4, <1>5, FrameRings DEF RingInv

(* makeCall did not wait any more: what rings is being stopped. *)
LEMMA AuthOkRings == ASSUME IInv, RingInv, AuthOk PROVE RingInv'
<1>. USE EndersAssumption
<1>0. TypeOK BY DEF IInv
<1>1. UNCHANGED <<callee, cseq, missed, ender>>
  BY DEF AuthOk, makerOnly, history
<1>2. down' = down \/ (down # <<>> /\ down' = Tail(down))
  BY DEF AuthOk, Arrives
<1>3. up' = up \/ \E m \in Ups \ {"INVITE1"} : up' = Append(up, m)
  BY DEF AuthOk, Ups
<1>4. EarlyOK' BY DEF EarlyOK, AuthOk
<1>5. WaitOK'
  <2>1. (Rings' <=> Rings) /\ (Stopped => Stopped') BY <1>0, <1>1, <1>2, <1>3, SameRing
  <2>2. maker \notin {"store", "wait"} BY DEF AuthOk
  <2>. QED BY <2>1, <2>2 DEF WaitOK, RingInv
<1>. QED BY <1>0, <1>1, <1>2, <1>3, <1>4, <1>5, FrameRings DEF RingInv

(* makeCall did not wait any more: what rings is being stopped. *)
LEMMA AuthFailsRings == ASSUME IInv, RingInv, AuthFails PROVE RingInv'
<1>. USE EndersAssumption
<1>0. TypeOK BY DEF IInv
<1>1. UNCHANGED <<callee, cseq, missed, ender>>
  BY DEF AuthFails, makerOnly, history
<1>2. down' = down \/ (down # <<>> /\ down' = Tail(down))
  BY DEF AuthFails, Arrives
<1>3. up' = up \/ \E m \in Ups \ {"INVITE1"} : up' = Append(up, m)
  BY DEF AuthFails, Ups
<1>4. EarlyOK' BY DEF EarlyOK, AuthFails
<1>5. WaitOK'
  <2>1. (Rings' <=> Rings) /\ (Stopped => Stopped') BY <1>0, <1>1, <1>2, <1>3, SameRing
  <2>2. maker \notin {"store", "wait"} BY DEF AuthFails
  <2>. QED BY <2>1, <2>2 DEF WaitOK, RingInv
<1>. QED BY <1>0, <1>1, <1>2, <1>3, <1>4, <1>5, FrameRings DEF RingInv

(* makeCall did not wait any more: what rings is being stopped. *)
LEMMA AckOkRings == ASSUME IInv, RingInv, AckOk PROVE RingInv'
<1>. USE EndersAssumption
<1>0. TypeOK BY DEF IInv
<1>1. UNCHANGED <<callee, cseq, missed, ender>>
  BY DEF AckOk, makerOnly, history
<1>2. down' = down \/ (down # <<>> /\ down' = Tail(down))
  BY DEF AckOk, Arrives
<1>3. up' = up \/ \E m \in Ups \ {"INVITE1"} : up' = Append(up, m)
  BY DEF AckOk, Ups
<1>4. EarlyOK' BY DEF EarlyOK, AckOk
<1>5. WaitOK'
  <2>1. (Rings' <=> Rings) /\ (Stopped => Stopped') BY <1>0, <1>1, <1>2, <1>3, SameRing
  <2>2. maker \notin {"store", "wait"} BY DEF AckOk
  <2>. QED BY <2>1, <2>2 DEF WaitOK, RingInv
<1>. QED BY <1>0, <1>1, <1>2, <1>3, <1>4, <1>5, FrameRings DEF RingInv

(* makeCall did not wait any more: what rings is being stopped. *)
LEMMA ActivateRings == ASSUME IInv, RingInv, Activate PROVE RingInv'
<1>. USE EndersAssumption
<1>0. TypeOK BY DEF IInv
<1>1. UNCHANGED <<callee, cseq, missed, ender>>
  BY DEF Activate, makerOnly, history
<1>2. down' = down \/ (down # <<>> /\ down' = Tail(down))
  BY DEF Activate, Arrives
<1>3. up' = up \/ \E m \in Ups \ {"INVITE1"} : up' = Append(up, m)
  BY DEF Activate, Ups
<1>4. EarlyOK' BY DEF EarlyOK, Activate
<1>5. WaitOK'
  <2>1. (Rings' <=> Rings) /\ (Stopped => Stopped') BY <1>0, <1>1, <1>2, <1>3, SameRing
  <2>2. maker \notin {"store", "wait"} BY DEF Activate
  <2>. QED BY <2>1, <2>2 DEF WaitOK, RingInv
<1>. QED BY <1>0, <1>1, <1>2, <1>3, <1>4, <1>5, FrameRings DEF RingInv

(* makeCall did not wait any more: what rings is being stopped. *)
LEMMA CancelledRings == ASSUME IInv, RingInv, Cancelled PROVE RingInv'
<1>. USE EndersAssumption
<1>0. TypeOK BY DEF IInv
<1>1. UNCHANGED <<callee, cseq, missed, ender>>
  BY DEF Cancelled, makerOnly, history
<1>2. down' = down \/ (down # <<>> /\ down' = Tail(down))
  BY DEF Cancelled, Arrives
<1>3. up' = up \/ \E m \in Ups \ {"INVITE1"} : up' = Append(up, m)
  BY DEF Cancelled, Ups
<1>4. EarlyOK' BY DEF EarlyOK, Cancelled
<1>5. WaitOK'
  <2>1. (Rings' <=> Rings) /\ (Stopped => Stopped') BY <1>0, <1>1, <1>2, <1>3, SameRing
  <2>2. maker \notin {"store", "wait"} BY DEF Cancelled
  <2>. QED BY <2>1, <2>2 DEF WaitOK, RingInv
<1>. QED BY <1>0, <1>1, <1>2, <1>3, <1>4, <1>5, FrameRings DEF RingInv

(* makeCall did not wait any more: what rings is being stopped. *)
LEMMA ReturnRings == ASSUME IInv, RingInv, Return PROVE RingInv'
<1>. USE EndersAssumption
<1>0. TypeOK BY DEF IInv
<1>1. UNCHANGED <<callee, cseq, missed, ender>>
  BY DEF Return, makerOnly, history
<1>2. down' = down \/ (down # <<>> /\ down' = Tail(down))
  BY DEF Return, Arrives
<1>3. up' = up \/ \E m \in Ups \ {"INVITE1"} : up' = Append(up, m)
  BY DEF Return, Ups
<1>4. EarlyOK' BY DEF EarlyOK, Return
<1>5. WaitOK'
  <2>1. (Rings' <=> Rings) /\ (Stopped => Stopped') BY <1>0, <1>1, <1>2, <1>3, SameRing
  <2>2. maker \notin {"store", "wait"} BY DEF Return
  <2>. QED BY <2>1, <2>2 DEF WaitOK, RingInv
<1>. QED BY <1>0, <1>1, <1>2, <1>3, <1>4, <1>5, FrameRings DEF RingInv

(* The transaction ends: somebody read the answer, or no INVITE was received. *)
LEMMA TxDoneRings == ASSUME IInv, RingInv, TxDone PROVE RingInv'
<1>. USE EndersAssumption
<1>0. TypeOK BY DEF IInv
<1>1. UNCHANGED <<callee, cseq, missed, ender>>
  BY DEF TxDone, makerOnly, history
<1>2. down' = down \/ (down # <<>> /\ down' = Tail(down))
  BY DEF TxDone, Arrives
<1>3. up' = up \/ \E m \in Ups \ {"INVITE1"} : up' = Append(up, m)
  BY DEF TxDone, Ups
<1>4. EarlyOK' BY DEF EarlyOK, TxDone
<1>5. WaitOK'
  <2>1. (Rings' <=> Rings) /\ (Stopped => Stopped') BY <1>0, <1>1, <1>2, <1>3, SameRing
  <2>2. tx = "gone" \/ (callee = "none" /\ ~InUp("INVITE1")) BY DEF TxDone, InUp, In
  <2>3. ~Rings \/ Stopped BY <2>2 DEF RingInv, Rings
  <2>. QED BY <2>1, <2>3 DEF WaitOK
<1>. QED BY <1>0, <1>1, <1>2, <1>3, <1>4, <1>5, FrameRings DEF RingInv

(* makeCall cancels the INVITE that it has stored, or could not. *)
LEMMA CtxEndsRings == ASSUME IInv, RingInv, CtxEnds PROVE RingInv'
<1>. USE EndersAssumption
<1>0. TypeOK BY DEF IInv
<1>1. UNCHANGED <<callee, cseq, ender>> /\ missed \subseteq missed'
  BY DEF CtxEnds
<1>2. down' = down \/ (down # <<>> /\ down' = Tail(down))
  BY DEF CtxEnds, Arrives
<1>3. up' = up \/ \E m \in Ups \ {"INVITE1"} : up' = Append(up, m)
  BY DEF CtxEnds, Ups
<1>4. EarlyOK' BY DEF EarlyOK, CtxEnds
<1>5. WaitOK'
  <2>1. (Rings' <=> Rings) /\ (Stopped => Stopped') BY <1>0, <1>1, <1>2, <1>3, SameRing
  <2>2. Rings /\ ~Stopped => up' = Append(up, "CANCEL1") \/ missed' # {}
    BY DEF RingInv, CtxEnds
  <2>3. up' = Append(up, "CANCEL1") => InUp("CANCEL1")'
    <3>1. "CANCEL1" \in Ups /\ up \in Seq(Ups) BY <1>0 DEF TypeOK, NetworkOK, Ups
    <3>. QED BY <3>1, UpIn DEF InUp
  <2>. QED BY <2>1, <2>2, <2>3 DEF WaitOK, Stopped
<1>. QED BY <1>0, <1>1, <1>2, <1>3, <1>4, <1>5, FrameRings DEF RingInv

(* Nothing has been sent to the callee yet. *)
LEMMA OpenRings == ASSUME IInv, RingInv, Open PROVE RingInv'
<1>. USE EndersAssumption
<1>0. TypeOK BY DEF IInv
<1>1. UNCHANGED <<callee, cseq, missed, ender>>
  BY DEF Open, makerOnly, history
<1>2. down' = down \/ (down # <<>> /\ down' = Tail(down))
  BY DEF Open, Arrives
<1>3. up' = up \/ \E m \in Ups \ {"INVITE1"} : up' = Append(up, m)
  BY DEF Open, Ups
<1>4. EarlyOK'
  <2>1. up' = up BY DEF Open
  <2>. QED BY <1>1, <2>1 DEF EarlyOK, Open, RingInv, InUp
<1>5. WaitOK'
  <2>1. (Rings' <=> Rings) /\ (Stopped => Stopped') BY <1>0, <1>1, <1>2, <1>3, SameRing
  <2>2. ~Rings BY DEF Rings, IInv, InviteInv, Open
  <2>. QED BY <2>1, <2>2 DEF WaitOK
<1>. QED BY <1>0, <1>1, <1>2, <1>3, <1>4, <1>5, FrameRings DEF RingInv

(* Nothing has been sent to the callee yet. *)
LEMMA PrimedRings == ASSUME IInv, RingInv, Primed PROVE RingInv'
<1>. USE EndersAssumption
<1>0. TypeOK BY DEF IInv
<1>1. UNCHANGED <<callee, cseq, missed, ender>>
  BY DEF Primed, makerOnly, history
<1>2. down' = down \/ (down # <<>> /\ down' = Tail(down))
  BY DEF Primed, Arrives
<1>3. up' = up \/ \E m \in Ups \ {"INVITE1"} : up' = Append(up, m)
  BY DEF Primed, Ups
<1>4. EarlyOK'
  <2>1. up' = up BY DEF Primed
  <2>. QED BY <1>1, <2>1 DEF EarlyOK, Primed, RingInv, InUp
<1>5. WaitOK'
  <2>1. (Rings' <=> Rings) /\ (Stopped => Stopped') BY <1>0, <1>1, <1>2, <1>3, SameRing
  <2>2. ~Rings BY DEF Rings, IInv, InviteInv, Primed
  <2>. QED BY <2>1, <2>2 DEF WaitOK
<1>. QED BY <1>0, <1>1, <1>2, <1>3, <1>4, <1>5, FrameRings DEF RingInv

(* Before the INVITE is sent nobody has cancelled it, and the callee is idle. *)
LEMMA SendInviteRings == ASSUME IInv, RingInv, SendInvite PROVE RingInv'
<1>0. up \in Seq(Ups) /\ down \in Seq(Downs) BY DEF IInv, TypeOK, NetworkOK
<1>1. UNCHANGED <<callee, cseq, missed, ender, down, invite>>
  BY DEF SendInvite, makerOnly, history
<1>2. /\ callee = "none" /\ ~InUp("INVITE1") /\ down = <<>>
      /\ ~InUp("CANCEL1") /\ invite = "none"
      /\ \A h \in Enders : ender[h] \notin {"drain", "cancelSent"}
  BY DEF SendInvite, IInv, InviteInv, RingInv
<1>3. \A m : ~InDown(m)' BY <1>1, <1>2, EmptyIn DEF InDown
<1>4. \A h \in Enders : ender'[h] = "cancelNone" => h \in missed' BY <1>1 DEF RingInv
<1>5. ~InUp("CANCEL1")'
  <2>1. CASE up' = up BY <1>2, <2>1 DEF InUp, In
  <2>2. CASE up' = Append(up, "INVITE1")
    <3>1. \A m : In(m, Append(up, "INVITE1")) <=> In(m, up) \/ m = "INVITE1"
      BY <1>0, UpIn DEF Ups
    <3>. QED BY <1>2, <2>2, <3>1 DEF InUp
  <2>. QED BY <2>1, <2>2 DEF SendInvite
<1>6. \A i, j \in 1..Len(up') : up'[i] = "INVITE1" /\ up'[j] = "CANCEL1" => i < j
  BY <1>5 DEF InUp, In
<1>7. CASE maker' = "store" /\ tx' = "live"
  BY <1>1, <1>2, <1>3, <1>4, <1>5, <1>6, <1>7 DEF RingInv
<1>8. CASE maker' = "failed" /\ up' = up
  <2>1. ~Rings' BY <1>1, <1>2, <1>8 DEF Rings, InUp, In
  <2>. QED BY <1>4, <1>6, <1>8, <2>1 DEF RingInv
<1>. QED BY <1>7, <1>8 DEF SendInvite

(* Whoever does not touch makeCall, its transaction and its INVITE, and does
   not begin to cancel, keeps RingInv. *)
LEMMA AloofRings ==
  ASSUME TypeOK, RingInv, UNCHANGED <<maker, tx, invite, callee, cseq>>, missed \subseteq missed',
         \A h \in Enders : \/ ender'[h] = ender[h]
                           \/ ender'[h] \notin {"drain", "cancelSent", "cancelNone"},
         up' = up \/ \E m \in {"ACK", "BYE"} : up' = Append(up, m),
         down' = down \/ (down # <<>> /\ down' = Tail(down))
  PROVE  RingInv'
<1>1. up' = up \/ \E m \in Ups \ {"INVITE1"} : up' = Append(up, m) BY DEF Ups
<1>2. (Rings' <=> Rings) /\ (Stopped => Stopped') BY <1>1, SameRing
<1>3. InUp("CANCEL1")' => InUp("CANCEL1")
  <2>1. CASE up' = up BY <2>1 DEF InUp, In
  <2>2. ASSUME NEW m \in {"ACK", "BYE"}, up' = Append(up, m)
        PROVE  InUp("CANCEL1")' => InUp("CANCEL1")
    <3>1. up \in Seq(Ups) /\ m \in Ups BY DEF TypeOK, NetworkOK, Ups
    <3>2. \A x : In(x, Append(up, m)) <=> In(x, up) \/ x = m BY <3>1, UpIn
    <3>. QED BY <2>2, <3>2 DEF InUp
  <2>. QED BY <2>1, <2>2
<1>4. EarlyOK' BY <1>3 DEF EarlyOK, RingInv
<1>5. WaitOK' BY <1>2 DEF WaitOK, RingInv
<1>6. \A h \in Enders : ender'[h] = "cancelNone" => h \in missed' BY DEF RingInv
<1>. QED BY <1>1, <1>4, <1>5, <1>6, FrameRings

(* The 60 s pass. *)
LEMMA TimeOutRings == ASSUME IInv, RingInv, TimeOut PROVE RingInv'
<1>0. TypeOK BY DEF IInv
<1>1. UNCHANGED <<maker, tx, invite, callee, cseq, missed>>
  BY DEF TimeOut, session, history, network
<1>2. ender' = ender BY DEF TimeOut, session, history, network
<1>3. up' = up \/ \E m \in {"ACK", "BYE"} : up' = Append(up, m)
  BY DEF TimeOut, session, history, network
<1>4. down' = down \/ (down # <<>> /\ down' = Tail(down))
  BY DEF TimeOut, session, history, network
<1>. QED BY <1>0, <1>1, <1>2, <1>3, <1>4, AloofRings

(* ICE loses the browser. *)
LEMMA IceDownRings == ASSUME IInv, RingInv, IceDown PROVE RingInv'
<1>0. TypeOK BY DEF IInv
<1>1. UNCHANGED <<maker, tx, invite, callee, cseq, missed>>
  BY DEF IceDown, iceOnly, history, network
<1>2. ender' = ender BY DEF IceDown, iceOnly, history, network
<1>3. up' = up \/ \E m \in {"ACK", "BYE"} : up' = Append(up, m)
  BY DEF IceDown, iceOnly, history, network
<1>4. down' = down \/ (down # <<>> /\ down' = Tail(down))
  BY DEF IceDown, iceOnly, history, network
<1>. QED BY <1>0, <1>1, <1>2, <1>3, <1>4, AloofRings

(* ICE is back. *)
LEMMA IceUpRings == ASSUME IInv, RingInv, IceUp PROVE RingInv'
<1>0. TypeOK BY DEF IInv
<1>1. UNCHANGED <<maker, tx, invite, callee, cseq, missed>>
  BY DEF IceUp, iceOnly, history, network
<1>2. ender' = ender BY DEF IceUp, iceOnly, history, network
<1>3. up' = up \/ \E m \in {"ACK", "BYE"} : up' = Append(up, m)
  BY DEF IceUp, iceOnly, history, network
<1>4. down' = down \/ (down # <<>> /\ down' = Tail(down))
  BY DEF IceUp, iceOnly, history, network
<1>. QED BY <1>0, <1>1, <1>2, <1>3, <1>4, AloofRings

(* ICE gives up. *)
LEMMA IceFailsRings == ASSUME IInv, RingInv, IceFails PROVE RingInv'
<1>0. TypeOK BY DEF IInv
<1>1. UNCHANGED <<maker, tx, invite, callee, cseq, missed>>
  BY DEF IceFails, iceOnly, history, network
<1>2. ender' = ender BY DEF IceFails, iceOnly, history, network
<1>3. up' = up \/ \E m \in {"ACK", "BYE"} : up' = Append(up, m)
  BY DEF IceFails, iceOnly, history, network
<1>4. down' = down \/ (down # <<>> /\ down' = Tail(down))
  BY DEF IceFails, iceOnly, history, network
<1>. QED BY <1>0, <1>1, <1>2, <1>3, <1>4, AloofRings

(* The grace period ends the session. *)
LEMMA IceGraceEndsRings == ASSUME IInv, RingInv, IceGraceEnds PROVE RingInv'
<1>0. TypeOK BY DEF IInv
<1>1. UNCHANGED <<maker, tx, invite, callee, cseq, missed>>
  BY DEF IceGraceEnds, iceOnly, history, network
<1>2. ender' = ender BY DEF IceGraceEnds, iceOnly, history, network
<1>3. up' = up \/ \E m \in {"ACK", "BYE"} : up' = Append(up, m)
  BY DEF IceGraceEnds, iceOnly, history, network
<1>4. down' = down \/ (down # <<>> /\ down' = Tail(down))
  BY DEF IceGraceEnds, iceOnly, history, network
<1>. QED BY <1>0, <1>1, <1>2, <1>3, <1>4, AloofRings

(* The janitor removes an ended session. *)
LEMMA JanitorRings == ASSUME IInv, RingInv, Janitor PROVE RingInv'
<1>0. TypeOK BY DEF IInv
<1>1. UNCHANGED <<maker, tx, invite, callee, cseq, missed>>
  BY DEF Janitor, history, network
<1>2. ender' = ender BY DEF Janitor, history, network
<1>3. up' = up \/ \E m \in {"ACK", "BYE"} : up' = Append(up, m) BY DEF Janitor, history, network
<1>4. down' = down \/ (down # <<>> /\ down' = Tail(down)) BY DEF Janitor, history, network
<1>. QED BY <1>0, <1>1, <1>2, <1>3, <1>4, AloofRings

(* The callee hangs up. *)
LEMMA ByeInRings == ASSUME IInv, RingInv, ByeIn PROVE RingInv'
<1>0. TypeOK BY DEF IInv
<1>1. UNCHANGED <<maker, tx, invite, callee, cseq, missed>>
  BY DEF ByeIn, history
<1>2. ender' = ender BY DEF ByeIn, history
<1>3. up' = up \/ \E m \in {"ACK", "BYE"} : up' = Append(up, m) BY DEF ByeIn, history
<1>4. down' = down \/ (down # <<>> /\ down' = Tail(down)) BY DEF ByeIn, history
<1>. QED BY <1>0, <1>1, <1>2, <1>3, <1>4, AloofRings

(* The session it hung up is removed. *)
LEMMA ByeCleanRings == ASSUME IInv, RingInv, ByeClean PROVE RingInv'
<1>0. TypeOK BY DEF IInv
<1>1. UNCHANGED <<maker, tx, invite, callee, cseq, missed>>
  BY DEF ByeClean, history
<1>2. ender' = ender BY DEF ByeClean, history
<1>3. up' = up \/ \E m \in {"ACK", "BYE"} : up' = Append(up, m) BY DEF ByeClean, history
<1>4. down' = down \/ (down # <<>> /\ down' = Tail(down)) BY DEF ByeClean, history
<1>. QED BY <1>0, <1>1, <1>2, <1>3, <1>4, AloofRings

(* An answer that nobody waits for is at most ACKed. *)
LEMMA UnhandledRings == ASSUME IInv, RingInv, Unhandled PROVE RingInv'
<1>0. TypeOK BY DEF IInv
<1>1. UNCHANGED <<maker, tx, invite, callee, cseq, missed>>
  BY DEF Unhandled, calleeOnly, session, history
<1>2. ender' = ender BY DEF Unhandled, calleeOnly, session, history
<1>3. up' = up \/ \E m \in {"ACK", "BYE"} : up' = Append(up, m)
  BY DEF Unhandled, calleeOnly, session, history
<1>4. down' = down \/ (down # <<>> /\ down' = Tail(down))
  BY DEF Unhandled, calleeOnly, session, history
<1>. QED BY <1>0, <1>1, <1>2, <1>3, <1>4, AloofRings

(* A hangup looks at the session. *)
LEMMA HangupRings == ASSUME NEW h \in Enders, IInv, RingInv, Hangup(h) PROVE RingInv'
<1>0. TypeOK BY DEF IInv
<1>1. UNCHANGED <<maker, tx, invite, callee, cseq, missed>>
  BY DEF Hangup, enderOnly, session
<1>2. \A g \in Enders : \/ ender'[g] = ender[g]
                          \/ ender'[g] \notin {"drain", "cancelSent", "cancelNone"}
  BY <1>0 DEF Hangup, Go, Choice, TypeOK, ProcessOK
<1>3. up' = up \/ \E m \in {"ACK", "BYE"} : up' = Append(up, m)
  BY DEF Hangup, enderOnly, session
<1>4. down' = down \/ (down # <<>> /\ down' = Tail(down)) BY DEF Hangup, enderOnly, session
<1>. QED BY <1>0, <1>1, <1>2, <1>3, <1>4, AloofRings

(* The other leg looks at the session. *)
LEMMA PeerHangupRings == ASSUME NEW h \in Enders, IInv, RingInv, PeerHangup(h) PROVE RingInv'
<1>0. TypeOK BY DEF IInv
<1>1. UNCHANGED <<maker, tx, invite, callee, cseq, missed>>
  BY DEF PeerHangup, enderOnly, session
<1>2. \A g \in Enders : \/ ender'[g] = ender[g]
                          \/ ender'[g] \notin {"drain", "cancelSent", "cancelNone"}
  BY <1>0 DEF PeerHangup, Go, TypeOK, ProcessOK
<1>3. up' = up \/ \E m \in {"ACK", "BYE"} : up' = Append(up, m)
  BY DEF PeerHangup, enderOnly, session
<1>4. down' = down \/ (down # <<>> /\ down' = Tail(down)) BY DEF PeerHangup, enderOnly, session
<1>. QED BY <1>0, <1>1, <1>2, <1>3, <1>4, AloofRings

(* A REST hangup begins. *)
LEMMA RestHangupRings == ASSUME NEW h \in Enders, IInv, RingInv, RestHangup(h) PROVE RingInv'
<1>0. TypeOK BY DEF IInv
<1>1. UNCHANGED <<maker, tx, invite, callee, cseq, missed>>
  BY DEF RestHangup, enderOnly, session, history
<1>2. \A g \in Enders : \/ ender'[g] = ender[g]
                          \/ ender'[g] \notin {"drain", "cancelSent", "cancelNone"}
  BY <1>0 DEF RestHangup, Go, TypeOK, ProcessOK
<1>3. up' = up \/ \E m \in {"ACK", "BYE"} : up' = Append(up, m)
  BY DEF RestHangup, enderOnly, session, history
<1>4. down' = down \/ (down # <<>> /\ down' = Tail(down))
  BY DEF RestHangup, enderOnly, session, history
<1>. QED BY <1>0, <1>1, <1>2, <1>3, <1>4, AloofRings

(* One of them wins. *)
LEMMA TakeRings == ASSUME NEW h \in Enders, IInv, RingInv, Take(h) PROVE RingInv'
<1>0. TypeOK BY DEF IInv
<1>1. UNCHANGED <<maker, tx, invite, callee, cseq, missed>>
  BY DEF Take, enderOnly, history
<1>2. \A g \in Enders : \/ ender'[g] = ender[g]
                          \/ ender'[g] \notin {"drain", "cancelSent", "cancelNone"}
  BY <1>0 DEF Take, Go, TypeOK, ProcessOK
<1>3. up' = up \/ \E m \in {"ACK", "BYE"} : up' = Append(up, m) BY DEF Take, enderOnly, history
<1>4. down' = down \/ (down # <<>> /\ down' = Tail(down)) BY DEF Take, enderOnly, history
<1>. QED BY <1>0, <1>1, <1>2, <1>3, <1>4, AloofRings

(* A BYE is sent. *)
LEMMA SendByeRings == ASSUME NEW h \in Enders, IInv, RingInv, SendBye(h) PROVE RingInv'
<1>0. TypeOK BY DEF IInv
<1>1. UNCHANGED <<maker, tx, invite, callee, cseq, missed>>
  BY DEF SendBye, enderOnly, session, history
<1>2. \A g \in Enders : \/ ender'[g] = ender[g]
                          \/ ender'[g] \notin {"drain", "cancelSent", "cancelNone"}
  BY <1>0 DEF SendBye, Go, TypeOK, ProcessOK
<1>3. up' = up \/ \E m \in {"ACK", "BYE"} : up' = Append(up, m)
  BY DEF SendBye, enderOnly, session, history
<1>4. down' = down \/ (down # <<>> /\ down' = Tail(down))
  BY DEF SendBye, enderOnly, session, history
<1>. QED BY <1>0, <1>1, <1>2, <1>3, <1>4, AloofRings

(* The BYE was answered. *)
LEMMA ByeSentRings == ASSUME NEW h \in Enders, IInv, RingInv, ByeSent(h) PROVE RingInv'
<1>0. TypeOK BY DEF IInv
<1>1. UNCHANGED <<maker, tx, invite, callee, cseq, missed>>
  BY DEF ByeSent, enderOnly, history
<1>2. \A g \in Enders : \/ ender'[g] = ender[g]
                          \/ ender'[g] \notin {"drain", "cancelSent", "cancelNone"}
  BY <1>0 DEF ByeSent, Go, TypeOK, ProcessOK
<1>3. up' = up \/ \E m \in {"ACK", "BYE"} : up' = Append(up, m)
  BY DEF ByeSent, enderOnly, history
<1>4. down' = down \/ (down # <<>> /\ down' = Tail(down)) BY DEF ByeSent, enderOnly, history
<1>. QED BY <1>0, <1>1, <1>2, <1>3, <1>4, AloofRings

(* The session is ended. *)
LEMMA CleanRings == ASSUME NEW h \in Enders, IInv, RingInv, Clean(h) PROVE RingInv'
<1>0. TypeOK BY DEF IInv
<1>1. UNCHANGED <<maker, tx, invite, callee, cseq, missed>>
  BY DEF Clean, enderOnly, history
<1>2. \A g \in Enders : \/ ender'[g] = ender[g]
                          \/ ender'[g] \notin {"drain", "cancelSent", "cancelNone"}
  BY <1>0 DEF Clean, Go, TypeOK, ProcessOK
<1>3. up' = up \/ \E m \in {"ACK", "BYE"} : up' = Append(up, m) BY DEF Clean, enderOnly, history
<1>4. down' = down \/ (down # <<>> /\ down' = Tail(down)) BY DEF Clean, enderOnly, history
<1>. QED BY <1>0, <1>1, <1>2, <1>3, <1>4, AloofRings

(* The session is deleted. *)
LEMMA ReleaseRings == ASSUME NEW h \in Enders, IInv, RingInv, Release(h) PROVE RingInv'
<1>0. TypeOK BY DEF IInv
<1>1. UNCHANGED <<maker, tx, invite, callee, cseq, missed>>
  BY DEF Release, enderOnly, history
<1>2. \A g \in Enders : \/ ender'[g] = ender[g]
                          \/ ender'[g] \notin {"drain", "cancelSent", "cancelNone"}
  BY <1>0 DEF Release, Go, TypeOK, ProcessOK
<1>3. up' = up \/ \E m \in {"ACK", "BYE"} : up' = Append(up, m)
  BY DEF Release, enderOnly, history
<1>4. down' = down \/ (down # <<>> /\ down' = Tail(down)) BY DEF Release, enderOnly, history
<1>. QED BY <1>0, <1>1, <1>2, <1>3, <1>4, AloofRings

(* A cancel that finds an INVITE sends a CANCEL that the callee reads after it;
   one that finds none is remembered. *)
LEMMA CancelRings == ASSUME NEW h \in Enders, IInv, RingInv, Cancel(h) PROVE RingInv'
<1>0. TypeOK /\ up \in Seq(Ups) /\ "CANCEL1" \in Ups BY DEF IInv, TypeOK, NetworkOK, Ups
<1>1. UNCHANGED <<maker, tx, invite, callee, cseq, down>>
  BY DEF Cancel, enderOnly
<1>2. missed \subseteq missed' BY DEF Cancel
<1>3. up' = up \/ \E m \in Ups \ {"INVITE1"} : up' = Append(up, m) BY DEF Cancel, Ups
<1>4. (Rings' <=> Rings) /\ (Stopped => Stopped') BY <1>0, <1>1, <1>2, <1>3, SameRing
<1>5. \A g \in Enders : g # h => ender'[g] = ender[g] BY <1>0 DEF Cancel, Go, TypeOK, ProcessOK
<1>6. CASE invite = "none" /\ ender'[h] = "cancelNone" /\ up' = up
  <2>1. h \in missed' BY <1>6 DEF Cancel
  <2>2. EarlyOK' BY <1>1, <1>5, <1>6 DEF EarlyOK, RingInv, InUp
  <2>3. WaitOK' BY <2>1 DEF WaitOK, Stopped
  <2>. QED BY <1>0, <1>1, <1>2, <1>3, <1>5, <2>1, <2>2, <2>3, FrameRings DEF RingInv
<1>7. CASE invite = "first" /\ ender'[h] = "drain" /\ up' = Append(up, "CANCEL1")
  <2>1. Stopped'
    <3>1. In("CANCEL1", Append(up, "CANCEL1")) BY <1>0, UpIn
    <3>. QED BY <1>7, <3>1 DEF Stopped, InUp
  <2>2. EarlyOK' BY <1>1, <1>7 DEF EarlyOK, RingInv
  <2>3. WaitOK' BY <2>1 DEF WaitOK
  <2>. QED BY <1>0, <1>1, <1>2, <1>3, <1>5, <1>7, <2>2, <2>3, FrameRings DEF RingInv
<1>8. CASE invite = "auth" /\ ender'[h] = "cancelSent"
  <2>1. Rings => Stopped BY <1>8 DEF RingInv
  <2>2. EarlyOK' BY <1>1, <1>8 DEF EarlyOK, RingInv
  <2>3. WaitOK' BY <1>4, <2>1 DEF WaitOK
  <2>. QED BY <1>0, <1>1, <1>2, <1>3, <1>5, <1>8, <2>2, <2>3, FrameRings DEF RingInv
<1>9. CASE invite # "none" /\ ender'[h] = "release"
  <2>2. EarlyOK' BY <1>1, <1>9 DEF EarlyOK, RingInv
  <2>3. WaitOK' BY <1>1, <1>4, <1>5, <1>9 DEF WaitOK, RingInv
  <2>. QED BY <1>0, <1>1, <1>2, <1>3, <1>5, <1>9, <2>2, <2>3, FrameRings DEF RingInv
<1>. QED BY <1>0, <1>6, <1>7, <1>8, <1>9 DEF Cancel, Go, TypeOK, ProcessOK

(* The answer an ender reads in makeCall's place is from a callee that does not
   ring any more, unless it is a 180. *)
LEMMA DrainRings == ASSUME NEW h \in Enders, IInv, RingInv, Drain(h) PROVE RingInv'
<1>0. TypeOK BY DEF IInv
<1>1. UNCHANGED <<maker, invite, callee, cseq, up, missed>>
  BY DEF Drain, enderOnly, session, history
<1>2. down' = down \/ (down # <<>> /\ down' = Tail(down)) BY DEF Drain, Arrives
<1>3. (Rings' <=> Rings) /\ (Stopped => Stopped') BY <1>0, <1>1, <1>2, SameRing
<1>4. Rings => Stopped BY DEF Drain, RingInv
<1>5. ender[h] = "drain" /\ ender'[h] = "cancelSent"
      /\ \A g \in Enders : g # h => ender'[g] = ender[g]
  BY <1>0 DEF Drain, Go, TypeOK, ProcessOK
<1>6. EarlyOK' BY <1>1, <1>5 DEF EarlyOK, RingInv
<1>7. WaitOK' BY <1>3, <1>4 DEF WaitOK
<1>. QED BY <1>0, <1>1, <1>2, <1>5, <1>6, <1>7, FrameRings DEF RingInv

(* The INVITE is forgotten only when its CANCEL was sent or none was found. *)
LEMMA ForgetRings == ASSUME NEW h \in Enders, IInv, RingInv, Forget(h) PROVE RingInv'
<1>0. TypeOK BY DEF IInv
<1>1. UNCHANGED <<maker, tx, callee, cseq, up, down, missed>> /\ invite' = "none"
  BY DEF Forget, enderOnly, history
<1>2. (Rings' <=> Rings) /\ (Stopped => Stopped') BY <1>0, <1>1, SameRing
<1>3. Rings => Stopped
  <2>1. CASE ender[h] = "cancelNone" BY <2>1 DEF RingInv, Stopped
  <2>2. CASE ender[h] = "cancelSent" BY <2>2 DEF RingInv
  <2>. QED BY <2>1, <2>2 DEF Forget
<1>4. ender'[h] = "release" /\ \A g \in Enders : g # h => ender'[g] = ender[g]
  BY <1>0 DEF Forget, Go, TypeOK, ProcessOK
<1>5. EarlyOK' BY <1>1, <1>4 DEF EarlyOK, RingInv, InUp
<1>6. WaitOK' BY <1>2, <1>3 DEF WaitOK
<1>. QED BY <1>0, <1>1, <1>4, <1>5, <1>6, FrameRings DEF RingInv

(* A callee that says something has only left off ringing, or it begins to. *)
LEMMA SaysRings ==
  ASSUME TypeOK, RingInv, UNCHANGED <<maker, tx, invite, cseq, up, ender, missed>>,
         NEW m, down' = Append(down, m), m \in Downs,
         Rings' => Rings, Rings' => \A c \in {"ok", "auth", "refused"} : m # <<1, c>>
  PROVE  RingInv'
<1>1. \A x : InDown(x)' <=> InDown(x) \/ x = m BY DownIn DEF TypeOK, NetworkOK, InDown
<1>2. Stopped' <=> Stopped BY DEF Stopped, InUp
<1>. QED BY <1>1, <1>2 DEF RingInv, InUp

(* The callee rings. *)
LEMMA CalleeRingsRings == ASSUME IInv, RingInv, CalleeRings PROVE RingInv'
<1>0. TypeOK BY DEF IInv
<1>1. UNCHANGED <<maker, tx, invite, cseq, up, ender, missed>>
  BY DEF CalleeRings, CalleeSays, calleeOnly, session, history
<1>2. down' = Append(down, <<cseq, "ringing">>) BY DEF CalleeRings, CalleeSays, Sends
<1>3. cseq \in {1, 2}
  BY <1>0 DEF CalleeRings, CalleeSays, IInv, AnswerInv, TypeOK, NetworkOK
<1>4. <<cseq, "ringing">> \in Downs BY <1>3 DEF Downs
<1>5. Rings' => Rings BY <1>1 DEF CalleeRings, CalleeSays, Rings, InUp
<1>. QED BY <1>0, <1>1, <1>2, <1>4, <1>5, SaysRings

(* It answers. *)
LEMMA CalleeAnswersRings == ASSUME IInv, RingInv, CalleeAnswers PROVE RingInv'
<1>0. TypeOK BY DEF IInv
<1>1. UNCHANGED <<maker, tx, invite, cseq, up, ender, missed>>
  BY DEF CalleeAnswers, CalleeSays, calleeOnly, session, history
<1>2. down' = Append(down, <<cseq, "ok">>) BY DEF CalleeAnswers, CalleeSays, Sends
<1>3. cseq \in {1, 2}
  BY <1>0 DEF CalleeAnswers, CalleeSays, IInv, AnswerInv, TypeOK, NetworkOK
<1>4. <<cseq, "ok">> \in Downs BY <1>3 DEF Downs
<1>5. ~InUp("INVITE1")
  BY DEF CalleeAnswers, CalleeSays, IInv, InviteInv
<1>6. ~Rings' BY <1>1, <1>5 DEF CalleeAnswers, CalleeSays, Rings, InUp
<1>. QED BY <1>0, <1>1, <1>2, <1>4, <1>6, SaysRings

(* It refuses. *)
LEMMA CalleeRefusesRings == ASSUME IInv, RingInv, CalleeRefuses PROVE RingInv'
<1>0. TypeOK BY DEF IInv
<1>1. UNCHANGED <<maker, tx, invite, cseq, up, ender, missed>>
  BY DEF CalleeRefuses, CalleeSays, calleeOnly, session, history
<1>2. down' = Append(down, <<cseq, "refused">>) BY DEF CalleeRefuses, CalleeSays, Sends
<1>3. cseq \in {1, 2}
  BY <1>0 DEF CalleeRefuses, CalleeSays, IInv, AnswerInv, TypeOK, NetworkOK
<1>4. <<cseq, "refused">> \in Downs BY <1>3 DEF Downs
<1>5. ~InUp("INVITE1")
  BY DEF CalleeRefuses, CalleeSays, IInv, InviteInv
<1>6. ~Rings' BY <1>1, <1>5 DEF CalleeRefuses, CalleeSays, Rings, InUp
<1>. QED BY <1>0, <1>1, <1>2, <1>4, <1>6, SaysRings

(* It asks for a password. *)
LEMMA CalleeChallengesRings == ASSUME IInv, RingInv, CalleeChallenges PROVE RingInv'
<1>0. TypeOK BY DEF IInv
<1>1. UNCHANGED <<maker, tx, invite, cseq, up, ender, missed>>
  BY DEF CalleeChallenges, CalleeSays, calleeOnly, session, history
<1>2. down' = Append(down, <<cseq, "auth">>) BY DEF CalleeChallenges, CalleeSays, Sends
<1>3. cseq \in {1, 2}
  BY <1>0 DEF CalleeChallenges, CalleeSays, IInv, AnswerInv, TypeOK, NetworkOK
<1>4. <<cseq, "auth">> \in Downs BY <1>3 DEF Downs
<1>5. ~InUp("INVITE1")
  BY DEF CalleeChallenges, CalleeSays, IInv, InviteInv
<1>6. ~Rings' BY <1>1, <1>5 DEF CalleeChallenges, CalleeSays, Rings, InUp
<1>. QED BY <1>0, <1>1, <1>2, <1>4, <1>6, SaysRings

(* It sends its 200 again. *)
LEMMA CalleeRepeatsRings == ASSUME IInv, RingInv, CalleeRepeats PROVE RingInv'
<1>0. TypeOK BY DEF IInv
<1>1. UNCHANGED <<maker, tx, invite, cseq, up, ender, missed>>
  BY DEF CalleeRepeats, CalleeSays, calleeOnly, session, history
<1>2. down' = Append(down, <<cseq, "ok">>) BY DEF CalleeRepeats, CalleeSays, Sends
<1>3. cseq \in {1, 2}
  BY <1>0 DEF CalleeRepeats, CalleeSays, IInv, AnswerInv, TypeOK, NetworkOK
<1>4. <<cseq, "ok">> \in Downs BY <1>3 DEF Downs
<1>5. ~InUp("INVITE1")
  BY DEF CalleeRepeats, CalleeSays, IInv, InviteInv
<1>6. ~Rings' BY <1>1, <1>5 DEF CalleeRepeats, CalleeSays, Rings, InUp
<1>. QED BY <1>0, <1>1, <1>2, <1>4, <1>6, SaysRings

(* It hangs up. *)
LEMMA CalleeHangsUpRings == ASSUME IInv, RingInv, CalleeHangsUp PROVE RingInv'
<1>0. TypeOK BY DEF IInv
<1>1. UNCHANGED <<maker, tx, invite, cseq, up, ender, missed>>
  BY DEF CalleeHangsUp, calleeOnly, session, history
<1>2. down' = Append(down, Bye) /\ Bye \in Downs BY DEF CalleeHangsUp, Sends, Downs
<1>3. Rings' => Rings BY <1>1 DEF CalleeHangsUp, Rings, InUp
<1>4. \A c \in {"ok", "auth", "refused"} : Bye # <<1, c>> BY DEF Bye
<1>. QED BY <1>0, <1>1, <1>2, <1>3, <1>4, SaysRings

(* What the callee reads, and what is lost, leaves the queue in its order. *)
LEMMA TailOrder ==
  ASSUME up \in Seq(Ups), up # <<>>, RingInv
  PROVE  /\ \A i, j \in 1..Len(Tail(up)) :
              Tail(up)[i] = "INVITE1" /\ Tail(up)[j] = "CANCEL1" => i < j
         /\ Head(up) = "CANCEL1" => ~In("INVITE1", up)
<1>1. \A i \in 1..Len(Tail(up)) : Tail(up)[i] = up[i + 1] /\ i + 1 \in 1..Len(up) OBVIOUS
<1>2. \A i, j \in 1..Len(Tail(up)) :
         Tail(up)[i] = "INVITE1" /\ Tail(up)[j] = "CANCEL1" => i < j
  <2>. SUFFICES ASSUME NEW i \in 1..Len(Tail(up)), NEW j \in 1..Len(Tail(up)),
                       Tail(up)[i] = "INVITE1", Tail(up)[j] = "CANCEL1"
                PROVE  i < j
    OBVIOUS
  <2>1. i + 1 < j + 1 BY <1>1 DEF RingInv
  <2>. QED BY <2>1
<1>3. ASSUME Head(up) = "CANCEL1", In("INVITE1", up) PROVE FALSE
  <2>1. PICK i \in 1..Len(up) : up[i] = "INVITE1" BY <1>3 DEF In
  <2>2. 1 \in 1..Len(up) /\ up[1] = "CANCEL1" BY <1>3
  <2>. QED BY <2>1, <2>2 DEF RingInv
<1>. QED BY <1>2, <1>3

(* The callee reads a message: after the INVITE it rings, after the CANCEL it
   does not, and the other messages are of calls that do not ring. *)
LEMMA CalleeReadsRings == ASSUME IInv, RingInv, CalleeReads PROVE RingInv'
<1>0. up \in Seq(Ups) /\ up # <<>> /\ up' = Tail(up) /\ down \in Seq(Downs) /\ Head(up) \in Ups
  BY DEF IInv, TypeOK, NetworkOK, CalleeReads
<1>1. UNCHANGED <<maker, tx, invite, ender, missed>>
  BY DEF CalleeReads, calleeOnly, session, history
<1>2. \A m : InUp(m) <=> InUp(m)' \/ m = Head(up) BY <1>0, OldIn DEF InUp
<1>3. \A i, j \in 1..Len(up') : up'[i] = "INVITE1" /\ up'[j] = "CANCEL1" => i < j
  BY <1>0, TailOrder
<1>4. \A h \in Enders : ender'[h] = "cancelNone" => h \in missed' BY <1>1 DEF RingInv
<1>5. EarlyOK' BY <1>1, <1>2 DEF EarlyOK, RingInv
<1>6. CASE Head(up) = "INVITE1"
  <2>1. down' = down /\ Rings BY <1>2, <1>6 DEF CalleeReads, CalleeInvited, Rings
  <2>2. Stopped' <=> Stopped BY <1>1, <1>2, <1>6 DEF Stopped
  <2>. QED BY <1>1, <1>3, <1>4, <1>5, <2>1, <2>2 DEF RingInv, EarlyOK, InDown
<1>7. CASE Head(up) = "INVITE2"
  <2>1. InUp("INVITE2")
    <3>1. \A m : m = Head(up) => InUp(m) BY <1>2
    <3>. QED BY <1>7, <3>1
  <2>2. ~InUp("INVITE1") BY <2>1 DEF IInv, InviteInv
  <2>3. ~Rings'
    <3>1. ~InUp("INVITE1")' BY <1>2, <2>2
    <3>2. CalleeInvited(2) BY <1>7 DEF CalleeReads
    <3>. QED BY <3>1, <3>2 DEF CalleeInvited, Rings
  <2>. QED BY <1>3, <1>4, <1>5, <2>3 DEF RingInv, EarlyOK
<1>8. CASE Head(up) = "CANCEL1"
  <2>1. ~InUp("INVITE1") BY <1>0, <1>8, TailOrder DEF InUp
  <2>2. ~Rings'
    <3>1. ~InUp("INVITE1")' BY <1>2, <2>1
    <3>2. CalleeCancelled(1) BY <1>8 DEF CalleeReads
    <3>. QED BY <3>1, <3>2 DEF CalleeCancelled, Rings
  <2>. QED BY <1>3, <1>4, <1>5, <2>2 DEF RingInv, EarlyOK
<1>9. CASE Head(up) = "CANCEL2"
  <2>1. CalleeCancelled(2) BY <1>9 DEF CalleeReads
  <2>2. Stopped' <=> Stopped BY <1>1, <1>2, <1>9 DEF Stopped
  <2>3. CASE UNCHANGED <<callee, cseq, down>>
    <3>1. Rings' <=> Rings BY <1>2, <1>9, <2>3 DEF Rings
    <3>. QED BY <1>1, <1>3, <1>4, <1>5, <2>2, <2>3, <3>1 DEF RingInv, EarlyOK, InDown
  <2>4. CASE callee \in {"invited", "ringing"} /\ callee' = "over"
    <3>1. ~InUp("INVITE1") BY <2>4 DEF IInv, InviteInv
    <3>2. ~Rings' BY <1>2, <2>4, <3>1 DEF Rings
    <3>. QED BY <1>3, <1>4, <1>5, <3>2 DEF RingInv, EarlyOK
  <2>. QED BY <2>1, <2>3, <2>4 DEF CalleeCancelled
<1>10. CASE Head(up) \in {"ACK", "BYE"}
  <2>1. UNCHANGED <<cseq, down>> /\ (callee' = callee \/ callee' \in {"talking", "over"})
    BY <1>10 DEF CalleeReads, CalleeMoves
  <2>2. Stopped' <=> Stopped BY <1>1, <1>2, <1>10 DEF Stopped
  <2>3. Rings' => Rings BY <1>2, <2>1 DEF Rings
  <2>. QED BY <1>1, <1>3, <1>4, <1>5, <2>1, <2>2, <2>3 DEF RingInv, EarlyOK, InDown
<1>. QED BY <1>0, <1>6, <1>7, <1>8, <1>9, <1>10 DEF Ups

(* An INVITE or an ACK is lost: nothing rings that did not. *)
LEMMA LosesRings == ASSUME IInv, RingInv, Loses PROVE RingInv'
<1>0. up \in Seq(Ups) /\ up # <<>> /\ up' = Tail(up)
  BY DEF IInv, TypeOK, NetworkOK, Loses
<1>1. UNCHANGED <<maker, tx, invite, ender, missed, callee, cseq, down>>
  BY DEF Loses, calleeOnly, session, history
<1>2. \A m : InUp(m) <=> InUp(m)' \/ m = Head(up) BY <1>0, OldIn DEF InUp
<1>3. \A i, j \in 1..Len(up') : up'[i] = "INVITE1" /\ up'[j] = "CANCEL1" => i < j
  BY <1>0, TailOrder
<1>4. Stopped' <=> Stopped BY <1>1, <1>2 DEF Stopped, Loses
<1>5. Rings' => Rings BY <1>1, <1>2 DEF Rings
<1>6. \A m : InDown(m)' <=> InDown(m) BY <1>1 DEF InDown
<1>. QED BY <1>1, <1>2, <1>3, <1>4, <1>5, <1>6 DEF RingInv

(* At first nothing rings. *)
LEMMA InitRings == Init => RingInv
<1>. SUFFICES ASSUME Init PROVE RingInv OBVIOUS
<1>1. \A m : ~InUp(m) BY EmptyIn DEF Init, InUp
<1>2. ~Rings BY <1>1 DEF Rings, Init
<1>3. \A i, j \in 1..Len(up) : up[i] = "INVITE1" /\ up[j] = "CANCEL1" => i < j
  BY <1>1 DEF InUp, In
<1>. QED BY <1>1, <1>2, <1>3 DEF RingInv, Init

(* Every step keeps RingInv. *)
LEMMA NextRings == ASSUME IInv, RingInv, [Next]_vars PROVE RingInv'
<1>1. CASE MakerStep
  BY <1>1, OpenRings, PrimedRings, SendInviteRings, StoreInviteRings, OnRingingRings,
     OnOkRings, OnRefusedRings, OnChallengeRings, SendAuthRings, AuthRingsRings,
     AuthOkRings, AuthFailsRings, AckOkRings, ActivateRings, TxDoneRings,
     CtxEndsRings, CancelledRings, ReturnRings DEF MakerStep
<1>2. CASE \E h \in Enders : EnderStarts(h) \/ EnderStep(h)
  <2>. PICK h \in Enders : EnderStarts(h) \/ EnderStep(h) BY <1>2
  <2>1. CASE EnderStarts(h)
    BY <2>1, HangupRings, PeerHangupRings, RestHangupRings DEF EnderStarts
  <2>2. CASE EnderStep(h)
    BY <2>2, TakeRings, SendByeRings, ByeSentRings, CancelRings, DrainRings, ForgetRings,
       CleanRings, ReleaseRings DEF EnderStep
  <2>. QED BY <2>1, <2>2
<1>3. CASE IceStep \/ Janitor \/ TimeOut
  BY <1>3, IceDownRings, IceUpRings, IceFailsRings, IceGraceEndsRings, JanitorRings, TimeOutRings
     DEF IceStep
<1>4. CASE CalleeStep \/ CalleeHangsUp \/ Loses
  BY <1>4, CalleeRingsRings, CalleeAnswersRings, CalleeRefusesRings, CalleeChallengesRings,
     CalleeRepeatsRings, CalleeHangsUpRings, LosesRings DEF CalleeStep
<1>5. CASE NetworkStep
  BY <1>5, CalleeReadsRings, UnhandledRings, ByeInRings, ByeCleanRings DEF NetworkStep
<1>6. CASE UNCHANGED vars
  <2>1. UNCHANGED <<maker, tx, invite, callee, cseq, missed, ender, up, down>>
    BY <1>6 DEF vars, session, history, network
  <2>. QED BY <2>1, AloofRings DEF IInv
<1>. QED BY <1>1, <1>2, <1>3, <1>4, <1>5, <1>6 DEF Next

(* A callee rings on after everything is over only for one of the three causes:
   CancelPendingCall's one look at the stored INVITE, the authenticated INVITE
   that makeCall itself never cancels, and a CANCEL of makeCall's that could not
   be sent are the only leaks. *)
THEOREM RingsWithCause == Spec => []RingsOnWithCause
<1>1. IInv /\ RingInv => RingsOnWithCause
  <2>. SUFFICES ASSUME IInv, RingInv, Quiet, callee \in {"invited", "ringing"}, cseq # 2
                PROVE  missed # {}
    BY DEF RingsOnWithCause
  <2>1. cseq = 1 BY DEF IInv, TypeOK, NetworkOK, AnswerInv
  <2>2. Rings BY <2>1 DEF Rings
  <2>3. maker = "returned" /\ ~InUp("CANCEL1") BY EmptyIn DEF Quiet, InUp
  <2>4. Stopped BY <2>2, <2>3 DEF RingInv
  <2>. QED BY <2>3, <2>4 DEF Stopped
<1>2. Spec => []RingInv BY Invariance, InitRings, NextRings, PTL DEF Spec
<1>. QED BY <1>1, <1>2, Invariance, PTL

(* The callee of a call that is over neither rings nor talks on, but for those
   causes. *)
THEOREM CalleeIsReleased == Spec => []CalleeReleased
<1>1. RingsOnWithCause /\ DialogHungUp => CalleeReleased BY DEF CalleeReleased
<1>. QED BY <1>1, RingsWithCause, HangsUp, PTL

=============================================================================
