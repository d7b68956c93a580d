-------------------------- MODULE CoordinatorProofs --------------------------
(***************************************************************************)
(* The safety properties of the coordinator, for any number of             *)
(* connections, agents, calls and restarts.                                *)
(***************************************************************************)
EXTENDS Coordinator, TLAPS

-----------------------------------------------------------------------------
(***************************************************************************)
(* Type correctness.                                                       *)
(***************************************************************************)
LEMMA NothingTyped ==
  /\ SomeAgent \in Agent
  /\ NoAuthority \in Authority
  /\ NoRequest \in [type : Type \cup {"PING"}, auth : Authority, agent : Agent, boot : Nat]
  /\ NoAnswer \in [ok : BOOLEAN, auth : Authority]
  /\ NoHistory \in [auth : Authority, boots : SUBSET Nat]
<1>1. SomeAgent \in Agent
  BY AgentAssumption DEF SomeAgent
<1> QED
  BY <1>1 DEF NoAuthority, NoRequest, NoAnswer, NoHistory, Authority

\* A coordinator that has just started is well typed.
LEMMA TypeInit == Init => TypeOK
<1> SUFFICES ASSUME Init PROVE TypeOK
  OBVIOUS
<1>1. CurrentAuthority \in Authority
  BY DEF Init, CurrentAuthority, Authority, StartAuthority
<1> QED
  BY <1>1, NothingTyped DEF Init, TypeOK, CurrentAuthority, StartAuthority

\* What the first unlocked read after the call leaves in the answer.
LEMMA RereadEpochAnswer ==
  ASSUME TypeOK, NEW s \in Session, RereadEpoch(s)
  PROVE  resp' = [resp EXCEPT ![s] =
           [ok |-> resp[s].ok,
            auth |-> [epoch |-> epoch, quota_generation |-> resp[s].auth.quota_generation]]]
<1>1. resp[s] \in [ok : BOOLEAN, auth : [epoch : Nat, quota_generation : Nat]]
  BY DEF TypeOK, Authority
<1>2. [resp[s] EXCEPT !.auth.epoch = epoch] =
        [ok |-> resp[s].ok,
         auth |-> [epoch |-> epoch, quota_generation |-> resp[s].auth.quota_generation]]
  BY <1>1
<1>3. resp' = [resp EXCEPT ![s] = [resp[s] EXCEPT !.auth.epoch = epoch]]
  BY DEF RereadEpoch
<1> QED
  BY <1>2, <1>3, Zenon

\* What the second one leaves in it.
LEMMA RereadGenerationAnswer ==
  ASSUME TypeOK, NEW s \in Session, RereadGeneration(s)
  PROVE  resp' = [resp EXCEPT ![s] =
           [ok |-> resp[s].ok,
            auth |-> [epoch |-> resp[s].auth.epoch, quota_generation |-> quota_generation]]]
<1>1. resp[s] \in [ok : BOOLEAN, auth : [epoch : Nat, quota_generation : Nat]]
  BY DEF TypeOK, Authority
<1>2. [resp[s] EXCEPT !.auth.quota_generation = quota_generation] =
        [ok |-> resp[s].ok,
         auth |-> [epoch |-> resp[s].auth.epoch, quota_generation |-> quota_generation]]
  BY <1>1
<1>3. resp' = [resp EXCEPT ![s] = [resp[s] EXCEPT !.auth.quota_generation = quota_generation]]
  BY DEF RereadGeneration
<1> QED
  BY <1>2, <1>3, Zenon

\* Every step of a client, a thread or a restart keeps the types.
LEMMA TypeNext == TypeOK /\ [Next]_vars => TypeOK'
<1> SUFFICES ASSUME TypeOK, [Next]_vars PROVE TypeOK'
  OBVIOUS
<1> USE NothingTyped
<1>1. ASSUME NEW s \in Session, Connect(s) PROVE TypeOK'
  <2>1. PICK a \in Agent :
          client' = [client EXCEPT ![s] =
                       [auth |-> client[s].auth, agent |-> a, boot |-> connections']]
    BY <1>1, Zenon DEF Connect
  <2>2. connections' \in Nat
    BY <1>1 DEF Connect, TypeOK
  <2>3. client' \in [Session -> [auth : Authority, agent : Agent, boot : Nat]]
    BY <2>1, <2>2 DEF TypeOK
  <2> QED
    BY <1>1, <2>2, <2>3 DEF Connect, TypeOK, Goto, engineVars, CurrentAuthority
<1>2. ASSUME NEW s \in Session, Send(s) PROVE TypeOK'
  BY <1>2 DEF Send, TypeOK, Goto, engineVars, CurrentAuthority
<1>3. ASSUME NEW s \in Session, Learn(s) PROVE TypeOK'
  <2>1. client' \in [Session -> [auth : Authority, agent : Agent, boot : Nat]]
    <3>1. CASE resp[s].auth.epoch = 0
      BY <1>3, <3>1 DEF Learn, TypeOK
    <3>2. CASE resp[s].auth.epoch # 0
      <4>1. client' = [client EXCEPT ![s].auth = resp[s].auth]
        BY <1>3, <3>2 DEF Learn
      <4>2. resp[s].auth \in Authority
        BY DEF TypeOK
      <4>3. client \in [Session -> [auth : Authority, agent : Agent, boot : Nat]]
        BY DEF TypeOK
      <4> HIDE NothingTyped
      <4>4. [client[s] EXCEPT !.auth = resp[s].auth]
              \in [auth : Authority, agent : Agent, boot : Nat]
        BY <4>2, <4>3
      <4> QED
        BY <4>1, <4>3, <4>4
    <3> QED
      BY <3>1, <3>2
  <2> QED
    BY <1>3, <2>1 DEF Learn, TypeOK, Goto, Forget, engineVars, countVars, CurrentAuthority
<1>4. ASSUME NEW s \in Session, Disconnect(s) PROVE TypeOK'
  BY <1>4 DEF Disconnect, TypeOK, engineVars, CurrentAuthority
<1>5. ASSUME NEW s \in Session, EndSession(s) PROVE TypeOK'
  BY <1>5 DEF EndSession, TypeOK, Goto, Forget, engineVars, countVars, CurrentAuthority
<1>6. ASSUME NEW s \in Session, Receive(s) PROVE TypeOK'
  <2>1. CurrentAuthority \in Authority /\ CurrentAuthority' = CurrentAuthority
    BY <1>6 DEF Receive, TypeOK, engineVars, CurrentAuthority, Authority
  <2>2. arrived' \in [Session -> [auth : Authority, boots : SUBSET Nat]]
    BY <1>6, <2>1 DEF Receive, TypeOK
  <2>3. worked' \in [Session -> Authority] /\ resp' \in [Session -> [ok : BOOLEAN, auth : Authority]]
    BY <1>6, <2>1 DEF Receive, TypeOK
  <2> QED
    BY <1>6, <2>1, <2>2, <2>3 DEF Receive, TypeOK, Goto, FirstStep, engineVars, countVars
<1>7. ASSUME NEW s \in Session, CheckEpoch(s) \/ CheckGeneration(s) \/ CheckBoot(s)
      PROVE  TypeOK'
  BY <1>7 DEF CheckEpoch, CheckGeneration, CheckBoot, TypeOK, Goto, engineVars,
              countVars, CurrentAuthority
<1>8. ASSUME NEW s \in Session, Call(s) PROVE TypeOK'
  <2>1. CASE Work(s)
    <3>1. /\ epoch' \in Nat \ {0} /\ quota_generation' \in Nat \ {0}
          /\ agents' \in [Agent -> Nat]
      BY <2>1 DEF Work, EngineDoes, TypeOK, CurrentAuthority, Authority
    <3>2. /\ CurrentAuthority' \in Authority
          /\ CurrentAuthority' \in [epoch : Nat \ {0}, quota_generation : Nat \ {0}]
      BY <3>1 DEF CurrentAuthority, Authority
    <3>3. arrived' \in [Session -> [auth : Authority, boots : SUBSET Nat]]
      <4> SUFFICES ASSUME NEW t \in Session
                   PROVE  arrived'[t] \in [auth : Authority, boots : SUBSET Nat]
        BY <2>1 DEF Work
      <4>1. req[t].agent \in Agent /\ agents'[req[t].agent] \in Nat
        BY <3>1 DEF TypeOK
      <4>2. arrived[t] \in [auth : Authority, boots : SUBSET Nat]
        BY DEF TypeOK
      <4>3. arrived'[t] = IF Checking(t)
                          THEN [arrived[t] EXCEPT !.boots = @ \cup {agents'[req[t].agent]}]
                          ELSE arrived[t]
        BY <2>1 DEF Work
      <4> QED
        BY <4>1, <4>2, <4>3
    <3>4. resp' \in [Session -> [ok : BOOLEAN, auth : Authority]]
      BY <2>1, Zenon DEF Work, TypeOK
    <3>5. worked' \in [Session -> Authority]
      BY <2>1, <3>2 DEF Work, TypeOK
    <3>6. pc' = [pc EXCEPT ![s] = "reread_epoch"] /\ UNCHANGED <<open, req, client, connections>>
      BY <1>8 DEF Call, Goto, countVars
    <3> QED
      BY <3>1, <3>2, <3>3, <3>4, <3>5, <3>6 DEF TypeOK
  <2>2. CASE Refuse(s)
    BY <1>8, <2>2 DEF Call, Refuse, TypeOK, Goto, engineVars, countVars, CurrentAuthority
  <2> QED
    BY <1>8, <2>1, <2>2 DEF Call
<1>9. ASSUME NEW s \in Session, RereadEpoch(s) \/ RereadGeneration(s) PROVE TypeOK'
  <2>1. epoch \in Nat /\ quota_generation \in Nat
    BY DEF TypeOK, CurrentAuthority, Authority
  <2>2. resp' \in [Session -> [ok : BOOLEAN, auth : Authority]]
    <3> DEFINE Answers == [ok : BOOLEAN, auth : Authority]
    <3>1. resp \in [Session -> Answers]
      BY DEF TypeOK
    <3>2. /\ resp[s].ok \in BOOLEAN
          /\ resp[s].auth.epoch \in Nat /\ resp[s].auth.quota_generation \in Nat
      BY <3>1 DEF Authority
    <3>3. PICK x \in Answers : resp' = [resp EXCEPT ![s] = x]
      <4>1. CASE RereadEpoch(s)
        <5>1. [ok |-> resp[s].ok,
               auth |-> [epoch |-> epoch, quota_generation |-> resp[s].auth.quota_generation]]
                \in Answers
          BY <2>1, <3>2 DEF Authority
        <5> QED
          BY <4>1, <5>1, RereadEpochAnswer
      <4>2. CASE RereadGeneration(s)
        <5>1. [ok |-> resp[s].ok,
               auth |-> [epoch |-> resp[s].auth.epoch, quota_generation |-> quota_generation]]
                \in Answers
          BY <2>1, <3>2 DEF Authority
        <5> QED
          BY <4>2, <5>1, RereadGenerationAnswer
      <4> QED
        BY <1>9, <4>1, <4>2
    <3> HIDE DEF Answers
    <3>4. resp' \in [Session -> Answers]
      BY <3>1, <3>3
    <3> QED
      BY <3>4 DEF Answers
  <2> QED
    BY <1>9, <2>2, Zenon DEF RereadEpoch, RereadGeneration, TypeOK, Goto, engineVars, countVars,
                      CurrentAuthority
<1>10. ASSUME Restart PROVE TypeOK'
  BY <1>10 DEF Restart, TypeOK, CurrentAuthority, Authority, StartAuthority
<1>11. ASSUME UNCHANGED vars PROVE TypeOK'
  BY <1>11 DEF vars, engineVars, countVars, TypeOK, CurrentAuthority
<1> QED
  BY <1>1, <1>2, <1>3, <1>4, <1>5, <1>6, <1>7, <1>8, <1>9, <1>10, <1>11
  DEF Next, Serve

-----------------------------------------------------------------------------
(***************************************************************************)
(* What a thread has learnt at each point of handle_session, and other     *)
(* threads cannot undo: epoch and quota generation only grow while the     *)
(* process lives, and a new boot is noted for every request being checked. *)
(***************************************************************************)
InService(t) == pc[t] \notin {"closed", "idle", "sent"}

Behind(t) ==
  InService(t) =>
    /\ AtLeast(CurrentAuthority, arrived[t].auth)
    /\ AtLeast(CurrentAuthority, worked[t])

EpochSeen(t) ==
  pc[t] \in {"check_generation", "check_boot", "call"} /\ req[t].type \notin Unchecked =>
    req[t].auth.epoch >= arrived[t].auth.epoch /\ epoch >= req[t].auth.epoch

GenerationSeen(t) ==
  pc[t] \in {"check_boot", "call"} /\ req[t].type \notin Unchecked =>
    /\ req[t].auth.quota_generation >= arrived[t].auth.quota_generation
    /\ quota_generation >= req[t].auth.quota_generation

BootSeen(t) ==
  /\ Checking(t) => agents[req[t].agent] \in arrived[t].boots
  /\ pc[t] = "call" /\ req[t].type = "OBSERVE" => req[t].boot \in arrived[t].boots

Unfinished(t) == Checking(t) => ~resp[t].ok

RereadSeen(t) ==
  pc[t] = "reread_generation" =>
    resp[t].auth.epoch >= worked[t].epoch /\ epoch >= resp[t].auth.epoch

AnswerSeen(t) ==
  pc[t] = "answered" /\ req[t].type # "MALFORMED" =>
    /\ AtLeast(resp[t].auth, worked[t])
    /\ AtLeast(CurrentAuthority, resp[t].auth)

SessionInv(t) ==
  /\ Behind(t) /\ EpochSeen(t) /\ GenerationSeen(t) /\ BootSeen(t)
  /\ Unfinished(t) /\ RereadSeen(t) /\ AnswerSeen(t)

IInv == TypeOK /\ \A t \in Session : SessionInv(t)

\* The fields the invariant compares are numbers.
LEMMA Numbers ==
  ASSUME TypeOK, NEW t \in Session
  PROVE  /\ epoch \in Nat /\ quota_generation \in Nat
         /\ req[t].auth.epoch \in Nat /\ req[t].auth.quota_generation \in Nat
         /\ resp[t].auth.epoch \in Nat /\ resp[t].auth.quota_generation \in Nat
         /\ arrived[t].auth.epoch \in Nat /\ arrived[t].auth.quota_generation \in Nat
         /\ worked[t].epoch \in Nat /\ worked[t].quota_generation \in Nat
<1>1. epoch \in Nat /\ quota_generation \in Nat
  BY DEF TypeOK, CurrentAuthority, Authority
<1>2. req[t].auth \in Authority /\ resp[t].auth \in Authority
  BY DEF TypeOK
<1>3. arrived[t].auth \in Authority /\ worked[t] \in Authority
  BY DEF TypeOK
<1> QED
  BY <1>1, <1>2, <1>3 DEF Authority

\* What a step of another session leaves to session t.
Spared(t) ==
  /\ pc'[t] = pc[t] /\ req'[t] = req[t] /\ resp'[t] = resp[t] /\ worked'[t] = worked[t]
  /\ arrived'[t].auth = arrived[t].auth
  /\ arrived[t].boots \subseteq arrived'[t].boots
  /\ epoch' >= epoch /\ quota_generation' >= quota_generation
  /\ Checking(t) => \/ agents'[req[t].agent] = agents[req[t].agent]
                    \/ agents'[req[t].agent] \in arrived'[t].boots

\* A session keeps its invariant when its own state is left alone and the
\* authority only moves forward.
LEMMA SparedKeeps ==
  ASSUME TypeOK, TypeOK', NEW t \in Session, SessionInv(t), Spared(t)
  PROVE  SessionInv(t)'
<1> USE Numbers
<1>1. epoch' \in Nat /\ quota_generation' \in Nat
  BY DEF TypeOK, CurrentAuthority, Authority
<1>2. Behind(t)'
  BY <1>1 DEF SessionInv, Behind, Spared, InService, AtLeast, CurrentAuthority
<1>3. EpochSeen(t)'
  BY <1>1 DEF SessionInv, EpochSeen, Spared
<1>4. GenerationSeen(t)'
  BY <1>1 DEF SessionInv, GenerationSeen, Spared
<1>5. BootSeen(t)'
  BY DEF SessionInv, BootSeen, Spared, Checking
<1>6. RereadSeen(t)'
  BY <1>1 DEF SessionInv, RereadSeen, Spared
<1>7. AnswerSeen(t)'
  BY <1>1 DEF SessionInv, AnswerSeen, Spared, AtLeast, CurrentAuthority
<1>8. Unfinished(t)'
  BY DEF SessionInv, Unfinished, Checking, Spared
<1> QED
  BY <1>2, <1>3, <1>4, <1>5, <1>6, <1>7, <1>8 DEF SessionInv

SessionStep(s) == Connect(s) \/ Send(s) \/ Learn(s) \/ Disconnect(s) \/ Serve(s)

\* A step of one session leaves all other sessions alone in that sense.
LEMMA OthersSpared ==
  ASSUME TypeOK, NEW s \in Session, NEW t \in Session, t # s, SessionStep(s)
  PROVE  Spared(t)
<1> USE Numbers
<1>1. CASE Connect(s) \/ Send(s) \/ Disconnect(s)
  BY <1>1 DEF Connect, Send, Disconnect, Goto, TypeOK, Spared, engineVars
<1>2. CASE Learn(s) \/ EndSession(s)
  BY <1>2 DEF Learn, EndSession, Goto, Forget, TypeOK, Spared, engineVars
<1>3. CASE Receive(s)
  BY <1>3 DEF Receive, Goto, TypeOK, Spared, engineVars
<1>4. CASE CheckEpoch(s) \/ CheckGeneration(s) \/ CheckBoot(s)
  BY <1>4 DEF CheckEpoch, CheckGeneration, CheckBoot, Goto, TypeOK, Spared, engineVars
<1>5. CASE RereadEpoch(s) \/ RereadGeneration(s)
  BY <1>5 DEF RereadEpoch, RereadGeneration, Goto, TypeOK, Spared, engineVars
<1>6. CASE Call(s)
  <2>1. CASE Work(s)
    <3>1. epoch' >= epoch /\ quota_generation' >= quota_generation
      BY <2>1 DEF Work, EngineDoes
    <3>2. arrived[t] \in [auth : Authority, boots : SUBSET Nat]
      BY DEF TypeOK
    <3>3. arrived'[t] = IF Checking(t)
                        THEN [arrived[t] EXCEPT !.boots = @ \cup {agents'[req[t].agent]}]
                        ELSE arrived[t]
      BY <2>1 DEF Work
    <3>4. /\ arrived'[t].auth = arrived[t].auth
          /\ arrived[t].boots \subseteq arrived'[t].boots
          /\ Checking(t) => agents'[req[t].agent] \in arrived'[t].boots
      BY <3>2, <3>3
    <3>5. pc'[t] = pc[t] /\ req'[t] = req[t] /\ resp'[t] = resp[t] /\ worked'[t] = worked[t]
      BY <1>6, <2>1 DEF Call, Work, Goto, TypeOK
    <3> QED
      BY <3>1, <3>4, <3>5 DEF Spared
  <2>2. CASE Refuse(s)
    BY <1>6, <2>2 DEF Call, Refuse, Goto, TypeOK, Spared, engineVars
  <2> QED
    BY <1>6, <2>1, <2>2 DEF Call
<1> QED
  BY <1>1, <1>2, <1>3, <1>4, <1>5, <1>6 DEF SessionStep, Serve

\* A thread that serves no request has nothing to keep.
LEMMA IdleInv ==
  ASSUME NEW t \in Session, pc[t] \in {"closed", "idle", "sent"}
  PROVE  SessionInv(t)
BY DEF SessionInv, Behind, InService, EpochSeen, GenerationSeen, BootSeen, Checking,
       Unfinished, RereadSeen, AnswerSeen

\* Reading a frame establishes the invariant for what comes next.
LEMMA OwnReceive ==
  ASSUME TypeOK, NEW s \in Session, Receive(s)
  PROVE  SessionInv(s)'
<1> DEFINE next == FirstStep(req[s].type)
<1>1. /\ pc'[s] = next /\ req' = req
      /\ epoch' = epoch /\ quota_generation' = quota_generation /\ agents' = agents
      /\ arrived'[s] = [auth |-> CurrentAuthority, boots |-> {agents[req[s].agent]}]
      /\ worked'[s] = CurrentAuthority
  BY DEF Receive, Goto, TypeOK, engineVars
<1>2. /\ next \in {"answered", "reread_epoch", "call", "check_epoch"}
      /\ next = "answered" => req[s].type = "MALFORMED"
      /\ next = "call" => req[s].type \in Unchecked
  BY DEF FirstStep
<1>3. Behind(s)'
  BY <1>1, Numbers DEF Behind, AtLeast, CurrentAuthority
<1>4. EpochSeen(s)' /\ GenerationSeen(s)' /\ RereadSeen(s)' /\ AnswerSeen(s)'
  BY <1>1, <1>2 DEF EpochSeen, GenerationSeen, RereadSeen, AnswerSeen
<1>5. BootSeen(s)'
  BY <1>1, <1>2 DEF BootSeen, Unchecked
<1>6. Unfinished(s)'
  BY DEF Unfinished, Receive, NoAnswer, TypeOK
<1> QED
  BY <1>3, <1>4, <1>5, <1>6 DEF SessionInv

\* The three unlocked comparisons keep it for their own session.
LEMMA OwnCheck ==
  ASSUME TypeOK, NEW s \in Session, SessionInv(s),
         CheckEpoch(s) \/ CheckGeneration(s) \/ CheckBoot(s)
  PROVE  SessionInv(s)'
<1> USE Numbers
<1>1. /\ req' = req /\ resp' = resp /\ arrived' = arrived /\ worked' = worked
      /\ epoch' = epoch /\ quota_generation' = quota_generation /\ agents' = agents
      /\ InService(s) /\ InService(s)' /\ Checking(s)
      /\ pc'[s] \in {"check_generation", "check_boot", "call", "reread_epoch"}
  BY DEF CheckEpoch, CheckGeneration, CheckBoot, Goto, TypeOK, engineVars, InService, Checking
<1>2. Behind(s)'
  BY <1>1 DEF SessionInv, Behind, CurrentAuthority, AtLeast
<1>3. RereadSeen(s)' /\ AnswerSeen(s)' /\ Unfinished(s)'
  BY <1>1 DEF RereadSeen, AnswerSeen, Unfinished, SessionInv
<1>4. epoch >= arrived[s].auth.epoch /\ quota_generation >= arrived[s].auth.quota_generation
  BY <1>1 DEF SessionInv, Behind, AtLeast, CurrentAuthority
<1>5. epoch >= epoch /\ quota_generation >= quota_generation
  <2>1. epoch \in Nat /\ quota_generation \in Nat
    BY Numbers
  <2> QED
    BY <2>1
<1>6. CASE CheckEpoch(s)
  <2>1. pc'[s] = IF req[s].auth.epoch = epoch THEN "check_generation" ELSE "reread_epoch"
    BY <1>6 DEF CheckEpoch, Goto, TypeOK
  <2>2. EpochSeen(s)' /\ GenerationSeen(s)'
    BY <1>1, <1>4, <1>5, <2>1 DEF EpochSeen, GenerationSeen
  <2>3. BootSeen(s)'
    BY <1>1, <2>1 DEF BootSeen, SessionInv
  <2> QED
    BY <1>2, <1>3, <2>2, <2>3 DEF SessionInv
<1>7. CASE CheckGeneration(s)
  <2>1. /\ pc[s] = "check_generation"
        /\ pc'[s] \in {"check_boot", "call"} => req[s].auth.quota_generation = quota_generation
        /\ pc'[s] \in {"reread_epoch", "check_boot", "call"}
        /\ pc'[s] = "call" => req[s].type # "OBSERVE"
    BY <1>7 DEF CheckGeneration, Goto, TypeOK
  <2>2. EpochSeen(s)'
    BY <1>1, <2>1 DEF EpochSeen, SessionInv
  <2>3. GenerationSeen(s)'
    BY <1>1, <1>4, <1>5, <2>1 DEF GenerationSeen
  <2>4. BootSeen(s)'
    BY <1>1, <2>1 DEF BootSeen, SessionInv
  <2> QED
    BY <1>2, <1>3, <2>2, <2>3, <2>4 DEF SessionInv
<1>8. CASE CheckBoot(s)
  <2>1. /\ pc[s] = "check_boot"
        /\ pc'[s] = IF agents[req[s].agent] = req[s].boot THEN "call" ELSE "reread_epoch"
    BY <1>8 DEF CheckBoot, Goto, TypeOK
  <2>2. EpochSeen(s)' /\ GenerationSeen(s)'
    BY <1>1, <2>1 DEF EpochSeen, GenerationSeen, SessionInv
  <2>3. BootSeen(s)'
    BY <1>1, <2>1 DEF BootSeen, SessionInv
  <2> QED
    BY <1>2, <1>3, <2>2, <2>3 DEF SessionInv
<1> QED
  BY <1>6, <1>7, <1>8

\* So does the call of the engine, whether it is carried out or refused.
LEMMA OwnCall ==
  ASSUME TypeOK, NEW s \in Session, SessionInv(s), Call(s)
  PROVE  SessionInv(s)'
<1> USE Numbers
<1>1. pc[s] = "call" /\ pc'[s] = "reread_epoch"
  BY DEF Call, Goto, TypeOK
<1>2. AtLeast(CurrentAuthority, arrived[s].auth) /\ AtLeast(CurrentAuthority, worked[s])
  BY <1>1 DEF SessionInv, Behind, InService
<1>3. Behind(s)'
  <2>1. CASE Work(s)
    <3>1. /\ epoch' \in Nat /\ quota_generation' \in Nat
          /\ epoch' >= epoch /\ quota_generation' >= quota_generation
      BY <2>1 DEF Work, EngineDoes
    <3>2. worked'[s] = CurrentAuthority'
      BY <2>1 DEF Work, TypeOK
    <3>3. arrived'[s].auth = arrived[s].auth
      <4>1. arrived[s] \in [auth : Authority, boots : SUBSET Nat]
        BY DEF TypeOK
      <4>2. arrived'[s] = IF Checking(s)
                          THEN [arrived[s] EXCEPT !.boots = @ \cup {agents'[req[s].agent]}]
                          ELSE arrived[s]
        BY <2>1 DEF Work
      <4> QED
        BY <4>1, <4>2
    <3> QED
      BY <1>2, <3>1, <3>2, <3>3 DEF Behind, AtLeast, CurrentAuthority
  <2>2. CASE Refuse(s)
    BY <1>2, <2>2 DEF Refuse, Behind, AtLeast, CurrentAuthority, engineVars
  <2> QED
    BY <2>1, <2>2 DEF Call
<1>4. /\ EpochSeen(s)' /\ GenerationSeen(s)' /\ BootSeen(s)'
      /\ Unfinished(s)' /\ RereadSeen(s)' /\ AnswerSeen(s)'
  BY <1>1 DEF EpochSeen, GenerationSeen, BootSeen, Unfinished, RereadSeen, AnswerSeen, Checking
<1> QED
  BY <1>3, <1>4 DEF SessionInv

\* So do the two reads that follow the call.
LEMMA OwnReread ==
  ASSUME TypeOK, NEW s \in Session, SessionInv(s), RereadEpoch(s) \/ RereadGeneration(s)
  PROVE  SessionInv(s)'
<1> USE Numbers
<1>1. /\ arrived' = arrived /\ worked' = worked
      /\ epoch' = epoch /\ quota_generation' = quota_generation
      /\ InService(s) /\ InService(s)'
      /\ pc'[s] \in {"reread_generation", "answered"}
  BY DEF RereadEpoch, RereadGeneration, Goto, TypeOK, engineVars, InService
<1>2. AtLeast(CurrentAuthority, arrived[s].auth) /\ AtLeast(CurrentAuthority, worked[s])
  BY <1>1 DEF SessionInv, Behind
<1>3. Behind(s)'
  BY <1>1, <1>2 DEF Behind, CurrentAuthority, AtLeast
<1>4. EpochSeen(s)' /\ GenerationSeen(s)' /\ BootSeen(s)' /\ Unfinished(s)'
  BY <1>1 DEF EpochSeen, GenerationSeen, BootSeen, Unfinished, Checking
<1>5. CASE RereadEpoch(s)
  <2>1. pc'[s] = "reread_generation"
    BY <1>5 DEF RereadEpoch, Goto, TypeOK
  <2>2. resp'[s].auth.epoch = epoch
    BY <1>5, RereadEpochAnswer DEF TypeOK
  <2>3. epoch >= worked[s].epoch
    BY <1>2 DEF AtLeast, CurrentAuthority
  <2>4. epoch \in Nat
    BY Numbers
  <2>5. epoch >= epoch
    BY <2>4
  <2>6. RereadSeen(s)' /\ AnswerSeen(s)'
    BY <1>1, <2>1, <2>2, <2>3, <2>5 DEF RereadSeen, AnswerSeen
  <2> QED
    BY <1>3, <1>4, <2>6 DEF SessionInv
<1>6. CASE RereadGeneration(s)
  <2>1. pc[s] = "reread_generation" /\ pc'[s] = "answered"
    BY <1>6 DEF RereadGeneration, Goto, TypeOK
  <2>2. /\ resp'[s].auth.epoch = resp[s].auth.epoch
        /\ resp'[s].auth.quota_generation = quota_generation
    BY <1>6, RereadGenerationAnswer DEF TypeOK
  <2>3. RereadSeen(s)' /\ AnswerSeen(s)'
    BY <1>1, <1>2, <2>1, <2>2
    DEF SessionInv, RereadSeen, AnswerSeen, AtLeast, CurrentAuthority
  <2> QED
    BY <1>3, <1>4, <2>3 DEF SessionInv
<1> QED
  BY <1>5, <1>6

\* So do the steps of the client and the end of a session.
LEMMA OwnRest ==
  ASSUME TypeOK, TypeOK', NEW s \in Session, SessionInv(s),
         Connect(s) \/ Send(s) \/ Learn(s) \/ Disconnect(s) \/ EndSession(s)
  PROVE  SessionInv(s)'
<1>1. CASE Disconnect(s)
  <2>1. UNCHANGED <<epoch, quota_generation, agents, pc, req, resp, arrived, worked>>
    BY <1>1 DEF Disconnect, engineVars
  <2>2. epoch \in Nat /\ quota_generation \in Nat
    BY Numbers
  <2>3. epoch >= epoch /\ quota_generation >= quota_generation
    BY <2>2
  <2>4. Spared(s)
    BY <2>1, <2>3 DEF Spared
  <2> QED
    BY <2>4, SparedKeeps
<1>2. CASE Connect(s) \/ Send(s) \/ Learn(s) \/ EndSession(s)
  <2>1. pc'[s] \in {"closed", "idle", "sent"}
    BY <1>2 DEF Connect, Send, Learn, EndSession, Goto, TypeOK
  <2> QED
    BY <2>1 DEF SessionInv, Behind, InService, EpochSeen, GenerationSeen, BootSeen,
                Checking, Unfinished, RereadSeen, AnswerSeen
<1> QED
  BY <1>1, <1>2

-----------------------------------------------------------------------------
\* The inductive invariant holds when the coordinator starts,
LEMMA InvInit == Init => IInv
<1> SUFFICES ASSUME Init PROVE IInv
  OBVIOUS
<1>1. \A t \in Session : pc[t] = "closed"
  BY DEF Init
<1> QED
  BY <1>1, TypeInit, IdleInv DEF IInv

\* and every step keeps it, a restart included.
LEMMA InvNext == IInv /\ [Next]_vars => IInv'
<1> SUFFICES ASSUME IInv, [Next]_vars PROVE IInv'
  OBVIOUS
<1>1. TypeOK /\ TypeOK'
  BY TypeNext DEF IInv
<1>2. ASSUME NEW t \in Session PROVE SessionInv(t)'
  <2>0. SessionInv(t)
    BY DEF IInv
  <2>1. ASSUME NEW s \in Session, SessionStep(s), s # t PROVE SessionInv(t)'
    BY <1>1, <2>0, <2>1, OthersSpared, SparedKeeps
  <2>2. CASE SessionStep(t)
    BY <1>1, <2>0, <2>2, OwnReceive, OwnCheck, OwnCall, OwnReread, OwnRest
    DEF SessionStep, Serve
  <2>3. CASE Restart
    <3>1. pc'[t] = "closed"
      BY <2>3 DEF Restart
    <3> QED
      BY <3>1 DEF SessionInv, Behind, InService, EpochSeen, GenerationSeen, BootSeen,
                  Checking, Unfinished, RereadSeen, AnswerSeen
  <2>4. CASE UNCHANGED vars
    <3>1. Spared(t)
      BY <1>1, <2>4, Numbers DEF vars, engineVars, Spared
    <3> QED
      BY <1>1, <2>0, <3>1, SparedKeeps
  <2> QED
    BY <2>1, <2>2, <2>3, <2>4 DEF Next, SessionStep
<1> QED
  BY <1>1, <1>2 DEF IInv

(***************************************************************************)
(* The state of the coordinator is always well formed.                     *)
(***************************************************************************)
THEOREM TypeCorrect == Spec => []TypeOK
BY TypeInit, TypeNext, PTL DEF Spec

\* The inductive invariant always holds.
LEMMA Invariance == Spec => []IInv
BY InvInit, InvNext, PTL DEF Spec

(***************************************************************************)
(* check_authority reads epoch, quota generation and boot one after the    *)
(* other, without a lock; even so, what it lets through was in force at    *)
(* some moment since the request arrived.                                  *)
(***************************************************************************)
THEOREM ChecksHold == Spec => []InForceSinceArrival
<1>1. IInv => InForceSinceArrival
  <2> SUFFICES ASSUME IInv, NEW s \in Session, pc[s] = "call", req[s].type \notin Unchecked
               PROVE  /\ AtLeast(req[s].auth, arrived[s].auth)
                      /\ AtLeast(CurrentAuthority, req[s].auth)
                      /\ req[s].type = "OBSERVE" => req[s].boot \in arrived[s].boots
    BY DEF InForceSinceArrival
  <2>1. SessionInv(s)
    BY DEF IInv
  <2> QED
    BY <2>1 DEF SessionInv, EpochSeen, GenerationSeen, BootSeen, AtLeast, CurrentAuthority
<1> QED
  BY <1>1, Invariance, PTL

(***************************************************************************)
(* An answer carries an authority no older than the work it reports.       *)
(***************************************************************************)
THEOREM AnswersHold == Spec => []AnswerUpToDate
<1>1. IInv => AnswerUpToDate
  BY DEF IInv, SessionInv, AnswerSeen, AnswerUpToDate
<1> QED
  BY <1>1, Invariance, PTL

=============================================================================
