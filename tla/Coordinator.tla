----------------------------- MODULE Coordinator -----------------------------
(***************************************************************************)
(* The coordinator process (apps/coordinator/main.cpp): one thread per     *)
(* connection reads a request, compares its authority with the engine's,   *)
(* calls the engine, reads the engine's authority again and answers.  None *)
(* of those steps holds the engine's lock but the call itself, so the      *)
(* threads interleave between them.                                        *)
(*                                                                         *)
(* Of the engine this module keeps what the threads race on: the epoch and *)
(* the quota generation, which of them each method compares under the      *)
(* lock, and which of them it moves.  The policy is set once, before the   *)
(* first connection is accepted, so comparing its generation always gives  *)
(* the same result and is left out.  Whether the engine accepts a request  *)
(* of current authority is left open: module QuotaEngine decides that.     *)
(*                                                                         *)
(* A client is whatever holds the other end of a connection: the control   *)
(* program, an agent or a test.  It sends one request and waits for the    *)
(* answer, and sends the authority it heard last.                          *)
(***************************************************************************)
EXTENDS Integers

CONSTANTS
  Session,       \* connections
  Agent,         \* logical agents; their identity survives a restart
  Type,          \* the request types clients send
  MaxConnections, MaxCalls, MaxFaults

ASSUME AgentAssumption == Agent # {}

VARIABLES
  epoch, quota_generation,  \* the engine's authority
  agents,        \* the boot registered for each agent, 0 if none
  pc,            \* where the thread of a session is
  open,          \* the client still holds its end of the connection
  req, resp,     \* the request being served, the answer being built
  client,        \* the authority a client heard last, its agent and boot
  connections, calls, faults,  \* how often a client connected or
                           \* asked, and a process was lost
  arrived, worked          \* history: authority when the request arrived,
                           \* and right after the engine did its work

engineVars == <<epoch, quota_generation, agents>>
countVars == <<connections, calls, faults>>
vars == <<engineVars, pc, open, req, resp, client, countVars, arrived, worked>>

-----------------------------------------------------------------------------
\* The types that reach the engine without check_authority.
Unchecked == {"HELLO", "PING", "ADVANCE_EPOCH"}

\* The types whose engine method compares the epoch once more, under the lock,
\* and those whose method compares the quota generation.
EngineEpoch ==
  {"RESERVE", "COMMIT_RESERVATION", "START_ALLOCATION", "BORROW", "LEND",
   "RELEASE", "RECALL_BORROW"}
EngineGeneration ==
  {"RESERVE", "COMMIT_RESERVATION", "START_ALLOCATION", "BORROW", "LEND",
   "RELEASE_ALLOCATION"}

SetsQuota == {"SET_TENANT_QUOTA", "SET_GROUP_QUOTA"}
Reads == {"PING", "EVALUATE", "ENVELOPE", "SNAPSHOT", "RECALL_DECISION"}

NoAuthority == [epoch |-> 0, quota_generation |-> 0]
CurrentAuthority ==
  [epoch |-> epoch, quota_generation |-> quota_generation]

\* Mutant: epoch_ and quota_generation_ are not given their initial() values.
StartAuthorityUnset == NoAuthority

\* What the engine of a new process starts with.
StartAuthority == [epoch |-> 1, quota_generation |-> 1]

SomeAgent == CHOOSE a \in Agent : TRUE
NoRequest ==
  [type |-> "PING", auth |-> NoAuthority, agent |-> SomeAgent, boot |-> 0]
NoAnswer == [ok |-> FALSE, auth |-> NoAuthority]
NoHistory == [auth |-> NoAuthority, boots |-> {}]

\* A fresh coordinator: set_policy has run, and the state file, which no
\* coordinator ever writes, gave the same epoch and generation as last time.
\* The clients have asked it for its authority before.
Init ==
  /\ epoch = StartAuthority.epoch /\ quota_generation = StartAuthority.quota_generation
  /\ agents = [a \in Agent |-> 0]
  /\ pc = [s \in Session |-> "closed"]
  /\ open = [s \in Session |-> FALSE]
  /\ req = [s \in Session |-> NoRequest]
  /\ resp = [s \in Session |-> NoAnswer]
  /\ client = [s \in Session |->
                [auth |-> CurrentAuthority, agent |-> SomeAgent, boot |-> 0]]
  /\ connections = 0 /\ calls = 0 /\ faults = 0
  /\ arrived = [s \in Session |-> NoHistory]
  /\ worked = [s \in Session |-> NoAuthority]

\* Nothing of a finished request is kept.
Forget(s) ==
  /\ req' = [req EXCEPT ![s] = NoRequest]
  /\ resp' = [resp EXCEPT ![s] = NoAnswer]
  /\ arrived' = [arrived EXCEPT ![s] = NoHistory]
  /\ worked' = [worked EXCEPT ![s] = NoAuthority]

Goto(s, l) == pc' = [pc EXCEPT ![s] = l]

-----------------------------------------------------------------------------
(***************************************************************************)
(* Clients.                                                                *)
(***************************************************************************)

\* A process connects, and main's accept loop gives the connection a thread.
\* It may be an agent, and then its boot is a new one; it may know the
\* authority that a process before it heard.
Connect(s) ==
  /\ pc[s] = "closed"
  /\ connections < MaxConnections
  /\ connections' = connections + 1
  /\ Goto(s, "idle")
  /\ open' = [open EXCEPT ![s] = TRUE]
  /\ \E a \in Agent :
       client' = [client EXCEPT ![s] =
                    [auth |-> client[s].auth, agent |-> a, boot |-> connections']]
  /\ UNCHANGED <<engineVars, req, resp, calls, faults, arrived, worked>>

Send(s) ==
  /\ pc[s] = "idle" /\ open[s]
  /\ calls < MaxCalls
  /\ calls' = calls + 1
  /\ \E type \in Type :
       req' = [req EXCEPT ![s] =
                 [type |-> type, auth |-> client[s].auth,
                  agent |-> client[s].agent, boot |-> client[s].boot]]
  /\ Goto(s, "sent")
  /\ UNCHANGED <<engineVars, open, resp, client, connections, faults, arrived, worked>>

\* Rpc::call keeps the authority of an answer unless its epoch is 0, which is
\* how the answer to a malformed request looks.
Learn(s) ==
  /\ pc[s] = "answered" /\ open[s]
  /\ Goto(s, "idle")
  /\ client' = IF resp[s].auth.epoch = 0 THEN client
               ELSE [client EXCEPT ![s].auth = resp[s].auth]
  /\ Forget(s)
  /\ UNCHANGED <<engineVars, open, countVars>>

\* The client goes away.  Its thread notices at its next receive.
Disconnect(s) ==
  /\ open[s]
  /\ faults < MaxFaults
  /\ faults' = faults + 1
  /\ open' = [open EXCEPT ![s] = FALSE]
  /\ UNCHANGED <<engineVars, pc, req, resp, client, connections, calls, arrived, worked>>

-----------------------------------------------------------------------------
(***************************************************************************)
(* handle_session.                                                         *)
(***************************************************************************)

\* recv_frame returns nothing: the thread ends.
EndSession(s) ==
  /\ pc[s] \in {"idle", "answered"} /\ ~open[s]
  /\ Goto(s, "closed")
  /\ Forget(s)
  /\ UNCHANGED <<engineVars, open, client, countVars>>

\* Mutant: a payload that does not decode is dropped without an answer.
FirstStepSilent(type) ==
  CASE type = "MALFORMED" -> "idle"
    [] type = "UNSUPPORTED" -> "reread_epoch"
    [] type \in Unchecked -> "call"
    [] OTHER -> "check_epoch"

\* recv_frame, decode_request and the branch on the type.  A payload that does
\* not decode is answered at once, without an authority.
FirstStep(type) ==
  CASE type = "MALFORMED" -> "answered"
    [] type = "UNSUPPORTED" -> "reread_epoch"
    [] type \in Unchecked -> "call"
    [] OTHER -> "check_epoch"

Receive(s) ==
  /\ pc[s] = "sent"
  /\ Goto(s, FirstStep(req[s].type))
  /\ resp' = [resp EXCEPT ![s] = NoAnswer]
  /\ arrived' = [arrived EXCEPT ![s] =
                   [auth |-> CurrentAuthority, boots |-> {agents[req[s].agent]}]]
  /\ worked' = [worked EXCEPT ![s] = CurrentAuthority]
  /\ UNCHANGED <<engineVars, open, req, client, countVars>>

\* check_authority, first comparison: a read without the lock.
CheckEpoch(s) ==
  /\ pc[s] = "check_epoch"
  /\ Goto(s, IF req[s].auth.epoch = epoch THEN "check_generation" ELSE "reread_epoch")
  /\ UNCHANGED <<engineVars, open, req, resp, client, countVars, arrived, worked>>

\* Mutant: check_authority stops at the epoch.
CheckGenerationSkipped(s) ==
  /\ pc[s] = "check_generation"
  /\ Goto(s, IF req[s].type = "OBSERVE" THEN "check_boot" ELSE "call")
  /\ UNCHANGED <<engineVars, open, req, resp, client, countVars, arrived, worked>>

\* Second comparison, another read.
CheckGeneration(s) ==
  /\ pc[s] = "check_generation"
  /\ Goto(s, IF req[s].auth.quota_generation # quota_generation THEN "reread_epoch"
             ELSE IF req[s].type = "OBSERVE" THEN "check_boot"
             ELSE "call")
  /\ UNCHANGED <<engineVars, open, req, resp, client, countVars, arrived, worked>>

\* OBSERVE looks its boot up under agents_mtx, and lets go of it.
CheckBoot(s) ==
  /\ pc[s] = "check_boot"
  /\ Goto(s, IF agents[req[s].agent] = req[s].boot THEN "call" ELSE "reread_epoch")
  /\ UNCHANGED <<engineVars, open, req, resp, client, countVars, arrived, worked>>

\* The comparisons of the engine method itself.
EngineAccepts(r) ==
  /\ r.type \in EngineEpoch => r.auth.epoch = epoch
  /\ r.type \in EngineGeneration => r.auth.quota_generation = quota_generation

\* What the method does to the authority (HELLO: to the table of agents).
EngineDoes(r) ==
  /\ epoch' = IF r.type = "ADVANCE_EPOCH" THEN epoch + 1 ELSE epoch
  /\ quota_generation' =
       IF r.type \in SetsQuota THEN quota_generation + 1 ELSE quota_generation
  /\ agents' = IF r.type = "HELLO" THEN [agents EXCEPT ![r.agent] = r.boot] ELSE agents

Checking(t) == pc[t] \in {"check_epoch", "check_generation", "check_boot", "call"}

Work(s) ==
  /\ EngineAccepts(req[s])
  /\ EngineDoes(req[s])
  /\ resp' = [resp EXCEPT ![s].ok = TRUE]
  /\ worked' = [worked EXCEPT ![s] = CurrentAuthority']
  /\ arrived' = [t \in Session |->
                   IF Checking(t)
                   THEN [arrived[t] EXCEPT !.boots = @ \cup {agents'[req[t].agent]}]
                   ELSE arrived[t]]

\* The call fails: on the authority, or for any reason of the engine's own.
Refuse(s) ==
  /\ req[s].type \notin Unchecked
  /\ UNCHANGED <<engineVars, resp, arrived, worked>>

Call(s) ==
  /\ pc[s] = "call"
  /\ Goto(s, "reread_epoch")
  /\ \/ Work(s)
     \/ Refuse(s)
  /\ UNCHANGED <<open, req, client, countVars>>

\* "re-read updated authority": again without the lock, field by field.
RereadEpoch(s) ==
  /\ pc[s] = "reread_epoch"
  /\ Goto(s, "reread_generation")
  /\ resp' = [resp EXCEPT ![s].auth.epoch = epoch]
  /\ UNCHANGED <<engineVars, open, req, client, countVars, arrived, worked>>

\* Mutant: the generation is not read again.
RereadGenerationSkipped(s) ==
  /\ pc[s] = "reread_generation"
  /\ Goto(s, "answered")
  /\ UNCHANGED <<engineVars, open, req, resp, client, countVars, arrived, worked>>

\* The last read, and send_frame; on a dead connection the send fails, and so
\* does the next receive.
RereadGeneration(s) ==
  /\ pc[s] = "reread_generation"
  /\ Goto(s, "answered")
  /\ resp' = [resp EXCEPT ![s].auth.quota_generation = quota_generation]
  /\ UNCHANGED <<engineVars, open, req, client, countVars, arrived, worked>>

-----------------------------------------------------------------------------
\* The coordinator is killed and started again.  Every connection is lost,
\* the table of agents is empty, and the authority is what main starts with.
Restart ==
  /\ faults < MaxFaults
  /\ faults' = faults + 1
  /\ epoch' = StartAuthority.epoch /\ quota_generation' = StartAuthority.quota_generation
  /\ agents' = [a \in Agent |-> 0]
  /\ pc' = [s \in Session |-> "closed"]
  /\ open' = [s \in Session |-> FALSE]
  /\ req' = [s \in Session |-> NoRequest]
  /\ resp' = [s \in Session |-> NoAnswer]
  /\ arrived' = [s \in Session |-> NoHistory]
  /\ worked' = [s \in Session |-> NoAuthority]
  /\ UNCHANGED <<client, connections, calls>>

\* What a thread of the coordinator does by itself.
Serve(s) ==
  \/ EndSession(s) \/ Receive(s)
  \/ CheckEpoch(s) \/ CheckGeneration(s) \/ CheckBoot(s)
  \/ Call(s) \/ RereadEpoch(s) \/ RereadGeneration(s)

Next ==
  \/ \E s \in Session :
       Connect(s) \/ Send(s) \/ Learn(s) \/ Disconnect(s) \/ Serve(s)
  \/ Restart

(***************************************************************************)
(* Threads are scheduled by the operating system and wait for nothing but  *)
(* their client and two locks that are only held for bounded work, so a    *)
(* thread that can move does.                                              *)
(***************************************************************************)
Spec == Init /\ [][Next]_vars /\ \A s \in Session : WF_vars(Serve(s))

-----------------------------------------------------------------------------
Authority == [epoch : Nat, quota_generation : Nat]

AtLeast(a, b) ==
  a.epoch >= b.epoch /\ a.quota_generation >= b.quota_generation

(***************************************************************************)
(* The shape of the state.  The engine's epoch and quota generation are    *)
(* never 0, which in an answer stands for no authority.                    *)
(***************************************************************************)
TypeOK ==
  /\ CurrentAuthority \in [epoch : Nat \ {0}, quota_generation : Nat \ {0}]
  /\ agents \in [Agent -> Nat]
  /\ pc \in [Session -> {"closed", "idle", "sent", "check_epoch",
                         "check_generation", "check_boot", "call",
                         "reread_epoch", "reread_generation", "answered"}]
  /\ open \in [Session -> BOOLEAN]
  /\ req \in [Session -> [type : Type \cup {"PING"}, auth : Authority,
                          agent : Agent, boot : Nat]]
  /\ resp \in [Session -> [ok : BOOLEAN, auth : Authority]]
  /\ client \in [Session -> [auth : Authority, agent : Agent, boot : Nat]]
  /\ connections \in Nat
  /\ arrived \in [Session -> [auth : Authority, boots : SUBSET Nat]]
  /\ worked \in [Session -> Authority]

(***************************************************************************)
(* A request that check_authority let through was in force at some moment  *)
(* since it arrived: neither its epoch nor its quota generation was        *)
(* already past when the frame was read, and the boot of an observation    *)
(* has been the registered one since then.  The three comparisons are      *)
(* separate reads, and other threads move all three in between.            *)
(***************************************************************************)
InForceSinceArrival ==
  \A s \in Session :
    pc[s] = "call" /\ req[s].type \notin Unchecked =>
      /\ AtLeast(req[s].auth, arrived[s].auth)
      /\ AtLeast(CurrentAuthority, req[s].auth)
      /\ req[s].type = "OBSERVE" => req[s].boot \in arrived[s].boots

(***************************************************************************)
(* The authority in an answer is at least as recent as the work the answer *)
(* reports and as the moment its request arrived, and no newer than the    *)
(* engine's: a client that sets a quota or advances the epoch can go on    *)
(* with the answer's authority and is not refused for its own change.      *)
(***************************************************************************)
AnswerUpToDate ==
  \A s \in Session :
    pc[s] = "answered" /\ req[s].type # "MALFORMED" =>
      /\ AtLeast(resp[s].auth, worked[s])
      /\ AtLeast(CurrentAuthority, resp[s].auth)

\* The engine carries out the request of session s in this step.
Done(s) == pc[s] = "call" /\ pc'[s] = "reread_epoch" /\ resp'[s].ok

(***************************************************************************)
(* Every request that reaches a thread is answered, whatever it holds and  *)
(* whatever the engine says of it, unless the connection is lost.          *)
(***************************************************************************)
RequestAnswered ==
  \A s \in Session : pc[s] = "sent" ~> (pc[s] = "answered" \/ ~open[s])

(***************************************************************************)
(* What the comment on struct Authority says of every message that changes *)
(* the engine: its epoch, boot and quota generation all still belong to    *)
(* the current authority.                                                  *)
(***************************************************************************)
MutationStep ==
  \A s \in Session :
    Done(s) /\ req[s].type \notin Unchecked \cup Reads =>
      /\ req[s].auth = CurrentAuthority
      /\ req[s].type = "OBSERVE" => req[s].boot = agents[req[s].agent]

MutatesOnlyInForce == [][MutationStep]_vars
=============================================================================
