--------------------------- MODULE RegistryProofs ---------------------------
(* Proofs about Registry for any agents, messages, faults and times that   *)
(* TimeAssumption allows.                                                  *)
EXTENDS Registry, TLAPS

(***************************************************************************)
(* Types                                                                   *)
(***************************************************************************)

(* One round of puts fits into the time a card counts as online.           *)
LEMMA LatencyFits == Latency \in 0..Limit /\ 0 \in 0..Latency /\ Heartbeat \in 0..Heartbeat
<1>1. (Misses + 1) * (Heartbeat + Latency) >= 0 BY TimeAssumption
<1> QED BY <1>1, TimeAssumption DEF Limit

RoundType == round \in [Publishers -> [todo : SUBSET Keys, age : 0..Latency]]
CardType  == card \in [Keys -> Card \cup {NoCard}]
JobType   == job \in [Removers -> [todo : SUBSET Agents, ask : Agents \cup {NoAgent},
                                   drop : Agents \cup {NoAgent}, force : BOOLEAN]]
BeatType  == RoundType /\ wait \in 0..Heartbeat /\ missed \in 0..(Misses + 1)
FileType  == file \in [Agents -> Names \cup {"absent"}] /\ cfg \in [Agents -> Names \cup {"absent"}]
MailType  == /\ inbox \subseteq Agents /\ sent \in [Msgs -> Agents \cup {NoAgent}]
             /\ acked \subseteq ledger /\ ledger \subseteq Msgs
LifeType  ==
  /\ stage \in {"dead", "stopped", "inboxes", "recover", "cards", "forget", "up", "stopping"}
  /\ bound \subseteq Configured(cfg) /\ link \in BOOLEAN
  /\ retire \in {"idle", "list", "remove"} /\ disturbed \in BOOLEAN /\ events \in Nat

LEMMA TypeParts ==
  /\ TypeOK <=> BeatType /\ CardType /\ JobType /\ FileType /\ MailType /\ LifeType
  /\ TypeOK' <=> BeatType' /\ CardType' /\ JobType' /\ FileType' /\ MailType' /\ LifeType'
BY DEF TypeOK, BeatType, RoundType, CardType, JobType, FileType, MailType, LifeType

(* What a publisher still has to put is configured.  A daemon that does    *)
(* not run has nothing to put and no receivers; each publisher is at work  *)
(* only where start(), stop() and the heartbeat loop let it.               *)
RoundInv ==
  /\ \A p \in Publishers : round[p].todo \subseteq Configured(cfg) \cup {Node}
  /\ ~Alive => bound = {}
  /\ round["main"].todo # {} => stage \in {"cards", "stopping"}
  /\ round["beat"].todo # {} => Beating

(***************************************************************************)
(* What the helpers do                                                     *)
(***************************************************************************)

Known == Configured(cfg) \cup {Node}

LEMMA AllCardsType == Known \subseteq Keys /\ AllCards \in [todo : SUBSET Keys, age : 0..Latency]
BY LatencyFits DEF Known, AllCards, Keys, Configured

LEMMA IdleType == Idle \in [todo : SUBSET Keys, age : 0..Latency]
BY LatencyFits DEF Idle

(* Storing a card replaces it by one that is as old as its round.          *)
LEMMA StoredCard ==
  ASSUME CardType, RoundType, FileType, NEW p \in Publishers, NEW k \in round[p].todo,
         round[p].todo \subseteq Configured(cfg) \cup {Node}
  PROVE  /\ Stored(p, k) \in [Keys -> Card \cup {NoCard}]
         /\ \A j \in Keys : j # k => Stored(p, k)[j] = card[j]
         /\ Stored(p, k)[k] = [alias |-> IF k = Node THEN NoAlias ELSE cfg[k],
                               offline |-> p = "main" /\ stage = "stopping", age |-> round[p].age]
<1>1. k \in Keys BY DEF RoundType
<1>2. round[p].age \in 0..Limit BY LatencyFits, TimeAssumption DEF RoundType, Limit
<1>3. (IF k = Node THEN NoAlias ELSE cfg[k]) \in Names BY DEF FileType, Names, Configured
<1>4. [alias |-> IF k = Node THEN NoAlias ELSE cfg[k],
       offline |-> p = "main" /\ stage = "stopping", age |-> round[p].age] \in Card
  BY <1>2, <1>3 DEF Card
<1> QED BY <1>1, <1>4 DEF Stored, CardType

(* What PutCard leaves of its round.                                       *)
LEMMA PutLeft ==
  ASSUME RoundType, NEW p \in Publishers, NEW k \in Keys, PutCard(p, k)
  PROVE  /\ RoundType'
         /\ k \in round[p].todo /\ round'[p].todo = round[p].todo \ {k}
         /\ round'[p].todo # {} => round'[p].age = round[p].age
         /\ \A q \in Publishers : q # p => round'[q] = round[q]
<1> DEFINE left == round[p].todo \ {k}
<1>1. round' = [round EXCEPT ![p] = IF left = {} THEN Idle ELSE [round[p] EXCEPT !.todo = left]]
  BY DEF PutCard
<1>2. round[p] \in [todo : SUBSET Keys, age : 0..Latency] BY DEF RoundType
<1>3. CASE left = {}
  <2>1. round' = [round EXCEPT ![p] = Idle] BY <1>1, <1>3
  <2> QED BY <1>3, <2>1, IdleType DEF PutCard, IsNext, RoundType, Idle
<1>4. CASE left # {}
  <2>1. round' = [round EXCEPT ![p] = [round[p] EXCEPT !.todo = left]] BY <1>1, <1>4
  <2>2. [round[p] EXCEPT !.todo = left] \in [todo : SUBSET Keys, age : 0..Latency] BY <1>2
  <2>3. [round[p] EXCEPT !.todo = left].todo = left /\ [round[p] EXCEPT !.todo = left].age = round[p].age
    BY <1>2
  <2> QED BY <2>1, <2>2, <2>3 DEF PutCard, IsNext, RoundType
<1> QED BY <1>3, <1>4

(***************************************************************************)
(* Type correctness                                                        *)
(***************************************************************************)

TypeInv == TypeOK /\ RoundInv

LEMMA InitTypeInv == Init => TypeInv
<1> SUFFICES ASSUME Init
             PROVE  BeatType /\ CardType /\ JobType /\ FileType /\ MailType /\ LifeType /\ RoundInv
  BY TypeParts DEF TypeInv
<1>1. RoundType /\ BeatType BY IdleType, TimeAssumption DEF Init, RoundType, BeatType
<1>2. CardType /\ JobType BY DEF Init, CardType, JobType, NoJob
<1>3. FileType /\ MailType /\ LifeType
  BY AgentsAssumption DEF Init, FileType, MailType, LifeType, Names, Configured
<1>4. RoundInv BY DEF Init, RoundInv, Idle, Publishers
<1> QED BY <1>1, <1>2, <1>3, <1>4

(* Edits of the configuration file: a daemon does not see them.            *)
LEMMA FileStep ==
  ASSUME TypeInv, NEW a \in Agents, NEW b \in Agents, AddAgent(a) \/ Rename(a, b) \/ Remove(a)
  PROVE  TypeInv'
<1>1. FileType' BY TypeParts DEF TypeInv, AddAgent, Rename, Remove, FileType, Names, daemonVars
<1>2. BeatType' /\ CardType' /\ JobType' /\ MailType' /\ LifeType' /\ RoundInv'
  BY TypeParts DEF TypeInv, AddAgent, Rename, Remove, Event, BeatType, RoundType, CardType, JobType, MailType,
     LifeType, RoundInv, daemonVars, beatVars, mailVars, retireVars, Configured, Alive, Beating
<1> QED BY <1>1, <1>2, TypeParts DEF TypeInv

(* The stages of start() up to the first cards, and its end.               *)
LEMMA StartStep ==
  ASSUME TypeInv,
         Boot \/ (\E a \in Agents : EnsureInbox(a)) \/ SpawnHeartbeat \/ PublishFirst \/ ForgetRemoved \/ Started
  PROVE  TypeInv'
<1> USE TypeParts, LatencyFits DEF TypeInv, beatVars, mailVars, retireVars, BeatType
<1>1. CASE Boot
  <2>1. bound = {} /\ round["main"].todo = {} /\ round["beat"].todo = {}
    BY <1>1 DEF Boot, RoundInv, Alive, Beating
  <2>2. RoundInv' BY <1>1, <2>1 DEF Boot, RoundInv, Publishers, Alive, Beating
  <2>3. BeatType' /\ CardType' /\ JobType' /\ FileType' /\ MailType'
    BY <1>1, TimeAssumption DEF Boot, RoundType, CardType, JobType, FileType, MailType
  <2>4. LifeType' BY <1>1, <2>1 DEF Boot, LifeType
  <2> QED BY <2>2, <2>3, <2>4
<1>2. ASSUME NEW a \in Agents, EnsureInbox(a) PROVE TypeInv'
  BY <1>2 DEF EnsureInbox, RoundType, CardType, JobType, FileType, MailType, LifeType, RoundInv,
     Configured, Alive, Beating
<1>3. CASE SpawnHeartbeat
  BY <1>3 DEF SpawnHeartbeat, RoundType, CardType, JobType, FileType, MailType, LifeType, RoundInv,
     Configured, Alive, Beating
<1>4. CASE PublishFirst
  <2>1. round'["main"] = AllCards /\ round'["beat"] = round["beat"] /\ RoundType'
    BY <1>4, AllCardsType DEF PublishFirst, RoundType, Publishers
  <2>2. RoundInv' BY <1>4, <2>1 DEF PublishFirst, RoundInv, AllCards, Publishers, Configured, Alive, Beating
  <2> QED BY <1>4, <2>1, <2>2 DEF PublishFirst, CardType, JobType, FileType, MailType, LifeType, Configured
<1>5. CASE ForgetRemoved
  <2>1. JobType' BY <1>5 DEF ForgetRemoved, JobType, Registered, Removers
  <2> QED BY <1>5, <2>1 DEF ForgetRemoved, RoundType, CardType, FileType, MailType, LifeType, RoundInv,
     Configured, Alive, Beating
<1>6. CASE Started
  BY <1>6 DEF Started, RoundType, CardType, JobType, FileType, MailType, LifeType, RoundInv,
     Configured, Alive, Beating
<1> QED BY <1>1, <1>2, <1>3, <1>4, <1>5, <1>6

(* The daemon ends: everything it had in memory goes.                      *)
LEMMA DiesType ==
  ASSUME TypeInv, Dies
  PROVE  BeatType' /\ JobType' /\ (UNCHANGED <<cfg, link, retire>> /\ events' \in Nat => LifeType' /\ RoundInv')
<1> USE TypeParts, LatencyFits, TimeAssumption DEF TypeInv, Dies
<1>1. BeatType' BY IdleType DEF BeatType, RoundType
<1>2. JobType' BY DEF JobType, NoJob, Removers
<1>3. ASSUME UNCHANGED <<cfg, link, retire>>, events' \in Nat PROVE LifeType' /\ RoundInv'
  BY <1>3 DEF LifeType, RoundInv, Publishers, Idle, Alive, Beating
<1> QED BY <1>1, <1>2, <1>3

LEMMA FaultStep ==
  ASSUME TypeInv, Crash \/ Disconnect \/ Reconnect
  PROVE  TypeInv'
<1> USE TypeParts DEF TypeInv, beatVars, mailVars, retireVars
<1>1. CASE Crash
  <2>1. events' \in Nat BY <1>1 DEF Crash, Event, LifeType
  <2> QED BY <1>1, <2>1, DiesType DEF Crash, CardType, FileType, MailType
<1>2. CASE Disconnect \/ Reconnect
  <2>1. BeatType' /\ CardType' /\ JobType' /\ FileType' /\ MailType'
    BY <1>2 DEF Disconnect, Reconnect, BeatType, RoundType, CardType, JobType, FileType, MailType
  <2>2. LifeType'
    <3>1. UNCHANGED <<stage, bound, cfg, retire, disturbed>> BY <1>2 DEF Disconnect, Reconnect
    <3>2. events' \in Nat BY <1>2 DEF Disconnect, Reconnect, Event, LifeType
    <3>3. link' \in BOOLEAN BY <1>2, Zenon DEF Disconnect, Reconnect
    <3> QED BY <3>1, <3>2, <3>3 DEF LifeType, Configured
  <2>3. RoundInv' BY <1>2 DEF Disconnect, Reconnect, RoundInv, Configured, Alive, Beating
  <2> QED BY <2>1, <2>2, <2>3
<1> QED BY <1>1, <1>2

-----------------------------------------------------------------------------
(* Time and the rounds *)

(* A tick makes cards older by one at most, and rounds by one.             *)
LEMMA TickEffect ==
  ASSUME TypeInv, Tick
  PROVE  /\ RoundType' /\ CardType' /\ wait' \in 0..Heartbeat
         /\ \A p \in Publishers :
              /\ round'[p].todo = round[p].todo
              /\ round[p].todo # {} => round'[p].age = round[p].age + 1
         /\ \A k \in Keys :
              /\ card'[k] = NoCard <=> card[k] = NoCard
              /\ card[k] # NoCard =>
                   /\ card'[k].age <= card[k].age + 1 /\ card'[k].alias = card[k].alias
                   /\ card'[k].offline = card[k].offline
         /\ Beating /\ round["beat"].todo = {} => wait' = wait - 1
<1> USE TypeParts, TimeAssumption, CardAssumption DEF TypeInv, BeatType
<1>1. \A p \in Publishers :
        /\ round'[p] \in [todo : SUBSET Keys, age : 0..Latency]
        /\ round'[p].todo = round[p].todo
        /\ round[p].todo # {} => round'[p].age = round[p].age + 1
  <2> SUFFICES ASSUME NEW p \in Publishers
               PROVE  /\ round'[p] \in [todo : SUBSET Keys, age : 0..Latency]
                      /\ round'[p].todo = round[p].todo
                      /\ round[p].todo # {} => round'[p].age = round[p].age + 1
    OBVIOUS
  <2>1. round[p] \in [todo : SUBSET Keys, age : 0..Latency] BY DEF RoundType
  <2>2. CASE round[p].todo = {} BY <2>1, <2>2 DEF Tick
  <2>3. CASE round[p].todo # {}
    <3>1. round'[p] = [round[p] EXCEPT !.age = round[p].age + 1] BY <2>3 DEF Tick
    <3>2. round[p].age < Latency BY <2>3 DEF Tick
    <3> QED BY <2>1, <3>1, <3>2
  <2> QED BY <2>2, <2>3
<1>2. RoundType' BY <1>1 DEF Tick, RoundType
<1>3. \A k \in Keys :
        /\ card'[k] \in Card \cup {NoCard}
        /\ card'[k] = NoCard <=> card[k] = NoCard
        /\ card[k] # NoCard =>
             /\ card'[k].age <= card[k].age + 1 /\ card'[k].alias = card[k].alias
             /\ card'[k].offline = card[k].offline
  <2> SUFFICES ASSUME NEW k \in Keys, card[k] # NoCard
               PROVE  /\ card'[k] \in Card /\ card'[k] # NoCard
                      /\ card'[k].age <= card[k].age + 1 /\ card'[k].alias = card[k].alias
                      /\ card'[k].offline = card[k].offline
    BY DEF Tick, CardType
  <2>1. card[k] \in Card BY DEF CardType
  <2>2. card'[k] = [card[k] EXCEPT !.age = Older(card[k].age)] BY DEF Tick
  <2>3. Older(card[k].age) \in 0..Limit /\ Older(card[k].age) <= card[k].age + 1
    BY <2>1 DEF Older, Card, Limit
  <2> QED BY <2>1, <2>2, <2>3 DEF Card
<1>4. CardType' BY <1>3 DEF Tick, CardType
<1>5. wait' \in 0..Heartbeat
  <2>1. wait \in 0..Heartbeat /\ Heartbeat \in Nat OBVIOUS
  <2>2. CASE Beating /\ round["beat"].todo = {}
    <3>1. wait # 0 /\ wait' = wait - 1 BY <2>2 DEF Tick, Due
    <3> QED BY <2>1, <3>1
  <2>3. CASE ~(Beating /\ round["beat"].todo = {}) BY <2>1, <2>3 DEF Tick
  <2> QED BY <2>2, <2>3
<1> QED BY <1>1, <1>2, <1>3, <1>4, <1>5 DEF Tick

LEMMA TickStep == ASSUME TypeInv, Tick PROVE TypeInv'
<1> USE TypeParts DEF TypeInv, mailVars, daemonVars, retireVars
<1>1. BeatType' /\ CardType' BY TickEffect DEF Tick, BeatType
<1>2. JobType' /\ FileType' /\ MailType' /\ LifeType'
  BY DEF Tick, JobType, FileType, MailType, LifeType, Configured
<1>3. RoundInv' BY TickEffect DEF Tick, RoundInv, Publishers, Configured, Alive, Beating
<1> QED BY <1>1, <1>2, <1>3

LEMMA BeatStep == ASSUME TypeInv, Beat PROVE TypeInv'
<1> USE TypeParts DEF TypeInv, mailVars, daemonVars, retireVars
<1>1. RoundType' /\ round'["beat"] = AllCards /\ round'["main"] = round["main"]
  BY AllCardsType DEF Beat, RoundType, BeatType, Publishers
<1>2. RoundInv' BY <1>1 DEF Beat, Due, RoundInv, AllCards, Publishers, Configured, Alive, Beating
<1> QED BY <1>1, <1>2 DEF Beat, BeatType, CardType, JobType, FileType, MailType, LifeType, Configured

LEMMA PutStep == ASSUME TypeInv, NEW p \in Publishers, NEW k \in Keys, PutCard(p, k) PROVE TypeInv'
<1> USE TypeParts DEF TypeInv, mailVars, daemonVars, retireVars
<1>1. k \in round[p].todo /\ round[p].todo \subseteq Configured(cfg) \cup {Node}
  BY DEF PutCard, IsNext, RoundInv
<1>2. CardType' BY <1>1, StoredCard DEF PutCard, CardType, BeatType
<1>3. /\ RoundType' /\ round'[p].todo = round[p].todo \ {k}
      /\ \A q \in Publishers : q # p => round'[q] = round[q]
  BY PutLeft DEF BeatType
<1>4. BeatType' BY <1>3, TimeAssumption DEF PutCard, BeatType
<1>5. UNCHANGED <<cfg, link, retire, disturbed, events>> /\ bound' \in {bound, {}}
  BY DEF PutCard
<1>6. \/ stage' = stage /\ (bound' = bound \/ stage = "stopped")
      \/ p = "main" /\ stage = "stopping" /\ stage' = "stopped" /\ bound' = {} /\ round'["main"].todo = {}
  BY <1>3 DEF PutCard
<1>7. LifeType' BY <1>5, <1>6 DEF LifeType, Configured
<1>8. RoundInv'
  BY <1>1, <1>3, <1>5, <1>6 DEF RoundInv, Publishers, Configured, Alive, Beating
<1> QED BY <1>2, <1>4, <1>7, <1>8 DEF PutCard, JobType, FileType, MailType

(* A put that raises may have been stored.                                 *)
LEMMA RaisedPut ==
  ASSUME TypeInv, NEW p \in Publishers, NEW k \in Keys, PutRaises(p, k)
  PROVE  /\ k \in round[p].todo /\ card' \in {card, Stored(p, k)} /\ CardType' /\ events' \in Nat
<1> USE TypeParts DEF TypeInv
<1>1. k \in round[p].todo /\ round[p].todo \subseteq Configured(cfg) \cup {Node}
  BY DEF PutRaises, IsNext, RoundInv
<1>2. card' \in {card, Stored(p, k)} /\ events' \in Nat BY DEF PutRaises, Event, LifeType
<1>3. Stored(p, k) \in [Keys -> Card \cup {NoCard}] BY <1>1, StoredCard DEF BeatType
<1>4. CardType' BY <1>2, <1>3 DEF CardType
<1> QED BY <1>1, <1>2, <1>4

LEMMA BeatFailsEffect ==
  ASSUME TypeInv, NEW k \in Keys, BeatFails(k)
  PROVE  /\ RoundType' /\ round'["beat"].todo = {} /\ round'["main"] = round["main"]
         /\ wait' = Heartbeat /\ missed' = IF missed > Misses THEN missed ELSE missed + 1
BY TypeParts, IdleType DEF TypeInv, BeatFails, BeatType, RoundType, Publishers, Idle

LEMMA BeatFailsStep == ASSUME TypeInv, NEW k \in Keys, BeatFails(k) PROVE TypeInv'
<1> USE TypeParts DEF TypeInv, mailVars, daemonVars, retireVars
<1>1. CardType' /\ events' \in Nat BY RaisedPut DEF BeatFails, Publishers
<1>2. BeatType' BY BeatFailsEffect, TimeAssumption DEF BeatType
<1>3. RoundInv' BY BeatFailsEffect DEF BeatFails, RoundInv, Publishers, Configured, Alive, Beating
<1>4. JobType' /\ FileType' /\ MailType' BY DEF BeatFails, JobType, FileType, MailType
<1>5. LifeType' BY <1>1 DEF BeatFails, LifeType, Configured
<1> QED BY <1>1, <1>2, <1>3, <1>4, <1>5

LEMMA MainFailsStep == ASSUME TypeInv, NEW k \in Keys, MainFails(k) PROVE TypeInv'
<1> USE TypeParts DEF TypeInv, mailVars
<1>1. CardType' /\ events' \in Nat BY RaisedPut DEF MainFails, Publishers
<1> QED BY <1>1, DiesType DEF MainFails, FileType, MailType

LEMMA StopEffect ==
  ASSUME TypeInv, Stop
  PROVE  /\ RoundType' /\ round'["beat"].todo = {} /\ round'["main"] = AllCards /\ CardType'
<1> USE TypeParts DEF TypeInv
<1>1. RoundType' /\ round'["beat"].todo = {} /\ round'["main"] = AllCards
  BY AllCardsType, IdleType DEF Stop, RoundType, BeatType, Publishers, Idle
<1>2. CASE UNCHANGED card BY <1>1, <1>2 DEF CardType
<1>3. ASSUME NEW k \in Keys, IsNext("beat", k), card' = Stored("beat", k) PROVE CardType'
  <2>1. k \in round["beat"].todo /\ round["beat"].todo \subseteq Configured(cfg) \cup {Node}
    BY <1>3 DEF IsNext, RoundInv, Publishers
  <2> QED BY <1>3, <2>1, StoredCard DEF CardType, BeatType, Publishers
<1> QED BY <1>1, <1>2, <1>3 DEF Stop

LEMMA StopStep == ASSUME TypeInv, Stop PROVE TypeInv'
<1> USE TypeParts DEF TypeInv, mailVars, retireVars
<1>1. BeatType' BY StopEffect, TimeAssumption DEF Stop, BeatType
<1>2. RoundInv'
  <2>1. stage' = "stopping" /\ cfg' = cfg BY DEF Stop
  <2>2. round'["main"].todo = Configured(cfg) \cup {Node} /\ round'["beat"].todo = {}
    BY StopEffect DEF AllCards
  <2> QED BY <2>1, <2>2 DEF RoundInv, Publishers, Configured, Alive, Beating
<1>3. JobType' /\ FileType' /\ MailType' BY DEF Stop, JobType, FileType, MailType
<1>4. LifeType' BY DEF Stop, LifeType, Configured
<1> QED BY <1>1, <1>2, <1>3, <1>4, StopEffect

-----------------------------------------------------------------------------
(* Removing agents, and mail *)

LEMMA DropEffect ==
  ASSUME TypeInv, NEW r \in Removers, NEW a \in Agents, DropCard(r, a)
  PROVE  /\ JobType' /\ CardType' /\ events' \in Nat /\ a \in job[r].todo
         /\ \A k \in Keys : card'[k] = card[k] \/ (k = a /\ card'[k] = NoCard)
         /\ job'[r].todo = job[r].todo \ {a} /\ job'[r].ask = a /\ job'[r].drop = job[r].drop
         /\ \A q \in Removers : q # r => job'[q] = job[q]
<1> USE TypeParts DEF TypeInv
<1>0. CardType OBVIOUS
<1>1. job' = [job EXCEPT ![r].todo = job[r].todo \ {a}, ![r].ask = a] /\ a \in job[r].todo
  BY DEF DropCard
<1>2. job[r] \in [todo : SUBSET Agents, ask : Agents \cup {NoAgent}, drop : Agents \cup {NoAgent}, force : BOOLEAN]
  BY DEF JobType
<1>3. card' \in {card, [card EXCEPT ![a] = NoCard]} BY DEF DropCard
<1>4. events' \in Nat BY DEF DropCard, Event, LifeType
<1>5. CardType' /\ \A k \in Keys : card'[k] = card[k] \/ (k = a /\ card'[k] = NoCard)
  <2>1. CASE card' = card BY <1>0, <2>1 DEF CardType
  <2>2. CASE card' = [card EXCEPT ![a] = NoCard] BY <1>0, <2>2 DEF CardType
  <2> QED BY <1>3, <2>1, <2>2
<1>6. JobType' BY <1>1, <1>2 DEF JobType
<1> QED BY <1>1, <1>2, <1>4, <1>5, <1>6 DEF JobType

LEMMA JobEffect ==
  ASSUME TypeInv, NEW r \in Removers, InboxPending(r) \/ DeleteInbox(r)
  PROVE  /\ JobType' /\ job'[r].todo = job[r].todo /\ MailType'
         /\ \A q \in Removers : q # r => job'[q] = job[q]
<1> USE TypeParts DEF TypeInv
<1>1. job[r] \in [todo : SUBSET Agents, ask : Agents \cup {NoAgent}, drop : Agents \cup {NoAgent}, force : BOOLEAN]
  BY DEF JobType
<1>2. CASE InboxPending(r)
  <2>1. PICK d \in {job[r].ask, NoAgent} : job' = [job EXCEPT ![r].ask = NoAgent, ![r].drop = d]
    BY <1>2 DEF InboxPending
  <2>2. JobType' /\ job'[r].todo = job[r].todo /\ \A q \in Removers : q # r => job'[q] = job[q]
    BY <1>1, <2>1 DEF JobType
  <2> QED BY <1>2, <2>2 DEF InboxPending, MailType, mailVars
<1>3. CASE DeleteInbox(r)
  BY <1>1, <1>3 DEF DeleteInbox, JobType, MailType
<1> QED BY <1>2, <1>3

LEMMA RemoveStep ==
  ASSUME TypeInv, NEW r \in Removers,
         InboxPending(r) \/ DeleteInbox(r) \/ \E a \in Agents : DropCard(r, a)
  PROVE  TypeInv'
<1> USE TypeParts DEF TypeInv, daemonVars, beatVars
<1>1. CASE InboxPending(r) \/ DeleteInbox(r)
  <2>1. JobType' /\ MailType' BY <1>1, JobEffect
  <2>2. BeatType' /\ CardType' /\ FileType'
    BY <1>1 DEF InboxPending, DeleteInbox, BeatType, RoundType, CardType, FileType
  <2>3. LifeType' /\ RoundInv'
    BY <1>1 DEF InboxPending, DeleteInbox, LifeType, RoundInv, Configured, Alive, Beating
  <2> QED BY <2>1, <2>2, <2>3
<1>2. ASSUME NEW a \in Agents, DropCard(r, a) PROVE TypeInv'
  <2>1. JobType' /\ CardType' /\ events' \in Nat BY <1>2, DropEffect
  <2>2. BeatType' /\ FileType' /\ MailType'
    BY <1>2 DEF DropCard, BeatType, RoundType, FileType, MailType, mailVars
  <2>3. LifeType' /\ RoundInv'
    BY <1>2, <2>1 DEF DropCard, LifeType, RoundInv, Configured, Alive, Beating
  <2> QED BY <2>1, <2>2, <2>3
<1> QED BY <1>1, <1>2

LEMMA RetireStep ==
  ASSUME TypeInv, (\E force \in BOOLEAN : Retire(force)) \/ RetireList \/ RetireNode
  PROVE  TypeInv'
<1> USE TypeParts DEF TypeInv, daemonVars, beatVars, mailVars
<1>0. LifeType OBVIOUS
<1>1. BeatType' /\ FileType' /\ MailType' /\ RoundInv'
  BY DEF Retire, RetireList, RetireNode, BeatType, RoundType, FileType, MailType, RoundInv, Configured, Alive,
     Beating
<1>2. ASSUME NEW force \in BOOLEAN, Retire(force) PROVE JobType' /\ CardType' /\ LifeType'
  <2>1. JobType' BY <1>2 DEF Retire, JobType, Removers
  <2>2. UNCHANGED <<stage, bound, cfg, link, card>> /\ retire' = "list" /\ events' \in Nat
    BY <1>2 DEF Retire, Event, LifeType
  <2>3. disturbed' \in BOOLEAN BY <1>2, Zenon DEF Retire
  <2> QED BY <2>1, <2>2, <2>3 DEF LifeType, Configured, CardType
<1>3. CASE RetireList
  <2>1. JobType' BY <1>3 DEF RetireList, JobType, Removers, Registered
  <2>2. UNCHANGED <<stage, bound, cfg, link, disturbed, events>> /\ retire' \in {"idle", "remove"}
    BY <1>3 DEF RetireList
  <2>3. CardType' BY <1>3 DEF RetireList, CardType
  <2>4. LifeType' BY <1>0, <2>2 DEF LifeType, Configured
  <2> QED BY <1>1, <2>1, <2>3, <2>4
<1>4. CASE RetireNode
  <2>1. JobType' BY <1>4 DEF RetireNode, JobType, Removers, NoJob
  <2>2. UNCHANGED <<stage, bound, cfg, link, disturbed, events>> /\ retire' \in {"idle", "remove"}
    BY <1>4 DEF RetireNode
  <2>3. CardType' BY <1>4 DEF RetireNode, CardType
  <2>4. LifeType' BY <1>0, <2>2 DEF LifeType, Configured
  <2> QED BY <1>1, <2>1, <2>3, <2>4
<1> QED BY <1>1, <1>2, <1>3, <1>4

LEMMA MailStep ==
  ASSUME TypeInv, NEW m \in Msgs, Receive(m) \/ \E a \in Agents : Send(m, a)
  PROVE  TypeInv'
<1> USE TypeParts DEF TypeInv, daemonVars, beatVars, retireVars
<1>1. CASE Receive(m) BY <1>1 DEF Receive, BeatType, RoundType, CardType, JobType, FileType, MailType,
                          LifeType, RoundInv, Configured, Alive, Beating
<1>2. ASSUME NEW a \in Agents, Send(m, a) PROVE TypeInv'
  <2>1. Resolve(a) \cup {a} \subseteq Agents BY DEF Resolve, Registered
  <2>2. MailType' BY <1>2, <2>1 DEF Send, MailType
  <2> QED BY <1>2, <2>2 DEF Send, BeatType, RoundType, CardType, JobType, FileType,
             LifeType, RoundInv, Configured, Alive, Beating
<1> QED BY <1>1, <1>2

LEMMA StutterStep == ASSUME TypeInv, UNCHANGED vars PROVE TypeInv'
BY TypeParts DEF TypeInv, vars, daemonVars, beatVars, mailVars, retireVars, BeatType, RoundType, CardType,
   JobType, FileType, MailType, LifeType, RoundInv, Configured, Alive, Beating

LEMMA StepTypeInv == TypeInv /\ [Next]_vars => TypeInv'
BY FileStep, StartStep, FaultStep, TickStep, BeatStep, PutStep, BeatFailsStep, MainFailsStep, StopStep,
   RemoveStep, RetireStep, MailStep, StutterStep
DEF Next, Heart, Publishers

(* Every variable of Registry keeps its type. *)
THEOREM TypeCorrect == Spec => []TypeOK
<1>1. TypeInv => TypeOK BY DEF TypeInv
<1> QED BY <1>1, InitTypeInv, StepTypeInv, PTL DEF Spec

(***************************************************************************)
(* Presence: how old a card can be                                         *)
(***************************************************************************)

(* The age a card may have when a heartbeat ended, after q failures: the   *)
(* last round that stored it, and perhaps that of start() over it, and for *)
(* every failure a wait and a round.                                       *)
Budget(q) == 2 * Latency + q * (Heartbeat + Latency)

(* Time since the last heartbeat ended, failed or not.                     *)
Elapsed == IF round["beat"].todo # {} THEN Heartbeat + round["beat"].age ELSE Heartbeat - wait

(* Cards that start() has put and that nobody has removed since.           *)
Shown(k) ==
  /\ card[k] # NoCard
  /\ stage \in {"forget", "up"} \/ (stage = "cards" /\ k \notin round["main"].todo)

AgeInv ==
  \A k \in Known : Shown(k) =>
    /\ ~card[k].offline
    /\ missed <= Misses => card[k].age <= Budget(missed) + Elapsed
    /\ round["beat"].todo # {} /\ k \notin round["beat"].todo =>
         card[k].age <= Latency + round["beat"].age

OfflineInv ==
  stage \in {"stopping", "stopped"} =>
    \A k \in Known : k \notin round["main"].todo /\ card[k] # NoCard => card[k].offline

PresenceInv == AgeInv /\ OfflineInv

LEMMA BudgetFacts ==
  /\ \A q \in 0..(Misses + 1) : Budget(q) \in Nat /\ Budget(q) >= 2 * Latency
  /\ \A q \in 0..Misses : Budget(q + 1) = Budget(q) + Heartbeat + Latency
  /\ \A q \in 0..Misses : Budget(q) + Heartbeat + Latency < Limit
  /\ Budget(0) = 2 * Latency
<1> USE TimeAssumption DEF Budget
<1>1. \A q \in Nat : q * (Heartbeat + Latency) \in Nat OBVIOUS
<1>2. \A q \in Nat : (q + 1) * (Heartbeat + Latency) = q * (Heartbeat + Latency) + Heartbeat + Latency
  OBVIOUS
<1>3. \A q \in 0..Misses : q * (Heartbeat + Latency) <= Misses * (Heartbeat + Latency) OBVIOUS
<1>4. Misses * (Heartbeat + Latency) + Heartbeat + Latency + 2 * Latency < Limit
  BY <1>2 DEF Limit
<1>5. \A q \in 0..Misses : q \in Nat /\ q * (Heartbeat + Latency) \in Nat BY <1>1
<1>6. Misses * (Heartbeat + Latency) \in Nat /\ Limit \in Nat BY <1>1 DEF Limit
<1>7. ASSUME NEW q \in 0..Misses PROVE Budget(q) + Heartbeat + Latency < Limit
  BY <1>3, <1>4, <1>5, <1>6
<1> QED BY <1>1, <1>2, <1>5, <1>7

LEMMA TimesAreNat ==
  ASSUME TypeInv
  PROVE  /\ wait \in 0..Heartbeat /\ missed \in 0..(Misses + 1)
         /\ round["beat"].age \in 0..Latency /\ round["main"].age \in 0..Latency
         /\ \A k \in Keys : card[k] # NoCard => card[k].age \in Nat
<1> USE TypeParts, TimeAssumption DEF TypeInv
<1>1. round["beat"].age \in 0..Latency /\ round["main"].age \in 0..Latency
  BY DEF BeatType, RoundType, Publishers
<1>2. \A k \in Keys : card[k] # NoCard => card[k].age \in Nat BY DEF CardType, Card, Limit
<1> QED BY <1>1, <1>2 DEF BeatType

(* Steps that leave rounds, time and cards alone, or only remove cards.    *)
LEMMA QuietPresence ==
  ASSUME TypeInv, PresenceInv, UNCHANGED <<round, wait, missed, cfg>>,
         \/ stage' = stage
         \/ stage = "forget" /\ stage' = "up"
         \/ stage = "cards" /\ round["main"].todo = {} /\ stage' = "forget",
         \A k \in Keys : card'[k] \in {card[k], NoCard}
  PROVE  PresenceInv'
<1>1. Known' = Known /\ Elapsed' = Elapsed /\ Known \subseteq Keys
  BY AllCardsType DEF Known, Elapsed, Configured
<1>2. \A k \in Known : Shown(k)' => Shown(k) /\ card'[k] = card[k] BY <1>1 DEF Shown
<1>3. AgeInv' BY <1>1, <1>2 DEF PresenceInv, AgeInv
<1>4. OfflineInv' BY <1>1 DEF PresenceInv, OfflineInv
<1> QED BY <1>3, <1>4 DEF PresenceInv

(* Steps to where nothing is shown.                                        *)
LEMMA AwayPresence == ASSUME stage' \in {"dead", "inboxes", "recover"} PROVE PresenceInv'
BY DEF PresenceInv, AgeInv, OfflineInv, Shown

LEMMA StartPresence ==
  ASSUME TypeInv, PresenceInv,
         Boot \/ (\E a \in Agents : EnsureInbox(a)) \/ SpawnHeartbeat \/ PublishFirst \/ ForgetRemoved \/ Started
  PROVE  PresenceInv'
<1> USE DEF beatVars, mailVars, retireVars
<1>1. CASE Boot \/ SpawnHeartbeat BY <1>1, AwayPresence DEF Boot, SpawnHeartbeat
<1>2. CASE (\E a \in Agents : EnsureInbox(a)) \/ ForgetRemoved \/ Started
  BY <1>2, QuietPresence DEF EnsureInbox, ForgetRemoved, Started
<1>3. CASE PublishFirst
  <2>1. round'["main"] = AllCards /\ stage' = "cards" /\ cfg' = cfg
    BY <1>3, TypeParts DEF PublishFirst, TypeInv, BeatType, RoundType, Publishers
  <2> QED BY <2>1 DEF PresenceInv, AgeInv, OfflineInv, Shown, AllCards, Known, Configured
<1> QED BY <1>1, <1>2, <1>3

LEMMA TickPresence == ASSUME TypeInv, PresenceInv, Tick PROVE PresenceInv'
<1>1. UNCHANGED <<stage, cfg, missed>> /\ Known' = Known /\ Known \subseteq Keys
  BY AllCardsType DEF Tick, daemonVars, Known, Configured
<1>2. /\ round'["beat"].todo = round["beat"].todo /\ round'["main"].todo = round["main"].todo
      /\ round["beat"].todo # {} => round'["beat"].age = round["beat"].age + 1
  BY TickEffect DEF Publishers
<1>3. ASSUME NEW k \in Known, Shown(k)'
      PROVE  /\ Shown(k) /\ Beating /\ card'[k].age <= card[k].age + 1 /\ card[k].age \in Nat
             /\ card'[k].offline = card[k].offline /\ card'[k].age \in Nat
  <2>1. TypeInv' BY TickStep
  <2>2. Shown(k) BY <1>1, <1>2, <1>3, TickEffect DEF Shown
  <2>3. card[k].age \in Nat BY <1>1, <2>2, TimesAreNat DEF Shown
  <2>4. card'[k].age \in Nat
    BY <1>1, <1>3, <2>1, TypeParts, TimeAssumption DEF Shown, TypeInv, CardType, Card, Limit
  <2> QED BY <1>1, <2>2, <2>3, <2>4, TickEffect DEF Shown, Beating
<1>4. Beating => Elapsed' = Elapsed + 1 /\ Elapsed \in Nat
  BY <1>2, TickEffect, TimesAreNat, TimeAssumption DEF Elapsed
<1>5. missed <= Misses => Budget(missed) \in Nat BY BudgetFacts, TimesAreNat
<1>6. AgeInv'
  <2> SUFFICES ASSUME NEW k \in Known, Shown(k)'
               PROVE  /\ ~card'[k].offline
                      /\ missed <= Misses => card'[k].age <= Budget(missed) + Elapsed'
                      /\ round'["beat"].todo # {} /\ k \notin round'["beat"].todo =>
                           card'[k].age <= Latency + round'["beat"].age
    BY <1>1 DEF AgeInv, Budget
  <2>1. /\ ~card[k].offline
        /\ missed <= Misses => card[k].age <= Budget(missed) + Elapsed
        /\ round["beat"].todo # {} /\ k \notin round["beat"].todo =>
             card[k].age <= Latency + round["beat"].age
    BY <1>3 DEF PresenceInv, AgeInv
  <2>2. missed <= Misses => card'[k].age <= Budget(missed) + Elapsed'
    BY <1>3, <1>4, <1>5, <2>1
  <2>3. round'["beat"].todo # {} /\ k \notin round'["beat"].todo =>
          card'[k].age <= Latency + round'["beat"].age
    BY <1>2, <1>3, <2>1, TimesAreNat, TimeAssumption
  <2> QED BY <1>3, <2>1, <2>2, <2>3
<1>7. OfflineInv' BY <1>1, <1>2, TickEffect DEF PresenceInv, OfflineInv
<1> QED BY <1>6, <1>7 DEF PresenceInv

LEMMA BeatPresence == ASSUME TypeInv, PresenceInv, Beat PROVE PresenceInv'
<1>1. /\ UNCHANGED <<stage, cfg, missed, card>> /\ Known' = Known
      /\ round'["beat"] = AllCards /\ round'["main"] = round["main"]
  BY TypeParts DEF Beat, daemonVars, Known, Configured, TypeInv, BeatType, RoundType, Publishers
<1>2. round["beat"].todo = {} /\ wait = 0 /\ Known # {} BY DEF Beat, Due, Known
<1>3. Elapsed' = Elapsed BY <1>1, <1>2, TimeAssumption DEF Elapsed, AllCards, Known
<1>4. AgeInv' BY <1>1, <1>3 DEF PresenceInv, AgeInv, Shown, AllCards, Budget, Known
<1>5. OfflineInv' BY <1>1 DEF PresenceInv, OfflineInv
<1> QED BY <1>4, <1>5 DEF PresenceInv

(* What becomes of the cards when p puts k.                                *)
LEMMA PutCards ==
  ASSUME TypeInv, NEW p \in Publishers, NEW k \in Keys, k \in round[p].todo
  PROVE  /\ k \in Known
         /\ \A j \in Keys : j # k => Stored(p, k)[j] = card[j]
         /\ Stored(p, k)[k] # NoCard /\ Stored(p, k)[k].age = round[p].age
         /\ Stored(p, k)[k].offline <=> (p = "main" /\ stage = "stopping")
         /\ Stored(p, k)[k].alias = IF k = Node THEN NoAlias ELSE cfg[k]
<1> DEFINE new == [alias |-> IF k = Node THEN NoAlias ELSE cfg[k],
                   offline |-> p = "main" /\ stage = "stopping", age |-> round[p].age]
<1>1. k \in Known /\ round[p].todo \subseteq Configured(cfg) \cup {Node} BY DEF TypeInv, RoundInv, Known
<1>2. /\ \A j \in Keys : j # k => Stored(p, k)[j] = card[j]
      /\ Stored(p, k)[k] = new
  BY <1>1, StoredCard, TypeParts DEF TypeInv, BeatType
<1>3. new \in Card
  <2>1. (IF k = Node THEN NoAlias ELSE cfg[k]) \in Names
    BY <1>1, TypeParts DEF TypeInv, FileType, Names, Configured, Known
  <2>2. round[p].age \in 0..Limit
    BY LatencyFits, TimeAssumption, TypeParts DEF TypeInv, BeatType, RoundType, Limit
  <2> QED BY <2>1, <2>2 DEF Card
<1>4. /\ new.age = round[p].age /\ new.alias = IF k = Node THEN NoAlias ELSE cfg[k]
      /\ new.offline <=> (p = "main" /\ stage = "stopping")
  OBVIOUS
<1> HIDE DEF new
<1> QED BY <1>1, <1>2, <1>3, <1>4, CardAssumption

LEMMA MainPutPresence == ASSUME TypeInv, PresenceInv, NEW k \in Keys, PutCard("main", k) PROVE PresenceInv'
<1>0. "main" \in Publishers /\ "beat" \in Publishers /\ "main" # "beat" BY DEF Publishers
<1>1. /\ k \in round["main"].todo /\ round'["main"].todo = round["main"].todo \ {k}
      /\ round'["beat"] = round["beat"]
  BY <1>0, PutLeft, TypeParts DEF TypeInv, BeatType
<1>2. UNCHANGED <<cfg, wait, missed>> /\ card' = Stored("main", k) BY DEF PutCard
<1>3. Known' = Known /\ Elapsed' = Elapsed BY <1>1, <1>2 DEF Known, Configured, Elapsed
<1>4. stage \in {"cards", "stopping"} BY <1>1 DEF TypeInv, RoundInv
<1>5. /\ k \in Known /\ \A j \in Known : j # k => card'[j] = card[j]
      /\ card'[k] # NoCard /\ card'[k].age = round["main"].age /\ (card'[k].offline <=> stage = "stopping")
  BY <1>0, <1>1, <1>2, PutCards, AllCardsType
<1>6. stage' = stage \/ (stage = "stopping" /\ stage' = "stopped") BY DEF PutCard
<1>7. CASE stage = "cards"
  <2>1. stage' = "cards" BY <1>6, <1>7
  <2>2. ASSUME NEW j \in Known, j # k, Shown(j)' PROVE Shown(j) /\ card'[j] = card[j]
    BY <1>1, <1>5, <1>7, <2>1, <2>2 DEF Shown
  <2>3. /\ ~card'[k].offline
        /\ missed <= Misses => card'[k].age <= Budget(missed) + Elapsed
        /\ card'[k].age <= Latency + round["beat"].age
    <3>1. card'[k].age \in 0..Latency BY <1>5, TimesAreNat
    <3>2. missed <= Misses => Budget(missed) \in Nat /\ Budget(missed) >= 2 * Latency BY BudgetFacts, TimesAreNat
    <3>3. Elapsed \in Nat /\ round["beat"].age \in Nat BY TimesAreNat, TimeAssumption DEF Elapsed
    <3> QED BY <1>5, <1>7, <3>1, <3>2, <3>3, TimeAssumption
  <2>4. AgeInv'
    <3> SUFFICES ASSUME NEW j \in Known, Shown(j)'
                 PROVE  /\ ~card'[j].offline
                        /\ missed <= Misses => card'[j].age <= Budget(missed) + Elapsed
                        /\ round["beat"].todo # {} /\ j \notin round["beat"].todo =>
                             card'[j].age <= Latency + round["beat"].age
      BY <1>1, <1>2, <1>3 DEF AgeInv, Budget
    <3> QED BY <2>2, <2>3 DEF PresenceInv, AgeInv
  <2> QED BY <2>1, <2>4 DEF PresenceInv, OfflineInv
<1>8. CASE stage = "stopping"
  <2>1. stage' \in {"stopping", "stopped"} BY <1>6, <1>8
  <2>2. AgeInv' BY <2>1 DEF AgeInv, Shown
  <2>3. OfflineInv' BY <1>1, <1>3, <1>5, <1>8, <2>1 DEF PresenceInv, OfflineInv
  <2> QED BY <2>2, <2>3 DEF PresenceInv
<1> QED BY <1>4, <1>7, <1>8

(* A heartbeat's put, stored: cards of a round under way.                  *)
LEMMA BeatCards ==
  ASSUME TypeInv, PresenceInv, NEW k \in Keys, k \in round["beat"].todo, card' \in {card, Stored("beat", k)},
         UNCHANGED <<stage, cfg>>, round'["main"] = round["main"]
  PROVE  /\ Known' = Known /\ stage' \notin {"stopping", "stopped"}
         /\ \A j \in Known : Shown(j)' =>
              /\ ~card'[j].offline /\ card'[j].age \in Nat
              /\ missed <= Misses => card'[j].age <= Budget(missed) + Heartbeat + round["beat"].age
              /\ \/ j \notin round["beat"].todo \/ (j = k /\ card' # card)
                 => card'[j].age <= Latency + round["beat"].age
<1>0. "beat" \in Publishers BY DEF Publishers
<1>1. Known' = Known /\ Known \subseteq Keys BY AllCardsType DEF Known, Configured
<1>2. Beating BY DEF TypeInv, RoundInv
<1>3. Elapsed = Heartbeat + round["beat"].age BY DEF Elapsed
<1>4. ASSUME NEW j \in Known, Shown(j)'
      PROVE  /\ ~card'[j].offline /\ card'[j].age \in Nat
             /\ missed <= Misses => card'[j].age <= Budget(missed) + Heartbeat + round["beat"].age
             /\ \/ j \notin round["beat"].todo \/ (j = k /\ card' # card)
                => card'[j].age <= Latency + round["beat"].age
  <2>1. CASE card'[j] = card[j] /\ (j # k \/ card' = card)
    <3>1. Shown(j) BY <1>4, <2>1 DEF Shown
    <3>2. card[j].age \in Nat BY <1>1, <3>1, TimesAreNat DEF Shown
    <3>3. missed <= Misses => Budget(missed) \in Nat BY BudgetFacts, TimesAreNat
    <3>4. /\ ~card[j].offline
          /\ missed <= Misses => card[j].age <= Budget(missed) + Elapsed
          /\ j \notin round["beat"].todo => card[j].age <= Latency + round["beat"].age
      BY <3>1 DEF PresenceInv, AgeInv
    <3> QED BY <1>3, <2>1, <3>2, <3>3, <3>4, TimesAreNat, TimeAssumption
  <2>2. CASE j = k /\ card' # card
    <3>1. card' = Stored("beat", k) BY <2>2
    <3>2. card'[k].age = round["beat"].age /\ ~card'[k].offline
      BY <1>0, <3>1, PutCards
    <3>3. missed <= Misses => Budget(missed) \in Nat BY BudgetFacts, TimesAreNat
    <3> QED BY <2>2, <3>2, <3>3, TimesAreNat, TimeAssumption
  <2>3. j # k => card'[j] = card[j] BY <1>0, <1>1, PutCards
  <2> QED BY <2>1, <2>2, <2>3
<1> QED BY <1>1, <1>2, <1>4 DEF Beating

LEMMA BeatPutPresence == ASSUME TypeInv, PresenceInv, NEW k \in Keys, PutCard("beat", k) PROVE PresenceInv'
<1>0. "main" \in Publishers /\ "beat" \in Publishers /\ "main" # "beat" BY DEF Publishers
<1>1. /\ k \in round["beat"].todo /\ round'["beat"].todo = round["beat"].todo \ {k}
      /\ round'["beat"].todo # {} => round'["beat"].age = round["beat"].age
      /\ round'["main"] = round["main"]
  BY <1>0, PutLeft, TypeParts DEF TypeInv, BeatType
<1>2. UNCHANGED <<cfg, stage>> /\ card' = Stored("beat", k) BY <1>0 DEF PutCard
<1>3. /\ IF round'["beat"].todo = {} THEN wait' = Heartbeat /\ missed' = 0 ELSE UNCHANGED <<wait, missed>>
  BY <1>1 DEF PutCard
<1>4. /\ Known' = Known /\ stage' \notin {"stopping", "stopped"}
      /\ \A j \in Known : Shown(j)' =>
              /\ ~card'[j].offline /\ card'[j].age \in Nat
              /\ missed <= Misses => card'[j].age <= Budget(missed) + Heartbeat + round["beat"].age
              /\ \/ j \notin round["beat"].todo \/ (j = k /\ card' # card)
                 => card'[j].age <= Latency + round["beat"].age
  BY <1>1, <1>2, BeatCards
<1>5. ASSUME NEW j \in Known, Shown(j)', j = k PROVE card'[j].age <= Latency + round["beat"].age
  <2>1. card'[k].age = round["beat"].age BY <1>0, <1>1, <1>2, PutCards
  <2> QED BY <1>5, <2>1, TimesAreNat, TimeAssumption
<1>6. CASE round'["beat"].todo # {}
  <2>1. Elapsed' = Heartbeat + round["beat"].age /\ UNCHANGED <<wait, missed>> BY <1>1, <1>3, <1>6 DEF Elapsed
  <2>2. missed <= Misses => Budget(missed) \in Nat BY BudgetFacts, TimesAreNat
  <2>3. AgeInv'
    <3> SUFFICES ASSUME NEW j \in Known, Shown(j)'
                 PROVE  /\ ~card'[j].offline
                        /\ missed <= Misses => card'[j].age <= Budget(missed) + (Heartbeat + round["beat"].age)
                        /\ round'["beat"].todo # {} /\ j \notin round'["beat"].todo =>
                             card'[j].age <= Latency + round["beat"].age
      BY <1>1, <1>4, <1>6, <2>1 DEF AgeInv, Budget
    <3> QED BY <1>1, <1>4, <1>5, <2>2, TimesAreNat, TimeAssumption
  <2> QED BY <1>4, <2>3 DEF PresenceInv, OfflineInv
<1>7. CASE round'["beat"].todo = {}
  <2>1. Elapsed' = 0 /\ missed' = 0 BY <1>3, <1>7, TimeAssumption DEF Elapsed
  <2>2. \A j \in Known : Shown(j)' => card'[j].age <= Latency + round["beat"].age /\ card'[j].age \in Nat
    BY <1>1, <1>4, <1>5, <1>7
  <2>3. AgeInv'
    <3> SUFFICES ASSUME NEW j \in Known, Shown(j)'
                 PROVE  ~card'[j].offline /\ card'[j].age <= Budget(0) + 0
      BY <1>4, <1>7, <2>1 DEF AgeInv, Budget
    <3> QED BY <1>4, <2>2, BudgetFacts, TimesAreNat, TimeAssumption
  <2> QED BY <1>4, <2>3 DEF PresenceInv, OfflineInv
<1> QED BY <1>6, <1>7

LEMMA BeatFailsPresence == ASSUME TypeInv, PresenceInv, NEW k \in Keys, BeatFails(k) PROVE PresenceInv'
<1>0. "beat" \in Publishers BY DEF Publishers
<1>1. /\ round'["beat"].todo = {} /\ round'["main"] = round["main"]
      /\ wait' = Heartbeat /\ missed' = IF missed > Misses THEN missed ELSE missed + 1
  BY BeatFailsEffect
<1>2. UNCHANGED <<cfg, stage>> /\ k \in round["beat"].todo /\ card' \in {card, Stored("beat", k)}
  BY <1>0, RaisedPut DEF BeatFails, daemonVars
<1>3. /\ Known' = Known /\ stage' \notin {"stopping", "stopped"}
      /\ \A j \in Known : Shown(j)' =>
              /\ ~card'[j].offline /\ card'[j].age \in Nat
              /\ missed <= Misses => card'[j].age <= Budget(missed) + Heartbeat + round["beat"].age
  BY <1>1, <1>2, BeatCards
<1>4. Elapsed' = 0 BY <1>1, TimeAssumption DEF Elapsed
<1>5. missed' <= Misses => /\ missed \in 0..Misses /\ missed' = missed + 1
                           /\ Budget(missed') = Budget(missed) + Heartbeat + Latency
                           /\ Budget(missed) \in Nat
  BY <1>1, BudgetFacts, TimesAreNat, TimeAssumption
<1>6. AgeInv'
  <2> SUFFICES ASSUME NEW j \in Known, Shown(j)'
               PROVE  ~card'[j].offline /\ (missed' <= Misses => card'[j].age <= Budget(missed') + 0)
    BY <1>1, <1>3, <1>4 DEF AgeInv, Budget
  <2> QED BY <1>3, <1>5, TimesAreNat, TimeAssumption
<1> QED BY <1>3, <1>6 DEF PresenceInv, OfflineInv

LEMMA StopPresence == ASSUME TypeInv, PresenceInv, Stop PROVE PresenceInv'
<1>1. stage' = "stopping" /\ cfg' = cfg /\ round'["main"].todo = Known
  BY StopEffect DEF Stop, AllCards, Known
<1> QED BY <1>1 DEF PresenceInv, AgeInv, OfflineInv, Shown, Known, Configured

LEMMA RestPresence ==
  ASSUME TypeInv, PresenceInv,
         \/ \E a, b \in Agents : AddAgent(a) \/ Rename(a, b) \/ Remove(a)
         \/ Disconnect \/ Reconnect \/ UNCHANGED vars
         \/ \E r \in Removers : InboxPending(r) \/ DeleteInbox(r) \/ \E a \in Agents : DropCard(r, a)
         \/ (\E force \in BOOLEAN : Retire(force)) \/ RetireList \/ RetireNode
         \/ \E m \in Msgs : Receive(m) \/ \E a \in Agents : Send(m, a)
  PROVE  PresenceInv'
<1>1. UNCHANGED <<round, wait, missed, cfg, stage>>
  BY DEF AddAgent, Rename, Remove, Disconnect, Reconnect, vars, InboxPending, DeleteInbox, DropCard, Retire,
     RetireList, RetireNode, Receive, Send, daemonVars, beatVars
<1>2. card' = card \/ \E a \in Keys : card' = [card EXCEPT ![a] = NoCard]
  BY DEF AddAgent, Rename, Remove, Disconnect, Reconnect, vars, InboxPending, DeleteInbox, DropCard, Retire,
     RetireList, RetireNode, Receive, Send, Keys
<1>3. \A k \in Keys : card'[k] \in {card[k], NoCard} BY <1>2, TypeParts DEF TypeInv, CardType
<1> QED BY <1>1, <1>3, QuietPresence

LEMMA StepPresence == TypeInv /\ PresenceInv /\ [Next]_vars => PresenceInv'
<1> SUFFICES ASSUME TypeInv, PresenceInv, [Next]_vars PROVE PresenceInv' OBVIOUS
<1>1. CASE Crash \/ \E k \in Keys : MainFails(k) BY <1>1, AwayPresence DEF Crash, MainFails, Dies
<1> QED BY <1>1, StartPresence, TickPresence, BeatPresence, MainPutPresence, BeatPutPresence,
           BeatFailsPresence, StopPresence, RestPresence
    DEF Next, Heart

(* Presence is true of any daemon: alive after at most Misses failed       *)
(* heartbeats in a row, dead when it was stopped.                          *)
THEOREM PresenceTrue == Spec => []PresenceIsTrue
<1>1. TypeInv /\ PresenceInv => PresenceIsTrue
  <2> SUFFICES ASSUME TypeInv, PresenceInv PROVE LiveIsOnline /\ StoppedIsOffline BY DEF PresenceIsTrue
  <2>1. LiveIsOnline
    <3> SUFFICES ASSUME stage \in {"forget", "up"}, missed <= Misses, NEW k \in Known, card[k] # NoCard
                 PROVE  IsOnline(card[k])
      BY DEF LiveIsOnline, Known
    <3>1. ~card[k].offline /\ card[k].age <= Budget(missed) + Elapsed
      BY DEF PresenceInv, AgeInv, Shown
    <3>2. Elapsed \in 0..(Heartbeat + Latency) BY TimesAreNat, TimeAssumption DEF Elapsed
    <3>3. missed \in 0..Misses BY TimesAreNat, TimeAssumption
    <3>4. Budget(missed) \in Nat /\ Budget(missed) + Heartbeat + Latency < Limit
      BY <3>3, BudgetFacts, TimeAssumption
    <3>5. card[k].age \in Nat BY TimesAreNat, AllCardsType
    <3>6. card[k].age < Limit BY <3>1, <3>2, <3>4, <3>5, TimeAssumption DEF Limit
    <3> QED BY <3>1, <3>6 DEF IsOnline
  <2>2. StoppedIsOffline BY DEF PresenceInv, OfflineInv, StoppedIsOffline, IsOnline, Known, TypeInv, RoundInv
  <2> QED BY <2>1, <2>2
<1>2. Init => PresenceInv BY DEF Init, PresenceInv, AgeInv, OfflineInv, Shown
<1> QED BY <1>1, <1>2, InitTypeInv, StepTypeInv, StepPresence, PTL DEF Spec

(***************************************************************************)
(* Renaming: the old name never resolves to nobody                         *)
(***************************************************************************)

(* Only an undisturbed start() removes cards, and not of its own agents.   *)
JobInv ==
  /\ Alive /\ retire # "idle" => disturbed
  /\ retire = "idle" => job["retire"].todo = {}
  /\ stage # "forget" => job["start"].todo = {}
  /\ job["start"].todo \cap Configured(cfg) = {}

(* Undisturbed, every card start() has put is there, with its alias.       *)
AliasInv ==
  ~disturbed /\ stage \in {"cards", "forget"} =>
    \A k \in Known \ round["main"].todo :
      card[k] # NoCard /\ card[k].alias = IF k = Node THEN NoAlias ELSE cfg[k]

RenameInv == JobInv /\ AliasInv

(* Steps that touch neither cards nor removals.                            *)
LEMMA QuietRename ==
  ASSUME TypeInv, RenameInv, UNCHANGED <<card, cfg, job, retire, disturbed>>,
         \/ stage' = stage
         \/ stage = "forget" /\ job["start"].todo = {} /\ stage' = "up"
         \/ stage = "inboxes" /\ stage' = "recover",
         round'["main"].todo = round["main"].todo
  PROVE  RenameInv'
<1>1. Known' = Known BY DEF Known, Configured
<1>2. JobInv' BY DEF RenameInv, JobInv, Alive, Configured
<1>3. AliasInv' BY <1>1 DEF RenameInv, AliasInv
<1> QED BY <1>2, <1>3 DEF RenameInv

LEMMA StartRename ==
  ASSUME TypeInv, RenameInv,
         Boot \/ (\E a \in Agents : EnsureInbox(a)) \/ SpawnHeartbeat \/ PublishFirst \/ ForgetRemoved \/ Started
  PROVE  RenameInv'
<1> USE DEF beatVars, mailVars, retireVars
<1>1. CASE Boot
  <2>1. stage \in {"dead", "stopped"} BY <1>1, TypeParts DEF Boot, Alive
  <2>2. job["start"].todo = {} BY <2>1 DEF RenameInv, JobInv
  <2>3. JobInv' BY <1>1, <2>2 DEF Boot, RenameInv, JobInv
  <2>4. AliasInv' BY <1>1 DEF Boot, AliasInv
  <2> QED BY <2>3, <2>4 DEF RenameInv
<1>2. CASE (\E a \in Agents : EnsureInbox(a)) \/ SpawnHeartbeat \/ Started
  BY <1>2, QuietRename DEF EnsureInbox, SpawnHeartbeat, Started
<1>3. CASE PublishFirst
  <2>1. round'["main"].todo = Configured(cfg) \cup {Node}
    BY <1>3, TypeParts DEF PublishFirst, TypeInv, BeatType, RoundType, Publishers, AllCards
  <2>2. JobInv' BY <1>3 DEF PublishFirst, RenameInv, JobInv, Alive, Configured
  <2>3. AliasInv' BY <1>3, <2>1 DEF PublishFirst, AliasInv, Known, Configured
  <2> QED BY <2>2, <2>3 DEF RenameInv
<1>4. CASE ForgetRemoved
  <2>1. job'["retire"] = job["retire"] /\ job'["start"].todo = Registered \ Configured(cfg)
    BY <1>4, TypeParts DEF ForgetRemoved, TypeInv, JobType, Removers
  <2>2. UNCHANGED <<cfg, card, round, retire, disturbed>> /\ stage = "cards" /\ stage' = "forget"
    BY <1>4 DEF ForgetRemoved
  <2>3. JobInv' BY <2>1, <2>2 DEF RenameInv, JobInv, Alive, Configured
  <2>4. AliasInv' BY <2>2 DEF RenameInv, AliasInv, Known, Configured
  <2> QED BY <2>3, <2>4 DEF RenameInv
<1> QED BY <1>1, <1>2, <1>3, <1>4

(* A dead daemon has no removals of its own.                               *)
LEMMA DiesRename == ASSUME TypeInv, RenameInv, Dies, UNCHANGED <<cfg, retire>> PROVE RenameInv'
<1>1. job'["start"].todo = {} /\ job'["retire"] = job["retire"]
  BY TypeParts DEF Dies, TypeInv, JobType, Removers, NoJob
<1>2. JobInv' BY <1>1 DEF Dies, RenameInv, JobInv, Alive
<1>3. AliasInv' BY DEF Dies, AliasInv
<1> QED BY <1>2, <1>3 DEF RenameInv

LEMMA TickRename == ASSUME TypeInv, RenameInv, Tick PROVE RenameInv'
<1>1. UNCHANGED <<cfg, stage, job, retire, disturbed>> /\ Known' = Known /\ Known \subseteq Keys
  BY AllCardsType DEF Tick, daemonVars, retireVars, Known, Configured
<1>2. JobInv' BY <1>1 DEF RenameInv, JobInv, Alive, Configured
<1>3. AliasInv' BY <1>1, TickEffect DEF RenameInv, AliasInv, Publishers
<1> QED BY <1>2, <1>3 DEF RenameInv

(* Putting a card, by whomever, and a put that raises.                     *)
LEMMA PutRename ==
  ASSUME TypeInv, RenameInv, NEW p \in Publishers, NEW k \in Keys, PutCard(p, k) \/ (p = "beat" /\ BeatFails(k))
  PROVE  RenameInv'
<1>0. "main" \in Publishers /\ "beat" \in Publishers /\ Known \subseteq Keys BY AllCardsType DEF Publishers
<1>1. k \in round[p].todo /\ card' \in {card, Stored(p, k)}
  BY RaisedPut DEF PutCard, IsNext, BeatFails
<1>2. p = "main" => card' = Stored(p, k) BY DEF PutCard
<1>3. round'["main"].todo = IF p = "main" THEN round["main"].todo \ {k} ELSE round["main"].todo
  BY <1>0, PutLeft, BeatFailsEffect, TypeParts DEF TypeInv, BeatType
<1>4. UNCHANGED <<cfg, job, retire, disturbed>> /\ Known' = Known
  BY DEF PutCard, BeatFails, retireVars, daemonVars, Known, Configured
<1>5. stage' = stage \/ (stage = "stopping" /\ stage' = "stopped") BY DEF PutCard, BeatFails, daemonVars
<1>6. JobInv' BY <1>4, <1>5 DEF RenameInv, JobInv, Alive, Configured
<1>7. AliasInv'
  <2> SUFFICES ASSUME ~disturbed, stage \in {"cards", "forget"}, NEW j \in Known, j \notin round'["main"].todo
               PROVE  card'[j] # NoCard /\ card'[j].alias = IF j = Node THEN NoAlias ELSE cfg[j]
    BY <1>4, <1>5 DEF AliasInv
  <2>1. CASE card'[j] = card[j] /\ j \notin round["main"].todo BY <2>1 DEF RenameInv, AliasInv
  <2>2. CASE j = k /\ card' = Stored(p, k) BY <1>1, <2>2, PutCards
  <2>3. j # k => card'[j] = card[j] /\ j \notin round["main"].todo BY <1>0, <1>1, <1>3, PutCards
  <2> QED BY <1>1, <1>2, <1>3, <2>1, <2>2, <2>3
<1> QED BY <1>6, <1>7 DEF RenameInv

LEMMA StopRename == ASSUME TypeInv, RenameInv, Stop PROVE RenameInv'
<1>1. UNCHANGED <<cfg, job, retire, disturbed>> /\ stage = "up" /\ stage' = "stopping" BY DEF Stop, retireVars
<1> QED BY <1>1 DEF RenameInv, JobInv, AliasInv, Alive, Configured

(* Whose card may be removed, in an undisturbed start().                   *)
LEMMA DropRename ==
  ASSUME TypeInv, RenameInv, NEW r \in Removers, NEW a \in Agents, DropCard(r, a)
  PROVE  /\ Alive /\ ~disturbed => r = "start" /\ stage = "forget" /\ a \notin Configured(cfg)
         /\ RenameInv'
<1>1. a \in job[r].todo /\ job'[r].todo = job[r].todo \ {a} /\ \A q \in Removers : q # r => job'[q] = job[q]
  BY DropEffect
<1>2. UNCHANGED <<cfg, stage, round, retire, disturbed>> /\ Known' = Known /\ Known \subseteq Keys /\ a # Node
  BY AllCardsType, AgentsAssumption DEF DropCard, daemonVars, beatVars, Known, Configured
<1>3. Alive /\ ~disturbed => r = "start" /\ stage = "forget" /\ a \notin Configured(cfg)
  BY <1>1 DEF RenameInv, JobInv, Removers
<1>4. JobInv' BY <1>1, <1>2 DEF RenameInv, JobInv, Alive, Configured, Removers
<1>5. AliasInv'
  <2> SUFFICES ASSUME ~disturbed, stage \in {"cards", "forget"}, NEW k \in Known, k \notin round["main"].todo
               PROVE  card'[k] # NoCard /\ card'[k].alias = IF k = Node THEN NoAlias ELSE cfg[k]
    BY <1>2 DEF AliasInv
  <2>1. k # a BY <1>2, <1>3 DEF Known, Alive
  <2>2. card'[k] = card[k] BY <1>2, <2>1, DropEffect
  <2> QED BY <2>2 DEF RenameInv, AliasInv
<1> QED BY <1>3, <1>4, <1>5 DEF RenameInv

LEMMA RemoveRename == ASSUME TypeInv, RenameInv, NEW r \in Removers, InboxPending(r) \/ DeleteInbox(r) PROVE RenameInv'
<1>1. job'[r].todo = job[r].todo /\ \A q \in Removers : q # r => job'[q] = job[q] BY JobEffect
<1>2. UNCHANGED <<cfg, stage, round, card, retire, disturbed>> BY DEF InboxPending, DeleteInbox, daemonVars, beatVars
<1>3. JobInv' BY <1>1, <1>2 DEF RenameInv, JobInv, Alive, Configured, Removers
<1>4. AliasInv' BY <1>2 DEF RenameInv, AliasInv, Known, Configured
<1> QED BY <1>3, <1>4 DEF RenameInv

LEMMA RetireRename ==
  ASSUME TypeInv, RenameInv, (\E force \in BOOLEAN : Retire(force)) \/ RetireList \/ RetireNode
  PROVE  RenameInv'
<1> USE DEF daemonVars, beatVars
<1>1. ASSUME NEW force \in BOOLEAN, Retire(force) PROVE RenameInv'
  <2>1. job'["start"] = job["start"] BY <1>1, TypeParts DEF Retire, TypeInv, JobType, Removers
  <2>2. UNCHANGED <<cfg, stage, round, card>> /\ retire' = "list" /\ (Alive => disturbed') /\ (disturbed => disturbed')
    BY <1>1 DEF Retire
  <2>3. JobInv' BY <2>1, <2>2 DEF RenameInv, JobInv, Alive, Configured
  <2>4. AliasInv' BY <2>2 DEF RenameInv, AliasInv, Known, Configured
  <2> QED BY <2>3, <2>4 DEF RenameInv
<1>2. CASE RetireList
  <2>1. job'["start"] = job["start"] BY <1>2, TypeParts DEF RetireList, TypeInv, JobType, Removers
  <2>2. UNCHANGED <<cfg, stage, round, card, disturbed>> /\ retire = "list" /\ retire' = "remove"
    BY <1>2 DEF RetireList
  <2>3. JobInv' BY <2>1, <2>2 DEF RenameInv, JobInv, Alive, Configured
  <2>4. AliasInv' BY <2>2 DEF RenameInv, AliasInv, Known, Configured
  <2> QED BY <2>3, <2>4 DEF RenameInv
<1>3. CASE RetireNode
  <2>1. job'["start"] = job["start"] /\ job'["retire"].todo = {}
    BY <1>3, TypeParts DEF RetireNode, TypeInv, JobType, Removers, NoJob
  <2>2. UNCHANGED <<cfg, stage, round, disturbed>> /\ retire = "remove" /\ retire' = "idle"
    BY <1>3 DEF RetireNode
  <2>3. JobInv' BY <2>1, <2>2 DEF RenameInv, JobInv, Alive, Configured
  <2>4. AliasInv' BY <2>2 DEF RenameInv, JobInv, AliasInv, Alive
  <2> QED BY <2>3, <2>4 DEF RenameInv
<1> QED BY <1>1, <1>2, <1>3

LEMMA StepRename == TypeInv /\ RenameInv /\ [Next]_vars => RenameInv'
<1> SUFFICES ASSUME TypeInv, RenameInv, [Next]_vars PROVE RenameInv' OBVIOUS
<1>1. CASE Crash \/ \E k \in Keys : MainFails(k) BY <1>1, DiesRename DEF Crash, MainFails
<1>2. CASE \/ \E a, b \in Agents : AddAgent(a) \/ Rename(a, b) \/ Remove(a)
           \/ Disconnect \/ Reconnect \/ UNCHANGED vars
           \/ \E m \in Msgs : Receive(m) \/ \E a \in Agents : Send(m, a)
  <2>1. UNCHANGED <<card, cfg, job, retire, disturbed, stage, round>>
    BY <1>2 DEF AddAgent, Rename, Remove, Disconnect, Reconnect, vars, Receive, Send, daemonVars, beatVars, retireVars
  <2> QED BY <2>1, QuietRename
<1>3. CASE Beat
  <2>1. UNCHANGED <<card, cfg, job, retire, disturbed, stage>> /\ round'["main"] = round["main"]
    BY <1>3, TypeParts DEF Beat, daemonVars, retireVars, TypeInv, BeatType, RoundType, Publishers
  <2> QED BY <2>1, QuietRename
<1> QED BY <1>1, <1>2, <1>3, StartRename, TickRename, PutRename, StopRename, DropRename, RemoveRename, RetireRename
    DEF Next, Heart, Publishers

(* What removes a card.                                                    *)
LEMMA WhoRemoves ==
  ASSUME TypeInv, [Next]_vars, NEW a \in Agents, card[a] # NoCard, card'[a] = NoCard
  PROVE  \E r \in Removers : DropCard(r, a)
<1>0. a \in Keys /\ a # Node BY AgentsAssumption DEF Keys
<1>1. ASSUME NEW p \in Publishers, NEW k \in Keys, k \in round[p].todo, card' \in {card, Stored(p, k)} PROVE FALSE
  BY <1>0, <1>1, PutCards
<1>2. ~Tick BY <1>0, TickEffect
<1>3. \A p \in Publishers, k \in Keys : ~PutCard(p, k) BY <1>1 DEF PutCard, IsNext
<1>4. \A k \in Keys : ~BeatFails(k) /\ ~MainFails(k) BY <1>1, RaisedPut DEF BeatFails, MainFails, Publishers
<1>5. ~Stop BY <1>1 DEF Stop, IsNext, Publishers
<1>6. ~RetireNode BY <1>0, TypeParts DEF RetireNode, TypeInv, CardType
<1>7. ASSUME NEW r \in Removers, NEW b \in Agents, DropCard(r, b) PROVE DropCard(r, a)
  <2>1. a = b BY <1>0, <1>7, DropEffect
  <2> QED BY <1>7, <2>1
<1>8. ~UNCHANGED card OBVIOUS
<1>9. \A x, y \in Agents : ~AddAgent(x) /\ ~Rename(x, y) /\ ~Remove(x) /\ ~EnsureInbox(x)
  BY <1>8 DEF AddAgent, Rename, Remove, EnsureInbox
<1>10. ~Boot /\ ~SpawnHeartbeat /\ ~PublishFirst /\ ~ForgetRemoved /\ ~Started /\ ~Crash /\ ~Disconnect /\ ~Reconnect
  BY <1>8 DEF Boot, SpawnHeartbeat, PublishFirst, ForgetRemoved, Started, Crash, Disconnect, Reconnect
<1>11. ~Beat /\ ~RetireList /\ ~UNCHANGED vars /\ \A force \in BOOLEAN : ~Retire(force)
  BY <1>8 DEF Beat, RetireList, Retire, vars
<1>12. \A r \in Removers : ~InboxPending(r) /\ ~DeleteInbox(r) BY <1>8 DEF InboxPending, DeleteInbox
<1>13. \A m \in Msgs, b \in Agents : ~Receive(m) /\ ~Send(m, b) BY <1>8 DEF Receive, Send
<1> QED BY <1>2, <1>3, <1>4, <1>5, <1>6, <1>7, <1>9, <1>10, <1>11, <1>12, <1>13 DEF Next, Heart, Publishers

(* When an undisturbed start() removes the card of a renamed agent, its    *)
(* successor's is registered with the old name as alias.                   *)
THEOREM RenameLosesNoName == Spec => RenameIsSeamless
<1>1. TypeInv /\ RenameInv /\ [Next]_vars =>
        [NameIsKept]_vars
  <2> SUFFICES ASSUME TypeInv, RenameInv, [Next]_vars, NEW a \in Agents,
                      Beating, ~disturbed, card[a] # NoCard, card'[a] = NoCard,
                      NEW b \in Configured(cfg), cfg[b] = a
               PROVE  card[b] # NoCard /\ card[b].alias = a
    BY DEF NameIsKept
  <2>1. PICK r \in Removers : DropCard(r, a) BY WhoRemoves
  <2>2. stage = "forget" BY <2>1, DropRename DEF Beating, Alive
  <2>3. round["main"].todo = {} BY <2>2 DEF TypeInv, RoundInv
  <2>4. b \in Known /\ b # Node BY AgentsAssumption DEF Known, Configured
  <2> QED BY <2>2, <2>3, <2>4 DEF RenameInv, AliasInv
<1>2. Init => RenameInv BY DEF Init, RenameInv, JobInv, AliasInv, NoJob, Alive, Removers
<1> QED BY <1>1, <1>2, InitTypeInv, StepTypeInv, StepRename, PTL DEF Spec, RenameIsSeamless
(***************************************************************************)
(* Removal: no receiver loses its mailbox to start()                       *)
(***************************************************************************)

(* A retire that has ended and a start() that is not at _forget_removed    *)
(* have nothing in hand, and what start() has in hand is not configured.   *)
HandInv ==
  /\ retire = "idle" => Free("retire")
  /\ stage # "forget" => Free("start")
  /\ job["start"].ask \notin Configured(cfg) /\ job["start"].drop \notin Configured(cfg)

KeptInv == HandInv /\ MailboxIsKept

(* What the two steps of a removal after the card's leave in hand.         *)
LEMMA HandEffect ==
  ASSUME TypeInv, NEW r \in Removers, InboxPending(r) \/ DeleteInbox(r)
  PROVE  /\ job'[r].ask \in {job[r].ask, NoAgent} /\ job'[r].drop \in {job[r].ask, NoAgent}
         /\ \A q \in Removers : q # r => job'[q] = job[q]
         /\ inbox' \in {inbox, inbox \ {job[r].drop}} /\ ~Free(r)
<1>1. JobType BY TypeParts DEF TypeInv
<1>2. CASE InboxPending(r)
  <2>1. PICK d \in {job[r].ask, NoAgent} : job' = [job EXCEPT ![r].ask = NoAgent, ![r].drop = d]
    BY <1>2 DEF InboxPending
  <2> QED BY <1>1, <1>2, <2>1 DEF InboxPending, JobType, mailVars, Free
<1>3. CASE DeleteInbox(r) BY <1>1, <1>3 DEF DeleteInbox, JobType, Free
<1> QED BY <1>2, <1>3

(* Steps that neither start, end nor take a removal in hand.               *)
LEMMA QuietKept ==
  ASSUME TypeInv, KeptInv, UNCHANGED <<cfg, job, retire, disturbed>>,
         bound' \subseteq inbox' \/ (inbox' = inbox /\ bound' \in {bound, {}}),
         stage # "forget" \/ stage' = "forget" \/ Free("start")
  PROVE  KeptInv'
<1>1. HandInv' BY DEF KeptInv, HandInv, Free, Configured
<1>2. MailboxIsKept' BY DEF KeptInv, MailboxIsKept
<1> QED BY <1>1, <1>2 DEF KeptInv

LEMMA StartKept ==
  ASSUME TypeInv, RenameInv, KeptInv,
         Boot \/ (\E a \in Agents : EnsureInbox(a)) \/ SpawnHeartbeat \/ PublishFirst \/ ForgetRemoved \/ Started
  PROVE  KeptInv'
<1> USE DEF beatVars, mailVars, retireVars
<1>1. CASE Boot
  <2>1. stage # "forget" /\ bound = {} /\ bound' = {} BY <1>1 DEF Boot, Alive, TypeInv, RoundInv
  <2>2. Free("start") /\ job' = job /\ retire' = retire BY <1>1, <2>1 DEF Boot, KeptInv, HandInv
  <2>3. NoAgent \notin Configured(cfg') BY AgentsAssumption DEF Configured
  <2>4. HandInv' BY <2>2, <2>3 DEF KeptInv, HandInv, Free
  <2> QED BY <2>1, <2>4 DEF KeptInv, MailboxIsKept
<1>2. CASE \E a \in Agents : EnsureInbox(a)
  <2>1. UNCHANGED <<cfg, job, retire, disturbed, stage>> BY <1>2 DEF EnsureInbox
  <2>2. MailboxIsKept' BY <1>2 DEF EnsureInbox, KeptInv, MailboxIsKept
  <2>3. HandInv' BY <2>1 DEF KeptInv, HandInv, Free, Configured
  <2> QED BY <2>2, <2>3 DEF KeptInv
<1>3. CASE SpawnHeartbeat \/ PublishFirst \/ Started BY <1>3, QuietKept DEF SpawnHeartbeat, PublishFirst, Started
<1>4. CASE ForgetRemoved
  <2>1. /\ job'["retire"] = job["retire"] /\ job'["start"].ask = job["start"].ask
        /\ job'["start"].drop = job["start"].drop
    BY <1>4, TypeParts DEF ForgetRemoved, TypeInv, JobType, Removers
  <2>2. UNCHANGED <<cfg, bound, inbox, retire, disturbed>> /\ stage' = "forget" BY <1>4 DEF ForgetRemoved
  <2>3. HandInv' BY <2>1, <2>2 DEF KeptInv, HandInv, Free, Configured
  <2> QED BY <2>2, <2>3 DEF KeptInv, MailboxIsKept
<1> QED BY <1>1, <1>2, <1>3, <1>4

(* The removal a daemon was at dies with it.                               *)
LEMMA DiesKept == ASSUME TypeInv, KeptInv, Dies, UNCHANGED <<cfg, retire>> PROVE KeptInv'
<1>1. /\ job'["start"].ask = NoAgent /\ job'["start"].drop = NoAgent
      /\ job'["retire"] = job["retire"]
  BY TypeParts DEF Dies, TypeInv, JobType, Removers, NoJob
<1>2. NoAgent \notin Configured(cfg') BY AgentsAssumption DEF Configured
<1>3. HandInv' BY <1>1, <1>2 DEF KeptInv, HandInv, Free
<1> QED BY <1>3 DEF Dies, KeptInv, MailboxIsKept

LEMMA DropKept ==
  ASSUME TypeInv, RenameInv, KeptInv, NEW r \in Removers, NEW a \in Agents, DropCard(r, a)
  PROVE  KeptInv'
<1>1. /\ a \in job[r].todo /\ job'[r].ask = a /\ job'[r].drop = job[r].drop
      /\ \A q \in Removers : q # r => job'[q] = job[q]
  BY DropEffect
<1>2. UNCHANGED <<cfg, stage, bound, inbox, retire, disturbed>> BY DEF DropCard, daemonVars, mailVars
<1>3. CASE r = "start"
  <2>1. stage = "forget" /\ a \notin Configured(cfg) /\ job'["retire"] = job["retire"]
    BY <1>1, <1>3 DEF RenameInv, JobInv, Removers
  <2>2. HandInv' BY <1>1, <1>2, <1>3, <2>1 DEF KeptInv, HandInv, Free, Configured
  <2> QED BY <1>2, <2>2 DEF KeptInv, MailboxIsKept
<1>4. CASE r = "retire"
  <2>1. retire # "idle" /\ job'["start"] = job["start"] BY <1>1, <1>4 DEF RenameInv, JobInv, Removers
  <2>2. HandInv' BY <1>2, <2>1 DEF KeptInv, HandInv, Free, Configured
  <2> QED BY <1>2, <2>2 DEF KeptInv, MailboxIsKept
<1> QED BY <1>3, <1>4 DEF Removers

(* The mailbox that goes is of an agent this daemon does not serve, or a   *)
(* retire runs and no daemon does that it has not disturbed.               *)
LEMMA RemoveKept ==
  ASSUME TypeInv, RenameInv, KeptInv, NEW r \in Removers, InboxPending(r) \/ DeleteInbox(r)
  PROVE  KeptInv'
<1>1. UNCHANGED <<cfg, stage, bound, retire, disturbed>> BY DEF InboxPending, DeleteInbox, daemonVars
<1>2. NoAgent \notin Configured(cfg) BY AgentsAssumption DEF Configured
<1>3. bound \subseteq Configured(cfg) /\ (~Alive => bound = {}) BY TypeParts DEF TypeInv, LifeType, RoundInv
<1>4. CASE r = "start"
  <2>1. stage = "forget" /\ job'["retire"] = job["retire"]
    BY <1>4, HandEffect DEF KeptInv, HandInv, Removers
  <2>2. job'["start"].ask \notin Configured(cfg) /\ job'["start"].drop \notin Configured(cfg)
    BY <1>2, <1>4, HandEffect DEF KeptInv, HandInv
  <2>3. HandInv' BY <1>1, <2>1, <2>2 DEF KeptInv, HandInv, Free, Configured
  <2>4. job["start"].drop \notin bound BY <1>3 DEF KeptInv, HandInv
  <2>5. MailboxIsKept' BY <1>1, <1>4, <2>4, HandEffect DEF KeptInv, MailboxIsKept
  <2> QED BY <2>3, <2>5 DEF KeptInv
<1>5. CASE r = "retire"
  <2>1. retire # "idle" /\ job'["start"] = job["start"]
    BY <1>5, HandEffect DEF KeptInv, HandInv, Removers
  <2>2. HandInv' BY <1>1, <2>1 DEF KeptInv, HandInv, Free, Configured
  <2>3. disturbed \/ bound = {} BY <1>3, <2>1 DEF RenameInv, JobInv
  <2>4. MailboxIsKept' BY <1>1, <2>3 DEF MailboxIsKept
  <2> QED BY <2>2, <2>4 DEF KeptInv
<1> QED BY <1>4, <1>5 DEF Removers

LEMMA RetireKept ==
  ASSUME TypeInv, KeptInv, (\E force \in BOOLEAN : Retire(force)) \/ RetireList \/ RetireNode
  PROVE  KeptInv'
<1> USE DEF daemonVars, mailVars
<1>0. UNCHANGED <<cfg, stage, bound, inbox>> BY DEF Retire, RetireList, RetireNode
<1>1. disturbed => disturbed'
  <2>1. \A force \in BOOLEAN : Retire(force) => (disturbed => disturbed') BY Zenon DEF Retire
  <2>2. RetireList \/ RetireNode => disturbed' = disturbed BY DEF RetireList, RetireNode
  <2> QED BY <2>1, <2>2, Zenon
<1>2. job'["start"] = job["start"]
  BY TypeParts DEF Retire, RetireList, RetireNode, TypeInv, JobType, Removers
<1>3. retire' = "idle" => job'["retire"].ask = NoAgent /\ job'["retire"].drop = NoAgent
  BY TypeParts DEF Retire, RetireList, RetireNode, TypeInv, JobType, Removers, NoJob
<1>4. HandInv' BY <1>0, <1>2, <1>3 DEF KeptInv, HandInv, Free, Configured
<1> QED BY <1>0, <1>1, <1>4 DEF KeptInv, MailboxIsKept

LEMMA StepKept == TypeInv /\ RenameInv /\ KeptInv /\ [Next]_vars => KeptInv'
<1> SUFFICES ASSUME TypeInv, RenameInv, KeptInv, [Next]_vars PROVE KeptInv' OBVIOUS
<1>1. CASE Crash \/ \E k \in Keys : MainFails(k) BY <1>1, DiesKept DEF Crash, MainFails
<1>2. CASE \/ \E a, b \in Agents : AddAgent(a) \/ Rename(a, b) \/ Remove(a)
           \/ Disconnect \/ Reconnect \/ Tick \/ Beat \/ (\E k \in Keys : BeatFails(k)) \/ UNCHANGED vars
           \/ \E m \in Msgs : Receive(m) \/ \E a \in Agents : Send(m, a)
  <2>1. UNCHANGED <<cfg, job, retire, disturbed, stage, bound, inbox>>
    BY <1>2 DEF AddAgent, Rename, Remove, Disconnect, Reconnect, Tick, Beat, BeatFails, vars, Receive, Send,
       daemonVars, mailVars, retireVars
  <2> QED BY <2>1, QuietKept
<1>3. CASE Stop \/ \E p \in Publishers, k \in Keys : PutCard(p, k)
  <2>1. UNCHANGED <<cfg, job, retire, disturbed, inbox>> /\ bound' \in {bound, {}}
    BY <1>3 DEF Stop, PutCard, mailVars, retireVars
  <2>2. stage' = stage \/ stage \in {"up", "stopping"} BY <1>3 DEF Stop, PutCard
  <2> QED BY <2>1, <2>2, QuietKept
<1> QED BY <1>1, <1>2, <1>3, StartKept, DropKept, RemoveKept, RetireKept DEF Next, Heart, Publishers

(* No receiver of a daemon that no retire has disturbed loses its mailbox: *)
(* not to the daemon's own start(), not to what an earlier one had begun.  *)
THEOREM ReceiversKeepMailboxes == Spec => []MailboxIsKept
<1>1. Init => KeptInv
  BY AgentsAssumption DEF Init, KeptInv, HandInv, MailboxIsKept, NoJob, Free, Removers, Configured
<1>2. Init => RenameInv BY DEF Init, RenameInv, JobInv, AliasInv, NoJob, Alive, Removers
<1>3. KeptInv => MailboxIsKept BY DEF KeptInv
<1> QED BY <1>1, <1>2, <1>3, InitTypeInv, StepTypeInv, StepRename, StepKept, PTL DEF Spec

(* Together: start() removes neither the card an old name needs nor the    *)
(* mailbox of an agent its daemon serves.                                  *)
THEOREM OnlyGhostsAreRemoved == Spec => RemovesOnlyGhosts
BY RenameLosesNoName, ReceiversKeepMailboxes, PTL DEF RemovesOnlyGhosts, RenameIsSeamless
=============================================================================
