------------------------------ MODULE Registry ------------------------------
(***************************************************************************)
(* One node in the registry: its configuration file, the life of its       *)
(* daemon, the cards it keeps in the KV store, the mailboxes of its agents *)
(* on the server, and `agent-node retire`, which takes both away.          *)
(*                                                                         *)
(* Time passes in ticks.  Every card and every round of puts has an age;   *)
(* ages stop at Limit, where is_online says no whatever they are.  A round *)
(* of _publish_cards is taken to end or fail within Latency, and the clock *)
(* of who looks at a card to agree with the clock of who wrote it.         *)
(*                                                                         *)
(* Abstracted: of a card, all but its alias, state and heartbeat; how a    *)
(* mailbox delivers (module Mailbox); the queue a sender keeps while it    *)
(* cannot publish; puts the client buffers during an outage, which reach   *)
(* the server in their order, before any later one.  The commands that     *)
(* edit and retire have connections of their own, which hold.              *)
(***************************************************************************)
EXTENDS Naturals, FiniteSets

CONSTANTS
  Agents,      \* agent ids of the node
  First,       \* those configured when the node is installed
  Node,        \* the key of the node's own card
  NoAlias, NoAgent, NoCard,
  Msgs,        \* messages for the node's agents
  Heartbeat,   \* cfg.heartbeat_s
  Latency,     \* how long a round of puts may take
  Misses,      \* failed heartbeats in a row that presence has to survive
  MaxEvents    \* bound: edits of the configuration file, calls of agent-node
               \* retire, lost connections, lost replies and deaths of the daemon

ASSUME AgentsAssumption ==
  IsFiniteSet(Agents) /\ First \subseteq Agents /\ {Node, NoAlias, NoAgent} \cap Agents = {}
ASSUME BoundsAssumption == MaxEvents \in Nat
ASSUME TimeAssumption ==
  /\ Heartbeat \in Nat \ {0} /\ Latency \in Nat /\ Misses \in Nat
  /\ (Misses + 1) * (Heartbeat + Latency) + 2 * Latency < 3 * Heartbeat + 2

Limit == 3 * Heartbeat + 2
Keys  == Agents \cup {Node}
Names == Agents \cup {NoAlias}
Card  == [alias : Names, offline : BOOLEAN, age : 0..Limit]
ASSUME CardAssumption == NoCard \notin Card

VARIABLES
  file,      \* the configuration file: agent -> its alias, or "absent"
  cfg,       \* what the daemon loaded of it
  stage,     \* where the daemon is in start() and stop(); "stopped", "dead"
  bound,     \* agents whose receiver runs in the daemon
  link,      \* the daemon's connection to the server
  round,     \* who publishes cards -> the keys still to be put, time since its `now`
  wait,      \* until _heartbeat wakes up
  missed,    \* its failures in a row, up to Misses + 1
  card,      \* the cards in the KV store
  inbox,     \* agents that have a mailbox (durable consumer) on the server
  sent,      \* message -> the agent it was sent to
  acked,     \* messages their present mailbox has delivered
  ledger,    \* messages in the node's ledger
  retire,    \* where agent-node retire is: "idle", "list", "remove"
  job,       \* who removes agents -> whom, and how far remove_agent is
  disturbed, \* a retire ran while this daemon did
  events     \* how many of those that MaxEvents bounds there were

daemonVars == <<cfg, stage, bound, link>>
beatVars   == <<round, wait, missed>>
mailVars   == <<inbox, sent, acked, ledger>>
retireVars == <<retire, job, disturbed>>
vars == <<file, daemonVars, beatVars, card, mailVars, retireVars, events>>

Publishers == {"main", "beat"}
Removers   == {"start", "retire"}
Idle       == [todo |-> {}, age |-> 0]
NoJob      == [todo |-> {}, ask |-> NoAgent, drop |-> NoAgent, force |-> FALSE]

Configured(c) == {a \in Agents : c[a] # "absent"}
(* Whom kv_keys and kv_all find. *)
Registered == {a \in Agents : card[a] # NoCard}

Alive   == stage \notin {"dead", "stopped"}
Beating == stage \in {"recover", "cards", "forget", "up"}

Event == events < MaxEvents /\ events' = events + 1

(* Mutant of IsOnline: one heartbeat less. *)
IsOnlineStrict(c) == c # NoCard /\ ~c.offline /\ c.age < 2 * Heartbeat + 2

IsOnline(c) == c # NoCard /\ ~c.offline /\ c.age < Limit

Init ==
  /\ file = [a \in Agents |-> IF a \in First THEN NoAlias ELSE "absent"] /\ cfg = file
  /\ stage = "dead" /\ bound = {} /\ link = TRUE
  /\ round = [p \in Publishers |-> Idle] /\ wait = 0 /\ missed = 0
  /\ card = [k \in Keys |-> NoCard]
  /\ inbox = {} /\ sent = [m \in Msgs |-> NoAgent] /\ acked = {} /\ ledger = {}
  /\ retire = "idle" /\ job = [r \in Removers |-> NoJob] /\ disturbed = FALSE
  /\ events = 0

-----------------------------------------------------------------------------
(* The configuration file, which a daemon reads when it starts *)

(* agent-node add-agent, of a new agent or, with --replace, of a known one *)
AddAgent(a) ==
  /\ Event
  /\ file' = [file EXCEPT ![a] = NoAlias]
  /\ UNCHANGED <<daemonVars, beatVars, card, mailVars, retireVars>>

(* An agent gets another id and keeps its old one as alias, by hand.       *)
Rename(a, b) ==
  /\ Event
  /\ file[a] # "absent" /\ file[b] = "absent"
  /\ file' = [file EXCEPT ![a] = "absent", ![b] = a]
  /\ UNCHANGED <<daemonVars, beatVars, card, mailVars, retireVars>>

Remove(a) ==
  /\ Event
  /\ file[a] # "absent" /\ file' = [file EXCEPT ![a] = "absent"]
  /\ UNCHANGED <<daemonVars, beatVars, card, mailVars, retireVars>>

-----------------------------------------------------------------------------
(* start(), stop() and death *)

Boot ==
  /\ ~Alive /\ link
  /\ stage' = "inboxes" /\ cfg' = file /\ missed' = 0
  /\ disturbed' = (retire # "idle")
  /\ UNCHANGED <<file, bound, link, round, wait, card, mailVars, retire, job, events>>

(* Mutant of EnsureInbox: a new mailbox delivers new messages only. *)
EnsureInboxNew(a) ==
  /\ stage = "inboxes" /\ link /\ a \in Configured(cfg) \ bound
  /\ inbox' = inbox \cup {a} /\ bound' = bound \cup {a}
  /\ acked' = IF a \in inbox THEN acked ELSE acked \cup {m \in Msgs : sent[m] = a}
  /\ UNCHANGED <<file, cfg, stage, link, beatVars, card, sent, ledger, retireVars, events>>

(* Finds the mailbox or creates it, to be read from the beginning, and     *)
(* starts the agent's receiver.                                            *)
EnsureInbox(a) ==
  /\ stage = "inboxes" /\ link /\ a \in Configured(cfg) \ bound
  /\ inbox' = inbox \cup {a} /\ bound' = bound \cup {a}
  /\ UNCHANGED <<file, cfg, stage, link, beatVars, card, sent, acked, ledger, retireVars, events>>

SpawnHeartbeat ==
  /\ stage = "inboxes" /\ bound = Configured(cfg)
  /\ stage' = "recover" /\ wait' = Heartbeat
  /\ UNCHANGED <<file, cfg, bound, link, round, missed, card, mailVars, retireVars, events>>

AllCards == [todo |-> Configured(cfg) \cup {Node}, age |-> 0]

(* After recover() *)
PublishFirst ==
  /\ stage = "recover" /\ stage' = "cards"
  /\ round' = [round EXCEPT !["main"] = AllCards]
  /\ UNCHANGED <<file, cfg, bound, link, wait, missed, card, mailVars, retireVars, events>>

Dies ==
  /\ stage' = "dead" /\ bound' = {} /\ wait' = 0 /\ missed' = 0 /\ disturbed' = FALSE
  /\ round' = [p \in Publishers |-> Idle]
  /\ job' = [job EXCEPT !["start"] = NoJob]

(* The daemon is killed, or start() raises.                                *)
Crash ==
  /\ Alive /\ Event /\ Dies
  /\ UNCHANGED <<file, cfg, link, card, mailVars, retire>>

Disconnect ==
  /\ link /\ Event /\ link' = FALSE
  /\ UNCHANGED <<file, cfg, stage, bound, beatVars, card, mailVars, retireVars>>

Reconnect ==
  /\ ~link /\ link' = TRUE
  /\ UNCHANGED <<file, cfg, stage, bound, beatVars, card, mailVars, retireVars, events>>

-----------------------------------------------------------------------------
(* Time, _heartbeat and _publish_cards *)

Due == Beating /\ round["beat"].todo = {} /\ wait = 0

Older(n) == IF n < Limit THEN n + 1 ELSE n

Tick ==
  /\ ~Due /\ \A p \in Publishers : round[p].todo # {} => round[p].age < Latency
  /\ card' = [k \in Keys |-> IF card[k] = NoCard THEN NoCard ELSE [card[k] EXCEPT !.age = Older(@)]]
  /\ round' = [p \in Publishers |->
       IF round[p].todo = {} THEN round[p] ELSE [round[p] EXCEPT !.age = @ + 1]]
  /\ wait' = IF Beating /\ round["beat"].todo = {} THEN wait - 1 ELSE wait
  /\ UNCHANGED <<file, daemonVars, missed, mailVars, retireVars, events>>

(* Mutant of Beat: the heartbeat is that of the node's card only. *)
BeatNodeOnly ==
  /\ Due /\ round' = [round EXCEPT !["beat"] = [todo |-> {Node}, age |-> 0]]
  /\ UNCHANGED <<file, daemonVars, wait, missed, card, mailVars, retireVars, events>>

Beat ==
  /\ Due /\ round' = [round EXCEPT !["beat"] = AllCards]
  /\ UNCHANGED <<file, daemonVars, wait, missed, card, mailVars, retireVars, events>>

(* The node's card first, then its agents'.                                *)
IsNext(p, k) == k \in round[p].todo /\ (Node \in round[p].todo => k = Node)

Stored(p, k) ==
  [card EXCEPT ![k] = [alias |-> IF k = Node THEN NoAlias ELSE cfg[k],
                       offline |-> p = "main" /\ stage = "stopping", age |-> round[p].age]]

PutCard(p, k) ==
  /\ IsNext(p, k) /\ link
  /\ card' = Stored(p, k)
  /\ LET left == round[p].todo \ {k} IN
       /\ round' = [round EXCEPT ![p] = IF left = {} THEN Idle ELSE [@ EXCEPT !.todo = left]]
       /\ wait' = IF p = "beat" /\ left = {} THEN Heartbeat ELSE wait
       /\ missed' = IF p = "beat" /\ left = {} THEN 0 ELSE missed
       /\ stage' = IF p = "main" /\ stage = "stopping" /\ left = {} THEN "stopped" ELSE stage
       /\ bound' = IF stage' = "stopped" THEN {} ELSE bound
  /\ UNCHANGED <<file, cfg, link, mailVars, retireVars, events>>

(* The put raises; it may have been stored all the same.                   *)
PutRaises(p, k) ==
  /\ IsNext(p, k)
  /\ \/ ~link /\ UNCHANGED <<card, events>>
     \/ link /\ Event /\ card' \in {card, Stored(p, k)}

BeatFails(k) ==
  /\ PutRaises("beat", k)
  /\ missed' = (IF missed > Misses THEN missed ELSE missed + 1)
  /\ round' = [round EXCEPT !["beat"] = Idle] /\ wait' = Heartbeat
  /\ UNCHANGED <<file, daemonVars, mailVars, retireVars>>

(* In start() it ends the daemon, stop() ends without having said so.      *)
MainFails(k) ==
  /\ PutRaises("main", k) /\ Dies
  /\ UNCHANGED <<file, cfg, link, mailVars, retire>>

(* Mutant of Stop: the cards go offline first, the loops end afterwards. *)
StopCardsFirst ==
  /\ stage = "up" /\ stage' = "stopping"
  /\ round' = [round EXCEPT !["main"] = AllCards] /\ wait' = 0 /\ missed' = 0
  /\ UNCHANGED <<file, cfg, bound, link, card, mailVars, retireVars, events>>

(* Every loop is cancelled, a heartbeat perhaps while its put is on the way *)
(* to the server, before the offline cards go the same way.                *)
Stop ==
  /\ stage = "up" /\ stage' = "stopping"
  /\ \/ UNCHANGED card
     \/ link /\ \E k \in Keys : IsNext("beat", k) /\ card' = Stored("beat", k)
  /\ round' = [round EXCEPT !["beat"] = Idle, !["main"] = AllCards] /\ wait' = 0 /\ missed' = 0
  /\ UNCHANGED <<file, cfg, bound, link, mailVars, retireVars, events>>

-----------------------------------------------------------------------------
(* remove_agent, from _forget_removed_agents and from agent-node retire *)

(* Mutant of ForgetRemoved: the configured agents' cards are not awaited. *)
ForgetRemovedEarly ==
  /\ stage \in {"recover", "cards"} /\ round["main"].todo = {} /\ link
  /\ stage' = "forget"
  /\ job' = [job EXCEPT !["start"].todo = Registered \ Configured(cfg)]
  /\ UNCHANGED <<file, cfg, bound, link, beatVars, card, mailVars, retire, disturbed, events>>

(* Mutant of ForgetRemoved: removed is who is not in the file, whatever the daemon loaded. *)
ForgetByFile ==
  /\ stage = "cards" /\ round["main"].todo = {} /\ link
  /\ stage' = "forget"
  /\ job' = [job EXCEPT !["start"].todo = Registered \ Configured(file)]
  /\ UNCHANGED <<file, cfg, bound, link, beatVars, card, mailVars, retire, disturbed, events>>

ForgetRemoved ==
  /\ stage = "cards" /\ round["main"].todo = {} /\ link
  /\ stage' = "forget"
  /\ job' = [job EXCEPT !["start"].todo = Registered \ Configured(cfg)]
  /\ UNCHANGED <<file, cfg, bound, link, beatVars, card, mailVars, retire, disturbed, events>>

Free(r) == job[r].ask = NoAgent /\ job[r].drop = NoAgent
Online(r) == r = "start" => link

(* A failing delete is suppressed, the mailbox is looked at all the same.  *)
DropCard(r, a) ==
  /\ Free(r) /\ a \in job[r].todo
  /\ \/ Online(r) /\ card' = [card EXCEPT ![a] = NoCard] /\ UNCHANGED events
     \/ ~Online(r) /\ UNCHANGED <<card, events>>
     \/ Event /\ UNCHANGED card
  /\ job' = [job EXCEPT ![r].todo = @ \ {a}, ![r].ask = a]
  /\ UNCHANGED <<file, daemonVars, beatVars, mailVars, retire, disturbed>>

Waiting(a) == {m \in Msgs : sent[m] = a /\ m \notin acked}

(* A mailbox with messages in it is kept, unless forced.                   *)
InboxPending(r) ==
  /\ job[r].ask # NoAgent /\ Online(r)
  /\ LET a == job[r].ask
         goes == a \in inbox /\ (Waiting(a) = {} \/ job[r].force) IN
     job' = [job EXCEPT ![r].ask = NoAgent, ![r].drop = IF goes THEN a ELSE NoAgent]
  /\ UNCHANGED <<file, daemonVars, beatVars, card, mailVars, retire, disturbed, events>>

(* With it goes what it knew of deliveries; the stream keeps the messages. *)
DeleteInbox(r) ==
  /\ job[r].drop # NoAgent /\ Online(r)
  /\ inbox' = inbox \ {job[r].drop}
  /\ acked' = {m \in acked : sent[m] # job[r].drop}
  /\ job' = [job EXCEPT ![r].drop = NoAgent]
  /\ UNCHANGED <<file, daemonVars, beatVars, card, sent, ledger, retire, disturbed, events>>

Started ==
  /\ stage = "forget" /\ job["start"].todo = {} /\ Free("start")
  /\ stage' = "up"
  /\ UNCHANGED <<file, cfg, bound, link, beatVars, card, mailVars, retireVars, events>>

(* Without --force, refused while the node's card is online.               *)
Retire(force) ==
  /\ retire = "idle" /\ Event
  /\ force \/ ~IsOnline(card[Node])
  /\ retire' = "list" /\ job' = [job EXCEPT !["retire"].force = force]
  /\ disturbed' = (disturbed \/ Alive)
  /\ UNCHANGED <<file, daemonVars, beatVars, card, mailVars>>

RetireList ==
  /\ retire = "list" /\ retire' = "remove"
  /\ job' = [job EXCEPT !["retire"].todo = Registered]
  /\ UNCHANGED <<file, daemonVars, beatVars, card, mailVars, disturbed, events>>

RetireNode ==
  /\ retire = "remove" /\ job["retire"].todo = {} /\ Free("retire")
  /\ retire' = "idle" /\ card' = [card EXCEPT ![Node] = NoCard]
  /\ job' = [job EXCEPT !["retire"] = NoJob]
  /\ UNCHANGED <<file, daemonVars, beatVars, mailVars, disturbed, events>>

-----------------------------------------------------------------------------
(* Messages *)

(* An address that has a card, else whoever has the name as alias, else    *)
(* the name itself: the stream keeps the message until it comes up.        *)
Resolve(name) ==
  LET aliased == {a \in Registered : card[a].alias = name} IN
  IF name \in Registered \/ aliased = {} THEN {name} ELSE aliased

(* A sender that does not reach the registry takes the name as it is.      *)
Send(m, name) ==
  /\ sent[m] = NoAgent
  /\ \E to \in Resolve(name) \cup {name} : sent' = [sent EXCEPT ![m] = to]
  /\ UNCHANGED <<file, daemonVars, beatVars, card, inbox, acked, ledger, retireVars, events>>

(* Mutant of Receive: acknowledged before the ledger has it. *)
ReceiveAckFirst(m) ==
  /\ link /\ sent[m] \in bound \cap inbox /\ m \notin acked
  /\ acked' = acked \cup {m}
  /\ UNCHANGED <<file, daemonVars, beatVars, card, inbox, sent, ledger, retireVars, events>>

Receive(m) ==
  /\ link /\ sent[m] \in bound \cap inbox /\ m \notin acked
  /\ ledger' = ledger \cup {m} /\ acked' = acked \cup {m}
  /\ UNCHANGED <<file, daemonVars, beatVars, card, inbox, sent, retireVars, events>>

-----------------------------------------------------------------------------
Heart == Beat \/ \E k \in Keys : PutCard("beat", k) \/ BeatFails(k)

Next ==
  \/ \E a, b \in Agents : Rename(a, b)
  \/ \E a \in Agents : AddAgent(a) \/ Remove(a) \/ EnsureInbox(a)
  \/ Boot \/ SpawnHeartbeat \/ PublishFirst \/ ForgetRemoved \/ Started \/ Stop
  \/ Crash \/ Disconnect \/ Reconnect
  \/ Tick \/ Heart \/ \E k \in Keys : PutCard("main", k) \/ MainFails(k)
  \/ \E r \in Removers : InboxPending(r) \/ DeleteInbox(r) \/ \E a \in Agents : DropCard(r, a)
  \/ \E force \in BOOLEAN : Retire(force)
  \/ RetireList \/ RetireNode
  \/ \E m \in Msgs : Receive(m) \/ \E a \in Agents : Send(m, a)

(* Time passes, the client reconnects, the heartbeat loop and the          *)
(* receivers go on. Nobody has to start, stop or retire anything.          *)
Fairness ==
  /\ WF_vars(Tick) /\ WF_vars(Reconnect) /\ WF_vars(Heart)
  /\ \A m \in Msgs : WF_vars(Receive(m))

Spec == Init /\ [][Next]_vars
FairSpec == Spec /\ Fairness

-----------------------------------------------------------------------------
(* Every variable has its type. *)
TypeOK ==
  /\ file \in [Agents -> Names \cup {"absent"}] /\ cfg \in [Agents -> Names \cup {"absent"}]
  /\ stage \in {"dead", "stopped", "inboxes", "recover", "cards", "forget", "up", "stopping"}
  /\ bound \subseteq Configured(cfg) /\ link \in BOOLEAN
  /\ round \in [Publishers -> [todo : SUBSET Keys, age : 0..Latency]]
  /\ wait \in 0..Heartbeat /\ missed \in 0..(Misses + 1)
  /\ card \in [Keys -> Card \cup {NoCard}]
  /\ inbox \subseteq Agents /\ sent \in [Msgs -> Agents \cup {NoAgent}]
  /\ acked \subseteq ledger /\ ledger \subseteq Msgs
  /\ retire \in {"idle", "list", "remove"}
  /\ job \in [Removers -> [todo : SUBSET Agents, ask : Agents \cup {NoAgent},
                           drop : Agents \cup {NoAgent}, force : BOOLEAN]]
  /\ disturbed \in BOOLEAN /\ events \in Nat

(* is_online is right about a daemon that runs: after no more failed       *)
(* heartbeats in a row than it has to survive, no card of it looks dead,   *)
(* however its puts, those of start() and the ticks fall.                  *)
LiveIsOnline ==
  stage \in {"forget", "up"} /\ missed <= Misses =>
    \A k \in Configured(cfg) \cup {Node} : card[k] # NoCard => IsOnline(card[k])

(* ... and about one that was stopped: no card that stop() took offline    *)
(* comes back, whatever its heartbeat was doing.                           *)
StoppedIsOffline ==
  stage = "stopped" => \A k \in Configured(cfg) \cup {Node} : ~IsOnline(card[k])

PresenceIsTrue == LiveIsOnline /\ StoppedIsOffline

(* node.py:140 "must not linger in the registry as ghosts", and no sooner: *)
(* when start() removes the card of an agent that was renamed, the one     *)
(* that has its id as alias is registered, so that the old name resolves.  *)
NameIsKept ==
  \A a \in Agents :
    Beating /\ ~disturbed /\ card[a] # NoCard /\ card'[a] = NoCard =>
      \A b \in Configured(cfg) : cfg[b] = a => card[b] # NoCard /\ card[b].alias = a

(* That is so in every step, so that nobody is without a name in between.  *)
RenameIsSeamless == [][NameIsKept]_vars

(* What MailArrives rests on: start() takes no mailbox from a receiver of  *)
(* its daemon, whatever was edited since it loaded its configuration; nor  *)
(* does a retire that had ended before, or a removal an earlier daemon had *)
(* begun.                                                                  *)
MailboxIsKept == ~disturbed => bound \subseteq inbox

(* What start() removes, card or mailbox, is nobody's any more.            *)
RemovesOnlyGhosts == [][NameIsKept /\ MailboxIsKept']_vars

(* ARCHITECTURE_V1.md:148 "Stream keeps the message; its consumer starts   *)
(* from the beginning": what was sent to an agent, before it had a mailbox *)
(* or after that was removed, arrives once a daemon serves it; unless a    *)
(* retire takes the mailbox from under that daemon.                        *)
MailArrives ==
  \A m \in Msgs : sent[m] \in bound ~> m \in ledger \/ sent[m] \notin bound \/ disturbed

(* However often puts fail or a retire removes its cards, a daemon that    *)
(* stays up is online in the registry again.                               *)
ComesOnline ==
  stage = "up" ~>
    stage # "up" \/ \A k \in Configured(cfg) \cup {Node} : IsOnline(card[k])
=============================================================================
