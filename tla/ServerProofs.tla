---------------------------- MODULE ServerProofs ----------------------------
(***************************************************************************)
(* The safety properties of two parts of the server.                       *)
(*                                                                         *)
(* Enrollment, for any number of hosts, servers, agents and addresses.     *)
(* The inductive invariant IInv follows every config from the answer that  *)
(* carries it to the file and the session: it is that of a stored peer, it *)
(* has the stored server key, and the device accepts it or a starting      *)
(* server has yet to replay it.                                            *)
(*                                                                         *)
(* The uptime prober, for any number of targets, slots, handlers and       *)
(* failures.  NoLostSync speaks of the moment Run is back in its select.   *)
(* To get there, the list reconcile works on must be the table unless a    *)
(* nudge is pending (SyncInv); and for the slots, a target that reconcile  *)
(* starts never had a worker before, which rests on ids not being used     *)
(* twice (WorkerInv).                                                      *)
(***************************************************************************)
EXTENDS Enrollment, Uptime, FiniteSetTheorems, TLAPS

-----------------------------------------------------------------------------
(* Enrollment. *)


PeerOf(c) == [host |-> c.host, key |-> c.key, ip |-> c.ip]
Pair(c) == [key |-> c.key, ip |-> c.ip]

\* The tables.
TablesOK ==
  /\ secrets \in [Hosts -> [state : {"none", "unused", "used"}, expires : Nat]]
  /\ now \in Nat
  /\ \A p \in peers : p.host \in Hosts /\ p = PeerOf(p)
  /\ SecretPairsPeer
  /\ AddressesApart

\* Server processes: one holds the device, and all that are past ServerKey
\* have the stored key.
ServersOK ==
  /\ DOMAIN server = Servers
  /\ \A p, q \in Servers : Holds(p) /\ Holds(q) => p = q
  /\ \A p \in Servers :
       /\ server[p].pc = "insert" => server[p].key # NoKey
       /\ server[p].pc \in {"reread", "bind", "restore", "up"} => setting # NoKey
       /\ server[p].pc \in {"bind", "restore", "up"} => server[p].key = setting
       /\ server[p].pc = "restore" => server[p].todo \subseteq peers

\* The device accepts stored peers only.
DeviceOK == \A t \in tunnel : \E q \in peers : t = Pair(q)

\* A config that an agent holds or is being sent.
Good(c) ==
  /\ PeerOf(c) \in peers
  /\ setting # NoKey /\ c.server = setting
  /\ Serving => Pair(c) \in tunnel
  /\ \A p \in Servers : server[p].pc = "restore" => Pair(c) \in tunnel \/ PeerOf(c) \in server[p].todo

CallsOK ==
  \A m \in calls :
    /\ m.host \in Hosts
    /\ m.pc = "add" => PeerOf(m) \in peers
    /\ m.pc = "answer" => Good(m.cfg)

AgentsOK ==
  /\ DOMAIN command = Commands /\ DOMAIN file = Paths /\ DOMAIN session = Paths
  /\ \A c \in Commands : command[c].pc = "write" => Good(command[c].cfg)
  /\ \A f \in Written : Good(file[f])
  /\ \A f \in Paths : session[f] # NoFile => Good(session[f])

IInv == TablesOK /\ ServersOK /\ DeviceOK /\ CallsOK /\ AgentsOK

\* Init establishes the inductive invariant.
LEMMA InitIInv == Init => IInv
BY EnrollmentAssumption DEF Init, IInv, TablesOK, ServersOK, DeviceOK, CallsOK, AgentsOK, SecretPairsPeer,
   AddressesApart, Holds, Down, Idle, Written, PeerOf, Pair, Good

\* Whatever leaves the configs held good leaves the agents' part alone.
LEMMA AgentsKept ==
  ASSUME AgentsOK, UNCHANGED agentVars, \A c : Good(c) => Good(c)'
  PROVE  AgentsOK'
BY DEF AgentsOK, agentVars, Written, Good, PeerOf, Pair, Serving

\* The same for the calls, when every new one is sound.
LEMMA CallsKept ==
  ASSUME CallsOK, peers \subseteq peers', \A c : Good(c) => Good(c)',
         \A m \in calls' : m \in calls \/ /\ m.host \in Hosts
                                          /\ m.pc = "add" => PeerOf(m) \in peers'
                                          /\ m.pc = "answer" => Good(m.cfg)'
  PROVE  CallsOK'
<1> SUFFICES ASSUME NEW m \in calls'
             PROVE  /\ m.host \in Hosts
                    /\ m.pc = "add" => PeerOf(m) \in peers'
                    /\ m.pc = "answer" => Good(m.cfg)'
  BY Zenon DEF CallsOK, Good, PeerOf, Pair, Serving
<1>1. CASE m \in calls
  BY Zenon, <1>1 DEF CallsOK
<1>2. CASE m \notin calls
  BY Zenon, <1>2
<1> QED
  BY Zenon, <1>1, <1>2

\* The transaction of Enroll keeps the tables' part: the secret was unused, so
\* its host had no peer; the address and the key are new.
LEMMA EnrollTables ==
  ASSUME IInv, NEW c \in calls, NEW again \in BOOLEAN, Enroll(c, again)
  PROVE  TablesOK'
<1>1. PICK ip \in Free : /\ secrets' = [secrets EXCEPT ![c.host].state = "used"]
                         /\ peers' = peers \cup {[host |-> c.host, key |-> c.key, ip |-> ip]}
  BY Zenon DEF Enroll
<1>2. c.host \in Hosts /\ secrets[c.host].state = "unused" /\ \A p \in peers : p.key # c.key
  BY Zenon DEF IInv, CallsOK, Enroll, Accepts, Valid
<1>3. \A p \in peers : p.host # c.host
  BY Zenon, <1>2 DEF IInv, TablesOK, SecretPairsPeer
<1>4. ip \in 2..SubnetSize - 2 /\ \A p \in peers : p.ip # ip
  BY Zenon, <1>1 DEF Free, Used
<1>5. secrets' \in [Hosts -> [state : {"none", "unused", "used"}, expires : Nat]] /\ now' \in Nat
  BY <1>1, <1>2 DEF IInv, TablesOK, Enroll
<1>6. \A p \in peers' : p.host \in Hosts /\ p = PeerOf(p)
  BY <1>1, <1>2 DEF IInv, TablesOK, PeerOf
<1>7. SecretPairsPeer'
  <2>1. \A h \in Hosts : secrets'[h].state = "used" <=> (secrets[h].state = "used" \/ h = c.host)
    BY Zenon, <1>1, <1>2 DEF IInv, TablesOK
  <2>2. \A h \in Hosts : (\E p \in peers' : p.host = h) <=> ((\E p \in peers : p.host = h) \/ h = c.host)
    <3> DEFINE new == [host |-> c.host, key |-> c.key, ip |-> ip]
    <3>1. new \in peers' /\ new.host = c.host /\ \A p \in peers' : p \in peers \/ p.host = c.host
      BY <1>1
    <3>2. \A p \in peers : p \in peers'
      BY Zenon, <1>1
    <3> QED
      BY Zenon, <3>1, <3>2
  <2> QED
    BY <1>1, <1>3, <2>1, <2>2 DEF IInv, TablesOK, SecretPairsPeer
<1>8. AddressesApart'
  BY <1>1, <1>2, <1>4 DEF IInv, TablesOK, AddressesApart
<1> QED
  BY Zenon, <1>5, <1>6, <1>7, <1>8 DEF TablesOK

\* Steps of the handler.
LEMMA HandlerSteps ==
  ASSUME IInv, NEW c \in calls,
         \/ \E again \in BOOLEAN : Enroll(c, again) \/ Refuse(c, again)
         \/ \E p \in Servers : AddPeer(c, p)
         \/ AddPeerFails(c) \/ Lost(c)
  PROVE  IInv'
<1>1. CASE \E again \in BOOLEAN : Enroll(c, again)
  <2>1. PICK again \in BOOLEAN : Enroll(c, again)
    BY Zenon, <1>1
  <2>2. PICK ip \in Free :
          /\ peers' = peers \cup {[host |-> c.host, key |-> c.key, ip |-> ip]}
          /\ calls' = (IF again THEN calls ELSE calls \ {c})
                        \cup {[pc |-> "add", host |-> c.host, key |-> c.key, ip |-> ip]}
    BY Zenon, <2>1 DEF Enroll
  <2>3. UNCHANGED <<setting, server, tunnel>> /\ UNCHANGED agentVars
    BY Zenon, <2>1 DEF Enroll, serverVars
  <2>4. \A x : Good(x) => Good(x)'
    BY Zenon, <2>2, <2>3 DEF Good, Serving, PeerOf, Pair
  <2>5. TablesOK'
    BY Zenon, <2>1, EnrollTables
  <2>6. ServersOK'
    BY Zenon, <2>2, <2>3 DEF IInv, ServersOK, Holds
  <2>7. DeviceOK'
    BY Zenon, <2>2, <2>3 DEF IInv, DeviceOK, Pair
  <2>8. CallsOK'
    <3>1. \A m \in calls' : m \in calls \/ m = [pc |-> "add", host |-> c.host, key |-> c.key, ip |-> ip]
      BY Zenon, <2>2
    <3>2. c.host \in Hosts
      BY Zenon DEF IInv, CallsOK
    <3> QED
      BY <2>2, <2>4, <3>1, <3>2, CallsKept DEF IInv, PeerOf
  <2>9. AgentsOK'
    BY Zenon, <2>3, <2>4, AgentsKept DEF IInv
  <2> QED
    BY Zenon, <2>5, <2>6, <2>7, <2>8, <2>9 DEF IInv
<1>2. CASE \E p \in Servers : AddPeer(c, p)
  <2>1. PICK p \in Servers : AddPeer(c, p)
    BY Zenon, <1>2
  <2>0. PICK k : k = server[p].key
    BY Zenon
  <2> DEFINE cfg == [host |-> c.host, key |-> c.key, ip |-> c.ip, server |-> k]
  <2>2. /\ tunnel' = {t \in tunnel : t.key # c.key /\ t.ip # c.ip} \cup {Pair(c)}
        /\ calls' = (calls \ {c}) \cup {[pc |-> "answer", cfg |-> cfg, host |-> c.host, key |-> c.key]}
        /\ UNCHANGED <<now, secrets, peers, setting, server>> /\ UNCHANGED agentVars
        /\ server[p].pc = "up" /\ c.pc = "add"
    BY Zenon, <2>0, <2>1 DEF AddPeer, Allows, Pair, dbVars
  <2>3. PeerOf(c) \in peers /\ c.host \in Hosts
    BY Zenon, <2>2 DEF IInv, CallsOK
  <2>4. \A q \in Servers : server[q].pc # "restore"
    BY Zenon, <2>2 DEF IInv, ServersOK, Holds
  <2>5. \A x : PeerOf(x) \in peers /\ Pair(x) \in tunnel => Pair(x) \in tunnel'
    <3> SUFFICES ASSUME NEW x, PeerOf(x) \in peers, Pair(x) \in tunnel
                 PROVE  Pair(x) \in tunnel'
      BY Zenon
    <3>1. CASE x.key = c.key \/ x.ip = c.ip
      <4>1. PeerOf(x) = PeerOf(c)
        BY <2>3, <3>1 DEF IInv, TablesOK, AddressesApart, PeerOf
      <4> QED
        BY Zenon, <2>2, <4>1 DEF Pair, PeerOf
    <3>2. CASE x.key # c.key /\ x.ip # c.ip
      BY Zenon, <2>2, <3>2 DEF Pair
    <3> QED
      BY Zenon, <3>1, <3>2
  <2>6. \A x : Good(x) => Good(x)'
    BY Zenon, <2>2, <2>4, <2>5 DEF Good, Serving, PeerOf
  <2>7. Good(cfg)'
    <3>1. PeerOf(cfg) = PeerOf(c) /\ Pair(cfg) = Pair(c) /\ cfg.server = server[p].key
      BY Zenon, <2>0 DEF PeerOf, Pair
    <3>2. server[p].key = setting /\ setting # NoKey
      BY Zenon, <2>2 DEF IInv, ServersOK
    <3>3. Pair(cfg) \in tunnel' /\ PeerOf(cfg) \in peers'
      BY Zenon, <2>2, <2>3, <3>1
    <3> QED
      BY Zenon, <2>2, <2>4, <3>1, <3>2, <3>3 DEF Good, Serving, PeerOf, Pair
  <2>8. CallsOK'
    <3>1. \A m \in calls' : m \in calls \/ m = [pc |-> "answer", cfg |-> cfg, host |-> c.host, key |-> c.key]
      BY Zenon, <2>2
    <3> HIDE DEF cfg
    <3> QED
      BY <2>2, <2>3, <2>6, <2>7, <3>1, CallsKept DEF IInv
  <2>9. DeviceOK'
    BY Zenon, <2>2, <2>3 DEF IInv, DeviceOK, PeerOf, Pair
  <2>10. TablesOK' /\ ServersOK'
    BY <2>2 DEF IInv, TablesOK, ServersOK, SecretPairsPeer, AddressesApart, Holds, PeerOf
  <2> QED
    BY Zenon, <2>2, <2>6, <2>8, <2>9, <2>10, AgentsKept DEF IInv
<1>3. CASE AddPeerFails(c) \/ Lost(c) \/ \E again \in BOOLEAN : Refuse(c, again)
  <2>1. UNCHANGED <<now, secrets, peers, setting, server, tunnel>> /\ UNCHANGED agentVars
    BY Zenon, <1>3 DEF AddPeerFails, Lost, Refuse, dbVars, serverVars
  <2>2. \A m \in calls' : m \in calls \/ m = [pc |-> "refused", host |-> c.host, key |-> c.key]
    BY <1>3 DEF AddPeerFails, Lost, Refuse
  <2>3. \A x : Good(x) => Good(x)'
    BY Zenon, <2>1 DEF Good, Serving, PeerOf, Pair
  <2>4. CallsOK'
    <3>1. c.host \in Hosts
      BY Zenon DEF IInv, CallsOK
    <3> QED
      BY <2>1, <2>2, <2>3, <3>1, CallsKept DEF IInv
  <2>5. TablesOK' /\ ServersOK' /\ DeviceOK'
    BY <2>1 DEF IInv, TablesOK, ServersOK, DeviceOK, SecretPairsPeer, AddressesApart, Holds, PeerOf, Pair
  <2> QED
    BY Zenon, <2>1, <2>3, <2>4, <2>5, AgentsKept DEF IInv
<1> QED
  BY Zenon, <1>1, <1>2, <1>3

\* Steps of agents: configs move from an answer to a command, a file, a session.
LEMMA AgentSteps ==
  ASSUME IInv,
         \/ \E c \in Commands : \/ \E h \in Hosts, f \in Paths : Start(c, h, f)
                                \/ Answered(c) \/ WriteConfig(c) \/ Abandon(c)
         \/ \E f \in Paths : DeleteConfig(f) \/ Dial(f) \/ Hangup(f)
  PROVE  IInv'
<1>1. UNCHANGED <<now, secrets, peers, setting, server, tunnel>>
  BY Zenon DEF Start, Answered, WriteConfig, Abandon, DeleteConfig, Dial, Hangup, dbVars, serverVars
<1>2. \A x : Good(x) => Good(x)'
  BY Zenon, <1>1 DEF Good, Serving, PeerOf, Pair
<1>3. TablesOK' /\ ServersOK' /\ DeviceOK'
  BY <1>1 DEF IInv, TablesOK, ServersOK, DeviceOK, SecretPairsPeer, AddressesApart, Holds, PeerOf, Pair
<1>4. CallsOK'
  <2>1. \A m \in calls' : m \in calls \/ (m.host \in Hosts /\ m.pc = "sent")
    BY DEF Start, Answered, WriteConfig, Abandon, DeleteConfig, Dial, Hangup
  <2> QED
    BY Zenon, <1>1, <1>2, <2>1, CallsKept DEF IInv
<1>5. DOMAIN command' = Commands /\ DOMAIN file' = Paths /\ DOMAIN session' = Paths
  BY Zenon DEF IInv, AgentsOK, Start, Answered, WriteConfig, Writes, Abandon, DeleteConfig, Dial, Hangup
<1>6. \A c \in Commands : command'[c].pc = "write" =>
        \/ command[c].pc = "write" /\ command'[c].cfg = command[c].cfg
        \/ \E m \in calls : m.pc = "answer" /\ command'[c].cfg = m.cfg
  BY DEF IInv, AgentsOK, Start, Answered, WriteConfig, Abandon, DeleteConfig, Dial, Hangup, Idle
<1>7. \A f \in Paths : file'[f] \notin {NoFile, Partial} =>
        \/ f \in Written /\ file'[f] = file[f]
        \/ \E c \in Commands : command[c].pc = "write" /\ file'[f] = command[c].cfg
  BY DEF IInv, AgentsOK, Start, Answered, WriteConfig, Writes, Abandon, DeleteConfig, Dial, Hangup, Written
<1>8. \A f \in Paths : session'[f] # NoFile =>
        \/ session'[f] = session[f] /\ session[f] # NoFile
        \/ f \in Written /\ session'[f] = file[f]
  BY Zenon DEF IInv, AgentsOK, Start, Answered, WriteConfig, Abandon, DeleteConfig, Dial, Hangup, Written
<1>9. \A c \in Commands : command'[c].pc = "write" => Good(command'[c].cfg)
  BY Zenon, <1>6 DEF IInv, AgentsOK, CallsOK
<1>10. \A f \in Paths : file'[f] \notin {NoFile, Partial} => Good(file'[f])
  BY Zenon, <1>7 DEF IInv, AgentsOK
<1>11. \A f \in Paths : session'[f] # NoFile => Good(session'[f])
  BY Zenon, <1>8 DEF IInv, AgentsOK
<1>12. AgentsOK'
  BY <1>1, <1>5, <1>9, <1>10, <1>11 DEF AgentsOK, Written, Good, Serving, PeerOf, Pair
<1> QED
  BY Zenon, <1>3, <1>4, <1>12 DEF IInv

\* Configs that are good have a stored server key, so the key does not change
\* under them.
LEMMA KeySteps ==
  ASSUME IInv, NEW p \in Servers, ReadKey(p) \/ InsertKey(p) \/ RereadKey(p)
  PROVE  IInv'
<1>1. UNCHANGED <<now, secrets, peers, tunnel, calls>> /\ UNCHANGED agentVars
  BY Zenon DEF ReadKey, InsertKey, RereadKey, dbVars
<1>2. DOMAIN server' = Servers /\ \A q \in Servers \ {p} : server'[q] = server[q]
  BY Zenon DEF ReadKey, InsertKey, RereadKey, IInv, ServersOK
<1>3. ~Holds(p) /\ ~Holds(p)'
  BY DEF ReadKey, InsertKey, RereadKey, IInv, ServersOK, Holds, Down
<1>4. setting # NoKey => setting' = setting
  BY Zenon DEF ReadKey, InsertKey, RereadKey, dbVars
<1>5. \A x : Good(x) => Good(x)'
  BY Zenon, <1>1, <1>2, <1>3, <1>4 DEF Good, Serving, PeerOf, Pair, Holds
<1>6. TablesOK' /\ DeviceOK'
  BY Zenon, <1>1 DEF IInv, TablesOK, DeviceOK, SecretPairsPeer, AddressesApart, PeerOf, Pair
<1>7. ServersOK'
  <2>1. \A q \in Servers \ {p} :
          /\ server'[q].pc = "insert" => server'[q].key # NoKey
          /\ server'[q].pc \in {"reread", "bind", "restore", "up"} => setting' # NoKey
          /\ server'[q].pc \in {"bind", "restore", "up"} => server'[q].key = setting'
          /\ server'[q].pc = "restore" => server'[q].todo \subseteq peers'
    BY Zenon, <1>1, <1>2, <1>4 DEF IInv, ServersOK
  <2>2. /\ server'[p].pc = "insert" => server'[p].key # NoKey
        /\ server'[p].pc \in {"reread", "bind", "restore", "up"} => setting' # NoKey
        /\ server'[p].pc \in {"bind", "restore", "up"} => server'[p].key = setting'
        /\ server'[p].pc # "restore"
    <3>1. CASE ReadKey(p)
      BY Zenon, <3>1, EnrollmentAssumption DEF IInv, ServersOK, ReadKey, dbVars
    <3>2. CASE InsertKey(p)
      BY Zenon, <3>2 DEF IInv, ServersOK, InsertKey
    <3>3. CASE RereadKey(p)
      BY Zenon, <3>3 DEF IInv, ServersOK, RereadKey, Reread, dbVars
    <3> QED
      BY Zenon, <3>1, <3>2, <3>3
  <2>3. \A q, r \in Servers : Holds(q)' /\ Holds(r)' => q = r
    BY Zenon, <1>2, <1>3 DEF IInv, ServersOK, Holds
  <2> QED
    BY Zenon, <1>2, <2>1, <2>2, <2>3 DEF ServersOK
<1>8. AgentsOK'
  BY Zenon, <1>1, <1>5, AgentsKept DEF IInv
<1>9. CallsOK'
  BY Zenon, <1>1, <1>5, CallsKept DEF IInv
<1> QED
  BY Zenon, <1>6, <1>7, <1>8, <1>9 DEF IInv

\* Allowing a stored peer keeps every other stored peer's entry: keys and
\* addresses are apart.
LEMMA AllowKeeps ==
  ASSUME TablesOK, NEW x \in peers, NEW c, PeerOf(c) \in peers,
         Pair(c) \in tunnel \/ PeerOf(c) = x
  PROVE  Pair(c) \in Allows(x.key, x.ip)
<1>1. CASE PeerOf(c) = x
  BY Zenon, <1>1 DEF Allows, PeerOf, Pair
<1>2. CASE PeerOf(c) # x
  <2>1. PeerOf(c).key # x.key /\ PeerOf(c).ip # x.ip
    BY Zenon, <1>2 DEF TablesOK, AddressesApart
  <2> QED
    BY Zenon, <1>2, <2>1 DEF Allows, PeerOf, Pair
<1> QED
  BY Zenon, <1>1, <1>2

\* The device is bound empty, with every stored peer still to replay; it
\* serves when none is left; and it goes with the process that holds it.
LEMMA DeviceSteps ==
  ASSUME IInv, NEW p \in Servers, Bind(p) \/ RestorePeer(p) \/ Serve(p) \/ Stop(p)
  PROVE  IInv'
<1>1. UNCHANGED <<now, secrets, peers, setting>> /\ UNCHANGED agentVars /\ calls' \subseteq calls
  BY Zenon DEF Bind, RestorePeer, Serve, Stop, dbVars
<1>2. DOMAIN server' = Servers /\ \A q \in Servers \ {p} : server'[q] = server[q]
  BY Zenon DEF Bind, RestorePeer, Serve, Stop, IInv, ServersOK
<1>3. \A q \in Servers \ {p} : Holds(q)' <=> Holds(q)
  BY Zenon, <1>2 DEF Holds
<1>4. Holds(p)' => \A q \in Servers \ {p} : ~Holds(q)
  BY DEF Bind, RestorePeer, Serve, Stop, IInv, ServersOK, Holds, PortTaken, Restored, Down
<1>5. TablesOK'
  BY Zenon, <1>1 DEF IInv, TablesOK, SecretPairsPeer, AddressesApart, PeerOf
<1>6. ServersOK'
  <2>1. /\ server'[p].pc # "insert"
        /\ server'[p].pc \in {"reread", "bind", "restore", "up"} => setting # NoKey
        /\ server'[p].pc \in {"bind", "restore", "up"} => server'[p].key = setting
        /\ server'[p].pc = "restore" => server'[p].todo \subseteq peers
    <3>1. CASE Bind(p)
      BY <3>1 DEF Bind, IInv, ServersOK, Down
    <3>2. CASE RestorePeer(p)
      BY <3>2 DEF RestorePeer, IInv, ServersOK
    <3>3. CASE Serve(p) \/ Stop(p)
      BY <3>3 DEF Serve, Stop, IInv, ServersOK, Restored, Down
    <3> QED
      BY Zenon, <3>1, <3>2, <3>3
  <2>2. \A q, r \in Servers : Holds(q)' /\ Holds(r)' => q = r
    BY Zenon, <1>3, <1>4 DEF IInv, ServersOK
  <2> QED
    BY Zenon, <1>1, <1>2, <2>1, <2>2 DEF ServersOK, IInv
<1>7. DeviceOK'
  BY <1>1 DEF IInv, DeviceOK, ServersOK, Bind, RestorePeer, Serve, Stop, Allows, Pair
<1>8. ASSUME NEW x, Good(x)
      PROVE  Good(x)'
  <2>1. PeerOf(x) \in peers /\ setting # NoKey /\ x.server = setting
    BY Zenon, <1>8 DEF Good
  <2>2. CASE Bind(p)
    BY <1>1, <1>2, <1>3, <1>4, <1>8, <2>1, <2>2 DEF Bind, Good, Serving, Holds, PeerOf, Pair, PortTaken, Down, IInv, ServersOK
  <2>3. CASE RestorePeer(p)
    <3>1. PICK y \in server[p].todo : /\ tunnel' = Allows(y.key, y.ip)
                                      /\ server' = [server EXCEPT ![p] = [pc |-> "restore", key |-> @.key, todo |-> @.todo \ {y}]]
      BY Zenon, <2>3 DEF RestorePeer
    <3>2. y \in peers /\ server[p].pc = "restore"
      BY Zenon, <2>3, <3>1 DEF RestorePeer, IInv, ServersOK
    <3>3. server'[p].pc = "restore" /\ server'[p].todo = server[p].todo \ {y}
      BY Zenon, <3>1, <3>2 DEF IInv, ServersOK
    <3>4. \A q \in Servers \ {p} : server'[q].pc \notin {"restore", "up"}
      BY Zenon, <1>3, <1>4, <3>3 DEF Holds
    <3>5. Pair(x) \in tunnel' \/ PeerOf(x) \in server'[p].todo
      BY Zenon, <1>8, <2>1, <3>1, <3>2, <3>3, AllowKeeps DEF Good, IInv
    <3>6. ~Serving'
      BY Zenon, <3>3, <3>4 DEF Serving
    <3> QED
      BY Zenon, <1>1, <2>1, <3>3, <3>4, <3>5, <3>6 DEF Good, PeerOf, Pair
  <2>4. CASE Serve(p)
    BY Zenon, <1>1, <1>2, <1>3, <1>4, <1>8, <2>1, <2>4 DEF Serve, Restored, Good, Serving, Holds, PeerOf, Pair, IInv, ServersOK
  <2>5. CASE Stop(p)
    BY Zenon, <1>1, <1>2, <1>3, <1>8, <2>1, <2>5 DEF Stop, Good, Serving, Holds, PeerOf, Pair, Down, IInv, ServersOK
  <2> QED
    BY Zenon, <2>2, <2>3, <2>4, <2>5
<1>9. AgentsOK'
  BY Zenon, <1>1, <1>8, AgentsKept DEF IInv
<1>10. CallsOK'
  BY Zenon, <1>1, <1>8, CallsKept DEF IInv
<1> QED
  BY Zenon, <1>5, <1>6, <1>7, <1>9, <1>10 DEF IInv

\* A new host has no peer, and time touches nothing.
LEMMA OtherSteps ==
  ASSUME IInv, (\E h \in Hosts : CreateHost(h)) \/ Tick \/ UNCHANGED vars
  PROVE  IInv'
<1>1. UNCHANGED <<peers, setting, server, tunnel, calls>> /\ UNCHANGED agentVars
  BY Zenon DEF CreateHost, Tick, vars, dbVars, serverVars
<1>2. \A x : Good(x) => Good(x)'
  BY Zenon, <1>1 DEF Good, Serving, PeerOf, Pair
<1>3. TablesOK'
  <2>1. CASE \E h \in Hosts : CreateHost(h)
    <3>1. PICK h \in Hosts : CreateHost(h)
      BY Zenon, <2>1
    <3>2. now' = now /\ secrets' \in [Hosts -> [state : {"none", "unused", "used"}, expires : Nat]]
      BY <3>1, EnrollmentAssumption DEF CreateHost, IInv, TablesOK
    <3>3. \A g \in Hosts : secrets'[g].state = "used" <=> secrets[g].state = "used"
      BY Zenon, <3>1 DEF CreateHost, IInv, TablesOK
    <3> QED
      BY Zenon, <1>1, <3>2, <3>3 DEF IInv, TablesOK, SecretPairsPeer, AddressesApart, PeerOf
  <2>2. CASE Tick \/ UNCHANGED vars
    <3>1. UNCHANGED secrets /\ now' \in Nat
      BY <2>2 DEF Tick, vars, dbVars, IInv, TablesOK
    <3> QED
      BY Zenon, <1>1, <3>1 DEF IInv, TablesOK, SecretPairsPeer, AddressesApart, PeerOf
  <2> QED
    BY Zenon, <2>1, <2>2
<1>4. ServersOK' /\ DeviceOK'
  BY Zenon, <1>1 DEF IInv, ServersOK, DeviceOK, Holds, Pair
<1> QED
  BY Zenon, <1>1, <1>2, <1>3, <1>4, AgentsKept, CallsKept DEF IInv

\* The inductive invariant holds of every behaviour, for any number of hosts,
\* servers, commands and files and any subnet.
THEOREM Inductive == Spec => []IInv
<1>1. IInv /\ [Next]_vars => IInv'
  <2> SUFFICES ASSUME IInv, [Next]_vars
               PROVE  IInv'
    BY Zenon
  <2>1. CASE \E c \in calls : \/ \E again \in BOOLEAN : Enroll(c, again) \/ Refuse(c, again)
                              \/ \E p \in Servers : AddPeer(c, p)
                              \/ AddPeerFails(c) \/ Lost(c)
    BY Zenon, <2>1, HandlerSteps
  <2>2. CASE \E p \in Servers : ReadKey(p) \/ InsertKey(p) \/ RereadKey(p)
    BY Zenon, <2>2, KeySteps
  <2>3. CASE \E p \in Servers : Bind(p) \/ RestorePeer(p) \/ Serve(p) \/ Stop(p)
    BY Zenon, <2>3, DeviceSteps
  <2>4. CASE \/ \E c \in Commands : \/ \E h \in Hosts, f \in Paths : Start(c, h, f)
                                    \/ Answered(c) \/ WriteConfig(c) \/ Abandon(c)
             \/ \E f \in Paths : DeleteConfig(f) \/ Dial(f) \/ Hangup(f)
    BY Zenon, <2>4, AgentSteps
  <2>5. CASE (\E h \in Hosts : CreateHost(h)) \/ Tick \/ UNCHANGED vars
    BY Zenon, <2>5, OtherSteps
  <2> QED
    BY Zenon, <2>1, <2>2, <2>3, <2>4, <2>5 DEF Next
<1> QED
  BY <1>1, InitIInv, PTL DEF Spec

\* A secret enrolls its host once and is never burnt without a peer.
THEOREM SecretEnrollsOnce == Spec => []SecretPairsPeer
BY Inductive, PTL DEF IInv, TablesOK

\* Peers never share an address or a key, whatever the size of the subnet.
THEOREM PeersApart == Spec => []AddressesApart
BY Inductive, PTL DEF IInv, TablesOK

\* Any number of racing starters converge on the stored key.
THEOREM StartersAgree == Spec => []OneServerKey
<1>1. IInv => OneServerKey
  BY Zenon DEF IInv, OneServerKey, ServersOK, AgentsOK, Good, Written
<1> QED
  BY <1>1, Inductive, PTL

\* A serving server accepts the config of every agent that has one.
THEOREM EnrolledAccepted == Spec => []ConfigAccepted
<1>1. IInv => ConfigAccepted
  BY Zenon DEF IInv, ConfigAccepted, AgentsOK, Good, PeerOf, Pair
<1> QED
  BY <1>1, Inductive, PTL

\* A session's data is attributed to the host it was enrolled for.
THEOREM DataOfItsHost == Spec => []RightHost
<1>1. ASSUME IInv
      PROVE  RightHost
  <2> SUFFICES ASSUME NEW f \in Paths, session[f] # NoFile,
                      NEW t \in tunnel, t.key = session[f].key
               PROVE  HostsBehind(t.ip) = {session[f].host}
    BY Zenon DEF RightHost
  <2>1. PICK q \in peers : t = Pair(q)
    BY Zenon, <1>1 DEF IInv, DeviceOK
  <2>2. PeerOf(session[f]) \in peers
    BY Zenon, <1>1 DEF IInv, AgentsOK, Good
  <2>3. q = PeerOf(session[f])
    BY Zenon, <1>1, <2>1, <2>2 DEF IInv, TablesOK, AddressesApart, Pair, PeerOf
  <2>4. \A r \in peers : r.ip = t.ip <=> r = q
    BY Zenon, <1>1, <2>1 DEF IInv, TablesOK, AddressesApart, Pair
  <2>5. q.host = session[f].host
    BY Zenon, <2>3 DEF PeerOf
  <2> QED
    BY Zenon, <2>1, <2>4, <2>5 DEF HostsBehind
<1> QED
  BY <1>1, Inductive, PTL

\* No command destroys a config another one wrote.
THEOREM ConfigSurvives == Spec => ConfigKept
<1>1. IInv /\ [Next]_vars => [\A f \in Written : file'[f] \in {file[f], NoFile}]_file
  <2> SUFFICES ASSUME IInv, [Next]_vars, NEW f \in Written
               PROVE  file'[f] \in {file[f], NoFile}
    BY Zenon
  <2>1. DOMAIN file = Paths /\ f \in Paths /\ file[f] # NoFile
    BY Zenon DEF IInv, AgentsOK, Written
  <2>2. CASE \E c \in Commands : WriteConfig(c)
    BY Zenon, <2>1, <2>2 DEF WriteConfig, Writes
  <2>3. CASE \E g \in Paths : DeleteConfig(g)
    BY Zenon, <2>1, <2>3 DEF DeleteConfig
  <2>4. CASE UNCHANGED file
    BY Zenon, <2>4
  <2> QED
    BY <2>2, <2>3, <2>4 DEF Next, vars, agentVars, CreateHost, Enroll, Refuse, AddPeer, AddPeerFails, Lost, Start,
       Answered, Abandon, Dial, Hangup, ReadKey, InsertKey, RereadKey, Bind, RestorePeer, Serve, Stop, Tick
<1> QED
  BY <1>1, Inductive, PTL DEF Spec, ConfigKept


-----------------------------------------------------------------------------
(* The uptime prober. *)


Quiet == ~token /\ owing = 0 /\ ~stopping

SyncInv ==
  Quiet => /\ sched = "applying" => listed = stored
           /\ sched \in {"select", "purging"} /\ ~unlisted => workers = stored

\* Whoever has a goroutine is in the map, or was deleted; reconcile's list has
\* every stored target of the map.
WorkerInv ==
  /\ workers \subseteq used /\ listed \subseteq used
  /\ sched # "applying" => listed = {}
  /\ sched = "applying" => workers \cap stored \subseteq listed
  /\ \A t \in Targets : worker[t] # "none" => t \in workers \/ (t \in used \ stored /\ t \notin listed)

Probing == {t \in Targets : worker[t] = "probing"}

(* The types but for the slots. *)
PlainTypes ==
  /\ stored \subseteq used /\ used \subseteq Targets /\ results \subseteq stored
  /\ owing \in 0..MaxHandlers /\ token \in BOOLEAN
  /\ sched \in {"listing", "applying", "select", "purging", "waiting", "stopped"}
  /\ listed \subseteq Targets /\ workers \subseteq Targets /\ cancelled \subseteq Targets
  /\ worker \in [Targets -> {"none", "sleeping", "queued", "probing", "storing", "gone"}]
  /\ stopping \in BOOLEAN /\ unlisted \in BOOLEAN /\ failures \in 0..MaxFailures

SlotsOK == busy \in 0..Slots /\ busy = Cardinality(Probing)

UptimeInv == PlainTypes /\ SlotsOK /\ SyncInv /\ WorkerInv

-----------------------------------------------------------------------------
(* Nothing runs and no slot is taken at first. *)
LEMMA UptimeInitInv == UptimeInit => UptimeInv
<1> SUFFICES ASSUME UptimeInit PROVE UptimeInv
  BY Zenon
<1>1. Probing = {}
  BY Zenon DEF UptimeInit, Probing
<1>2. SlotsOK
  BY <1>1, FS_EmptySet, UptimeAssumption DEF UptimeInit, SlotsOK
<1>3. PlainTypes
  <2>1. 0 \in 0..MaxHandlers /\ 0 \in 0..MaxFailures
    BY UptimeAssumption
  <2> QED
    BY Zenon, <2>1 DEF UptimeInit, PlainTypes
<1>4. SyncInv /\ WorkerInv
  BY Zenon DEF UptimeInit, SyncInv, WorkerInv
<1> QED
  BY Zenon, <1>2, <1>3, <1>4 DEF UptimeInv

\* A step after which the same workers probe takes and returns no slot.
LEMMA SlotsStay ==
  ASSUME SlotsOK, busy' = busy, Probing' = Probing
  PROVE  SlotsOK'
BY Zenon DEF SlotsOK

(* A handler changes the table, and owes a nudge. *)
LEMMA HandlerKeeps ==
  ASSUME UptimeInv, NEW t \in Targets, Create(t) \/ Delete(t)
  PROVE  UptimeInv'
<1>1. PlainTypes /\ SlotsOK
  BY Zenon DEF UptimeInv
<1>2. owing' \in 0..MaxHandlers /\ owing' # 0
  BY <1>1, UptimeAssumption DEF Create, Delete, PlainTypes
<1>3. PlainTypes'
  BY Zenon, <1>1, <1>2 DEF Create, Delete, PlainTypes, schedVars, workerVars
<1>4. SlotsOK'
  <2>1. busy' = busy /\ Probing' = Probing
    BY Zenon DEF Create, Delete, workerVars, Probing
  <2> QED
    BY Zenon, <1>1, <2>1, SlotsStay
<1>5. SyncInv'
  BY Zenon, <1>2 DEF SyncInv, Quiet
<1>6. WorkerInv'
  BY Zenon, <1>1 DEF UptimeInv, WorkerInv, Create, Delete, schedVars, workerVars, PlainTypes
<1> QED
  BY Zenon, <1>3, <1>4, <1>5, <1>6 DEF UptimeInv

(* The nudge, which a pending one absorbs. *)
LEMMA SyncKeeps ==
  ASSUME UptimeInv, Sync
  PROVE  UptimeInv'
<1>1. PlainTypes /\ SlotsOK
  BY Zenon DEF UptimeInv
<1>2. owing' \in 0..MaxHandlers
  BY <1>1, UptimeAssumption DEF Sync, PlainTypes
<1>3. PlainTypes'
  BY Zenon, <1>1, <1>2 DEF Sync, PlainTypes, tableVars, schedVars, workerVars
<1>4. SlotsOK'
  <2>1. busy' = busy /\ Probing' = Probing
    BY Zenon DEF Sync, workerVars, Probing
  <2> QED
    BY Zenon, <1>1, <2>1, SlotsStay
<1>5. SyncInv'
  BY Zenon DEF SyncInv, Quiet, Sync
<1>6. WorkerInv'
  BY Zenon DEF UptimeInv, WorkerInv, Sync, tableVars, schedVars, workerVars
<1> QED
  BY Zenon, <1>3, <1>4, <1>5, <1>6 DEF UptimeInv

(* Run's steps but for the loops of reconcile. *)
LEMMA RunKeeps ==
  ASSUME UptimeInv,
         \/ TakeSync \/ Resync \/ List \/ ListFails \/ PurgeBegins \/ PurgeEnds
         \/ Shutdown \/ StopWorkers \/ RunReturns \/ \E t \in Targets : PurgeDeletes(t)
  PROVE  UptimeInv'
<1> USE DEF tableVars, schedVars, workerVars
<1>1. PlainTypes /\ SlotsOK
  BY Zenon DEF UptimeInv
<1>2. failures' \in 0..MaxFailures
  BY <1>1, UptimeAssumption DEF TakeSync, Resync, List, ListFails, PurgeBegins, PurgeEnds, Shutdown,
     StopWorkers, RunReturns, PurgeDeletes, PlainTypes
<1>3. PlainTypes'
  BY <1>1, <1>2 DEF TakeSync, Resync, List, ListFails, PurgeBegins, PurgeEnds, Shutdown,
     StopWorkers, RunReturns, PurgeDeletes, PlainTypes
<1>4. SlotsOK'
  <2>1. busy' = busy /\ worker' = worker
    BY Zenon DEF TakeSync, Resync, List, ListFails, PurgeBegins, PurgeEnds, Shutdown, StopWorkers, RunReturns, PurgeDeletes
  <2>2. Probing' = Probing
    BY Zenon, <2>1 DEF Probing
  <2> QED
    BY Zenon, <1>1, <2>1, <2>2, SlotsStay
<1>5. SyncInv'
  BY Zenon DEF UptimeInv, SyncInv, Quiet, TakeSync, Resync, List, ListFails, PurgeBegins, PurgeEnds, Shutdown,
     StopWorkers, RunReturns, PurgeDeletes
<1>6. WorkerInv'
  BY Zenon, <1>1 DEF UptimeInv, WorkerInv, PlainTypes, TakeSync, Resync, List, ListFails, PurgeBegins, PurgeEnds, Shutdown,
     StopWorkers, RunReturns, PurgeDeletes
<1> QED
  BY Zenon, <1>3, <1>4, <1>5, <1>6 DEF UptimeInv

(* The loops of reconcile: what they start was never started before. *)
LEMMA ReconcileKeeps ==
  ASSUME UptimeInv, Reconcile
  PROVE  UptimeInv'
<1> USE DEF tableVars, schedVars, workerVars
<1>1. PlainTypes /\ SlotsOK
  BY Zenon DEF UptimeInv
<1>2. \A t \in listed \ workers : worker[t] = "none"
  BY Zenon, <1>1 DEF UptimeInv, WorkerInv, PlainTypes
<1>3. PlainTypes'
  BY Zenon, <1>1 DEF Reconcile, PlainTypes
<1>4. SlotsOK'
  <2>1. Probing' = Probing
    BY Zenon, <1>1, <1>2 DEF Probing, Reconcile, PlainTypes
  <2> QED
    BY Zenon, <1>1, <2>1, SlotsStay DEF Reconcile
<1>5. SyncInv'
  BY Zenon DEF UptimeInv, SyncInv, Quiet, Reconcile
<1>6. WorkerInv'
  <2>1. \A t \in Targets : worker'[t] # "none" => t \in workers' \/ (t \in used' \ stored' /\ t \notin listed')
    BY Zenon, <1>1 DEF UptimeInv, WorkerInv, PlainTypes, Reconcile
  <2> QED
    BY Zenon, <2>1 DEF UptimeInv, WorkerInv, Reconcile
<1> QED
  BY Zenon, <1>3, <1>4, <1>5, <1>6 DEF UptimeInv

(* A worker moves: it exists, and what it does leaves the map and the list alone. *)
LEMMA WorkerMoves ==
  ASSUME UptimeInv, NEW t \in Targets, NEW at \in {"sleeping", "queued", "probing", "storing", "gone"},
         worker[t] # "none", worker' = [worker EXCEPT ![t] = at],
         UNCHANGED <<stored, used, owing, token, schedVars, stopping>>,
         results' \subseteq stored, failures' \in 0..MaxFailures, SlotsOK'
  PROVE  UptimeInv'
<1> USE DEF schedVars
<1>1. PlainTypes
  BY Zenon DEF UptimeInv
<1>2. PlainTypes'
  BY Zenon, <1>1 DEF PlainTypes
<1>3. SyncInv'
  BY Zenon DEF UptimeInv, SyncInv, Quiet
<1>4. WorkerInv'
  BY Zenon, <1>1 DEF UptimeInv, WorkerInv, PlainTypes
<1> QED
  BY Zenon, <1>2, <1>3, <1>4 DEF UptimeInv

(* A worker that takes no slot and gives none back. *)
LEMMA IdleWorkerKeeps ==
  ASSUME UptimeInv, NEW t \in Targets, Wakes(t) \/ Quits(t) \/ StoresResult(t) \/ StoreFails(t)
  PROVE  UptimeInv'
<1> USE DEF tableVars
<1>1. PlainTypes /\ SlotsOK
  BY Zenon DEF UptimeInv
<1>2. PICK at \in {"queued", "gone", "sleeping"} : worker' = [worker EXCEPT ![t] = at]
  BY Zenon DEF Wakes, Quits, StoresResult, StoreFails
<1>3. worker[t] \notin {"none", "probing"} /\ busy' = busy
  BY Zenon DEF Wakes, Quits, StoresResult, StoreFails
<1>4. Probing' = Probing
  BY Zenon, <1>1, <1>2, <1>3 DEF Probing, PlainTypes
<1>5. SlotsOK'
  BY Zenon, <1>1, <1>3, <1>4, SlotsStay
<1>6. results' \subseteq stored /\ failures' \in 0..MaxFailures
  BY <1>1, UptimeAssumption DEF Wakes, Quits, StoresResult, StoreFails, AcceptsResult, PlainTypes
<1>7. UNCHANGED <<stored, used, owing, token, schedVars, stopping>>
  BY Zenon DEF Wakes, Quits, StoresResult, StoreFails
<1> QED
  BY Zenon, <1>2, <1>3, <1>5, <1>6, <1>7, WorkerMoves

(* A worker takes a slot. *)
LEMMA ProbesKeeps ==
  ASSUME UptimeInv, NEW t \in Targets, Probes(t)
  PROVE  UptimeInv'
<1> USE DEF tableVars
<1>1. PlainTypes /\ SlotsOK
  BY Zenon DEF UptimeInv
<1>2. /\ worker[t] = "queued" /\ busy < Slots /\ worker' = [worker EXCEPT ![t] = "probing"] /\ busy' = busy + 1
      /\ UNCHANGED <<stored, used, owing, token, schedVars, stopping, results, failures>>
  BY Zenon DEF Probes, TakesSlot
<1>3. Probing' = Probing \cup {t} /\ t \notin Probing
  BY Zenon, <1>1, <1>2 DEF Probing, PlainTypes
<1>4. IsFiniteSet(Probing)
  <2>1. Probing \in SUBSET Targets
    BY Zenon DEF Probing
  <2> QED
    BY Zenon, <2>1, FS_Subset, UptimeAssumption
<1>5. Cardinality(Probing') = Cardinality(Probing) + 1
  BY Zenon, <1>3, <1>4, FS_AddElement
<1>6. SlotsOK'
  BY <1>1, <1>2, <1>5, UptimeAssumption DEF SlotsOK
<1>7. results' \subseteq stored /\ failures' \in 0..MaxFailures /\ worker[t] # "none"
  BY Zenon, <1>1, <1>2 DEF PlainTypes
<1> QED
  BY Zenon, <1>2, <1>6, <1>7, WorkerMoves

(* It gives the slot back, wanted or not. *)
LEMMA ProbeEndsKeeps ==
  ASSUME UptimeInv, NEW t \in Targets, ProbeEnds(t)
  PROVE  UptimeInv'
<1> USE DEF tableVars
<1>1. PlainTypes /\ SlotsOK
  BY Zenon DEF UptimeInv
<1>2. PICK at \in {"gone", "storing"} : worker' = [worker EXCEPT ![t] = at]
  BY Zenon DEF ProbeEnds
<1>3. /\ worker[t] = "probing" /\ busy' = busy - 1
      /\ UNCHANGED <<stored, used, owing, token, schedVars, stopping, results, failures>>
  BY Zenon DEF ProbeEnds, AfterProbe
<1>4. Probing' = Probing \ {t} /\ t \in Probing
  BY Zenon, <1>1, <1>2, <1>3 DEF Probing, PlainTypes
<1>5. IsFiniteSet(Probing)
  <2>1. Probing \in SUBSET Targets
    BY Zenon DEF Probing
  <2> QED
    BY Zenon, <2>1, FS_Subset, UptimeAssumption
<1>6. Cardinality(Probing') = Cardinality(Probing) - 1 /\ Cardinality(Probing') \in Nat
  <2>1. IsFiniteSet(Probing') /\ Cardinality(Probing') = Cardinality(Probing) - 1
    BY Zenon, <1>4, <1>5, FS_RemoveElement
  <2> QED
    BY Zenon, <2>1, FS_CardinalityType
<1>7. SlotsOK'
  BY <1>1, <1>3, <1>6, UptimeAssumption DEF SlotsOK
<1>8. results' \subseteq stored /\ failures' \in 0..MaxFailures /\ worker[t] # "none"
  BY Zenon, <1>1, <1>3 DEF PlainTypes
<1> QED
  BY Zenon, <1>2, <1>3, <1>7, <1>8, WorkerMoves

-----------------------------------------------------------------------------
(* Every step keeps the invariant. *)
LEMMA UptimeNextInv == UptimeInv /\ [UptimeNext]_uptimeVars => UptimeInv'
<1> SUFFICES ASSUME UptimeInv, [UptimeNext]_uptimeVars PROVE UptimeInv'
  BY Zenon
<1>1. CASE \E t \in Targets : Create(t) \/ Delete(t)
  BY Zenon, <1>1, HandlerKeeps
<1>2. CASE Sync
  BY Zenon, <1>2, SyncKeeps
<1>3. CASE \/ TakeSync \/ Resync \/ List \/ ListFails \/ PurgeBegins \/ PurgeEnds
           \/ Shutdown \/ StopWorkers \/ RunReturns \/ \E t \in Targets : PurgeDeletes(t)
  BY Zenon, <1>3, RunKeeps
<1>4. CASE Reconcile
  BY <1>4, ReconcileKeeps
<1>5. CASE \E t \in Targets : Wakes(t) \/ Quits(t) \/ StoresResult(t) \/ StoreFails(t)
  BY Zenon, <1>5, IdleWorkerKeeps
<1>6. CASE \E t \in Targets : Probes(t)
  BY Zenon, <1>6, ProbesKeeps
<1>7. CASE \E t \in Targets : ProbeEnds(t)
  BY <1>7, ProbeEndsKeeps
<1>8. CASE UNCHANGED uptimeVars
  BY Zenon, <1>8 DEF uptimeVars, tableVars, schedVars, workerVars, UptimeInv, PlainTypes, SlotsOK, Probing, SyncInv, Quiet, WorkerInv
<1> QED
  BY Zenon, <1>1, <1>2, <1>3, <1>4, <1>5, <1>6, <1>7, <1>8 DEF UptimeNext

(* In every reachable state the list reconcile works on is the table unless a
   nudge is pending, a target is started at most once, and the slots taken are
   the probes under way. *)
THEOREM UptimeInductive == UptimeSpec => []UptimeInv
<1> QED
  BY UptimeInitInv, UptimeNextInv, PTL DEF UptimeSpec

(* For any number of targets, handlers and slots, a nudge absorbed by another
   or sent while reconcile works on an older list is never lost: with none
   pending, Run's workers are the stored targets. *)
THEOREM NudgesAreKept == UptimeSpec => []NoLostSync
<1>1. UptimeInv => NoLostSync
  <2>1. UptimeInv => TypeOK
    BY Zenon DEF UptimeInv, PlainTypes, SlotsOK, Probing, TypeOK
  <2> QED
    BY Zenon, <2>1 DEF UptimeInv, SyncInv, Quiet, NoLostSync
<1> QED
  BY <1>1, UptimeInductive, PTL

(* reconcile starts a worker only for a target that never had one, though it
   may work on an old list: no target is probed by two goroutines, and a
   worker that ended stays ended. *)
StartedOnce ==
  [][\A t \in Targets : worker[t] # "none" =>
       worker'[t] # "none" /\ (worker[t] = "gone" => worker'[t] = "gone")]_uptimeVars

(* For any number of targets and any order of nudges, deletions and lists
   already out of date, a worker is started once and ends once. *)
THEOREM NeverStartedTwice == UptimeSpec => StartedOnce
<1>1. UptimeInv /\ [UptimeNext]_uptimeVars =>
        [\A t \in Targets : worker[t] # "none" =>
           worker'[t] # "none" /\ (worker[t] = "gone" => worker'[t] = "gone")]_uptimeVars
  <2> SUFFICES ASSUME UptimeInv, UptimeNext, NEW t \in Targets, worker[t] # "none"
               PROVE  worker'[t] # "none" /\ (worker[t] = "gone" => worker'[t] = "gone")
    BY Zenon
  <2>1. worker \in [Targets -> {"none", "sleeping", "queued", "probing", "storing", "gone"}]
    BY Zenon DEF UptimeInv, PlainTypes
  <2>2. CASE UNCHANGED worker
    BY Zenon, <2>2
  <2>3. CASE Reconcile
    BY Zenon, <2>1, <2>3 DEF Reconcile, UptimeInv, WorkerInv
  <2>4. ASSUME NEW u \in Targets, Wakes(u) \/ Quits(u) \/ Probes(u) \/ ProbeEnds(u) \/ StoresResult(u) \/ StoreFails(u)
        PROVE  worker'[t] # "none" /\ (worker[t] = "gone" => worker'[t] = "gone")
    BY Zenon, <2>1, <2>4 DEF Wakes, Quits, Probes, TakesSlot, ProbeEnds, StoresResult, StoreFails
  <2> QED
    BY Zenon, <2>2, <2>3, <2>4 DEF UptimeNext, Create, Delete, Sync, TakeSync, Resync, List, ListFails, PurgeBegins, PurgeEnds,
       Shutdown, StopWorkers, RunReturns, PurgeDeletes, workerVars
<1> QED
  BY <1>1, UptimeInductive, PTL DEF UptimeSpec, StartedOnce

=============================================================================
